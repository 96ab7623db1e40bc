# jci-audit: specifications, model checks and proofs

`jci-audit` gates a Rust workspace with cargo-audit, cargo-deny and cargo-about.
`deny.toml` is the one source of policy; other files are derived from it, a release
is validated against a pinned advisory database, and the record of that validation is
signed and published. This directory models what the program does to files, to the
shared advisory-database checkout and to a GitHub release, checks it with TLC and proves
the main results with TLAPS.

Paths below are relative to `crates/jci-audit/src/`.

## 1. Inventory

| Component | State it keeps | Operations | Hard behaviour | What makes it correct |
|---|---|---|---|---|
| Atomic replacement (`fs_atomic.rs`) | the target, its staged copies, their permissions, what is on stable storage | `write_atomically` | concurrent writers, kills, failing calls, power loss, links | a reader finds one writer's whole contents; a synced success stays |
| Release gate (`release.rs`, `run_release` in `cli.rs`) | the release record; the tree and the advisory database as the tools see them | `release-prep` | external tools read the tree at different moments, cargo rewrites `Cargo.lock`, the database moves, the record is truncated and filled | a record attests the tree it was taken from, at the commit the gate judged |
| Local verification (`verify.rs`, `run_verify` in `cli.rs`) | HEAD of the shared advisory-db checkout; what was read of the record and of the tree | `verify` with a checkout: load, read and compare, then note, fetch, pin, gate, restore | inputs read one after the other, records of six schemas and of packages; shallow clones, fetches that fail and are forgiven, gates that cannot run, other users of the checkout | what verifies is what was released; the gate scans the recorded commit; the checkout is put back |
| Distribution (`publish_record.rs`, `remote.rs`, `run_verify_remote`) | key pair and signature of a run; the three assets and draft state of a GitHub release; what a reader has fetched | `publish-record`, remote `verify` | uploads one by one, repeated and killed runs, assets and manifests fetched one by one, a tag that moves, a server that never answers, fallback to another key | what is public is one matching triple; a private key does not outlive its use; a reader's answer is that record's verdict, with the key of the package asked for |
| License scope (`license_scope.rs`) | a worklist over the resolved graph | `reachable_shipped_ids` and its two callers | cycles, diamonds, edges of several kinds | exactly what ships is found |
| Derived files (`sync.rs`, `init.rs`) | `deny.toml`, `.cargo/audit.toml`, every `about.toml` | `sync`, `sync --check`, `init`, `init --force` | in-place writes file by file, two readings of `deny.toml`, hand-written parts to keep | success means agreement with `deny.toml`; nothing written by hand is lost |
| CI wiring (`wire_ci.rs`) | `jci-audit.toml` and the CircleCI files | `wire-ci`, `check-ci-wiring` | two directions (declared into CI, found in CI into toml), jobs that refer to each other by names a run changes, YAML patched as lines between comments, several files written one by one | a run applies every declared job, is in sync afterwards, converges when repeated, leaves other jobs alone, says what it takes out |
| Audit checks (`check.rs`) with exceptions in force (`exceptions.rs`) and diagnostics (`diagnostics.rs`) | none; the report it puts together | `check` with its `--deny-*` options | five tools and several readings of the tree, one after the other; one failing step hides others; skips matched by name only | what is wrong reaches the exit code, nothing else does, and the advice given is right |
| Pruning (`prune.rs`) | a working directory outside the repository | `prune`, `prune --check` | an audit that applies the ignores would see none stale | exactly the ignores that no longer fire are named |
| Preflight (`preflight.rs`) | none | probing for the tools a command needs | a tool that goes away later | a run without its tools does not start, or fails |
| Runtime (`runtime.rs`), command line (`cli.rs`, `main.rs`) | none | blocking on a future, arguments | a call that never returns | a search among manifests ends (one for the release's assets need not) |
| Orb, scripts, CI of the repository | | shell and YAML | | |

How they interact:

- `init` and `wire-ci` write through `fs_atomic`; `sync` and `release-prep` use
  `std::fs::write`, which truncates and then fills.
- `release-prep` runs the check mode of `sync` on the about.toml files before its gate,
  and calls `license_scope` for `--package`; the record it leaves is the file that
  `publish-record` signs and uploads, and the one `verify` reads.
- `release-prep`, `verify` and `check` share one advisory-database checkout with every
  other cargo-deny and cargo-audit on the machine, and nothing locks it.
- `license_scope` gives `sync` the licences an about.toml must accept, and the record
  the packages its digest covers.
- `check` runs `sync --check` as one of its steps; `check`, `release-prep` and `verify`
  say by the same code which exceptions are in force.
- `verify` reads the record in the checkout if there is one, and else the release's.

There are no threads inside a run. What is concurrent is processes: a second run, a
maintainer's editor, another scan, a pipeline's other jobs, GitHub's readers.

## 2. Modules

| Module | Models | State and actions |
|---|---|---|
| `AtomicFile` | what `write_atomically` promises | a register: replaced whole, rolled back by a power loss to a whole value |
| `AtomicWrite` | `fs_atomic.rs` | a directory entry, staged inodes, data and permissions, what is synced; one action per system call or group that fails as one, plus `Kill` and `PowerLoss` |
| `Attestation` | what a record promises | a tree and a record that appears only for the tree as it stands, or is torn |
| `ReleaseGate` | `release_with`, the check of about.toml before it, `run_release`'s exits | one action per file read, external tool and write, in the order of the code; `Disturb` and `Publish` are the world around it |
| `VerifyPin` | `verify_with` on the database checkout | one action per git command and the gate, per verifier; `Refresh` is another scan |
| `SealedRelease` | what publishing promises | one record becomes public and readers hear its verdict |
| `Distribution` | `publish_record_with`, `verify_remote_with` | a publisher's steps (key, sign, drop key, three uploads, un-draft, clean up) and a reader's (three fetches, check) |
| `LicenseScope` | `license_scope.rs` | the worklist loop, one pop at a time, then what the caller takes |
| `Derivation` | `sync_at`, `sync_about_toml_at`, `init_at` | one action per reading, comparison, truncation and fill; edits in between |
| `WireJobs` | the two directions of wiring, on one file | operators only: `WireOne` mirrors `wire_one_job`, `Discover` mirrors `discover_undeclared_jobs` |
| `WireCi` | `wire_ci_at` over `jci-audit.toml` and the files it names | a disk is the declarations, grouped by file, and the files; check, refuse, scaffold, compute, then a write per file, each of which may be the last; `Edit` between runs |
| `WireText` | the scanners and splices that carry out `WireJobs` on the lines of one file | a file as a sequence of lines (depth, key, value), what a run notes; a run, and a maintainer's layout in between |
| `CheckGate` | `check_with`, `check_failures`, `stale_notices`, `accepted_warnings`; `prune_with` | one action per tool run, file read and crate; `Edit` changes the tree, the advisories or the installed tools between any two |
| `VerifyInputs` | `verify_with` up to and after the gate, `compare_inputs`, `compute_checkout_digests`, the digests of `build_record` | one action per reading, then compare, gate and report; `Release`, `Mislay` and `Edit` are the world around it |
| `ManifestKey` | `run_verify_remote`, `AssetPubkeySource`, `ManifestPubkeySource`, `resolve_package_manifest` | one action per fetch, whose answer is a file, an error or nothing; `Move` moves the release tag |

`X` is specified in `X.tla`, instantiated for TLC in `MCX.tla` with one `.cfg` per
question, and proved about in `XProofs.tla`, with four exceptions. `ReleaseProofs` is about
`ReleaseGate`, `Distribution` and `AtomicWrite`, `DerivationProofs` also about
`LicenseScope`, and `VerifyPinProofs` about `ManifestKey`: each extends all of its subjects,
which is why those name their initial state, steps and variables apart (`FileSpec` with
`phase`, `AssetSpec` and `KeySpec` with `stage`, `ScopeSpec` with `phase`). The proofs about
`WireText` are in two modules, `WireTextLemmas` on texts and `WireTextProofs` on runs.
`AtomicWrite` implements `AtomicFile`,
`ReleaseGate` implements `Attestation`, and `Distribution` implements `SealedRelease`,
each by a refinement mapping at the end of the module. `WireCi` and `WireText` extend
`WireJobs`: the one puts its rules to work on several files, the other shows that patching
lines follows them. `VerifyPin` and `VerifyInputs` are the two halves of one command, which
share no state: the database checkout, and the tree.
Definitions whose comment begins with "Mutant:" are deliberate bugs, no part of any
specification: each breaks one property, which shows that the property depends on the
code being as it is.

What stands for what:

- A digest is the content it digests; a `Cargo.lock` is one of a set of model values.
- `Resolved` maps a lock to what cargo resolves it to; a lock it maps to itself is up to
  date with the manifests.
- `Passes` is the set of (lock, policy, commit) the gate accepts; `InSync` and
  `Attributable` say the same of the about.toml check and of cargo-about.
- In `AtomicWrite`, `synced` are inodes whose data survives a power loss and `onDisk` the
  inodes the directory entry may name after one.
- In `Distribution`, a signature is a pair of key and record; a key is the number of the
  run that generated it, and `Foreign` the one a manifest holds. `local` is the record
  file in the checkout.
- In `Derivation`, an about.toml is what is derived in it (`accepted`, `lists`) and what
  is not (`pinned`, `dev`). `Pieces` is what a cut write may leave: nothing, a text that
  does not parse, a text that parses and ends before its tables. A `deny.toml` or member
  that does not parse is a run that fails, `Abort` or `Unreadable`.
- In `WireCi`, the `[[ci.jobs]]` of each file are one list, in their order in
  `jci-audit.toml`: no rule relates jobs of different files. `Computed(d)` is the disk a run
  over disk `d` wants, `written` the disk as last edited, `goal` what the first run after
  that edit computed.
- In `WireJobs`, a workflow entry is a record and `requires.form` the shape its list is
  written in, since shapes other than inline and block lists are refused.
- In `WireText`, a line's `depth` is its indentation, a blank line has the key `""`, a comment
  `"#"` and one with a colon in it `"#:"`, of which `Remarks` are the words. `nested` is what
  stands below an entry's parameters (`filters:`, `matrix:`, `pre-steps:`) and `- step` a
  post-step that no declaration can ask for; no scanner reads either. `Said(text)` is what is left of a text without those, `Written(c, pins)` the
  lines in which a content would be written down. `content` is what the file is meant to say,
  followed by the operators of `WireJobs` alone: `SaysWhatIsMeant` compares the two after
  every step. `Words` are what values are made of; `Lines`, `Entry`, `Job` and `Content`, the
  types over them, bound no length.
- In `CheckGate`, a tree is all that the tools look at; a diagnostic is its code and its
  subject. `Wrong(w, options)` is what a run with these options should complain about in
  tree `w`, stated without the run. Of the informational advisories, cargo-audit warns of
  those in `Coded` in a line that begins `warning[code]:`, which is what `diagnostic_code`
  counts, and of the others in some other form. Notices stand for the lockfile they were rendered for.
- In `VerifyInputs`, a record is known by the release that wrote it (tree, scope, schema),
  and `Record` gives the fields that schema has.

## 3. Runs

| Run | What it checks | Bounds, and why they are enough |
|---|---|---|
| `atomic_write` | `NeverTorn`, `PublishedOwn`, `SettledStays`, `ModeKept`, `LinkKept`, and that the file is the register of `AtomicFile` | two writers, two names, two contents, one power loss: both writers can be anywhere in a write when the power goes, and the second can start over the first one's orphan or result |
| `release` | with interference, `PolicyIsGatePolicy` and `FailedGateKeepsRecord`; for a run nobody disturbed, `CommitIsGateCommit` and `ImplementsAttestation` | two runs, two disturbances, two locks, two policies, three about.toml states, two advisories: a second run meets the first one's record, and both readings of any file can differ |
| `verify` | `ScansRecorded`, `LeftAsFound` for verifications kept apart | two verifiers, three runs, three upstream commits of which one fails; complete and shallow clones: a run starts where a killed or refused one left the checkout |
| `verify_inputs` | `VerifiedIsReleased`, `PolicyReplayed`, `NoFalseMismatch` | two crates, two packages, twelve trees a workspace goes through, records of schemas 1, 3 and 6 for the workspace and each crate; one run, two edits, two records written, copied, removed or cut: what a record lacks, what a digest leaves out, and an edit between any two readings |
| `distribution` | `PublicTripleMatches`, `SignedKeyDiscarded`, `ImplementsSealed` | two publisher runs by two jobs, two readers, a passing and a truncated record, a fallback key: a second run overwrites any mixture a first one left |
| `manifest_key` | `KeyIsPackages`, `PackageIsFound`, `RunEnds` | two packages, two directories and a pattern, seven workspaces, five key assets; one run and two moves of the tag: a member may be missing, swapped, without a key, or listed after a pattern, the tag may move between any two fetches, and a server of manifests may never answer |
| `license_scope` | `WalkIsExact`, `TakenIsShipped`, `Terminates` | every graph of three packages with five sorts of edge, all policies, both callers: cycles, diamonds through the root and mixed kinds are among them |
| `derivation` | `AuditAgrees`, `AboutAgrees`, `HandKept`, `PolicyKept` | three runs, an edit, two members, two excepted crates: a cut, a repeated run, and an edit at any step |
| `check` | `NoSilentPass`, `NoFalseAlarm`, `AdviceHolds`, `PruneIsExact` | a check with any options or a prune, in two trees and all that two edits make of them: policies that ignore, skip and allow more, less or nothing, locks with none to three versions of a crate, files missing and broken, each tool missing; the second edit can undo the first between two steps |
| `wire` | `WiredIsInSync`, `RepeatConverges`, `NeverMixed`, `OthersKept`, `EveryJobApplied`, and `TypeOK` | two files, ten contents of the first and three of the second, 81 job lists of up to two jobs and one that makes no sense, three runs and an edit: a cut run, its repetition and an edit between them. `Clear` leaves 2364 of the 2430 initial disks; 209 573 states |
| `wire_text` | `SaysWhatIsMeant`, `LossIsNoted` | three contents of two workflows with every form of requires, bodies below parameters and other post-steps, five job lists that insert, adopt, rename, strip and append; two runs and two blank lines or comments without a colon anywhere: layout before, between and after runs; 52 738 states |
| `wire_text_lists` | `RequiredOnce`, which fails | one content, one declaration, one blank line or comment that may also stand inside a nested list |

The type invariants are proved for all constants (section 5); `wire` checks its own as
well, since with it every refusal that must stop a run is a matter of types. Deadlock is checked in `check`, `verify_inputs` and `manifest_key`, which say by
`Finished` where they stop; every other component stops when its bounded number of runs is
used up, or, in `license_scope`, when it returns.

`wire_text_lists` shows a disagreement between the code and what its comments say:
`classify_requires_block` ends a block-form `requires:` at the first line that is no item,
so when a blank line or a comment stands between two items only those before it are read.
`append_requires` then adds a job that is already required further down, although "a no-op
if `new_req` is already present" (`wire_ci.rs:1358`) and non-contiguous items are to be
`Unrecognized` (`wire_ci.rs:1241`).

In `wire_text`, and in all that is proved about `WireText`, no blank line or comment stands
inside a nested list (`InLists = FALSE`) and no comment has a colon (`Remarks = {}`); entries
may have bodies and other post-steps, of whose loss `LossIsNoted` says nothing. A comment
with a colon at another depth than the parameters' is one like any other.

Other disagreements and surprises met on the way, which have no run of their own:

- `release-prep` reads `Cargo.lock` (`release.rs:373`) before cargo-deny and cargo metadata,
  which are not told `--locked`, may resolve it anew: with a lock that is out of date, the
  record digests the old set while the gate judged the new one, where `release.rs:106` says
  "the third-party dependency set the gate validated". `ImplementsAttestation` speaks of
  locks that cargo leaves as they are. `sync` runs the same `cargo metadata`
  (`license_scope.rs:154`), so it may rewrite the lock as well.
- `diagnostic_code` counts only lines that begin `warning[code]:` or `error[code]:`, which is
  how cargo-deny writes them (`diagnostics.rs:177`). A warning that cargo-audit gives in
  another form counts for nothing, where `cli.rs:36` says of `--deny-warnings` "Fail if the
  tools report any warning". An informational advisory that deny.toml ignores and audit.toml
  does not is enough. `NoSilentPass` counts the warnings of cargo-audit that bear a code.
- `entry_current_params` takes every line at the depth of the parameters that has a colon for
  one (`wire_ci.rs:951-972`), so a comment like `# see: #123` is captured into
  `jci-audit.toml` and written back as a parameter, where `wire_ci.rs:1945` speaks of "each
  one's current, real content".
- A rewrite replaces all the lines of an entry, and its notes speak of the six parts that a
  scan reads (`wire_ci.rs:1643-1690`). A body below a parameter (`filters:`, `matrix:`,
  `pre-steps:`) and a post-step of another kind go without a note of them, where
  `wire_ci.rs:1608-1610` says that what is not declared "is dropped, with a note".
- The client of a release's assets has no time limit (`remote.rs:316`, `404`): a server that
  accepts the connection and never answers hangs the run, which is what the comment at
  `remote.rs:426` says the limit on the manifests is there against. `RunEnds` is about the
  search among the manifests, which that limit ends.
- When the release's own key cannot be fetched, the manifest's is tried (`remote.rs:106`). If
  that is a key of another origin, the signature does not verify, and a sound release is
  reported as one that does not match for what was a failure to fetch. `ImplementsSealed`
  counts that answer as one that could not be had.
- `sync` reads deny.toml for audit.toml and again for the about.toml files (`sync.rs:343`,
  `487`): an edit in between leaves them at two policies until the next run. `AuditAgrees` and
  `AboutAgrees` excuse a run under which deny.toml was edited.
- `publish-record` refuses every file not named `release-{version}.json`
  (`publish_record.rs:104`), and release-prep names a package's record
  `{package}-release-{version}.json`, although `cli.rs:1101` and
  `docs/advanced-configuration.md:105` say that `--record-path` is how a per-crate record
  gets there.
- Of two declared jobs of one workflow with the same `orb_job`, the second takes over the
  entry just inserted for the first (`wire_ci.rs:1759`). `Clear` and the lists of `wire_text`
  leave such twins out, unless each is found by its name. The notes may then miss whom they
  speak of: an entry of a third orb job that has the name of the first is rewritten by it,
  then, as an entry of their orb job, by the second, and what this takes out is noted under
  a name the entry never had. `LossNoted` is therefore about declarations that are `Sole`;
  `LossNamed` says of all of them that nothing a scan reads is lost without a note.
- A discovered job is captured without context, workspace and post-steps
  (`wire_ci.rs:2027`), and the same run takes them out of the file, where
  `wire_ci.rs:1945` speaks of "each one's current, real content". The run says so in its
  notes: `LossIsNoted`.
- `sync` truncates an about.toml before it fills it (`sync.rs:330`): after a kill in between
  the next run completes what is left and reports success without the hand-written part.
  `HandKept` makes that exception.
- When the licence policy cannot be checked as a whole, `check` reports the steps after it
  as failed without running them (`check.rs:292`), where `check.rs:145` says "Every requested
  step always runs". The run fails either way: `NoSilentPass` and `NoFalseAlarm`.
- A `required_by` that names an entry by the name a declared job of the same run takes
  from it is appended in place and then lost; the next run refuses. `Clear` leaves it out.
- `Discover` takes an entry for declared as soon as some declaration has its orb job, even
  one that stands for another entry of that orb job; such an entry is in neither set.
- A job without `job_name` whose entry keeps its own name is added to the requires of its
  `required_by` targets under its orb-job string, which no entry then has.
- With `Exclusive = FALSE`, `VerifyPin!ScansRecorded` fails: another process moves the
  shared checkout between a pin and its gate. Nothing in the code prevents it; the
  property is about runs kept apart.
- Two skips of one crate are not told apart: when one of them is stale, both are called
  stale. `AdviceHolds` speaks of a skip that is the only stale one of its crate.

## 4. Assumptions

- `AtomicWrite`: metadata reach the disk in the order they were changed, as with a journaling
  file system: the permissions are set after the staged file's only sync
  (`fs_atomic.rs:88`, `123`), and a rename that survives a power loss has them with it
  (`PowerLoss`). The three look-ups of `resolve_write_target` are one step (`Resolve`), and
  nobody replaces the link while a write runs.
- `VerifyPin`: `Exclusive`, verifications and other scans do not overlap.
- `Distribution`: `Exclusive`, the jobs of a release pipeline run one after another, and
  `Immutable`, a published release takes no new assets (GitHub's immutable releases, of
  which `docs/assurance-case.md` speaks at T9; the code uploads to a draft and publishes
  after). `Orderly` in
  `ReleaseProofs` is both. Readers are never held back: they run at any time.
- `ReleaseGate`: `CommitIsGateCommit` and `ImplementsAttestation` speak of a record whose
  run nobody disturbed (`sound`), the latter also of an up-to-date `Cargo.lock`; the other
  properties hold whoever interferes. `Resolved` may be any function in general.
- `WireCi`: nobody edits the files while a run computes and writes; edits come between
  runs. An edit under a run is listed as a hazard without a property.
- `WireCi`: what a developer writes is `Clear`. If a run does not refuse it, then in each
  file no two jobs may stand for one entry, now or once the other has been applied, and no
  `required_by` names an entry by a name that a job is about to replace (`Apart`). Nothing
  in the code enforces this. Outside it the disagreements of section 3 about twins and lost
  names are what happens, and TLC finds `EveryJobApplied` and `WiredIsInSync`
  violated. It is asked of what is edited only; that the runs themselves keep it is proved (`WiringIs`, `Rerun`).
- `WireText`: two edits of the layout at most, each a blank line or a comment as deep as the
  line after it, with a colon only if `Remarks` has words for it. The order of parameters,
  and comments at the end of a line, are left out.
- `CheckGate`: `sync --check` is one step of `check` (its own readings are in `Derivation`);
  a missing deny.toml is one that cannot be read; the license policy check reads deny.toml and
  the about.toml files in one step; what cargo-audit warns of without a code (outside `Coded`)
  is counted by nobody; cargo-audit finds no audit.toml in the
  user's home directory, where `prune` would apply it too.
- `VerifyInputs`: Cargo.lock is up to date; digests are injective; the about.toml files are
  digested in one step; the advisory database is `VerifyPin`'s.
- `ManifestKey`: the client of the release's assets has no time limit, so nothing says that it
  answers: no property asks for the end of a run that waits for it.
- `Derivation`: an about.toml is read, its crate's graph resolved and the file truncated in one
  step (`OpenAbout`); nobody edits an about.toml under a run, only deny.toml.
- `VerifyPin`: a `git fetch` that cannot be spawned ends the run as a kill does.
- Fairness is used twice. `WF_scopeVars(ScopeNext)` in `LicenseScope`: it is a sequential loop with
  nothing to wait for, and it runs until it returns. `WF_keyVars(Search)` in `ManifestKey`: a
  run that has its assets takes its next step, since every fetch of a manifest ends within
  `MANIFEST_FETCH_TIMEOUT` (`remote.rs:429`, `487`); `FetchAssets` and `FetchAssetKey` are not
  in it. Everything else is
  safety: a run may be killed at any step, so nothing in those components must happen.

## 5. Proofs

Each theorem holds for every value of the constants that its module's `ASSUME` allows:
any number of writers, publishers, readers, packages, members and runs.

| Module | Result | Argument |
|---|---|---|
| `ReleaseProofs`, of `AtomicWrite` | `FileTypeCorrect`; `Safe` and, one by one, `OwnIsPublished`, `SettledForGood`, `PermissionsKept`; `LinkIsKept`; `FileRefinement` of `AtomicFile` | `FileInv` adds to the type what a writer's step implies of its staging name: `Owned`, no two unfinished writers share one and the target's entry does not name it; `StagedOwn`, it is synced and holds the writer's own contents before the rename; `Stable`, `Replaced`, `Permitted`, the same of what the entry may name. `Followed`, for links, is inductive by itself |
| `ReleaseProofs`, of `ReleaseGate` | `TypeCorrect`; `PolicyRecorded`; `RecordKept`; `CommitRecorded`; `AttestationKept`, for up-to-date locks (`Fresh`) | three invariants. `PolicyInv` ties the verdict to the text of deny.toml whoever interferes; `CommitInv` ties HEAD, then the commit read, to the verdict; `QuietInv` ties every text read to the tree. The last two hold only while `still`, because a disturbance may undo them, and are needed because the record is composed of readings taken at different steps |
| `VerifyPinProofs` | `TypeCorrect`; `RecordedIsScanned` and `Restored`, under `Exclusive` | `Alone` (one active run) and `Pinned` (what HEAD is at each of its steps, and where it will be put back) |
| `VerifyPinProofs`, of `ManifestKey` | `KeyTypeCorrect`; `KeyIsThePackages`; `PackageWasFound` | `KeyInv` adds to the types `Answers`, a key was taken from the asset or from a manifest of the package in a workspace the tag has pointed to (`Sourced`), and `OnCourse`, while the tag stays the search is at some place of the list of members before which nothing is the package (`Passed`). When it ends there, what comes later is not reachable: `EndedRightly` |
| `ReleaseProofs`, of `Distribution` | `AssetTypeCorrect`; `KeysDiscarded`, with any interleaving; `TripleMatches` and `Refinement` of `SealedRelease`, under `Orderly` | `KInv`: a run's key is its own and fresh, and off the disk before anything signed with it is sent. `PInv`: at each step a lone run has made one more asset its own, so a success leaves a triple, and only successes are un-drafted. `ReadSoFar`: what a reader holds is what is public, since that no longer changes |
| `DerivationProofs` | `TypeCorrect`; `AuditInAgreement`; `AboutInAgreement`; `HandIsKept`; `PolicyIsKept` | `Inv`: at each step of a run, the files it has gone through agree with the policy as it was last read, and that is deny.toml unless it was edited since (`moved`); what it is about to write keeps the hand-written part (`TextKept`) |
| `DerivationProofs`, of `LicenseScope` | `ScopeTypeCorrect`; `Exact`; `Direct`; `Taking` | `Frontier`: what a seen package ships is seen or on the stack, and everything on it lies in every closed set that holds the root. When the walk is over, what is seen is what ships (`WalkDone`), and what a caller takes of it is restated about the graph |
| `CheckGateProofs` | `TypeCorrect`; `PassIsDeserved`; `FailureHasReason`; `AdviceIsRight`; `PruneIsRight` | `Inv` ties each part of the report to some tree of the run: what was said is what cargo-deny finds in a tree that was there (or nothing, of one it cannot read), a failed step has its reason in one, and what was compared was. `WrongUnusable`, `WrongOffences`, `WrongNotices`, `WrongWarnings` then turn "passed in every step" into "nothing was wrong throughout" |
| `VerifyInputsProofs` | `TypeCorrect`; `Verified`; `Replayed`; `NoneFalse` | `Inv`: each thing read is what one tree of the run had; `ScopedDigest`, `AboutInjective` and `AboutScoped` say what equal digests mean in a scope |
| `WireCiProofs` | `WiringIs`, of `WireJobs` alone; `TypeCorrect`; `WiringIsInSync`; `Convergence`; `NoMixture`; `OthersAreKept`; `AllAreApplied` | below |
| `WireTextLemmas`, `WireTextProofs` | `EntryRead` and `PatchFits`, of texts alone; `TextSays`; `LossNoted`, for declarations that are `Sole`; `LossNamed`; all with `InLists = FALSE` and `Remarks = {}` | below |

`WireCiProofs` has two halves. The first is about the functions. `WireOne` changes one
workflow's list of entries: the job's entry is replaced or added at the end, and its name is
appended to targets (`Patched`, `Step`). For jobs that are `Apart`, what one step has
applied the next ones keep (`Applied`), and they stay apart. That a whole list does what its
steps do is an induction over the list, without the induction theorems: a counterexample
among the numbers up to the list's length has a least one (`LeastOf`, from
`NatLessThanWellFounded`), which gives `Counting` and with it `Iteration`, that the recursive
functions of `WireJobs` are the history of their loop. `WiringIs` sums up: the result applies
every job, is a fixed point, keeps the others, and leaves nothing new to discover. Files are
wired apart, so their number does not matter.

The second half is about runs. `Rerun` says that a run over a disk which an earlier one left
half written (`CutShort`) refuses nothing and computes what that one did: a file already
written is a fixed point, the declarations already written have nothing more to discover in
a file not yet written. The invariant needs the history for it: `Untouched`, the disk is as
edited until a run computes; `OnTheWay`, from then on the goal is what the edited disk
computes to, and the disk is that one cut short; `Writes`, what this run has written is as
the goal has it. `TypeOK` is not inductive without them: that no file ever holds a refusal
is proved from `Rerun`, not from types.

`WireTextLemmas` and `WireTextProofs` show that patching lines follows the rules of
`WireJobs`, for files of any length. The invariant `TextInv` is that the file `Fits` what it
is meant to say: its lines that say something are those of the content as it would be
written down; it is `Tidy`, no comment is shallower than what follows it; and it is `Nested`:
neither a comment nor a blank line stands in a nested list, and no comment has a colon. The
last two are why a comment may stand anywhere else: a scan that ends at the first line of some depth ends in front of the same
line that says something as if the comment were not there.

- What a scan finds is first said of what the text says. `Rank` is the place of a line among
  those that say something; it turns the least line of some depth and key into the place
  where `Written` puts it, and back. From the scans of one entry follows `EntryRead`, that
  what `EntryText` writes is read as it was, but for bodies and other post-steps (`Seen`); from those of a file, `RangesAre`, where each
  entry of a workflow begins and ends, `PinsIs` and `ReadAlike`.
- A splice is then compared with the change of content it stands for: `SetPinFits`,
  `InsertFits`, `RewriteFits`, `LayoutFits`, `AppendRequiresFits`. The last needs `Stage`: from
  the last target to the first, the ranges found before any change still hold for the
  entries not yet gone through.
- `PatchOneFits` puts them together as one job, refusals included, and `PatchFits` as a run;
  `UndeclaredIs` says that discovery finds in the text what it would find in the content.

`NotesInv` adds to `TextInv` what became of every entry of the file as it was before the
run (`Trace`): whatever is gone of the six parts that a scan reads is noted, whoever it is known by now knew it at
first (`Known`), and if it has a job's name it has it by that job or had it before
(`Titled`). Only the first is needed for `LossNamed`; for `LossNoted`, that the note is of a
job that the entry was known by, all three are needed together.

Only model-checked: `Terminates` and `RunEnds`, since liveness under fairness is out of the
prover's reach. What the recursive functions compute is proved as far as a loop invariant
over a list reaches, which is enough for `WireCiProofs` and `WireTextProofs`. The order in
which `SetToSeq` lists what `Discover` finds does not matter to any theorem.

## 6. Not modelled

- Parsing and printing of TOML, YAML, JSON and cargo metadata, the text of diagnostics and
  notes, argument parsing: no property is about them. Comments and formatting of derived
  files are left out, so "agrees" means as parsed; those of CircleCI files are in
  `WireText`.
- What cargo-audit, cargo-deny, cargo-about, git and GitHub do is modelled from how the code
  uses them.
- `runtime` has no module: each call is awaited at once, so calls are sequential, as in
  `Distribution` and `ManifestKey`.
- The orb, the shell scripts and the repository's own CI: configuration around the program,
  whose jobs call the commands modelled here.

## 7. Plan

Done, in this order, the most important behaviour first: `ReleaseGate` with `Attestation`;
`VerifyPin`; `Distribution` with `SealedRelease`; `AtomicWrite` with `AtomicFile`;
`Derivation`; `LicenseScope`; `WireJobs` and `WireCi`; `CheckGate` with the exceptions, the
diagnostics and prune; `VerifyInputs`; `ManifestKey`; `WireText`.

What is left:

1. An edit of a CircleCI file under a run of `wire-ci`, once the code says what it promises
   of one.
2. `VerifyInputs` and `VerifyPin` composed with `ReleaseGate`, so that a record is the one a
   modelled run left instead of one of a set.
