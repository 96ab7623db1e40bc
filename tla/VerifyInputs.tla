----------------------------- MODULE VerifyInputs -----------------------------
(***************************************************************************)
(* `jci-audit verify` with a record in the checkout: what it compares with *)
(* the record release-prep wrote (release.rs, verify.rs, cli.rs), of a     *)
(* tree that was edited since, and may be edited while it runs.  How the   *)
(* advisory database is pinned is VerifyPin; a digest stands for what it   *)
(* is taken of.                                                            *)
(***************************************************************************)
EXTENDS Naturals

CONSTANTS Members,          \* the crates of the workspace
          Whole,            \* no --package: the whole workspace
          Keys,             \* third-party packages: name, version and source
          Sums,             \* their checksums
          Policies, Texts,  \* contents of deny.toml, and of an about.toml
          NoFile, Broken,   \* no file; a deny.toml that does not parse
          Tools, NoTool,    \* versions of cargo-deny; none installed
          Accepts,          \* [policy -> the packages it lets pass]
          NoRecord, Torn,   \* no record file; one that does not parse
          Trees, Start,     \* what edits make of the tree; what it is at first
          Schemas,          \* the schemas records were written in
          MaxRuns, MaxEdits, MaxReleases   \* bounds

Targets == Members \cup {Whole}

\* needs: what each crate reaches through its manifest.  Cargo.lock is up to date.
Tree == [needs : [Members -> SUBSET Keys], sums : [Keys -> Sums],
         own : [Members -> Nat], deny : Policies \cup {NoFile, Broken},
         about : [Members -> Texts \cup {NoFile}], tool : Tools \cup {NoTool}]

ASSUME InputsAssumption ==
  /\ Whole \notin Members /\ NoFile \notin Texts /\ NoTool \notin Tools
  /\ NoFile # Broken /\ {NoFile, Broken} \cap Policies = {}
  /\ Accepts \in [Policies -> SUBSET Keys]
  /\ NoRecord # Torn
  /\ Trees \subseteq Tree /\ Start \subseteq Trees
  /\ Schemas \subseteq 1..6
  /\ MaxRuns \in Nat /\ MaxEdits \in Nat /\ MaxReleases \in Nat

\* A record is known by the release that wrote it.
\* Only the last schema knows packages.
Releases == {r \in [tree : Trees, target : Targets, schema : Schemas] :
               r.target # Whole => r.schema = 6}

ASSUME RecordAssumption == \A r \in Releases : r # NoRecord /\ r # Torn

VARIABLES tree,
          records,              \* [target -> its record file under .security]
          pc, asked, strict,    \* the run, its --package and --deny-warnings
          release,              \* the record loaded
          lock, policy, reach, about,   \* what was read of the tree
          mismatches, unverified, verdict, warned, outcome,
          seen,                 \* history: the trees there were since it began
          runs, edits, releases

inputs == <<lock, policy, reach, about>>
findings == <<mismatches, unverified, verdict, warned>>
bounds == <<runs, edits, releases>>
vars == <<tree, records, pc, asked, strict, release, inputs, findings, outcome, seen, bounds>>

-----------------------------------------------------------------------------
(* Digests *)

Scope(t) == IF t = Whole THEN Members ELSE {t}
Needs(w, t) == UNION {w.needs[m] : m \in Scope(t)}
Third(w, keys) == {<<k, w.sums[k]>> : k \in keys}

\* lockfile_digest, of Cargo.lock: with the versions of the workspace's crates.
Lock(w) == [third |-> Third(w, Needs(w, Whole)), own |-> w.own]

\* dependency_set_digest and dependency_set_digest_for_package: the packages
\* with a source, of a lockfile, among those that were reached.
Dependencies(l, t, reached) ==
  IF t = Whole THEN l.third ELSE {e \in l.third : e[1] \in reached}

\* Mutant: the about.toml files of every crate, whichever is asked for.
AboutDigest_All(w, t) ==
  LET files == {m \in Members : w.about[m] # NoFile}
  IN IF files = {} THEN {} ELSE {{<<m, w.about[m]>> : m \in files}}

\* about_toml_digest_from_paths: paths and contents; none without any file.
AboutDigest(w, t) ==
  LET files == {m \in Scope(t) : w.about[m] # NoFile}
  IN IF files = {} THEN {} ELSE {{<<m, w.about[m]>> : m \in files}}

\* build_record, and what its earlier schemas had: a field is a set of at most
\* one digest.
Record(r) ==
  [raw |-> IF r.schema < 3 THEN {Lock(r.tree)} ELSE {},
   dependencies |-> IF r.schema < 3 THEN {}
                    ELSE {Dependencies(Lock(r.tree), r.target, Needs(r.tree, r.target))},
   policy |-> IF r.schema < 2 THEN {} ELSE {r.tree.deny},
   about |-> IF r.schema < 4 THEN {} ELSE AboutDigest(r.tree, r.target),
   package |-> IF r.schema < 6 THEN Whole ELSE r.target,
   tool |-> r.tree.tool]

\* Mutant: the package the record is of is not looked at.
Mismatches_AnyPackage(r, found) ==
  {x \in {"dependencies"} : ~(r.dependencies \subseteq {found.dependencies})}
    \cup {x \in {"lockfile"} : r.dependencies = {} /\ ~(r.raw \subseteq {found.raw})}
    \cup {x \in {"policy"} : ~(r.policy \subseteq {found.policy})}
    \cup {x \in {"about"} : ~(r.about \subseteq found.about)}

\* compare_inputs
Mismatches(r, found) ==
  {x \in {"package"} : r.package # asked}
    \cup {x \in {"dependencies"} : ~(r.dependencies \subseteq {found.dependencies})}
    \cup {x \in {"lockfile"} : r.dependencies = {} /\ ~(r.raw \subseteq {found.raw})}
    \cup {x \in {"policy"} : ~(r.policy \subseteq {found.policy})}
    \cup {x \in {"about"} : ~(r.about \subseteq found.about)}

Unverified(r, tool) ==
  {x \in {"dependencies"} : r.dependencies = {} /\ r.raw = {}}
    \cup {x \in {"policy"} : r.policy = {}}
    \cup {x \in {"about"} : r.about = {}}
    \cup {x \in {"tool"} : tool # NoTool /\ tool # r.tool}

-----------------------------------------------------------------------------

TypeOK ==
  /\ tree \in Trees /\ seen \subseteq Trees
  /\ records \in [Targets -> Releases \cup {NoRecord, Torn}]
  /\ pc \in {"idle", "load", "lock", "deny", "scope", "about", "compare", "gate", "report"}
  /\ asked \in Targets /\ strict \in BOOLEAN
  /\ pc = "scope" => asked # Whole
  /\ release \in Releases \cup {NoRecord}
  /\ lock \in {Lock(w) : w \in Trees}
  /\ policy \in Policies \cup {NoFile, Broken}
  /\ reach \subseteq Keys
  /\ about \in {AboutDigest(w, t) : w \in Trees, t \in Targets}
  /\ mismatches \subseteq {"package", "dependencies", "lockfile", "policy", "about"}
  /\ unverified \subseteq {"dependencies", "policy", "about", "tool"}
  /\ verdict \in {"none", "passed", "failed"} /\ warned \in BOOLEAN
  /\ outcome \in {"none", "ok", "failed", "error", "remote"}
  /\ runs \in 0..MaxRuns /\ edits \in 0..MaxEdits /\ releases \in 0..MaxReleases

Init ==
  /\ tree \in Start /\ seen = {tree}
  /\ records = [t \in Targets |-> NoRecord]
  /\ pc = "idle" /\ asked = Whole /\ strict = FALSE /\ release = NoRecord
  /\ lock = Lock(tree) /\ policy = tree.deny /\ reach = {}
  /\ about = AboutDigest(tree, Whole)
  /\ mismatches = {} /\ unverified = {} /\ verdict = "none" /\ warned = FALSE
  /\ outcome = "none" /\ runs = 0 /\ edits = 0 /\ releases = 0

Quit(result) == pc' = "idle" /\ outcome' = result
Going(from, to) == pc = from /\ pc' = to /\ UNCHANGED outcome
Same == UNCHANGED <<tree, records, asked, strict, seen, bounds>>

\* Without a deny.toml above, or a record beside it, the release is fetched.
Begin ==
  /\ pc = "idle" /\ runs < MaxRuns /\ runs' = runs + 1
  /\ asked' \in Targets /\ strict' \in BOOLEAN
  /\ IF tree.deny = NoFile \/ records[asked'] = NoRecord THEN Quit("remote")
     ELSE IF tree.tool = NoTool THEN Quit("error")
     ELSE pc' = "load" /\ outcome' = "none"
  /\ seen' = {tree} /\ release' = NoRecord
  /\ mismatches' = {} /\ unverified' = {} /\ verdict' = "none" /\ warned' = FALSE
  /\ UNCHANGED <<tree, records, inputs, edits, releases>>

Load ==
  /\ \/ /\ Going("load", "lock")
        /\ tree.deny # NoFile /\ records[asked] \notin {NoRecord, Torn}
        /\ release' = records[asked]
     \/ /\ pc = "load" /\ Quit("error") /\ UNCHANGED release
        /\ tree.deny = NoFile \/ records[asked] \in {NoRecord, Torn}
  /\ Same /\ UNCHANGED <<inputs, findings>>

ReadLock ==
  /\ Going("lock", "deny") /\ lock' = Lock(tree)
  /\ Same /\ UNCHANGED <<release, policy, reach, about, findings>>

ReadDeny ==
  /\ \/ /\ tree.deny # NoFile /\ policy' = tree.deny
        /\ Going("deny", IF asked = Whole THEN "about" ELSE "scope")
     \/ pc = "deny" /\ tree.deny = NoFile /\ Quit("error") /\ UNCHANGED policy
  /\ Same /\ UNCHANGED <<release, lock, reach, about, findings>>

\* cargo metadata of the crate's manifest; it may fail.
ResolveScope ==
  /\ \/ Going("scope", "about") /\ reach' = tree.needs[asked]
     \/ pc = "scope" /\ Quit("error") /\ UNCHANGED reach
  /\ Same /\ UNCHANGED <<release, lock, policy, about, findings>>

DigestAbout ==
  /\ \/ Going("about", "compare") /\ about' = AboutDigest(tree, asked)
     \/ pc = "about" /\ Quit("error") /\ UNCHANGED about
  /\ Same /\ UNCHANGED <<release, lock, policy, reach, findings>>

Compare ==
  /\ Going("compare", "gate")
  /\ LET found == [dependencies |-> Dependencies(lock, asked, reach), raw |-> lock,
                   policy |-> policy, about |-> about]
     IN mismatches' = Mismatches(Record(release), found)
  /\ unverified' = Unverified(Record(release), tree.tool)
  /\ Same /\ UNCHANGED <<release, inputs, verdict, warned>>

\* Mutant: the gate is run on the deny.toml of the moment.
Gate_Reread ==
  /\ \/ /\ Going("gate", "report") /\ tree.deny \in Policies
        /\ verdict' = IF tree.tool # NoTool /\ Needs(tree, Whole) \subseteq Accepts[tree.deny]
                       THEN "passed" ELSE "failed"
        /\ warned' \in BOOLEAN
     \/ pc = "gate" /\ Quit("error") /\ UNCHANGED <<verdict, warned>>
  /\ Same /\ UNCHANGED <<release, inputs, mismatches, unverified>>

\* cargo-deny on the whole workspace, with the policy that was read, at the
\* recorded commit; or the commit cannot be pinned.
Gate ==
  /\ \/ /\ Going("gate", "report") /\ policy \in Policies
        /\ verdict' = IF tree.tool # NoTool /\ Needs(tree, Whole) \subseteq Accepts[policy]
                       THEN "passed" ELSE "failed"
        /\ warned' \in BOOLEAN
     \/ pc = "gate" /\ Quit("error") /\ UNCHANGED <<verdict, warned>>
  /\ Same /\ UNCHANGED <<release, inputs, mismatches, unverified>>

\* Every record attests a pass, which the gate must have reproduced.
Reproduced == verdict = "passed"

IsOk == Reproduced /\ mismatches = {}

Report ==
  /\ pc = "report"
  /\ Quit(IF IsOk /\ ~(strict /\ warned) THEN "ok" ELSE "failed")
  /\ Same /\ UNCHANGED <<release, inputs, findings>>

\* release-prep, of this version or an earlier one of jci-audit, on a tree that
\* passes its gate.
Release ==
  /\ releases < MaxReleases /\ releases' = releases + 1
  /\ tree.deny \in Policies /\ tree.tool # NoTool
  /\ Needs(tree, Whole) \subseteq Accepts[tree.deny]
  /\ \E r \in Releases : r.tree = tree /\ records' = [records EXCEPT ![r.target] = r]
  /\ UNCHANGED <<tree, pc, asked, strict, release, inputs, findings, outcome, seen,
                 runs, edits>>

\* A record file is copied under another name, removed, or cut short.
Mislay ==
  /\ releases < MaxReleases /\ releases' = releases + 1
  /\ \E t \in Targets, s \in Targets :
       records' \in {[records EXCEPT ![t] = r] : r \in {records[s], NoRecord, Torn}}
  /\ UNCHANGED <<tree, pc, asked, strict, release, inputs, findings, outcome, seen,
                 runs, edits>>

Edit ==
  /\ edits < MaxEdits /\ edits' = edits + 1
  /\ tree' \in Trees \ {tree} /\ seen' = seen \cup {tree'}
  /\ UNCHANGED <<records, pc, asked, strict, release, inputs, findings, outcome,
                 runs, releases>>

Finished == pc = "idle" /\ runs = MaxRuns /\ UNCHANGED vars

Next == \/ Begin \/ Load \/ ReadLock \/ ReadDeny \/ ResolveScope \/ DigestAbout
        \/ Compare \/ Gate \/ Report \/ Release \/ Mislay \/ Edit \/ Finished

Spec == Init /\ [][Next]_vars

-----------------------------------------------------------------------------
(* Properties *)

Done == pc = "idle" /\ outcome \in {"ok", "failed"}

\* A release that verifies was made of what is checked out, in the scope asked
\* for, in all that is not reported as unverified: its record is not another
\* package's, under whichever name it lies, and each input, though read at a
\* moment of its own, was the released one at that moment.
VerifiedIsReleased ==
  Done /\ outcome = "ok" =>
    /\ release.target = asked
    /\ "dependencies" \notin unverified =>
         \E v, w \in seen : Dependencies(Lock(v), asked, Needs(w, asked))
                              = Third(release.tree, Needs(release.tree, asked))
    /\ "policy" \notin unverified => \E w \in seen : w.deny = release.tree.deny
    /\ "about" \notin unverified =>
         \E w \in seen : \A m \in Scope(asked) : w.about[m] = release.tree.about[m]

\* The gate that reproduces a verdict applies the released policy, whatever
\* becomes of deny.toml after it was compared (verify.rs:3-5).
PolicyReplayed ==
  Done /\ outcome = "ok" /\ "policy" \notin unverified =>
    \E w \in seen : Needs(w, Whole) \subseteq Accepts[release.tree.deny]

\* What a release says of the crates it is for is the same in this tree: other
\* crates, and the crates' own versions, do not count.
Alike(v, w, t) ==
  /\ v.deny = w.deny
  /\ \A m \in Scope(t) : /\ v.needs[m] = w.needs[m] /\ v.about[m] = w.about[m]
                         /\ \A k \in w.needs[m] : v.sums[k] = w.sums[k]

\* A version bump of the release itself, and a sibling crate's changes, are never
\* a mismatch for a record of schema 3 or later (release.rs:91-95, verify.rs:
\* 345-348); for an earlier one, only an identical Cargo.lock is none.
NoFalseMismatch ==
  /\ Done /\ release.target = asked
  /\ \A w \in seen : /\ Alike(w, release.tree, asked)
                     /\ release.schema < 3 => w.own = release.tree.own
  => mismatches = {}

=============================================================================
