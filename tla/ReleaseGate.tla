------------------------------ MODULE ReleaseGate ------------------------------
(***************************************************************************)
(* `jci-audit release-prep`: release_with of release.rs, the license check *)
(* it runs first and the exit code run_release of cli.rs gives it.  Each   *)
(* file read, each external tool and the record's write is a step of its   *)
(* own; the tools read the tree and the shared advisory database           *)
(* themselves, and cargo may rewrite Cargo.lock when it resolves it.       *)
(***************************************************************************)
EXTENDS Naturals

CONSTANTS Locks, Policies,
          Abouts,       \* contents of the members' about.toml files
          NoAbout,      \* no member has one
          Resolved,     \* [Locks -> Locks]: what cargo resolves a lock to
          Passes, InSync,
          Attributable, \* <<lock, about>> cargo-about finds licences for
          NoRecord, Torn,
          MaxCommit, MaxRuns, MaxEdits   \* bounds

Commits == 1..MaxCommit
Record == [deps : Locks, deny : Policies, about : Abouts, commit : Commits]

ASSUME GateAssumption ==
  /\ NoAbout \in Abouts
  /\ Resolved \in [Locks -> Locks]
  /\ Passes \subseteq Locks \X Policies \X Commits
  /\ InSync \subseteq Policies \X Locks \X Abouts
  /\ Policies \X Locks \X {NoAbout} \subseteq InSync  \* nothing to drift
  /\ Attributable \subseteq Locks \X Abouts
  /\ NoRecord \notin Record /\ Torn \notin Record
  /\ MaxCommit \in Nat \ {0} /\ MaxRuns \in Nat /\ MaxEdits \in Nat

VARIABLES lock, deny, about,  \* the checkout
          head,       \* HEAD of the advisory-database checkout
          origin,     \* its newest commit upstream
          record,     \* the record file
          pc,
          lockText, denyText, aboutText,  \* as the run read them
          verdict,    \* [lock, deny, commit, passed] of cargo-deny
          dbCommit,   \* HEAD as read after the gate
          vouched,    \* history: the verdict behind the record
          still,      \* history: has nobody disturbed the present run?
          sound,      \* history: had nobody the run that wrote the record?
          runs, edits

tree == <<lock, deny, about>>
run == <<lockText, denyText, aboutText, verdict, dbCommit>>
bounds == <<runs, edits>>
history == <<vouched, still, sound>>
vars == <<tree, head, origin, record, pc, run, history, bounds>>

Verdict == [lock : Locks, deny : Policies, commit : Commits, passed : BOOLEAN]
Stopped == {"idle", "done", "failed"}

TypeOK ==
  /\ lock \in Locks /\ deny \in Policies /\ about \in Abouts
  /\ head \in Commits /\ origin \in Commits
  /\ record \in Record \cup {NoRecord, Torn}
  /\ pc \in Stopped \cup {"locked", "scoped", "synced", "resolved", "digested",
                          "policy", "judged", "located", "audited", "writing",
                          "written"}
  /\ lockText \in Locks /\ denyText \in Policies /\ aboutText \in Abouts
  /\ verdict \in Verdict
  /\ vouched \in Verdict /\ still \in BOOLEAN /\ sound \in BOOLEAN
  /\ dbCommit \in Commits
  /\ runs \in 0..MaxRuns /\ edits \in 0..MaxEdits

Init ==
  /\ lock \in Locks /\ deny \in Policies /\ about \in Abouts
  /\ head = 1 /\ origin = 1
  /\ record = NoRecord
  /\ pc = "idle"
  /\ lockText = lock /\ denyText = deny /\ aboutText = about
  /\ verdict = [lock |-> lock, deny |-> deny, commit |-> 1, passed |-> FALSE]
  /\ vouched = verdict /\ still = TRUE /\ sound = TRUE
  /\ dbCommit = 1
  /\ runs = 0 /\ edits = 0

Step(from, to) == pc = from /\ pc' = to

\* Cargo.lock is read before anything has resolved it.
ReadLock ==
  /\ pc \in Stopped /\ pc' = "locked"
  /\ runs < MaxRuns /\ runs' = runs + 1
  /\ lockText' = lock /\ still' = TRUE
  /\ UNCHANGED <<tree, head, origin, record, denyText, aboutText, verdict,
                 dbCommit, vouched, sound, edits>>

\* --package: cargo metadata, which is not told --locked, resolves the graph.
ScopeDigest ==
  /\ Step("locked", "scoped")
  /\ lock' \in {lock, Resolved[lock]}
  /\ UNCHANGED <<deny, about, head, origin, record, run, history, bounds>>

\* Mutant: drift is reported and the run goes on.
CheckAbout_DriftReported ==
  /\ Step("scoped", "synced")
  /\ lock' = Resolved[lock]
  /\ UNCHANGED <<deny, about, head, origin, record, run, history, bounds>>

\* sync_about_toml_at in check mode: each member's graph, then its drift.
CheckAbout ==
  /\ pc = "scoped"
  /\ IF about = NoAbout
     THEN pc' = "resolved" /\ UNCHANGED lock
     ELSE /\ lock' = Resolved[lock]
          /\ pc' = IF <<deny, lock', about>> \in InSync THEN "synced" ELSE "failed"
  /\ UNCHANGED <<deny, about, head, origin, record, run, history, bounds>>

\* cargo about generate --locked, for every member with an about.toml.
ResolveLicenses ==
  /\ pc = "synced"
  /\ pc' = IF Resolved[lock] = lock /\ <<lock, about>> \in Attributable
           THEN "resolved" ELSE "failed"
  /\ UNCHANGED <<tree, head, origin, record, run, history, bounds>>

\* The about.toml files are read again for their digest.
DigestAbout ==
  /\ Step("resolved", "digested")
  /\ aboutText' = about
  /\ UNCHANGED <<tree, head, origin, record, lockText, denyText, verdict,
                 dbCommit, history, bounds>>

\* One reading of deny.toml gives the digest and the derived configuration.
ReadPolicy ==
  /\ Step("digested", "policy")
  /\ denyText' = deny
  /\ UNCHANGED <<tree, head, origin, record, lockText, aboutText, verdict,
                 dbCommit, history, bounds>>

\* Mutant: cargo-deny is pointed at the tree's deny.toml.
RunDeny_OwnConfig ==
  /\ Step("policy", "judged")
  /\ lock' = Resolved[lock]
  /\ head' = origin
  /\ verdict' = [lock |-> lock', deny |-> deny, commit |-> head',
                 passed |-> <<lock', deny, head'>> \in Passes]
  /\ UNCHANGED <<deny, about, origin, record, lockText, denyText, aboutText,
                 dbCommit, history, bounds>>

\* cargo deny check: refresh the database, or fail to, and judge the tree.
RunDeny ==
  /\ Step("policy", "judged")
  /\ lock' = Resolved[lock]
  /\ head' \in {head, origin}
  /\ verdict' = [lock |-> lock', deny |-> denyText, commit |-> head',
                 passed |-> /\ head' = origin
                            /\ <<lock', denyText, head'>> \in Passes]
  /\ UNCHANGED <<deny, about, origin, record, lockText, denyText, aboutText,
                 dbCommit, history, bounds>>

ReadCommit ==
  /\ Step("judged", "located")
  /\ dbCommit' = head
  /\ UNCHANGED <<tree, head, origin, record, lockText, denyText, aboutText,
                 verdict, history, bounds>>

\* Mutant: the commit is read after the currency check.
LiveAudit_ThenCommit ==
  /\ Step("located", "audited")
  /\ head' \in {head, origin}
  /\ dbCommit' = head'
  /\ UNCHANGED <<tree, origin, record, lockText, denyText, aboutText, verdict,
                 history, bounds>>

\* cargo audit may refresh the same database; what it finds blocks nothing.
LiveAudit ==
  /\ Step("located", "audited")
  /\ head' \in {head, origin}
  /\ UNCHANGED <<tree, origin, record, run, history, bounds>>

\* Mutant: the verdict is not looked at.
OpenRecord_Unchecked ==
  /\ Step("audited", "writing") /\ record' = Torn
  /\ UNCHANGED <<tree, head, origin, run, history, bounds>>

\* fs::write truncates the record before it fills it.
OpenRecord ==
  /\ pc = "audited"
  /\ IF verdict.passed THEN pc' = "writing" /\ record' = Torn
                       ELSE pc' = "failed" /\ UNCHANGED record
  /\ UNCHANGED <<tree, head, origin, run, history, bounds>>

WriteRecord ==
  /\ Step("writing", "written")
  /\ record' = [deps |-> lockText, deny |-> denyText, about |-> aboutText,
                commit |-> dbCommit]
  /\ vouched' = verdict /\ sound' = still
  /\ UNCHANGED <<tree, head, origin, run, still, bounds>>

\* --deny-warnings may still fail the command; the record stays.
Exit ==
  /\ pc = "written" /\ pc' \in {"done", "failed"}
  /\ UNCHANGED <<tree, head, origin, record, run, history, bounds>>

\* A tool that cannot start, a file that cannot be read, or a kill.
Abort ==
  /\ pc \notin Stopped /\ pc' = "failed"
  /\ UNCHANGED <<tree, head, origin, record, run, history, bounds>>

Release == \/ ReadLock \/ ScopeDigest \/ CheckAbout \/ ResolveLicenses
           \/ DigestAbout \/ ReadPolicy \/ RunDeny \/ ReadCommit \/ LiveAudit
           \/ OpenRecord \/ WriteRecord \/ Exit \/ Abort

\* Somebody edits the tree, or another scan moves the shared checkout.
Disturb ==
  /\ edits < MaxEdits /\ edits' = edits + 1
  /\ \/ lock' \in Locks /\ UNCHANGED <<deny, about, head>>
     \/ deny' \in Policies /\ UNCHANGED <<lock, about, head>>
     \/ about' \in Abouts /\ UNCHANGED <<lock, deny, head>>
     \/ head' \in 1..origin /\ UNCHANGED tree
  /\ still' = (pc \in Stopped)
  /\ UNCHANGED <<origin, record, pc, run, vouched, sound, runs>>

\* An advisory is published upstream, at any time.
Publish ==
  /\ origin < MaxCommit /\ origin' = origin + 1
  /\ UNCHANGED <<tree, head, record, pc, run, history, bounds>>

Next == Release \/ Disturb \/ Publish

Spec == Init /\ [][Next]_vars

-----------------------------------------------------------------------------
(* Properties *)

Vouching == record \notin {NoRecord, Torn}

\* The record attests a good release, and the deny.toml digest in it is that of
\* the very policy cargo-deny applied, whoever edits the tree meanwhile
\* (release.rs:333-334, 393-397).
PolicyIsGatePolicy ==
  Vouching => vouched.passed /\ record.deny = vouched.deny

\* Only a run whose gate passed touches the record, so a failing one leaves
\* that of an earlier run whole (release.rs:403, 494-500).
FailedGateKeepsRecord == [][record' # record => verdict.passed]_vars

\* The locked commit is the refreshed copy the gate judged, not one that the
\* run's own later refresh brought in (release.rs:502-507, 541).
CommitIsGateCommit == Vouching /\ sound => record.commit = vouched.commit

\* A run writes a record of the tree, at a commit at which the tree passes, or
\* none; one that others disturbed attests nothing, whatever it wrote.
Attested == IF Vouching /\ ~sound THEN Torn ELSE record
Promise == INSTANCE Attestation
  WITH record <- Attested, tree <- [lock |-> lock, deny |-> deny, about |-> about]
ImplementsAttestation == Promise!Spec
=============================================================================
