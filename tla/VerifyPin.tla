------------------------------- MODULE VerifyPin -------------------------------
(***************************************************************************)
(* `jci-audit verify` on the shared advisory database (verify.rs): each    *)
(* run notes the checkout's HEAD, fetches, pins the recorded commit, runs  *)
(* the gate offline and puts the checkout back.  Nothing locks the         *)
(* checkout; Exclusive says whether runs are kept apart from outside.      *)
(***************************************************************************)
EXTENDS Naturals

CONSTANTS Verifiers,
          Exclusive,   \* does one run, or other scan, wait for the other?
          Passing,     \* the commits at which the released tree passes
          MaxCommit, MaxRuns   \* bounds

Commits == 1..MaxCommit

ASSUME PinAssumption == /\ Exclusive \in BOOLEAN
                        /\ Passing \subseteq Commits
                        /\ MaxCommit \in Nat \ {0} /\ MaxRuns \in Nat

VARIABLES head,     \* the commit the checkout is at
          known,    \* the commits the clone holds
          shallow,  \* is the clone a shallow one?
          origin,   \* the newest commit upstream
          pc, want,            \* each run's step and recorded commit
          previous,            \* the HEAD it noted, 0 if it could not
          unshallow,           \* did it find the clone shallow?
          saw, outcome,        \* the snapshot its gate scanned, its result
          resting,  \* history: HEAD as the last scan or completed run left it
          excused,  \* history: was a run killed, or a restore refused?
          runs

db == <<head, known, shallow>>
locals == <<want, previous, unshallow, saw, outcome>>
vars == <<db, origin, pc, locals, resting, excused, runs>>

Stopped == {"idle", "done"}
Idle == \A p \in Verifiers : pc[p] \in Stopped

TypeOK ==
  /\ head \in Commits /\ known \subseteq 1..origin /\ head \in known
  /\ shallow \in BOOLEAN /\ origin \in Commits /\ resting \in known
  /\ pc \in [Verifiers -> Stopped \cup {"noting", "noted", "probed", "fetched",
                                        "pinned", "scanned"}]
  /\ want \in [Verifiers -> Commits]
  /\ previous \in [Verifiers -> Commits \cup {0}]
  /\ \A p \in Verifiers : previous[p] \in known \cup {0}
  /\ unshallow \in [Verifiers -> BOOLEAN]
  /\ saw \in [Verifiers -> Commits \cup {0}]
  /\ outcome \in [Verifiers -> {"none", "ok", "failed", "error"}]
  /\ excused \in BOOLEAN /\ runs \in 0..MaxRuns

Init ==
  /\ head = 1 /\ known = {1} /\ shallow \in BOOLEAN /\ origin = 1
  /\ pc = [p \in Verifiers |-> "idle"]
  /\ want = [p \in Verifiers |-> 1]
  /\ previous = [p \in Verifiers |-> 0]
  /\ unshallow = [p \in Verifiers |-> FALSE]
  /\ saw = [p \in Verifiers |-> 0]
  /\ outcome = [p \in Verifiers |-> "none"]
  /\ resting = 1 /\ excused = FALSE /\ runs = 0

Step(p, from, to) == pc[p] = from /\ pc' = [pc EXCEPT ![p] = to]

\* The record is loaded and its commit is what will be pinned.
Start(p) ==
  /\ pc[p] \in Stopped /\ (Exclusive => Idle)
  /\ runs < MaxRuns /\ runs' = runs + 1
  /\ pc' = [pc EXCEPT ![p] = "noting"]
  /\ \E c \in 1..origin : want' = [want EXCEPT ![p] = c]
  /\ saw' = [saw EXCEPT ![p] = 0]
  /\ outcome' = [outcome EXCEPT ![p] = "none"]
  /\ UNCHANGED <<db, origin, previous, unshallow, resting, excused>>

\* rev-parse HEAD; a failure leaves nothing to restore.
NoteHead(p) ==
  /\ Step(p, "noting", "noted")
  /\ \/ previous' = [previous EXCEPT ![p] = head] /\ UNCHANGED excused
     \/ previous' = [previous EXCEPT ![p] = 0] /\ excused' = TRUE
  /\ UNCHANGED <<db, origin, want, unshallow, saw, outcome, resting, runs>>

ProbeShallow(p) ==
  /\ Step(p, "noted", "probed")
  /\ \E probe \in {shallow, FALSE} : unshallow' = [unshallow EXCEPT ![p] = probe]
  /\ UNCHANGED <<db, origin, want, previous, saw, outcome, resting, excused, runs>>

\* git fetch; its failure is forgiven.  --unshallow fails on a complete clone.  A
\* git that cannot be started at all ends the run here, as Kill does.
Fetch(p) ==
  /\ Step(p, "probed", "fetched")
  /\ \/ UNCHANGED <<known, shallow>>
     \/ unshallow[p] /\ shallow /\ known' = 1..origin /\ shallow' = FALSE
     \/ /\ ~unshallow[p] /\ UNCHANGED shallow
        /\ known' = known \cup (IF shallow THEN {origin} ELSE 1..origin)
  /\ UNCHANGED <<head, origin, locals, resting, excused, runs>>

\* Mutant: a checkout that failed is not noticed.
Pin_Unchecked(p) ==
  /\ Step(p, "fetched", "pinned")
  /\ head' \in (known \cap {want[p]}) \cup {head}
  /\ UNCHANGED <<known, shallow, origin, locals, resting, excused, runs>>

\* git checkout of the recorded commit; refused, the run ends and HEAD stays.
Pin(p) ==
  /\ \/ /\ Step(p, "fetched", "pinned")
        /\ want[p] \in known /\ head' = want[p]
        /\ UNCHANGED outcome
     \/ /\ Step(p, "fetched", "done")
        /\ outcome' = [outcome EXCEPT ![p] = "error"]
        /\ UNCHANGED head
  /\ UNCHANGED <<known, shallow, origin, want, previous, unshallow, saw,
                 resting, excused, runs>>

\* Mutant: a gate that cannot be run ends the verification there.
Gate_Propagates(p) ==
  /\ \/ /\ Step(p, "pinned", "scanned")
        /\ saw' = [saw EXCEPT ![p] = head]
        /\ outcome' = [outcome EXCEPT ![p] = IF head \in Passing THEN "ok"
                                                                  ELSE "failed"]
     \/ /\ Step(p, "pinned", "done")
        /\ outcome' = [outcome EXCEPT ![p] = "error"]
        /\ UNCHANGED saw
  /\ UNCHANGED <<db, origin, want, previous, unshallow, resting, excused, runs>>

\* cargo deny --offline check, or a gate that cannot be run.
Gate(p) ==
  /\ Step(p, "pinned", "scanned")
  /\ \/ /\ saw' = [saw EXCEPT ![p] = head]
        /\ outcome' = [outcome EXCEPT ![p] = IF head \in Passing THEN "ok"
                                                                  ELSE "failed"]
     \/ outcome' = [outcome EXCEPT ![p] = "error"] /\ UNCHANGED saw
  /\ UNCHANGED <<db, origin, want, previous, unshallow, resting, excused, runs>>

\* Best effort, and before any error of the gate is reported.
Restore(p) ==
  /\ Step(p, "scanned", "done")
  /\ \/ /\ previous[p] # 0
        /\ head' = previous[p] /\ UNCHANGED excused
     \/ UNCHANGED head /\ excused' = TRUE
  /\ UNCHANGED <<known, shallow, origin, locals, resting, runs>>

Kill(p) ==
  /\ pc[p] \notin Stopped
  /\ pc' = [pc EXCEPT ![p] = "done"]
  /\ outcome' = [outcome EXCEPT ![p] = "error"]
  /\ excused' = TRUE
  /\ UNCHANGED <<db, origin, want, previous, unshallow, saw, resting, runs>>

\* cargo-deny or cargo-audit refreshes the copy it shares.
Refresh ==
  /\ Exclusive => Idle
  /\ head # origin \/ excused
  /\ head' = origin /\ known' = known \cup {origin}
  /\ resting' = origin /\ excused' = (excused /\ ~Idle)
  /\ UNCHANGED <<shallow, origin, pc, locals, runs>>

Publish ==
  /\ origin < MaxCommit /\ origin' = origin + 1
  /\ UNCHANGED <<db, pc, locals, resting, excused, runs>>

Next == \/ \E p \in Verifiers : \/ Start(p) \/ NoteHead(p) \/ ProbeShallow(p)
                                \/ Fetch(p) \/ Pin(p) \/ Gate(p) \/ Restore(p)
                                \/ Kill(p)
        \/ Refresh \/ Publish

Spec == Init /\ [][Next]_vars

-----------------------------------------------------------------------------
(* Properties *)

\* The gate re-runs at the recorded commit and nowhere else, so a release is
\* only reproduced by a snapshot at which its tree passes (verify.rs:461-466).
ScansRecorded ==
  \A p \in Verifiers : /\ saw[p] # 0 => saw[p] = want[p]
                       /\ outcome[p] = "ok" => want[p] \in Passing

\* However a run ends, short of a kill or a git that refuses, the shared
\* checkout is back where it was found, and no later scan is given an old
\* snapshot (verify.rs:396-398, 442-446).
LeftAsFound == Idle /\ ~excused => head = resting
=============================================================================
