----------------------------- MODULE SealedRelease -----------------------------
(***************************************************************************)
(* What publishing promises a reader of the release: one record goes       *)
(* public and stays, and no reader is told that a signature does not match.*)
(***************************************************************************)
CONSTANTS Readers,
          Records,   \* the contents a record file may have
          Passed,    \* those that attest a gate that passed
          NoRecord

VARIABLES served,    \* the public record
          answer     \* what each reader was told

Init == served = NoRecord /\ answer = [v \in Readers |-> "none"]

Seal == served = NoRecord /\ served' \in Records /\ UNCHANGED answer

Answer(v) ==
  /\ answer[v] = "none"
  /\ \E a \in {"passed", "rejected", "unavailable"} :
       /\ answer' = [answer EXCEPT ![v] = a]
       /\ a = "passed" => served \in Passed
       /\ a = "rejected" => served \in Records \ Passed
  /\ UNCHANGED served

Next == Seal \/ \E v \in Readers : Answer(v)

Spec == Init /\ [][Next]_<<served, answer>>
=============================================================================
