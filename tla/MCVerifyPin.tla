----------------------------- MODULE MCVerifyPin -----------------------------
(* Two verifiers, three runs and three upstream commits, the second failing *)
(* the gate: enough for a run to start where an earlier one left the clone. *)
EXTENDS VerifyPin, TLC

Symmetric == Permutations(Verifiers)
=============================================================================
