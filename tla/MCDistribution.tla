---------------------------- MODULE MCDistribution ----------------------------
(* Two publisher jobs with two runs between them, a passing and a truncated  *)
(* record: a run can fail over what another left on the release.             *)
EXTENDS Distribution, TLC

Symmetric == Permutations(Publishers) \cup Permutations(Readers)
=============================================================================
