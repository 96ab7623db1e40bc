---------------------------- MODULE MCAtomicWrite ----------------------------
(* Two writers and two staging names on one file: enough for both to write *)
(* at once, for one to find the copy the other left as the target or as an *)
(* orphan, and for a power loss among them.                                *)
EXTENDS AtomicWrite, TLC

Symmetric == Permutations(Writers) \cup Permutations(Values) \cup Permutations(Names)
=============================================================================
