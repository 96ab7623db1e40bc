---------------------------- MODULE MCVerifyInputs ----------------------------
(***************************************************************************)
(* Two crates and two third-party packages, and the trees a workspace goes *)
(* through: the released one, with a bumped version, with a sibling        *)
(* changed, with a new checksum, policy or licence file, or without one.   *)
(***************************************************************************)
EXTENDS VerifyInputs

CONSTANTS p, q, all, x, y, loose, tight, one, two, none, broken, v1, v2, norec, torn

AcceptsDef == [d \in {loose, tight} |-> IF d = loose THEN {x, y} ELSE {x}]

Released == [needs |-> [m \in {p, q} |-> {x}], sums |-> [k \in {x, y} |-> 1],
             own |-> [m \in {p, q} |-> 1], deny |-> tight,
             about |-> [m \in {p, q} |-> one], tool |-> v1]
Bumped == [Released EXCEPT !.own[p] = 2]
Sibling == [Bumped EXCEPT !.needs[q] = {x, y}, !.about[q] = two]

StartDef == {Released}
TreesDef == {Released, Bumped, Sibling,
             [Released EXCEPT !.sums[x] = 2], [Released EXCEPT !.needs[p] = {x, y}],
             [Sibling EXCEPT !.deny = loose], [Released EXCEPT !.deny = broken],
             [Released EXCEPT !.deny = none],
             [Bumped EXCEPT !.about = [m \in {p, q} |-> none]],
             [Released EXCEPT !.about[p] = two], [Released EXCEPT !.tool = v2],
             [Released EXCEPT !.tool = none]}
=============================================================================
