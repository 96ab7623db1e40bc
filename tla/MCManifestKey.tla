----------------------------- MODULE MCManifestKey -----------------------------
(***************************************************************************)
(* A workspace of two packages, in the ways a tag may hold it: with a      *)
(* package at its root, with members listed by name or by a pattern,       *)
(* listed but missing, without a key, or with the two directories swapped. *)
(***************************************************************************)
EXTENDS ManifestKey

CONSTANTS a, b, none, da, db, glob, k, l, comment, missing

Crate(n, x) == [name |-> n, key |-> x, members |-> <<>>]
Members(root, list, x, y) ==
  [root |-> [root EXCEPT !.members = list],
   member |-> [d \in {da, db} |-> IF d = da THEN x ELSE y]]

TextsDef == {missing, <<comment>>, <<comment, k>>, <<l>>, <<k, comment, l>>}

WorkspacesDef ==
  {Members(Crate(none, none), <<da, db>>, Crate(a, k), Crate(b, l)),
   Members(Crate(none, none), <<da, db>>, Crate(b, k), Crate(a, l)),
   Members(Crate(none, none), <<glob, db>>, Crate(a, k), Crate(b, l)),
   Members(Crate(none, none), <<da, db>>, missing, Crate(b, l)),
   Members(Crate(a, l), <<da>>, Crate(b, none), missing),
   Members(Crate(a, none), <<db>>, missing, Crate(b, k)),
   [root |-> missing, member |-> [d \in {da, db} |-> missing]]}
=============================================================================
