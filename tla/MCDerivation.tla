----------------------------- MODULE MCDerivation -----------------------------
(* Two members, two crates with an exception, and one of them reached only   *)
(* through dev-dependencies.                                                 *)
EXTENDS Derivation

MCUsed == [bin |-> [d \in BOOLEAN |-> IF d THEN {"mit"} ELSE {"mit", "gpl"}],
           lib |-> [d \in BOOLEAN |-> {"mit", "mpl"}]]
MCReaches == [bin |-> [d \in BOOLEAN |-> IF d THEN {"x"} ELSE {"x", "y"}],
              lib |-> [d \in BOOLEAN |-> {"y"}]]

Policy(ignores, allow, exceptions) ==
  [ignores |-> ignores, allow |-> allow, exceptions |-> exceptions]
MCTemplate == Policy({}, {"mit"}, NoLists)
MCDenies == {Policy(Absent, {"mit", "gpl"}, [c \in {"x", "y"} |-> {"mpl"}]),
             Policy({"i1"}, Absent, [c \in {"y"} |-> {"mpl", "gpl"}]),
             Policy({"i1", "i2"}, {"mit", "mpl"}, NoLists)}
MCAbouts == {Blank,
             [Blank EXCEPT !.accepted = {"mit"}, !.lists = [c \in {"x"} |-> {"gpl"}],
                           !.pinned = {"x"}, !.dev = TRUE]}
=============================================================================
