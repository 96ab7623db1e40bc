----------------------------- MODULE MCCheckGate -----------------------------
(***************************************************************************)
(* Two crates in up to three versions, two licences, one advisory; trees   *)
(* that pass, and every way they may go wrong, up to two edits away.       *)
(***************************************************************************)
EXTENDS CheckGate

CONSTANTS a, b, any, i, j, MIT, GPL, none, broken, m

LicenceOfDef == [c \in {a, b} |-> [v \in 1..3 |-> IF c = b THEN GPL ELSE MIT]]
AffectsDef == [x \in {i, j} |-> IF x = i THEN {<<a, 1>>} ELSE {<<a, 3>>, <<b, 1>>}]
UsesDef == [x \in {m} |-> {a, b}]

Lock(va, vb) == [c \in {a, b} |-> IF c = a THEN va ELSE vb]
Skip(v) == [name |-> a, version |-> v]
Policy(ignores, skips, allow) ==
  [ignores |-> ignores, skips |-> skips, allow |-> allow, multiple |-> "deny"]

Clean == [deny |-> Policy({i}, {Skip(1)}, {MIT}), lock |-> Lock({1, 2}, {}),
          db |-> {i, j}, audit |-> {i}, about |-> [x \in {m} |-> {MIT}],
          notices |-> [x \in {m} |-> Lock({1, 2}, {})], tools |-> Tools]

\* In the second, cargo-audit warns of an advisory that deny.toml ignores.
StartDef == {Clean, [Clean EXCEPT !.lock = Lock({1, 3}, {2}),
                                  !.deny = Policy({i, j}, {Skip(1)}, {MIT, GPL}),
                                  !.about[m] = {MIT, GPL}]}

DeniesDef == {broken, Policy({}, {}, {MIT}), Policy({i}, {Skip(1), Skip(2)}, {MIT, GPL}),
              Policy({i, j}, {Skip(any)}, {MIT}),
              [Policy({i}, {Skip(3)}, {MIT}) EXCEPT !.multiple = "warn"]}
LockingsDef == {Lock({1}, {}), Lock({1, 3}, {}), Lock({1, 2, 3}, {1}), Lock({}, {})}
AboutsDef == {none, broken, {MIT}, {MIT, GPL}}
NoticesDef == {none, broken, Lock({1}, {}), Lock({1}, {1})}
ToolingsDef == {Tools} \cup {Tools \ {t} : t \in Tools}
=============================================================================
