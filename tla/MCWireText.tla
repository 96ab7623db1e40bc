------------------------------ MODULE MCWireText ------------------------------
(* A file with two workflows whose jobs write their requires in every form,  *)
(* and declarations that insert, adopt, rename, strip and append.            *)
EXTENDS WireText

CONSTANTS None

MCOrb == [check |-> "own", prep |-> "own", build |-> "node", deploy |-> "node"]
MCWords == {"check", "prep", "build", "deploy", "own", "node", "ci", "nightly", "d", "p", "q",
            "x", "y", "org", "more", "report", "a", "b", "only", "run", "see"}
MCWorkflows == <<"ci", "nightly">>

Extra(context, attach, store, persist) ==
  [context |-> context, attach |-> attach, store |-> store, persist |-> persist,
   nested |-> <<>>, steps |-> <<>>]
MCNoExtras == Extra(<<>>, FALSE, <<>>, <<>>)
With(extras, nested, steps) == [extras EXCEPT !.nested = nested, !.steps = steps]

Requires(form, items) == [form |-> form, items |-> items]
AnEntry(orbJob, name, requires, params, extras) ==
  [orbJob |-> orbJob, name |-> name, requires |-> requires, params |-> params,
   extras |-> extras, marked |-> TRUE]
AJob(workflow, orbJob, name, requires, requiredBy, params, extras) ==
  [workflow |-> workflow, orbJob |-> orbJob, versioned |-> FALSE,
   jobName |-> name, requires |-> requires, requiredBy |-> requiredBy,
   params |-> params, extras |-> extras]

Absent == Requires("absent", <<>>)
Build == AnEntry("build", None, Requires("inline", <<>>), <<"x">>,
                 With(MCNoExtras, <<"only">>, <<>>))
Deploy == AnEntry("deploy", "d", Requires("block", <<"build", "check">>), <<>>,
                Extra(<<>>, TRUE, <<>>, <<>>))
Final == AnEntry("deploy", None, Requires("block", <<"build">>), <<>>, MCNoExtras)
Bare == AnEntry("check", None, Absent, <<>>, MCNoExtras)
Rich == AnEntry("prep", "p", Requires("block", <<"build">>), <<"x", "y">>,
              With(Extra(<<"org">>, TRUE, <<"report">>, <<"a", "b">>), <<"only">>, <<"run">>))
Odd == AnEntry("prep", None, Requires("odd", <<>>), <<>>, MCNoExtras)

Says(pins, ci, nightly) ==
  [pins |-> pins, hasOrbs |-> TRUE, workflows |-> [ci |-> ci, nightly |-> nightly]]
MCContents ==
  {Says({"node"}, <<Build, Rich, Deploy>>, <<>>),
   Says({"own"}, <<Bare, Deploy, Odd>>, <<Final>>),
   [Says({}, <<Build>>, <<>>) EXCEPT !.hasOrbs = FALSE]}
FewContents == {Says({"node", "own"}, <<Build, Deploy>>, <<>>)}

Check == AJob("ci", "check", None, <<"build">>, <<"build", "d">>, <<"y">>, MCNoExtras)
Base == AJob("ci", "check", None, <<>>, <<"build">>, <<>>, MCNoExtras)
Gate == AJob("ci", "check", None, <<>>, <<"d">>, <<>>, MCNoExtras)
Prep == AJob("ci", "prep", None, <<"build">>, <<>>, <<"y", "x">>,
            Extra(<<"org", "more">>, FALSE, <<"report">>, <<"b">>))
Named1 == AJob("ci", "prep", "q", <<>>, <<"build", "d">>, <<>>,
              Extra(<<>>, TRUE, <<>>, <<"a", "b">>))
Nightly == AJob("nightly", "prep", None, <<>>, <<"deploy">>, <<"x">>, MCNoExtras)
MCDeclarations == {<<>>, <<Check>>, <<Named1>>, <<Prep, Base>>, <<Nightly, Gate>>}
FewDeclarations == {<<Gate>>}
NoRemarks == {}
=============================================================================
