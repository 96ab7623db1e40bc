------------------------------- MODULE MCWireCi -------------------------------
(* Two CircleCI files, a default one and one for prep jobs, and the entries   *)
(* and [[ci.jobs]] lists in which every rule of matching, resync, insertion   *)
(* and discovery applies.                                                     *)
EXTENDS WireCi

CONSTANTS None, Main, Other

\* The orb of each orb job; "build" and "deploy" are plain jobs.
MCOrb == [check |-> "own", prep |-> "own", scan |-> "foreign",
          build |-> "build", deploy |-> "deploy"]
MCFileOrder == <<Main, Other>>

Items(form, names) == [form |-> form, items |-> names]
EntryFor(orbJob, name, requires, extras) ==
  [orbJob |-> orbJob, name |-> name, requires |-> requires, params |-> "p",
   extras |-> extras, marked |-> FALSE]
JobFor(orbJob, name, requires, requiredBy, params) ==
  [workflow |-> "ci", orbJob |-> orbJob, versioned |-> FALSE,
   jobName |-> name, requires |-> requires, requiredBy |-> requiredBy,
   params |-> params, extras |-> None]
File(pins, entries) ==
  [pins |-> pins, hasOrbs |-> TRUE, workflows |-> [ci |-> entries]]

Bare == EntryFor("check", None, Items("absent", <<>>), None)
Nicked == EntryFor("check", "a", Items("block", <<"build">>), None)
Plain == EntryFor("prep", None, Items("inline", <<>>), None)
Odd == EntryFor("prep", None, Items("odd", <<>>), None)
Build == EntryFor("build", None, Items("inline", <<>>), "steps")
Deploy == EntryFor("deploy", "d", Items("block", <<"build">>), None)

Headless == [File({}, <<Build>>) EXCEPT !.hasOrbs = FALSE]

MCContents(entryLists) ==
  [f \in {Main, Other} |->
     IF f = Main THEN {File({}, es) : es \in entryLists} \cup {NoFile, Headless}
     ELSE {NoFile, File({"own"}, <<Plain>>), File({"own"}, <<Build, Odd>>)}]

Lists == {<<>>, <<Bare>>, <<Nicked>>, <<Build>>, <<Plain, Deploy>>, <<Odd, Build>>,
          <<Build, Bare, Deploy>>, <<Deploy, Nicked, Plain>>}
ContentsKept == MCContents(Lists)

MainJobs == {JobFor("check", None, <<>>, <<>>, "p"),
             JobFor("check", "a", <<"build">>, <<"d">>, "q"),
             JobFor("check", "c", <<>>, <<"build", "d", "d">>, "p"),
             JobFor("check", None, <<>>, <<"prep">>, "p"),
             JobFor("prep", None, <<>>, <<"check">>, "p"),
             JobFor("prep", "r", <<>>, <<"d">>, "p"),
             [JobFor("scan", None, <<>>, <<>>, "p") EXCEPT !.workflow = "none"]}
OtherJobs == {JobFor("prep", "r", <<"build">>, <<"build">>, "q"),
              JobFor("scan", None, <<>>, <<>>, "p"),
              [JobFor("scan", None, <<>>, <<>>, "p") EXCEPT !.versioned = TRUE]}

Jobs(main, other) == [f \in {Main, Other} |-> IF f = Main THEN main ELSE other]
MCSpecs ==
  LET mains == {<<>>} \cup {<<j>> : j \in MainJobs}
      pairs == {<<j, k>> : j, k \in MainJobs}
      others == {<<>>} \cup {<<j>> : j \in OtherJobs}
  IN {Jobs(m, o) : m \in mains, o \in others} \cup {Jobs(p, <<>>) : p \in pairs}

MCNames == {"check", "prep", "scan", "build", "deploy", "a", "c", "d", "r"}
MCWorkflows == {"ci", "none", "nowhere"}
MCSettings == {"p", "q"}
MCExtras == {None, "steps"}
MCTyped == {None, "nowhere"}
MCParams == {"p"}
MCExample == JobFor("check", None, <<>>, <<>>, "q")
=============================================================================
