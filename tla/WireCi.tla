-------------------------------- MODULE WireCi --------------------------------
(***************************************************************************)
(* `jci-audit wire-ci` and `check-ci-wiring` over jci-audit.toml and the   *)
(* CircleCI files it names (wire_ci_at).  A run reads everything, computes *)
(* every file's content, and only then replaces the files that differ, one *)
(* after another; a write may fail and the run may be killed between two.  *)
(* The files are a developer's: they are edited between runs.              *)
(*                                                                         *)
(* The [[ci.jobs]] are grouped by the file they are for, as a run groups   *)
(* them; those of one file keep their order.                               *)
(***************************************************************************)
EXTENDS WireJobs

CONSTANTS FileOrder,      \* the files that may be named, the default first
          DiscoverFiles,  \* [ci].discover_files
          NoFile,
          Specs,          \* the [[ci.jobs]] a developer may write
          Contents,       \* [file -> what a developer may have in it]
          Unreadable,     \* a jci-audit.toml whose [ci] table makes no sense
          Example,        \* the job a first run scaffolds
          Typed, Params,  \* the workflow names typed, and the flags chosen, instead
          Names, Workflows, Settings, Extras,   \* what entries and jobs are made of
          MaxRuns, MaxEdits   \* bounds

Files == ToSet(FileOrder)
Default == FileOrder[1]
Nothing == <<>>   \* no plan, no goal

Entry == [orbJob : DOMAIN Orb, name : Names \cup {NoName},
          requires : [form : Readable \cup {"odd"}, items : Seq(Names)],
          params : Settings, extras : Extras, marked : BOOLEAN]
Job == [workflow : Workflows, orbJob : DOMAIN Orb, versioned : BOOLEAN,
        jobName : Names \cup {NoName}, requires : Seq(Names), requiredBy : Seq(Names),
        params : Settings, extras : Extras]
Content(W) == [pins : SUBSET {Orb[o] : o \in DOMAIN Orb}, hasOrbs : BOOLEAN,
               workflows : [W -> Seq(Entry)]]
IsContent(c) == \E W \in SUBSET Workflows : c \in Content(W)
Declarations == [Files -> Seq(Job)]
AreFiles(g) == DOMAIN g = Files /\ \A f \in Files : g[f] = NoFile \/ IsContent(g[f])

ASSUME WireAssumption ==
  /\ FileOrder \in Seq(Files) /\ FileOrder # <<>>
  /\ DiscoverFiles \subseteq Files /\ IsFiniteSet(Workflows)
  /\ DOMAIN Orb \subseteq Names /\ NoName \notin Names \cup Workflows
  /\ NoExtras \in Extras /\ Params \subseteq Settings
  /\ Typed \subseteq Workflows \cup {NoName}
  /\ ~IsContent(NoFile) /\ ~IsContent(Refused) /\ NoFile # Refused
  /\ Specs \subseteq Declarations /\ Unreadable \notin Declarations
  /\ \A f \in Files : \A c \in Contents[f] : c = NoFile \/ IsContent(c)
  /\ Example \in Job /\ Example.requiredBy = <<>>
  /\ MaxRuns \in Nat /\ MaxEdits \in Nat

VARIABLES spec,     \* the [[ci.jobs]] of jci-audit.toml
          files,    \* what each CircleCI file holds
          pc, plan, next,     \* the run: its contents, and which is to be written next
          outcome,
          written,  \* history: spec and files as last edited
          goal,     \* history: the plan of the first run after that
          runs, edits

disk == [spec |-> spec, files |-> files]
run == <<pc, plan, next, outcome>>
vars == <<spec, files, run, written, goal, runs, edits>>

-----------------------------------------------------------------------------
(* What a run computes from the disk *)

\* read_ci_file: a `params` that is no table or names a field of its own, an
\* attach_workspace that is no boolean, or text that is no TOML.
Malformed(d) == d.spec = Unreadable
JobsOf(d, f) == IF Malformed(d) THEN <<>> ELSE d.spec[f]

\* A file is in scope when it is the default one or is named.
InScope(d, f) == f = Default \/ f \in DiscoverFiles \/ JobsOf(d, f) # <<>>

FoundIn(d, f) == IF InScope(d, f) /\ d.files[f] # NoFile
                 THEN Discover(d.files[f], JobsOf(d, f)) ELSE <<>>

Wanted(d, f) == JobsOf(d, f) \o FoundIn(d, f)

\* Mutant: a job found in a file is left out of that file's wiring.
Desired_DeclaredOnly(d, f) ==
  IF Wanted(d, f) = <<>> THEN d.files[f]
  ELSE IF d.files[f] = NoFile THEN Refused
  ELSE WireJobs(d.files[f], JobsOf(d, f))

\* What a file is to hold; one that a job names must be there.
Desired(d, f) ==
  IF Wanted(d, f) = <<>> THEN d.files[f]
  ELSE IF d.files[f] = NoFile THEN Refused
  ELSE WireJobs(d.files[f], Wanted(d, f))

Computed(d) == [spec |-> [f \in Files |-> Wanted(d, f)],
                files |-> [f \in Files |-> Desired(d, f)]]

\* The declarations cannot be read, some file cannot be wired, or one of
\* discover_files is not there.
Refuses(d) == \/ Malformed(d) \/ \E f \in DiscoverFiles : d.files[f] = NoFile
              \/ \E f \in Files : Desired(d, f) = Refused

\* Nothing is declared and nothing can be discovered.
Blank(d) == ~Refuses(d) /\ \A f \in Files : Wanted(d, f) = <<>>

ExampleFor(workflow, params) ==
  [Example EXCEPT !.workflow = workflow, !.params = params]

\* What a first run may scaffold: by default the example; else as its flags say,
\* or as the questions are answered, with a workflow of some file in scope or
\* any other name.
ScaffoldChoices ==
  LET known == UNION {DOMAIN files[f].workflows :
                        f \in {g \in Files : InScope(disk, g) /\ files[g] # NoFile}}
  IN {Example} \cup {ExampleFor(w, p) : w \in known \cup Typed, p \in Params}

InSync(d) == ~Refuses(d) /\ ~Blank(d) /\ d = Computed(d)

\* What a developer writes leaves no doubt about which entry is whose.
Clear(d) == ~Refuses(d) =>
              \A f \in Files : d.files[f] # NoFile => Apart(d.files[f], Wanted(d, f))

-----------------------------------------------------------------------------
Init ==
  /\ spec \in Specs
  /\ files \in {g \in [Files -> UNION {Contents[f] : f \in Files}] :
                  \A f \in Files : g[f] \in Contents[f]}
  /\ Clear(disk)
  /\ pc = "idle" /\ plan = Nothing /\ next = 0
  /\ outcome = "none"
  /\ written = disk /\ goal = Nothing
  /\ runs = 0 /\ edits = 0

Starts == pc = "idle" /\ runs < MaxRuns /\ runs' = runs + 1

\* check-ci-wiring reports and writes nothing.
Check ==
  /\ Starts
  /\ outcome' = IF Refuses(disk) \/ Blank(disk) THEN "refused"
              ELSE IF InSync(disk) THEN "inSync" ELSE "drift"
  /\ UNCHANGED <<spec, files, pc, plan, next, written, goal, edits>>

Refuse ==
  /\ Starts /\ Refuses(disk)
  /\ outcome' = "refused"
  /\ UNCHANGED <<spec, files, pc, plan, next, written, goal, edits>>

\* A first run writes an example to be adapted, and wires nothing.
Scaffold ==
  /\ Starts /\ Blank(disk)
  /\ \E example \in ScaffoldChoices :
       IF example.workflow = NoName
       THEN outcome' = "refused" /\ UNCHANGED <<spec, written, goal>>
       ELSE /\ spec' = [spec EXCEPT ![Default] = <<example>>] /\ outcome' = "scaffolded"
            /\ written' = [disk EXCEPT !.spec = spec'] /\ goal' = Nothing
  /\ UNCHANGED <<files, pc, plan, next, edits>>

\* Mutant: a file that cannot be wired does not stop the run.
Compute_Blind ==
  /\ Starts /\ ~Blank(disk)
  /\ pc' = "writing" /\ plan' = Computed(disk) /\ next' = 0
  /\ goal' = IF goal = Nothing THEN Computed(disk) ELSE goal
  /\ outcome' = "none"
  /\ UNCHANGED <<spec, files, written, edits>>

\* Mutant: what cannot be computed is left as it is and the rest is written.
Compute_Partial ==
  /\ Starts /\ ~Blank(disk)
  /\ pc' = "writing" /\ next' = 0
  /\ plan' = [Computed(disk) EXCEPT !.files = [f \in Files |-> IF @[f] = Refused THEN files[f]
                                                         ELSE @[f]]]
  /\ goal' = IF goal = Nothing THEN Computed(disk) ELSE goal
  /\ outcome' = "none"
  /\ UNCHANGED <<spec, files, written, edits>>

\* Everything is computed before anything is written.
Compute ==
  /\ Starts /\ ~Refuses(disk) /\ ~Blank(disk)
  /\ pc' = "writing" /\ plan' = Computed(disk) /\ next' = 0
  /\ goal' = IF goal = Nothing THEN Computed(disk) ELSE goal
  /\ outcome' = "none"
  /\ UNCHANGED <<spec, files, written, edits>>

\* jci-audit.toml first, then the files in scope order.  Each is replaced
\* atomically, and on its own; one that is as it should be is left alone.
Write ==
  /\ pc = "writing" /\ next <= Len(FileOrder) /\ next' = next + 1
  /\ IF next = 0
     THEN spec' = plan.spec /\ UNCHANGED files
     ELSE files' = [files EXCEPT ![FileOrder[next]] = plan.files[FileOrder[next]]]
          /\ UNCHANGED spec
  /\ UNCHANGED <<pc, plan, outcome, written, goal, runs, edits>>

Finish ==
  /\ pc = "writing" /\ next = Len(FileOrder) + 1
  /\ pc' = "idle" /\ outcome' = "wired" /\ plan' = Nothing /\ next' = 0
  /\ UNCHANGED <<spec, files, written, goal, runs, edits>>

\* A write that fails, or a kill: what was written stays.
Abort ==
  /\ pc = "writing"
  /\ pc' = "idle" /\ outcome' = "failed" /\ plan' = Nothing /\ next' = 0
  /\ UNCHANGED <<spec, files, written, goal, runs, edits>>

Edit ==
  /\ pc = "idle" /\ edits < MaxEdits /\ edits' = edits + 1
  /\ \/ spec' \in Specs \cup {Unreadable} /\ UNCHANGED files
     \/ /\ \E f \in Files : \E c \in Contents[f] : files' = [files EXCEPT ![f] = c]
        /\ UNCHANGED spec
  /\ written' = disk' /\ Clear(written')
  /\ goal' = Nothing /\ outcome' = "none"
  /\ UNCHANGED <<pc, plan, next, runs>>

Next == Check \/ Refuse \/ Scaffold \/ Compute \/ Write \/ Finish \/ Abort \/ Edit

Spec == Init /\ [][Next]_vars

-----------------------------------------------------------------------------
(* Properties *)

TypeOK ==
  /\ spec \in Declarations \cup {Unreadable}
  /\ AreFiles(files)
  /\ pc \in {"idle", "writing"} /\ next \in 0..Len(FileOrder) + 1
  /\ IF pc = "writing" THEN plan.spec \in Declarations /\ AreFiles(plan.files)
     ELSE plan = Nothing
  /\ outcome \in {"none", "inSync", "drift", "refused", "scaffolded", "wired",
                  "failed"}
  /\ runs \in 0..MaxRuns /\ edits \in 0..MaxEdits

Settled == pc = "idle" /\ outcome = "wired"

\* What wire-ci has wired, check-ci-wiring finds in sync
\* (wire_ci.rs:4994-5011).
WiredIsInSync == Settled => InSync(disk)

\* A run that was cut short and repeated ends where an undisturbed one would
\* have: what it had written does not change what the next run wants.
RepeatConverges == Settled => disk = goal

\* Until then every file is as it was edited or as it will be, and nothing is
\* touched unless every file's content computes (wire_ci.rs:2380-2383).
NeverMixed ==
  /\ spec \in {written.spec} \cup (IF goal = Nothing THEN {} ELSE {goal.spec})
  /\ \A f \in Files : files[f] # written.files[f] =>
       goal # Nothing /\ files[f] = goal.files[f]
  /\ disk # written => \A f \in Files : goal.files[f] # Refused

Entries(f, w) == files[f].workflows[w]
Before(f, w) == written.files[f].workflows[w]
JobsAt(f, w) == {j \in ToSet(JobsOf(disk, f)) : j.workflow = w}
IsManaged(entry, jobs) == \E j \in jobs : Identifies(j, entry)
Asking(entry, jobs) ==
  {NewName(j) : j \in {k \in jobs : Contains(k.requiredBy, EffectiveName(entry))}}

\* `new` is `old` with some of the names added to its requires, each once.
Extends(new, old, names) ==
  LET had == old.requires.items
      has == new.requires.items
      added == SubSeq(has, Len(had) + 1, Len(has))
  IN /\ new = [old EXCEPT !.requires.items = has]
     /\ IsPrefix(had, has)
     /\ ToSet(added) \subseteq names \ ToSet(had)
     /\ IsInjective(added)

\* A job of another orb that nobody declared keeps its place and everything in
\* it; its requires gains the declared jobs whose required_by names it and
\* nothing else (wire_ci.rs:82-84).
OthersKept ==
  \A f \in Files : files[f] # NoFile =>
    \A w \in DOMAIN files[f].workflows :
      \A i \in DOMAIN Before(f, w) :
        LET old == Before(f, w)[i]
            jobs == JobsAt(f, w)
        IN \/ Orb[old.orbJob] = OwnOrb \/ IsManaged(old, jobs)
           \/ Extends(Entries(f, w)[i], old, Asking(old, jobs))

\* The entry is what the job declares, and requires besides what its siblings'
\* required_by ask for; a name it has not declared is its own.
IsApplied(j, e, siblings) ==
  /\ e.orbJob = j.orbJob /\ e.params = j.params /\ e.extras = j.extras
  /\ j.jobName # NoName => e.name = j.jobName
  /\ ToSet(e.requires.items) =
       ToSet(j.requires)
         \cup {NewName(k) : k \in {s \in siblings : Contains(s.requiredBy, NewName(j))}}

\* Nothing else in the workflow is this job, and the entry is no other job's.
IsOnly(j, k, entries, siblings) ==
  /\ {n \in DOMAIN entries : Identifies(j, entries[n])} = {k}
  /\ {s \in siblings : Identifies(s, entries[k])} = {j}

\* Every declared job is applied to an entry of its workflow, the one that was
\* there before if one was, under the name it had there; and each job its
\* required_by names, undeclared, requires it (wire_ci.rs:2132-2135,
\* docs/user-guide.md:252-254).
EveryJobApplied ==
  Settled => \A f \in Files : \A j \in ToSet(spec[f]) :
    LET entries == Entries(f, j.workflow)
        before == Before(f, j.workflow)
        siblings == JobsAt(f, j.workflow)
    IN /\ \E i \in DOMAIN entries :
            /\ IsApplied(j, entries[i], siblings)
            /\ \A k \in DOMAIN before : IsOnly(j, k, before, siblings) =>
                 i = k /\ (j.jobName = NoName => entries[i].name = before[i].name)
       /\ \A t \in External(j, JobsOf(disk, f)) :
            Contains(entries[Named(entries, t)].requires.items, NewName(j))
=============================================================================
