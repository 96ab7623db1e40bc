------------------------------- MODULE WireText -------------------------------
(***************************************************************************)
(* The text that WireJobs' entries are read from and written to            *)
(* (wire_ci.rs).  A CircleCI file is patched line by line, by indentation, *)
(* so that comments and layout survive: it is scanned anew for every       *)
(* question asked of it, and each change moves the lines below it.  Here   *)
(* it is a sequence of lines; `content` follows, by the rules of WireJobs  *)
(* alone, what the file is meant to say.                                   *)
(***************************************************************************)
EXTENDS WireJobs

CONSTANTS Words,                  \* what a line's value is made of
          Workflows,              \* the workflows, in file order
          Contents,               \* what it may say at first
          Declarations,           \* [[ci.jobs]] lists
          Remarks,                \* comments with a colon in them
          InLists,                \* may a blank line or a comment stand in a nested list?
          MaxRuns, MaxEdits       \* bounds

\* The indentations that a file is written with, and what its lines are: an empty
\* key stands for a blank line, "#" for a comment, "#:" for one with a colon in it.
\* "nested" is a line of what stands below a parameter (filters:, matrix:), "- step"
\* a post-step of a kind that no declaration has.
Depths == {0, 2, 4, 6, 10, 12, 16, 18}
KeyNames == {"", "#", "#:", "# >>>", "# <<<", "- job", "name:", "param", "nested", "requires:",
             "requires: []", "requires: *", "- item", "context: []", "attach_workspace: true",
             "post-steps:", "- store_artifacts:", "path:", "destination:",
             "- persist_to_workspace:", "root:", "paths:", "- step", "workflow:", "jobs:",
             "orbs:", "workflows:", "pin:"}
Lines == [depth : Depths, key : KeyNames, value : Seq(Words)]

\* What a note says of an entry that was rewritten.
NoteNames == {"params", "requires", "context", "attach", "store", "persist", "markers", "order"}
Buffer == [text : Seq(Lines), notes : SUBSET (Words \X NoteNames)]

\* nested: what stands below the parameters; steps: the post-steps of other kinds.
Extras == [context : Seq(Words), attach : BOOLEAN, store : Seq(Words), persist : Seq(Words),
           nested : Seq(Words), steps : Seq(Words)]
\* What [[ci.jobs]] can ask for.
Declarable == {x \in Extras : x.nested = <<>> /\ x.steps = <<>>}
Entry == [orbJob : DOMAIN Orb, name : Words \cup {NoName},
          requires : [form : Readable \cup {"odd"}, items : Seq(Words)],
          params : Seq(Words), extras : Extras, marked : BOOLEAN]
Job == [workflow : ToSet(Workflows), orbJob : DOMAIN Orb, versioned : BOOLEAN,
        jobName : Words \cup {NoName}, requires : Seq(Words), requiredBy : Seq(Words),
        params : Seq(Words), extras : Declarable]
Content(W) == [pins : SUBSET Words, hasOrbs : BOOLEAN, workflows : [W -> Seq(Entry)]]

\* A block has items, what cannot be read is not told apart, a body stands below
\* a parameter, pins in a section of their own, and markers are comments: what a
\* file says has none.
IsWritable(c) ==
  /\ c.pins # {} => c.hasOrbs
  /\ \A w \in DOMAIN c.workflows : \A e \in ToSet(c.workflows[w]) :
       /\ e.requires.form = "block" => e.requires.items # <<>>
       /\ e.requires.form \in {"absent", "odd"} => e.requires.items = <<>>
       /\ e.extras.nested # <<>> => e.params # <<>>
       /\ e.marked

ASSUME TextAssumption ==
  /\ Workflows \in Seq(Words) /\ IsInjective(Workflows)
  /\ DOMAIN Orb \subseteq Words /\ \A o \in DOMAIN Orb : Orb[o] \in Words
  /\ NoName \notin Words /\ NoExtras \in Declarable /\ Remarks \subseteq Words
  /\ \A c \in Contents :
       /\ IsFiniteSet(c.pins) /\ IsWritable(c)
       /\ \E W \in SUBSET ToSet(Workflows) : c \in Content(W)
  /\ Declarations \subseteq Seq(Job)
  /\ Refused \notin Buffer /\ \A W \in SUBSET ToSet(Workflows) : Refused \notin Content(W)
  /\ InLists \in BOOLEAN /\ MaxRuns \in Nat /\ MaxEdits \in Nat

VARIABLES lines,       \* the file
          jobs,        \* what jci-audit.toml declares
          notes,       \* what the last run said of the entries it rewrote
          outcome,
          content,     \* history: what the file is meant to say
          due,         \* history: the outcome that follows from that
          before,      \* history: content and jobs when the last run began
          runs, edits

vars == <<lines, jobs, notes, outcome, content, due, before, runs, edits>>

-----------------------------------------------------------------------------
(* Lines *)

Line(depth, key, value) == [depth |-> depth, key |-> key, value |-> value]
Blank == Line(0, "", <<>>)
Begin == Line(6, "# >>>", <<>>)
End == Line(6, "# <<<", <<>>)
Significant(l) == l.key \notin {"", "#", "#:", "# >>>", "# <<<"}

If(test, text) == IF test THEN text ELSE <<>>
Each(depth, key, names) == [i \in DOMAIN names |-> Line(depth, key, <<names[i]>>)]

RequiresText(requires) ==
  CASE requires.form = "inline" -> <<Line(10, "requires: []", requires.items)>>
    [] requires.form = "block" ->
         <<Line(10, "requires:", <<>>)>> \o Each(12, "- item", requires.items)
    [] requires.form = "odd" -> <<Line(10, "requires: *", <<>>)>>
    [] OTHER -> <<>>

\* render_job_body, and how a maintainer writes what it never renders.
EntryText(e) ==
  <<Line(6, "- job", <<e.orbJob>>)>>
    \o If(e.name # NoName, <<Line(10, "name:", <<e.name>>)>>)
    \o Each(10, "param", e.params)
    \o Each(12, "nested", e.extras.nested)
    \o RequiresText(e.requires)
    \o If(e.extras.context # <<>>, <<Line(10, "context: []", e.extras.context)>>)
    \o If(e.extras.attach, <<Line(10, "attach_workspace: true", <<>>)>>)
    \o If(e.extras.store # <<>> \/ e.extras.persist # <<>> \/ e.extras.steps # <<>>,
          <<Line(10, "post-steps:", <<>>)>>)
    \o If(e.extras.store # <<>>,
          <<Line(12, "- store_artifacts:", <<>>), Line(16, "path:", e.extras.store),
            Line(16, "destination:", e.extras.store)>>)
    \o If(e.extras.persist # <<>>,
          <<Line(12, "- persist_to_workspace:", <<>>), Line(16, "root:", <<>>),
            Line(16, "paths:", <<>>)>>
            \o Each(18, "- item", e.extras.persist))
    \o Each(12, "- step", e.extras.steps)

Wrapped(text) == <<Begin>> \o text \o <<End>>

JobsText(entries) == FlattenSeq([i \in DOMAIN entries |-> EntryText(entries[i])])

WorkflowText(w, entries) ==
  <<Line(2, "workflow:", <<w>>), Line(4, "jobs:", <<>>)>> \o JobsText(entries)

OrbsText(hasOrbs, pins) ==
  If(hasOrbs, <<Line(0, "orbs:", <<>>)>> \o Each(2, "pin:", pins))

WorkflowsText(workflows) ==
  FlattenSeq([k \in DOMAIN Workflows |->
                If(Workflows[k] \in DOMAIN workflows,
                   WorkflowText(Workflows[k], workflows[Workflows[k]]))])

\* How a maintainer would write down a whole content, without any comment.
Written(c, pins) ==
  OrbsText(c.hasOrbs, pins) \o <<Line(0, "workflows:", <<>>)>> \o WorkflowsText(c.workflows)

\* The orders in which its pins may stand.
Orders(c) == {s \in [1..Cardinality(c.pins) -> c.pins] : ToSet(s) = c.pins}

\* The lines that a text consists of when its comments are dropped.
Said(text) == FlattenSeq([i \in DOMAIN text |-> If(Significant(text[i]), <<text[i]>>)])

-----------------------------------------------------------------------------
(* Scanners *)

\* Mutant: a blank line ends a block.
BlockEnd_Blank(text, start, limit, depth) ==
  Min({limit} \cup {j \in start + 1..limit - 1 : text[j].depth <= depth})

\* The first line after `start` that is back at `depth`, or the limit.
BlockEnd(text, start, limit, depth) ==
  Min({limit} \cup {j \in start + 1..limit - 1 :
                      text[j].key # "" /\ text[j].depth <= depth})

Section(text, header) == SelectInSeq(text, LAMBDA l : l = Line(0, header, <<>>))
SectionEnd(text, header) == BlockEnd(text, Section(text, header), Len(text) + 1, 0)

\* What the lines of one depth and key hold.
Values(text, depth, key) ==
  FlattenSeq([i \in DOMAIN text |->
                If(text[i].depth = depth /\ text[i].key = key, <<text[i].value[1]>>)])

\* A comment this deep that ends in a colon is taken for one too, but has no
\* `jobs:` under it.
WorkflowNames(text) ==
  LET start == Section(text, "workflows:")
  IN Values(SubSeq(text, start + 1, BlockEnd(text, start, Len(text) + 1, 1) - 1),
            2, "workflow:")

\* The `jobs:` line of a workflow; 0 when it has none.
JobsLine(text, workflow) ==
  LET top == Section(text, "workflows:")
      headers == {j \in top + 1..Len(text) : text[j] = Line(2, "workflow:", <<workflow>>)}
      start == Min(headers)
      found == {j \in start + 1..BlockEnd(text, start, Len(text) + 1, 2) - 1 :
                  text[j] = Line(4, "jobs:", <<>>)}
  IN IF headers = {} \/ found = {} THEN 0 ELSE Min(found)

JobsEnd(text, workflow) == BlockEnd(text, JobsLine(text, workflow), Len(text) + 1, 4)

\* Where the entries between two lines begin.
Starts(text, start, stop) ==
  FlattenSeq([j \in 1..stop - 1 |->
                If(j > start /\ text[j].depth = 6 /\ text[j].key = "- job", <<j>>)])

\* Where each entry of a workflow begins, and the last line that is its own.
Ranges(text, workflow) ==
  LET stop == JobsEnd(text, workflow)
      starts == Starts(text, JobsLine(text, workflow), stop)
  IN [i \in DOMAIN starts |->
        [first |-> starts[i], last |-> BlockEnd(text, starts[i], stop, 6) - 1]]

Body(text, r) == SubSeq(text, r.first, r.last)

\* The first line of a depth and key.
At(text, depth, key) == SelectInSeq(text, LAMBDA l : l.depth = depth /\ l.key = key)

\* The first line of an entry that holds a key of its own.
Field(body, key) == At(body, 10, key)

ExplicitName(body) ==
  LET i == Field(body, "name:") IN IF i = 0 THEN NoName ELSE body[i].value[1]

\* Every line with a colon that is none of the fields: no comment is told apart.
CurrentParams(body) ==
  FlattenSeq([i \in DOMAIN body |->
                If(body[i].depth = 10 /\ body[i].key \in {"param", "#:"}, <<body[i].value[1]>>)])

Scalar(body, key) ==
  LET i == Field(body, key) IN IF i = 0 THEN <<>> ELSE body[i].value

\* The lines after line i, up to the first of the lines that end what it began.
Under(text, i, ends) ==
  SubSeq(text, i + 1, Min({Len(text) + 1} \cup {j \in ends : j > i}) - 1)

\* The list under `post-steps:`, which the first shallower line ends.
PostSteps(body) ==
  LET i == Field(body, "post-steps:")
  IN IF i = 0 THEN <<>> ELSE Under(body, i, {j \in DOMAIN body : body[j].depth < 12})

StepItem(steps, marker) ==
  LET i == At(steps, 12, marker)
  IN IF i = 0 THEN <<>> ELSE Under(steps, i, {j \in DOMAIN steps : steps[j].depth = 12})

PersistPaths(body) ==
  Values(StepItem(PostSteps(body), "- persist_to_workspace:"), 18, "- item")

StorePath(body) ==
  LET item == StepItem(PostSteps(body), "- store_artifacts:")
      i == At(item, 16, "path:")
  IN IF i = 0 THEN <<>> ELSE item[i].value

Shape(form, items, at, last) == [form |-> form, items |-> items, at |-> at, last |-> last]

BlockShape(items, at) ==
  IF items = <<>> THEN Shape("odd", <<>>, at, at)
  ELSE Shape("block", [i \in DOMAIN items |-> items[i].value[1]], at, at + Len(items))

\* A block list is read up to the first line that is not one of its items.
ShapeAt(body, at) ==
  IF at = 0 THEN Shape("absent", <<>>, 0, 0)
  ELSE IF body[at].key = "requires: []" THEN Shape("inline", body[at].value, at, at)
  ELSE IF body[at].key = "requires: *" THEN Shape("odd", <<>>, at, at)
  ELSE BlockShape(Under(body, at, {j \in DOMAIN body : \/ body[j].depth # body[at].depth + 2
                                                       \/ body[j].key # "- item"}), at)

RequiresShape(body) ==
  ShapeAt(body, SelectInSeq(body, LAMBDA l :
                              l.key \in {"requires:", "requires: []", "requires: *"}))

IsMarked(text, r) ==
  /\ r.first > 1 /\ text[r.first - 1] = Begin
  /\ r.last < Len(text) /\ text[r.last + 1] = End

\* An entry as the scanners see it: nothing below a parameter, no other post-step.
EntryOf(body, shape, marked) ==
  [orbJob |-> body[1].value[1], name |-> ExplicitName(body),
   requires |-> [form |-> shape.form, items |-> shape.items],
   params |-> CurrentParams(body),
   extras |-> [context |-> Scalar(body, "context: []"),
               attach |-> Field(body, "attach_workspace: true") # 0,
               store |-> StorePath(body), persist |-> PersistPaths(body),
               nested |-> <<>>, steps |-> <<>>],
   marked |-> marked]

ReadEntry(text, r) ==
  EntryOf(Body(text, r), RequiresShape(Body(text, r)), IsMarked(text, r))

EntriesIn(text, ranges) == [i \in DOMAIN ranges |-> ReadEntry(text, ranges[i])]
ReadEntries(text, workflow) == EntriesIn(text, Ranges(text, workflow))

Pins(text) ==
  [hasOrbs |-> Section(text, "orbs:") # 0,
   pins |-> IF Section(text, "orbs:") = 0 THEN {}
            ELSE {text[j].value[1] : j \in {k \in Section(text, "orbs:") + 1
                                                    ..SectionEnd(text, "orbs:") - 1 :
                                               text[k].key = "pin:"}}]

-----------------------------------------------------------------------------
(* Splices *)

Splice(text, first, last, new) ==
  SubSeq(text, 1, first - 1) \o new \o SubSeq(text, last + 1, Len(text))

\* Mutant: the post-steps of an entry are not compared.
Differences_NoSteps(old, new) ==
  {f \in {"params", "requires", "context", "attach"} :
     CASE f = "params" -> ToSet(old.params) # ToSet(new.params)
       [] f = "requires" -> old.requires.items # new.requires.items
       [] f = "context" -> old.extras.context # new.extras.context
       [] OTHER -> old.extras.attach # new.extras.attach}

\* What the notes of a resync name; "order" when they name nothing.
Differences(old, new) ==
  {f \in {"params", "requires", "context", "attach", "store", "persist"} :
     CASE f = "params" -> ToSet(old.params) # ToSet(new.params)
       [] f = "requires" -> old.requires.items # new.requires.items
       [] f = "context" -> old.extras.context # new.extras.context
       [] f = "attach" -> old.extras.attach # new.extras.attach
       [] f = "store" -> old.extras.store # new.extras.store
       [] OTHER -> old.extras.persist # new.extras.persist}

ResyncNotes(old, new) ==
  LET said == Differences(old, new) \cup (IF old.marked THEN {} ELSE {"markers"})
  IN IF said = {} THEN {"order"} ELSE said

Rewritten(text, said, name, r, old, new, body) ==
  IF Body(text, r) = body /\ old.marked
  THEN [text |-> text, notes |-> said]
  ELSE [text |-> Splice(text, r.first, r.last, IF old.marked THEN body ELSE Wrapped(body)),
        notes |-> said \cup ({name} \X ResyncNotes(old, new))]

\* An entry is replaced unless it is in markers and reads exactly as it should.
Resync(text, said, job, r, old) ==
  LET new == Render(job, old.name)
  IN Rewritten(text, said, NewName(job), r, old, new, EntryText(new))

InsertEntry(text, job) ==
  LET at == JobsEnd(text, job.workflow)
  IN Splice(text, at, at - 1, Wrapped(EntryText(Render(job, NoName))))

SetPin(text, orb) ==
  LET at == SectionEnd(text, "orbs:")
  IN IF orb \in Pins(text).pins THEN text
     ELSE Splice(text, at, at - 1, <<Line(2, "pin:", <<orb>>)>>)

Extended(text, shape, start, name) ==
  IF Contains(shape.items, name) THEN text
  ELSE IF shape.form = "inline"
  THEN [text EXCEPT ![start + shape.at - 1].value = Append(@, name)]
  ELSE Splice(text, start + shape.last, start + shape.last - 1,
              <<Line(12, "- item", <<name>>)>>)

AppendAt(text, r, name) == Extended(text, RequiresShape(Body(text, r)), r.first, name)

\* The targets were found before any of them was changed: from the last to the
\* first, no change moves one that is still to come.
AppendRequires(text, ranges, entries, targets, name) ==
  LET From(s, i) == IF \E t \in targets : i = Named(entries, t)
                    THEN AppendAt(s, ranges[i], name) ELSE s
      after[n \in 0..Len(ranges)] ==
        IF n = 0 THEN text ELSE From(after[n - 1], Len(ranges) + 1 - n)
  IN after[Len(ranges)]

\* The job's own entry, inserted or brought up to date.
Place(text, said, job, ranges, entries, found) ==
  IF found = {} THEN [text |-> InsertEntry(text, job), notes |-> said]
  ELSE LET i == Min(found) IN Resync(text, said, job, ranges[i], entries[i])

\* The validation comes again with the entries as they are after it.
Required(placed, ranges, entries, targets, name) ==
  IF ~Patchable(entries, targets) THEN Refused
  ELSE [placed EXCEPT !.text = AppendRequires(@, ranges, entries, targets, name)]

RequiredBy(placed, workflow, targets, name) ==
  LET ranges == Ranges(placed.text, workflow)
  IN Required(placed, ranges, EntriesIn(placed.text, ranges), targets, name)

PlaceAmong(text, said, job, targets, ranges, entries, found) ==
  IF \/ Cardinality(found) > 1
     \/ \E i \in found : entries[i].requires.form \notin Readable
  THEN Refused
  ELSE RequiredBy(Place(text, said, job, ranges, entries, found), job.workflow, targets,
                  NewName(job))

PatchPinned(text, said, job, targets, ranges, entries) ==
  PlaceAmong(text, said, job, targets, ranges, entries, Candidates(job, entries))

\* wire_one_job
PatchOne(buffer, job, all) ==
  IF \/ JobsLine(buffer.text, job.workflow) = 0
     \/ ~Patchable(ReadEntries(buffer.text, job.workflow), External(job, all))
     \/ ~Pinnable(Pins(buffer.text), job)
  THEN Refused
  ELSE LET text == SetPin(buffer.text, Orb[job.orbJob])
           ranges == Ranges(text, job.workflow)
       IN PatchPinned(text, buffer.notes, Merged(job, all), External(job, all), ranges,
                      EntriesIn(text, ranges))

\* One refusal discards the buffer.
PatchNext(buffer, job, all) == IF buffer = Refused THEN Refused ELSE PatchOne(buffer, job, all)

\* wire_jobs_into_with_notes
Patch(text, all) ==
  LET patched[n \in 0..Len(all)] ==
        IF n = 0 THEN [text |-> text, notes |-> {}] ELSE PatchNext(patched[n - 1], all[n], all)
  IN patched[Len(all)]

Captures(workflow, entries, all) ==
  FlattenSeq([i \in DOMAIN entries |->
                If(/\ IsUndeclared(workflow, entries[i], all)
                   /\ entries[i].requires.form \in Readable,
                   <<Captured(workflow, entries[i])>>)])

\* discover_undeclared_jobs
Undeclared(text, all) ==
  LET names == WorkflowNames(text)
  IN FlattenSeq([k \in DOMAIN names |->
                   If(JobsLine(text, names[k]) # 0,
                      Captures(names[k], ReadEntries(text, names[k]), all))])

-----------------------------------------------------------------------------
Init ==
  /\ content \in Contents /\ \E pins \in Orders(content) : lines = Written(content, pins)
  /\ jobs \in Declarations
  /\ notes = {} /\ outcome = "none" /\ due = "none"
  /\ before = [content |-> content, jobs |-> jobs]
  /\ runs = 0 /\ edits = 0

\* The run ends with the jobs and the text it came to, where `meant` was due.
Finish(all, patched, meant) ==
  /\ IF patched = Refused
     THEN outcome' = "refused" /\ notes' = {} /\ UNCHANGED <<lines, jobs>>
     ELSE /\ outcome' = "wired" /\ notes' = patched.notes
          /\ lines' = patched.text /\ jobs' = all
  /\ IF meant = Refused
     THEN due' = "refused" /\ UNCHANGED content
     ELSE due' = "wired" /\ content' = meant

Attempt(all) ==
  Finish(all, Patch(lines, all), WireJobs(content, all))

\* A run of wire-ci on this file; jci-audit.toml is written with it.
Wire ==
  /\ runs < MaxRuns /\ runs' = runs + 1
  /\ Attempt(jobs \o Undeclared(lines, jobs))
  /\ before' = [content |-> content, jobs |-> jobs]
  /\ UNCHANGED edits

\* A maintainer leaves a blank line, or a comment as deep as what follows it. Above
\* a parameter, a colon in it matters to the scanners.
Layout ==
  /\ edits < MaxEdits /\ edits' = edits + 1
  /\ \E p \in 1..Len(lines) + 1 :
       LET rest == {j \in p..Len(lines) : lines[j].key # ""}
           depth == IF rest = {} THEN 0 ELSE lines[Min(rest)].depth
       IN /\ depth <= 10 \/ InLists
          /\ \E l \in {Blank, Line(depth, "#", <<>>)}
                        \cup {Line(10, "#:", <<w>>) : w \in {r \in Remarks : depth = 10}} :
               lines' = Splice(lines, p, p - 1, <<l>>)
  /\ notes' = {} /\ outcome' = "none" /\ due' = "none"
  /\ before' = [content |-> content, jobs |-> jobs]
  /\ UNCHANGED <<jobs, content, runs>>

Next == Wire \/ Layout

Spec == Init /\ [][Next]_vars

-----------------------------------------------------------------------------
(* Properties *)

\* What a run is about to capture is each entry's real content
\* (wire_ci.rs:1943-1945): all of it that [[ci.jobs]] has a field for, and
\* nothing that the entry does not say.
CapturesAreReal == ToSet(Undeclared(lines, jobs)) = ToSet(Discover(content, jobs))

\* Whatever blank lines and comments (Remarks apart) stand in a file, and however
\* often it is patched, it says what the rules of WireJobs make of what it said,
\* and is refused when they refuse it: no scan misses a line, takes one of another
\* entry, or is out of date when it is used (wire_ci.rs:87-92, 1894-1899).
SaysWhatIsMeant == /\ \E pins \in Orders(content) : Said(lines) = Written(content, pins)
                   /\ CapturesAreReal
                   /\ outcome = due

Lost(old, new) ==
  {f \in {"params", "requires", "context", "attach", "store", "persist"} :
     CASE f = "params" -> ~(ToSet(old.params) \subseteq ToSet(new.params))
       [] f = "requires" -> ~(ToSet(old.requires.items) \subseteq ToSet(new.requires.items))
       [] f = "context" -> ~(ToSet(old.extras.context) \subseteq ToSet(new.extras.context))
       [] f = "attach" -> old.extras.attach /\ ~new.extras.attach
       [] f = "store" -> ~(ToSet(old.extras.store) \subseteq ToSet(new.extras.store))
       [] OTHER -> ~(ToSet(old.extras.persist) \subseteq ToSet(new.extras.persist))}

\* What a run takes out of an entry's parameters, requires, context, workspace
\* and the post-steps it knows, a note about that job names, also when a capture
\* of the same run left it out (wire_ci.rs:1544-1548, 1608-1610).  What no scan
\* reads, bodies below parameters and other post-steps, goes without one.
LossIsNoted ==
  outcome = "wired" =>
    \A w \in DOMAIN content.workflows :
      \A i \in DOMAIN before.content.workflows[w] :
        LET old == before.content.workflows[w][i]
            new == content.workflows[w][i]
        IN \A f \in Lost(old, new) :
             \E j \in ToSet(jobs) : /\ j.workflow = w /\ Identifies(j, old)
                                    /\ <<NewName(j), f>> \in notes

\* No list of requirements names a job twice, since appending to one is a no-op
\* when the name is there (wire_ci.rs:1358-1359).
RequiredOnce ==
  LET said == Said(lines)
  IN \A i, j \in DOMAIN said :
       i < j /\ said[i].key = "- item" /\ said[i] = said[j]
         => \E k \in i..j : said[k].key # "- item"
=============================================================================
