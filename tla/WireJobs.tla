------------------------------- MODULE WireJobs -------------------------------
(***************************************************************************)
(* The two directions of `jci-audit wire-ci` on one CircleCI file, as      *)
(* functions of its content (wire_ci.rs): WireJobs patches the declared    *)
(* jobs into it, Discover captures the jobs of jci-audit's own orb that it *)
(* has and nobody declared.                                                *)
(*                                                                         *)
(* A job of a workflow's list is [orbJob, name, requires, params, extras,  *)
(* marked]; extras stands for context, attach_workspace and post-steps,    *)
(* and requires keeps the form the list is written in.  A [[ci.jobs]]      *)
(* entry of the file is [workflow, orbJob, versioned, jobName, requires,   *)
(* requiredBy, params, extras].  Names and orb jobs are of one sort.       *)
(***************************************************************************)
EXTENDS Naturals, FiniteSets, SequencesExt

CONSTANTS NoName,    \* no `name:` and no `job_name`
          NoExtras,
          Orb,       \* the orb of each orb job
          OwnOrb,    \* jci-audit's own
          Refused    \* the result when a job cannot be wired safely

NameOr(name, orbJob) == IF name = NoName THEN orbJob ELSE name
EffectiveName(entry) == NameOr(entry.name, entry.orbJob)
NewName(job) == NameOr(job.jobName, job.orbJob)

\* A list in any other form (anchors, comments, nested flow) is not rewritten.
Appendable == {"inline", "block"}
Readable == Appendable \cup {"absent"}

Identifies(job, entry) == \/ EffectiveName(entry) = NewName(job)
                          \/ entry.orbJob = job.orbJob

Exact(job, entries) ==
  {i \in DOMAIN entries : EffectiveName(entries[i]) = NewName(job)}

\* Mutant: a declared name that no entry has is not looked for elsewhere.
Candidates_ByName(job, entries) == Exact(job, entries)

\* The entries a job may stand for: more than one is an ambiguity.
Candidates(job, entries) ==
  IF Exact(job, entries) # {} THEN {Min(Exact(job, entries))}
  ELSE {i \in DOMAIN entries : entries[i].orbJob = job.orbJob}

\* Mutant: a name that is not declared is dropped.
Render_NameCleared(job, kept) ==
  [orbJob |-> job.orbJob, name |-> job.jobName,
   requires |-> [form |-> IF job.requires = <<>> THEN "absent" ELSE "inline",
                 items |-> job.requires],
   params |-> job.params, extras |-> job.extras, marked |-> TRUE]

\* The entry a job becomes, in managed markers; an entry keeps its own name
\* when none is declared, and everything else mirrors the declaration.
Render(job, kept) ==
  [orbJob |-> job.orbJob,
   name |-> IF job.jobName = NoName THEN kept ELSE job.jobName,
   requires |-> [form |-> IF job.requires = <<>> THEN "absent" ELSE "inline",
                 items |-> job.requires],
   params |-> job.params, extras |-> job.extras, marked |-> TRUE]

IsDeclared(workflow, name, jobs) ==
  \E j \in ToSet(jobs) : j.workflow = workflow /\ NewName(j) = name

\* The required_by targets that are patched in place: no declared job's own.
External(job, jobs) ==
  {t \in ToSet(job.requiredBy) : ~IsDeclared(job.workflow, t, jobs)}

\* Mutant: what a sibling's required_by asks for is left to that sibling.
Merged_Alone(job, jobs) == job

\* What a sibling's required_by asks for is part of the job's own requires.
Asks(other, job) == /\ other.workflow = job.workflow
                    /\ Contains(other.requiredBy, NewName(job))

Add(names, other, job) ==
  IF Asks(other, job) /\ ~Contains(names, NewName(other))
  THEN Append(names, NewName(other)) ELSE names

Merged(job, jobs) ==
  LET names[n \in 0..Len(jobs)] ==
        IF n = 0 THEN job.requires ELSE Add(names[n - 1], jobs[n], job)
  IN [job EXCEPT !.requires = names[Len(jobs)]]

Named(entries, name) ==
  SelectInSeq(entries, LAMBDA e : EffectiveName(e) = name)

Patchable(entries, targets) ==
  \A t \in targets : LET i == Named(entries, t)
                     IN i # 0 /\ entries[i].requires.form \in Appendable

\* Mutant: the name is appended whether or not it is there.
AppendTo_Again(entries, targets, name) ==
  [i \in DOMAIN entries |->
     IF \E t \in targets : i = Named(entries, t)
     THEN [entries[i] EXCEPT !.requires.items = Append(@, name)]
     ELSE entries[i]]

AppendTo(entries, targets, name) ==
  [i \in DOMAIN entries |->
     IF /\ \E t \in targets : i = Named(entries, t)
        /\ ~Contains(entries[i].requires.items, name)
     THEN [entries[i] EXCEPT !.requires.items = Append(@, name)]
     ELSE entries[i]]

\* A pin that is missing needs an `orbs:` section and a version: jci-audit's
\* own has a default, another orb's must be declared.
Pinnable(content, job) ==
  LET orb == Orb[job.orbJob]
  IN \/ orb \in content.pins
     \/ content.hasOrbs /\ (job.versioned \/ orb = OwnOrb)

\* wire_one_job: targets are proved safe to patch before and after the job's
\* own entry has been resynced or inserted.
WireOne(content, job, jobs) ==
  IF job.workflow \notin DOMAIN content.workflows THEN Refused ELSE
  LET entries == content.workflows[job.workflow]
      targets == External(job, jobs)
      found == Candidates(job, entries)
      mine == Merged(job, jobs)
      placed == IF found = {} THEN Append(entries, Render(mine, NoName))
                ELSE [entries EXCEPT ![Min(found)] = Render(mine, @.name)]
  IN IF /\ Patchable(entries, targets)
        /\ Pinnable(content, job)
        /\ Cardinality(found) <= 1
        /\ \A i \in found : entries[i].requires.form \in Readable
        /\ Patchable(placed, targets)
     THEN [content EXCEPT
             !.pins = @ \cup {Orb[job.orbJob]},
             !.workflows[job.workflow] = AppendTo(placed, targets, NewName(job))]
     ELSE Refused

\* One refusal discards the buffer.
WireNext(content, job, jobs) ==
  IF content = Refused THEN Refused ELSE WireOne(content, job, jobs)

\* wire_jobs_into: in order, in one buffer.
WireJobs(content, jobs) ==
  LET wired[n \in 0..Len(jobs)] ==
        IF n = 0 THEN content ELSE WireNext(wired[n - 1], jobs[n], jobs)
  IN wired[Len(jobs)]

Captured(workflow, entry) ==
  [workflow |-> workflow, orbJob |-> entry.orbJob,
   versioned |-> FALSE, jobName |-> entry.name, requires |-> entry.requires.items,
   requiredBy |-> <<>>, params |-> entry.params, extras |-> NoExtras]

\* A job of the own orb that no declaration stands for.
IsUndeclared(workflow, entry, jobs) ==
  /\ Orb[entry.orbJob] = OwnOrb
  /\ ~\E d \in ToSet(jobs) : d.workflow = workflow /\ Identifies(d, entry)

\* discover_undeclared_jobs; a list that cannot be read is noted and skipped.
\* Nothing tells apart the order in which they are captured.
Discover(content, jobs) ==
  LET In(workflow) ==
        LET entries == content.workflows[workflow]
        IN {i \in DOMAIN entries : /\ IsUndeclared(workflow, entries[i], jobs)
                                   /\ entries[i].requires.form \in Readable}
      found == SetToSeq(UNION {{w} \X In(w) : w \in DOMAIN content.workflows})
  IN [n \in DOMAIN found |->
        Captured(found[n][1], content.workflows[found[n][1]][found[n][2]])]

\* No two jobs may stand for one entry, now or once either has been applied, and
\* no required_by names an entry by what a job is about to make of it.
Apart(content, jobs) ==
  \A j, k \in ToSet(jobs) :
    j.workflow = k.workflow /\ j.workflow \in DOMAIN content.workflows =>
      LET entries == content.workflows[j.workflow]
          names == {EffectiveName(entries[i]) : i \in Candidates(k, entries)}
      IN /\ names \cap External(j, jobs) = {}
         /\ j # k => /\ NewName(j) \notin names \cup {NewName(k)}
                     /\ Candidates(j, entries) \cap Candidates(k, entries) = {}
                     /\ j.orbJob = k.orbJob => Exact(j, entries) # {}
=============================================================================
