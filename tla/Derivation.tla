------------------------------ MODULE Derivation ------------------------------
(***************************************************************************)
(* `jci-audit sync`, `sync --check` (sync.rs) and `init` (init.rs): the    *)
(* files derived from deny.toml.  .cargo/audit.toml is rendered whole; an  *)
(* about.toml holds both a derived part and what its maintainer wrote.     *)
(* sync writes in place, a file at a time, and reads deny.toml twice; init *)
(* replaces its two files atomically.  A run may fail or be killed at any  *)
(* step, and deny.toml may be edited under it.                             *)
(***************************************************************************)
EXTENDS Naturals

CONSTANTS Members,     \* the workspace members
          Crates, Licences, Ids,
          Absent,      \* a key that is not there
          Used,        \* [member, dev-dependencies ignored -> licences used]
          Reaches,     \* likewise, the crates reached
          Template,    \* the deny.toml of init
          NoFile, Broken,   \* no file; one that does not parse or merge
          Denies, Abouts,   \* what a maintainer may write in them
          MaxRuns, MaxEdits   \* bounds

\* A list of licences for some of the crates.
Lists == UNION {[S -> SUBSET Licences] : S \in SUBSET Crates}

Deny == [ignores : {Absent} \cup SUBSET Ids, allow : {Absent} \cup SUBSET Licences,
         exceptions : Lists]

\* accepted is derived, and so is each crate's list; pinned are the crates whose
\* attribution is clarified by hand, dev is ignore-dev-dependencies.
About == [accepted : {Absent} \cup SUBSET Licences,
          lists : Lists, pinned : SUBSET Crates, dev : BOOLEAN]

ASSUME DerivationAssumption ==
  /\ Used \in [Members -> [BOOLEAN -> SUBSET Licences]]
  /\ Reaches \in [Members -> [BOOLEAN -> SUBSET Crates]]
  /\ Template \in Deny /\ Template.ignores = {} /\ Template.allow # Absent
  /\ Denies \subseteq Deny /\ Abouts \subseteq About
  /\ \A s \in (SUBSET Ids) \cup (SUBSET Licences) : Absent # s
  /\ \A f \in Deny \cup About \cup (SUBSET Ids) : f \notin {NoFile, Broken}
  /\ NoFile # Broken
  /\ MaxRuns \in Nat /\ MaxEdits \in Nat

VARIABLES deny, audit, about,   \* the files; audit is its set of ignores
          pc, mode,
          policy,     \* deny.toml as the run last read it
          at, text,   \* the about.toml it is writing, and what
          todo,       \* the members it has yet to go through, in some order
          drifted, outcome,
          hand,       \* history: each about.toml as its maintainer left it
          cut,        \* history: those a run was cut short in writing since
          moved,      \* history: was deny.toml edited since the run began?
          runs, edits

files == <<deny, audit, about>>
run == <<pc, mode, policy, at, text, todo, drifted, outcome>>
history == <<hand, cut, moved>>
vars == <<files, run, history, runs, edits>>

FilesOK ==
  /\ deny \in {NoFile} \cup Deny
  /\ audit \in {NoFile, Broken} \cup SUBSET Ids
  /\ about \in [Members -> {NoFile, Broken} \cup About]
  /\ hand \in [Members -> {NoFile, Broken} \cup About]
  /\ cut \subseteq Members /\ moved \in BOOLEAN

RunOK ==
  /\ pc \in {"idle", "fillAudit", "readPolicy", "member", "fillAbout", "initAudit"}
  /\ mode \in {"sync", "check", "init", "force"}
  /\ policy \in Deny /\ at \in Members /\ text \in About
  /\ todo \subseteq Members
  /\ drifted \in BOOLEAN /\ outcome \in {"none", "ok", "drift", "failed"}

TypeOK ==
  /\ FilesOK /\ RunOK
  /\ runs \in 0..MaxRuns /\ edits \in 0..MaxEdits

OrNone(key) == IF key = Absent THEN {} ELSE key

Ignores(d) == OrNone(d.ignores)

\* Mutant: a crate's list stays when its exception goes.
Merged_Stale(m, a, d) ==
  LET excepted == DOMAIN d.exceptions \cap Reaches[m][a.dev]
  IN [a EXCEPT !.accepted = OrNone(d.allow) \cap Used[m][a.dev],
               !.lists = [c \in excepted \cup DOMAIN a.lists |->
                            IF c \in excepted THEN d.exceptions[c] ELSE a.lists[c]]]

\* merge_about_toml: the licences allowed and used, and a list for every
\* exception that is reached; a list without one goes, its table with it
\* unless something else is in that.
Merged(m, a, d) ==
  [a EXCEPT !.accepted = OrNone(d.allow) \cap Used[m][a.dev],
            !.lists = [c \in DOMAIN d.exceptions \cap Reaches[m][a.dev] |->
                         d.exceptions[c]]]

\* merge_deny_toml: a key that is there is left as it is.
Completed(d) ==
  [d EXCEPT !.ignores = IF @ = Absent THEN Template.ignores ELSE @,
            !.allow = IF @ = Absent THEN Template.allow ELSE @]

\* What is in a file whose write was cut short: nothing, a piece that does not
\* parse, or one that does and ends before the tables.
NoLists == [c \in {} |-> {}]
Blank == [accepted |-> Absent, lists |-> NoLists, pinned |-> {}, dev |-> FALSE]
Pieces(a) == {Broken, Blank, [a EXCEPT !.lists = NoLists, !.pinned = {}]}

Init ==
  /\ deny \in Denies \cup {NoFile} /\ audit \in {NoFile, {}}
  /\ about \in [Members -> Abouts \cup {NoFile}]
  /\ pc = "idle" /\ mode = "check" /\ policy = Template /\ at \in Members /\ text = Blank
  /\ todo = {} /\ drifted = FALSE /\ outcome = "none"
  /\ hand = about /\ cut = {} /\ moved = FALSE
  /\ runs = 0 /\ edits = 0

-----------------------------------------------------------------------------
(* sync *)

Starts == pc = "idle" /\ runs < MaxRuns /\ runs' = runs + 1 /\ moved' = FALSE
Fails == pc' = "idle" /\ outcome' = "failed"

\* The first of two readings of deny.toml; then audit.toml is compared with it,
\* and cut to nothing if it is to be written.
SyncAudit ==
  /\ Starts /\ deny # NoFile
  /\ mode' \in {"sync", "check"}
  /\ policy' = deny /\ outcome' = "none"
  /\ IF audit # Ignores(deny) /\ mode' = "sync"
     THEN pc' = "fillAudit" /\ audit' = Broken
     ELSE pc' = "readPolicy" /\ UNCHANGED audit
  /\ drifted' = (audit # Ignores(deny) /\ mode' = "check")
  /\ UNCHANGED <<deny, about, at, text, todo, hand, cut, edits>>

\* There is no deny.toml here or above.
NoDeny ==
  /\ Starts /\ deny = NoFile
  /\ Fails
  /\ UNCHANGED <<files, mode, policy, at, text, todo, drifted, hand, cut, edits>>

FillAudit ==
  /\ pc = "fillAudit" /\ pc' = "readPolicy"
  /\ audit' = Ignores(policy)
  /\ UNCHANGED <<deny, about, mode, policy, at, text, todo, drifted, outcome,
                 history, runs, edits>>

\* deny.toml is read again, and the members with an about.toml are listed.
ReadPolicy ==
  /\ pc = "readPolicy" /\ pc' = "member"
  /\ policy' = deny
  /\ todo' = {m \in Members : about[m] # NoFile}
  /\ UNCHANGED <<files, mode, at, text, drifted, outcome, history, runs, edits>>

\* Mutant: an about.toml that does not parse is begun anew.
Unreadable_Restarted ==
  /\ pc = "member" /\ pc' = "fillAbout"
  /\ \E m \in todo : /\ about[m] = Broken
                    /\ at' = m /\ text' = Merged(m, Blank, policy)
  /\ UNCHANGED <<files, mode, policy, todo, drifted, outcome, history, runs, edits>>

\* One that does not parse ends the run; the members before it stay written.
Unreadable ==
  /\ pc = "member" /\ \E m \in todo : about[m] = Broken
  /\ Fails
  /\ UNCHANGED <<files, mode, policy, at, text, todo, drifted, history, runs, edits>>

\* Each member in turn is in sync or has drifted, which is all that --check asks.
Compare ==
  /\ pc = "member"
  /\ \E m \in todo :
       LET same == about[m] = Merged(m, about[m], policy)
       IN /\ about[m] # Broken /\ (same \/ mode = "check")
          /\ drifted' = (drifted \/ ~same)
          /\ todo' = todo \ {m}
  /\ UNCHANGED <<files, pc, mode, policy, at, text, outcome, history, runs, edits>>

\* One that has drifted is cut to nothing, to be written in place.
OpenAbout ==
  /\ pc = "member" /\ pc' = "fillAbout" /\ mode = "sync"
  /\ \E m \in todo :
       /\ about[m] # Broken /\ about[m] # Merged(m, about[m], policy)
       /\ at' = m /\ text' = Merged(m, about[m], policy)
       /\ about' = [about EXCEPT ![m] = Blank]
  /\ UNCHANGED <<deny, audit, mode, policy, todo, drifted, outcome, history,
                 runs, edits>>

FillAbout ==
  /\ pc = "fillAbout" /\ pc' = "member"
  /\ about' = [about EXCEPT ![at] = text]
  /\ todo' = todo \ {at}
  /\ UNCHANGED <<deny, audit, mode, policy, at, text, drifted, outcome, history,
                 runs, edits>>

Done ==
  /\ pc = "member" /\ todo = {} /\ pc' = "idle"
  /\ outcome' = IF drifted THEN "drift" ELSE "ok"
  /\ UNCHANGED <<files, mode, policy, at, text, todo, drifted, history, runs, edits>>

\* A tool or a write that fails, or a kill; a file being written stays cut.
Abort ==
  /\ pc # "idle" /\ Fails
  /\ IF pc = "fillAbout"
     THEN /\ \E piece \in Pieces(text) : about' = [about EXCEPT ![at] = piece]
          /\ cut' = cut \cup {at}
     ELSE UNCHANGED <<about, cut>>
  /\ UNCHANGED <<deny, audit, mode, policy, at, text, todo, drifted, hand, moved,
                 runs, edits>>

-----------------------------------------------------------------------------
(* init *)

\* Mutant: a deny.toml without an ignore list counts as none.
InitDeny_Anew ==
  /\ Starts /\ mode' \in {"init", "force"}
  /\ deny' = IF deny = NoFile \/ Ignores(deny) = {} \/ mode' = "force"
             THEN Template ELSE Completed(deny)
  /\ policy' = deny' /\ outcome' = "none" /\ pc' = "initAudit"
  /\ UNCHANGED <<audit, about, at, text, todo, drifted, hand, cut, edits>>

\* The template, or, short of --force, what is there and the keys it lacks.
InitDeny ==
  /\ Starts /\ mode' \in {"init", "force"}
  /\ deny' = IF deny = NoFile \/ mode' = "force" THEN Template ELSE Completed(deny)
  /\ policy' = deny' /\ outcome' = "none" /\ pc' = "initAudit"
  /\ UNCHANGED <<audit, about, at, text, todo, drifted, hand, cut, edits>>

\* Mutant: an audit.toml that is there is left alone.
InitAudit_Missing ==
  /\ pc = "initAudit" /\ pc' = "idle"
  /\ audit' = (IF audit = NoFile THEN Ignores(policy) ELSE audit) /\ outcome' = "ok"
  /\ UNCHANGED <<deny, about, mode, policy, at, text, todo, drifted, history, runs, edits>>

InitAudit ==
  /\ pc = "initAudit" /\ pc' = "idle"
  /\ audit' = Ignores(policy) /\ outcome' = "ok"
  /\ UNCHANGED <<deny, about, mode, policy, at, text, todo, drifted, history, runs, edits>>

-----------------------------------------------------------------------------
(* The maintainer *)

Edits == edits < MaxEdits /\ edits' = edits + 1

EditDeny ==
  /\ Edits
  /\ deny' \in Denies /\ moved' = TRUE
  /\ UNCHANGED <<audit, about, run, hand, cut, runs>>

\* What a cut left is put right by hand, or something else broken by hand.
EditAbout ==
  /\ Edits /\ pc = "idle"
  /\ \E m \in Members, a \in Abouts \cup {NoFile, Broken} :
       /\ about' = [about EXCEPT ![m] = a]
       /\ hand' = [hand EXCEPT ![m] = a]
       /\ cut' = cut \ {m}
  /\ moved' = TRUE
  /\ UNCHANGED <<deny, audit, run, runs>>

Next == \/ SyncAudit \/ NoDeny \/ FillAudit \/ ReadPolicy \/ Unreadable \/ Compare
        \/ OpenAbout \/ FillAbout \/ Done \/ Abort \/ InitDeny \/ InitAudit
        \/ EditDeny \/ EditAbout

Spec == Init /\ [][Next]_vars

-----------------------------------------------------------------------------
(* Properties *)

Settled == pc = "idle" /\ outcome = "ok" /\ ~moved

\* After a run that reports success, or a check that finds no drift, cargo-audit
\* ignores what deny.toml ignores and nothing else, whatever was cut or edited
\* before (sync.rs:341-363, init.rs:204-220).
AuditAgrees == Settled => audit = Ignores(deny)

\* And every about.toml accepts what deny.toml allows and excepts of what its
\* crate uses, and no more: a run that was cut short and repeated ends there
\* like any other (sync.rs:201-275, 478-533).
AboutAgrees ==
  Settled /\ mode \in {"sync", "check"} =>
    \A m \in Members : about[m] # NoFile =>
      /\ about[m] # Broken
      /\ about[m].accepted = OrNone(deny.allow) \cap Used[m][about[m].dev]
      /\ \A c \in Crates :
           IF c \in DOMAIN deny.exceptions /\ c \in Reaches[m][about[m].dev]
           THEN c \in DOMAIN about[m].lists /\ about[m].lists[c] = deny.exceptions[c]
           ELSE c \notin DOMAIN about[m].lists

\* What a maintainer wrote in an about.toml is only lost with the write that
\* was cut short in it: no failure elsewhere, and no number of runs, touches it
\* (sync.rs:206-211).
Kept(m) == IF hand[m] \in {NoFile, Broken} THEN about[m] = hand[m]
           ELSE /\ about[m] \notin {NoFile, Broken}
                /\ about[m].pinned = hand[m].pinned /\ about[m].dev = hand[m].dev
BeingWritten(m) == pc = "fillAbout" /\ m = at
HandKept == \A m \in Members : m \in cut \/ BeingWritten(m) \/ Kept(m)

\* Only the maintainer, and init --force, take a key from deny.toml or change
\* what it says: a user's ignores and exceptions survive (init.rs:105-109,
\* 166-173).
Extends(new, old) ==
  /\ old.ignores # Absent => new.ignores = old.ignores
  /\ old.allow # Absent => new.allow = old.allow
  /\ new.exceptions = old.exceptions
PolicyKept ==
  [][deny # NoFile => \/ edits' # edits
                      \/ pc = "idle" /\ mode' = "force"
                      \/ deny' # NoFile /\ Extends(deny', deny)]_vars

=============================================================================
