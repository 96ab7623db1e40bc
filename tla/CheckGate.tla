------------------------------- MODULE CheckGate -------------------------------
(***************************************************************************)
(* `jci-audit check` (check.rs, exceptions.rs, diagnostics.rs) and         *)
(* `jci-audit prune` (prune.rs): the two commands that judge a tree and    *)
(* change nothing in it.  Each runs cargo-deny, cargo-audit, cargo-about   *)
(* and cargo one after the other, and reads deny.toml at other moments     *)
(* than they do: the tree, the advisory database and the tools may change  *)
(* between any two steps.                                                  *)
(***************************************************************************)
EXTENDS Naturals

CONSTANTS Members,           \* the workspace members
          Crates, Versions, Licences, Ids,
          Informational,     \* the advisories that cargo-audit only warns of
          Coded,             \* those of them it warns of in a line "warning[code]:"
          Affects,           \* [advisory -> the <<crate, version>>s it is about]
          LicenceOf,         \* [crate -> [version -> its licence]]
          Uses,              \* [member -> the crates it reaches]
          AnyVersion,        \* the version of a skip that names none
          NoFile, Broken,    \* no file; one that cannot be read or parsed
          Start,             \* the trees at first
          Denies, Lockings, Abouts, Notices, Toolings,   \* what edits put in them
          MaxRuns, MaxEdits  \* bounds

Locks == [Crates -> SUBSET Versions]
Skips == [name : Crates, version : Versions \cup {AnyVersion}]
Deny == [ignores : SUBSET Ids, skips : SUBSET Skips, allow : SUBSET Licences,
         multiple : {"warn", "deny"}]
Tools == {"deny", "audit", "about", "cargo"}

\* What a run looks at.  Notices are known by the lockfile they were rendered
\* for; a crate without them, or without their template, has none.
Trees == [deny : {Broken} \cup Deny, lock : Locks, db : SUBSET Ids,
          audit : {NoFile} \cup SUBSET Ids,
          about : [Members -> {NoFile, Broken} \cup SUBSET Licences],
          notices : [Members -> {NoFile, Broken} \cup Locks],
          tools : SUBSET Tools]

ASSUME CheckAssumption ==
  /\ Informational \subseteq Ids /\ Coded \subseteq Informational
  /\ Affects \in [Ids -> SUBSET (Crates \X Versions)]
  /\ LicenceOf \in [Crates -> [Versions -> Licences]]
  /\ Uses \in [Members -> SUBSET Crates]
  /\ AnyVersion \notin Versions
  /\ NoFile # Broken
  /\ Start \subseteq Trees
  /\ Denies \subseteq {Broken} \cup Deny /\ Lockings \subseteq Locks
  /\ Abouts \subseteq {NoFile, Broken} \cup SUBSET Licences
  /\ Notices \subseteq {NoFile, Broken} \cup Locks
  /\ Toolings \subseteq SUBSET Tools
  /\ MaxRuns \in Nat /\ MaxEdits \in Nat

VARIABLES tree,
          pc, command,
          asked,       \* the options of the run
          said,        \* cargo-deny's diagnostics, by code and subject
          failed,      \* the steps that failed
          warnings,    \* the codes counted as warnings
          stale, inForce, duplicates, named,   \* the rest of the report
          todo,        \* the crates yet to be resolved, or compared
          again,       \* those to compare afterwards
          configured, dead,   \* prune: the ignores, and the ones to remove
          scratch,     \* is there a working directory in the temporary one?
          outcome,
          seen,        \* history: the trees there were since the run began
          runs, edits

report == <<said, failed, warnings, stale, inForce, duplicates, named>>
loop == <<todo, again>>
pruning == <<configured, dead, scratch>>
vars == <<tree, pc, command, asked, report, loop, pruning, outcome, seen, runs, edits>>

Options == {"warnings", "exceptions", "licences", "notices", "full", "check"}
Codes == {"duplicate", "unmatched-skip", "unnecessary-skip", "license-not-encountered",
          "rejected", "vulnerability", "informational", "license-set-reduced",
          "license-notices-drifted"}
Steps == {"cargo deny", "cargo audit", "about.toml", "cargo-about", "notices"}

TypeOK ==
  /\ tree \in Trees /\ seen \subseteq Trees
  /\ pc \in {"idle", "deny", "readDeny", "naked", "audit", "sync", "resolve", "notices",
             "report", "ignores", "nakedAudit", "pruned"}
  /\ command \in {"check", "prune"} /\ asked \subseteq Options
  /\ said \subseteq Codes \X (Crates \cup Skips \cup Licences \cup Ids)
  /\ failed \subseteq Steps /\ warnings \subseteq Codes
  /\ stale \subseteq Skips /\ inForce \subseteq Skips
  /\ duplicates \subseteq Crates /\ named \subseteq Licences
  /\ todo \subseteq Members /\ again \subseteq Members
  /\ configured \subseteq Ids /\ dead \subseteq Ids /\ scratch \in BOOLEAN
  /\ outcome \in {"none", "ok", "failed", "error"}
  /\ runs \in 0..MaxRuns /\ edits \in 0..MaxEdits

-----------------------------------------------------------------------------
(* What the tools find in a tree *)

Firing(w) == {i \in w.db : \E p \in Affects[i] : p[2] \in w.lock[p[1]]}

CarriedIn(lock, crates) == UNION {{LicenceOf[c][v] : v \in lock[c]} : c \in crates}

Matched(w, s) == IF s.version = AnyVersion THEN w.lock[s.name]
                 ELSE w.lock[s.name] \cap {s.version}

Several(S) == \E a, b \in S : a # b

\* The crates in several versions that no skip accounts for.
Duplicated(w, skips) ==
  {c \in Crates : Several({v \in w.lock[c] :
                             \A s \in skips : s.name = c => v \notin Matched(w, s)})}

\* A skip matching nothing, or a crate that is in one version only.
Unmatched(w) == {s \in w.deny.skips : Matched(w, s) = {}}
Unnecessary(w) == {s \in w.deny.skips : Matched(w, s) # {} /\ ~Several(w.lock[s.name])}

Vulnerable(w) == Firing(w) \ w.deny.ignores
Rejected(w) == CarriedIn(w.lock, Crates) \ w.deny.allow
NotEncountered(w) == w.deny.allow \ CarriedIn(w.lock, Crates)

Diagnostics(w) ==
  ({"duplicate"} \X Duplicated(w, w.deny.skips))
    \cup ({"unmatched-skip"} \X Unmatched(w))
    \cup ({"unnecessary-skip"} \X Unnecessary(w))
    \cup ({"license-not-encountered"} \X NotEncountered(w))
    \cup ({"rejected"} \X Rejected(w))
    \cup ({"vulnerability"} \X Vulnerable(w))

DenyPasses(w) ==
  /\ Vulnerable(w) = {} /\ Rejected(w) = {}
  /\ w.deny.multiple = "deny" => Duplicated(w, w.deny.skips) = {}

\* cargo-audit applies the derived file, not deny.toml.
Suppressed(w) == IF w.audit = NoFile THEN {} ELSE w.audit
Alarms(w) == (Firing(w) \ Suppressed(w)) \ Informational
AuditWarnings(w) == (Firing(w) \ Suppressed(w)) \cap Informational

Works(w, t) == {t, "cargo"} \subseteq w.tools

\* The crates with an about.toml; what each should accept; can cargo-about
\* attribute every licence with what it does accept?
Listed(w) == {m \in Members : w.about[m] # NoFile}
Derived(w, m) == w.deny.allow \cap CarriedIn(w.lock, Uses[m])
Resolves(w, m) == /\ Works(w, "about") /\ w.about[m] \notin {NoFile, Broken}
                  /\ CarriedIn(w.lock, Uses[m]) \subseteq w.about[m]

-----------------------------------------------------------------------------
(* What jci-audit makes of it *)

\* stale_skip_names: of the skip only the crate's name is read back.
StaleNames(lines) ==
  {d[2].name : d \in {e \in lines : e[1] \in {"unmatched-skip", "unnecessary-skip"}}}

\* accepted_warnings: the skips that cargo-deny calls stale, by name.
StaleAmong(skips, lines) == {s \in skips : s.name \in StaleNames(lines)}

\* count_diagnostics, of which only the codes matter.
Counted(lines) == {d[1] : d \in lines}

\* duplicate_crate_names, and which of them no skip in force accounts for.
DuplicatesAmong(lines) == {c \in Crates : <<"duplicate", c>> \in lines}
Unaccounted(lines, skips) ==
  {c \in DuplicatesAmong(lines) : \A s \in skips : s.name # c}

\* unused_license_names, which not every diagnostic yields.
UnusedAmong(lines) == {l \in Licences : <<"license-not-encountered", l>> \in lines}

\* The licences that notices rendered for a lockfile list.
Overview(lock, m) == CarriedIn(lock, Uses[m])

\* stale_notices for one crate: a render that fails, notices that cannot be
\* read, or a licence that is new: "stale".  Notices that list no licence at all
\* cannot be compared by their licences.
Verdict(w, m) ==
  IF w.notices[m] = NoFile THEN "none"
  ELSE IF ~Resolves(w, m) \/ w.notices[m] = Broken THEN "stale"
  ELSE LET old == Overview(w.notices[m], m)
           new == Overview(w.lock, m)
       IN IF \A c \in Uses[m] : w.notices[m][c] = w.lock[c] THEN "current"
          ELSE IF new = {} \/ ~(new \subseteq old) THEN "stale"
          ELSE IF new = old THEN "drifted" ELSE "reduced"

-----------------------------------------------------------------------------
(* The runs *)

Init ==
  /\ tree \in Start /\ seen = {tree}
  /\ pc = "idle" /\ command = "check" /\ asked = {}
  /\ said = {} /\ failed = {} /\ warnings = {}
  /\ stale = {} /\ inForce = {} /\ duplicates = {} /\ named = {}
  /\ todo = {} /\ again = {} /\ configured = {} /\ dead = {} /\ scratch = FALSE
  /\ outcome = "none" /\ runs = 0 /\ edits = 0

Quit(result) == pc' = "idle" /\ outcome' = result
Same == UNCHANGED <<tree, command, asked, seen, runs, edits>>

\* The preflight of the tools the command needs, each asked for its version
\* through cargo.
Begin ==
  /\ pc = "idle" /\ runs < MaxRuns /\ runs' = runs + 1
  /\ command' \in {"check", "prune"}
  /\ asked' \in IF command' = "check" THEN SUBSET (Options \ {"check"}) ELSE SUBSET {"check"}
  /\ LET needed == IF command' = "check" THEN Tools ELSE {"audit"}
     IN IF \A t \in needed : Works(tree, t)
        THEN /\ pc' = IF command' = "check" THEN "deny" ELSE "ignores"
             /\ outcome' = "none" /\ scratch' = (scratch \/ command' = "prune")
        ELSE Quit("error") /\ UNCHANGED scratch
  /\ seen' = {tree}
  /\ said' = {} /\ failed' = {} /\ warnings' = {}
  /\ stale' = {} /\ inForce' = {} /\ duplicates' = {} /\ named' = {}
  /\ todo' = {} /\ again' = {} /\ configured' = {} /\ dead' = {}
  /\ UNCHANGED <<tree, edits>>

\* A plugin that is not there fails; without cargo nothing runs at all, and the
\* whole check ends.  On a deny.toml that is missing cargo-deny goes by its own
\* defaults: what it then says is of no account, since the run fails later.
RunDeny ==
  /\ pc = "deny"
  /\ IF "cargo" \notin tree.tools
     THEN Quit("error") /\ UNCHANGED <<said, warnings, failed>>
     ELSE /\ pc' = "readDeny" /\ UNCHANGED outcome
          /\ said' = IF "deny" \in tree.tools /\ tree.deny # Broken
                     THEN Diagnostics(tree) ELSE {}
          /\ warnings' = Counted(said')
          /\ failed' \in {{}, {"cargo deny"}}
          /\ "deny" \notin tree.tools => failed' # {}
          /\ "deny" \in tree.tools /\ tree.deny # Broken => (failed' = {}) = DenyPasses(tree)
  /\ Same /\ UNCHANGED <<stale, inForce, duplicates, named, loop, pruning>>

\* Mutant: the two lists are swapped.
ReadDeny_Swapped ==
  /\ pc = "readDeny" /\ pc' = "audit"
  /\ LET skips == IF tree.deny = Broken THEN {} ELSE tree.deny.skips
     IN /\ inForce' = StaleAmong(skips, said)
        /\ stale' = skips \ inForce'
  /\ duplicates' = {} /\ named' = {}
  /\ Same /\ UNCHANGED <<said, failed, warnings, loop, pruning, outcome>>

\* deny.toml is read for its skips after cargo-deny has judged it; what cannot
\* be read counts for no skip.  A licence may not be named in what was said.
ReadDeny ==
  /\ pc = "readDeny"
  /\ LET skips == IF tree.deny = Broken THEN {} ELSE tree.deny.skips
     IN /\ stale' = StaleAmong(skips, said)
        /\ inForce' = skips \ stale'
  /\ duplicates' = Unaccounted(said, inForce')
  /\ named' \in SUBSET UnusedAmong(said)
  /\ LET naked == "full" \in asked /\ inForce' # {}
     IN pc' = (IF naked THEN "naked" ELSE "audit") /\ scratch' \in {scratch, scratch \/ naked}
  /\ Same /\ UNCHANGED <<said, failed, warnings, loop, configured, dead, outcome>>

\* Mutant: the warnings of the informational pass are counted.
Naked_Counted ==
  /\ pc = "naked" /\ pc' = "audit" /\ scratch' = FALSE
  /\ warnings' = warnings \cup {"duplicate"}
  /\ Same /\ UNCHANGED <<said, failed, stale, inForce, duplicates, named, loop,
                         configured, dead, outcome>>

\* cargo-deny again, with the skips left out, to show what they accept; whether
\* it runs at all, and what it says, goes nowhere.
Naked ==
  /\ pc = "naked" /\ pc' = "audit" /\ scratch' = FALSE
  /\ Same /\ UNCHANGED <<report, loop, configured, dead, outcome>>

\* Mutant: only what cargo-deny warns of is counted.
RunAudit_Uncounted ==
  /\ pc = "audit"
  /\ IF "cargo" \notin tree.tools
     THEN Quit("error") /\ UNCHANGED failed
     ELSE /\ pc' = "sync" /\ UNCHANGED outcome
          /\ failed' = failed \cup (IF "audit" \in tree.tools /\ Alarms(tree) = {}
                                    THEN {} ELSE {"cargo audit"})
  /\ Same /\ UNCHANGED <<said, warnings, stale, inForce, duplicates, named, loop, pruning>>

\* surface, of cargo-audit: its warnings count like cargo-deny's, if diagnostic_code
\* finds a code in them.
AuditCounted(w) ==
  IF "audit" \in w.tools /\ AuditWarnings(w) \cap Coded # {} THEN {"informational"} ELSE {}

RunAudit ==
  /\ pc = "audit"
  /\ IF "cargo" \notin tree.tools
     THEN Quit("error") /\ UNCHANGED <<failed, warnings>>
     ELSE /\ pc' = "sync" /\ UNCHANGED outcome
          /\ warnings' = warnings \cup AuditCounted(tree)
          /\ failed' = failed \cup (IF "audit" \in tree.tools /\ Alarms(tree) = {}
                                    THEN {} ELSE {"cargo audit"})
  /\ Same /\ UNCHANGED <<said, stale, inForce, duplicates, named, loop, pruning>>

\* The licence policy; when it cannot be checked, the steps after it are
\* reported as failed without being run.
CheckPolicy ==
  /\ pc = "sync"
  /\ LET later == {"cargo-about"} \cup (asked \cap {"notices"})
     IN IF \/ tree.deny = Broken \/ \E m \in Members : tree.about[m] = Broken
           \/ "cargo" \notin tree.tools /\ Listed(tree) # {}
        THEN /\ failed' = failed \cup {"about.toml"} \cup later
             /\ pc' = "report" /\ UNCHANGED loop
        ELSE /\ failed' = failed \cup (IF \E m \in Listed(tree) :
                                             tree.about[m] # Derived(tree, m)
                                       THEN {"about.toml"} ELSE {})
             /\ pc' = "resolve" /\ todo' = Listed(tree)
             /\ again' = IF "notices" \in asked THEN Listed(tree) ELSE {}
  /\ Same /\ UNCHANGED <<said, warnings, stale, inForce, duplicates, named, pruning, outcome>>

\* Every crate is tried, whatever became of the others.
Resolve(m) ==
  /\ pc = "resolve" /\ m \in todo /\ todo' = todo \ {m}
  /\ failed' = failed \cup (IF Resolves(tree, m) THEN {} ELSE {"cargo-about"})
  /\ Same /\ UNCHANGED <<pc, said, warnings, stale, inForce, duplicates, named, again,
                         pruning, outcome>>

Resolved ==
  /\ pc = "resolve" /\ todo = {} /\ todo' = again /\ again' = {}
  /\ pc' = "notices"
  /\ Same /\ UNCHANGED <<report, pruning, outcome>>

\* Only a licence that is new fails the step; other differences are warnings.
Compare(m) ==
  /\ pc = "notices" /\ m \in todo /\ todo' = todo \ {m}
  /\ LET verdict == Verdict(tree, m)
     IN /\ failed' = failed \cup (IF verdict = "stale" THEN {"notices"} ELSE {})
        /\ warnings' = warnings
             \cup (IF verdict = "reduced" THEN {"license-set-reduced"} ELSE {})
             \cup (IF verdict = "drifted" THEN {"license-notices-drifted"} ELSE {})
  /\ Same /\ UNCHANGED <<pc, said, stale, inForce, duplicates, named, again, pruning,
                         outcome>>

Compared ==
  /\ pc = "notices" /\ todo = {} /\ pc' = "report"
  /\ Same /\ UNCHANGED <<report, loop, pruning, outcome>>

\* enforce: any diagnostic of the run, when they are to count.
Warned == "warnings" \in asked /\ warnings # {}

\* Mutant: an allowance nobody uses only fails the run if it could be named.
Failures_Named ==
  \/ Warned
  \/ failed # {}
  \/ "exceptions" \in asked /\ stale # {}
  \/ "licences" \in asked /\ named # {}

\* check_failures
Failures ==
  \/ Warned
  \/ failed # {}
  \/ "exceptions" \in asked /\ stale # {}
  \/ "licences" \in asked /\ "license-not-encountered" \in warnings

Report ==
  /\ pc = "report" /\ Quit(IF Failures THEN "failed" ELSE "ok")
  /\ Same /\ UNCHANGED <<report, loop, pruning>>

\* prune: deny.toml, found from here upwards, must be readable and Cargo.lock
\* must lie beside it.  An error leaves the working directory behind.
ReadIgnores ==
  /\ pc = "ignores"
  /\ \/ /\ tree.deny # Broken /\ configured' = tree.deny.ignores
        /\ pc' = "nakedAudit" /\ UNCHANGED outcome
     \/ Quit("error") /\ UNCHANGED configured
  /\ Same /\ UNCHANGED <<report, loop, dead, scratch>>

\* Mutant: the audit is run in the repository, and applies its audit.toml.
NakedAudit_InPlace ==
  /\ pc = "nakedAudit"
  /\ IF Works(tree, "audit")
     THEN /\ pc' = "pruned" /\ UNCHANGED outcome
          /\ dead' = configured \ (Firing(tree) \ Suppressed(tree))
     ELSE Quit("error") /\ UNCHANGED dead
  /\ Same /\ UNCHANGED <<report, loop, configured, scratch>>

\* cargo-audit from outside the repository, where it finds nothing to ignore.
\* Its exit status says nothing, but there must be a report to read.
NakedAudit ==
  /\ pc = "nakedAudit"
  /\ IF Works(tree, "audit")
     THEN /\ pc' = "pruned" /\ UNCHANGED outcome
          /\ dead' = configured \ Firing(tree)
     ELSE Quit("error") /\ UNCHANGED dead
  /\ Same /\ UNCHANGED <<report, loop, configured, scratch>>

Pruned ==
  /\ pc = "pruned" /\ scratch' = FALSE
  /\ Quit(IF dead # {} /\ "check" \in asked THEN "failed" ELSE "ok")
  /\ Same /\ UNCHANGED <<report, loop, configured, dead>>

Check ==
  \/ RunDeny \/ ReadDeny \/ Naked \/ RunAudit \/ CheckPolicy
  \/ \E m \in Members : Resolve(m) \/ Compare(m)
  \/ Resolved \/ Compared \/ Report

Prune == ReadIgnores \/ NakedAudit \/ Pruned

\* Somebody edits the tree, installs or removes a tool, or publishes an
\* advisory or withdraws one.
Edit ==
  /\ edits < MaxEdits /\ edits' = edits + 1
  /\ \/ \E d \in Denies : tree' = [tree EXCEPT !.deny = d]
     \/ \E l \in Lockings : tree' = [tree EXCEPT !.lock = l]
     \/ \E db \in SUBSET Ids : tree' = [tree EXCEPT !.db = db]
     \/ \E a \in {NoFile} \cup SUBSET Ids : tree' = [tree EXCEPT !.audit = a]
     \/ \E m \in Members, a \in Abouts : tree' = [tree EXCEPT !.about[m] = a]
     \/ \E m \in Members, n \in Notices : tree' = [tree EXCEPT !.notices[m] = n]
     \/ \E t \in Toolings : tree' = [tree EXCEPT !.tools = t]
  /\ tree' # tree
  /\ seen' = seen \cup {tree'}
  /\ UNCHANGED <<pc, command, asked, report, loop, pruning, outcome, runs>>

Finished == pc = "idle" /\ runs = MaxRuns /\ UNCHANGED vars

Next == Begin \/ Check \/ Prune \/ Edit \/ Finished

Spec == Init /\ [][Next]_vars

-----------------------------------------------------------------------------
(* What is wrong with a tree, by the options of a run *)

Unusable(w) ==
  ({"tool"} \X (Tools \ w.tools))
    \cup ({"unreadable"} \X {f \in {"deny.toml"} : w.deny = Broken})
    \cup ({"unreadable"} \X {m \in Members : w.about[m] = Broken})

Offences(w) ==
  IF w.deny = Broken THEN {}
  ELSE ({"advisory"} \X Vulnerable(w))
         \cup ({"rejected"} \X Rejected(w))
         \cup ({"duplicate"} \X {c \in Duplicated(w, w.deny.skips) : w.deny.multiple = "deny"})
         \cup ({"out of sync"} \X {m \in Listed(w) : w.about[m] # Derived(w, m)})

Denied(w, options) ==
  ({"stale notices"} \X
     {m \in Listed(w) : "notices" \in options /\ Verdict(w, m) = "stale"})
  \cup ({"drifted notices"} \X
     {m \in Listed(w) : {"notices", "warnings"} \subseteq options
                        /\ Verdict(w, m) \in {"drifted", "reduced"}})
  \cup ({"audit warning"} \X {i \in AuditWarnings(w) \cap Coded : "warnings" \in options})
  \cup (IF w.deny = Broken THEN {}
        ELSE ({"stale skip"} \X {s \in Unmatched(w) \cup Unnecessary(w) :
                                   "exceptions" \in options})
             \cup ({"unused"} \X {l \in NotEncountered(w) : "licences" \in options})
             \cup ({"diagnostic"} \X {d \in Diagnostics(w) : "warnings" \in options}))

Wrong(w, options) ==
  Unusable(w) \cup Offences(w) \cup Denied(w, options)
    \cup ({"alarm"} \X Alarms(w))
    \cup ({"unattributed"} \X {m \in Listed(w) : ~Resolves(w, m)})

Checked == command = "check" /\ pc = "idle"

\* A check never passes over what was wrong from its start to its end, of the
\* things it always denies and of those its options deny: whichever of its steps
\* saw the tree before an edit and whichever after.  Of what cargo-audit warns of
\* this is said only where the warning bears a code, although --deny-warnings is to
\* "Fail if the tools report any warning" (cli.rs:36).
NoSilentPass ==
  Checked /\ outcome = "ok" =>
    \A w \in seen : \A p \in Wrong(w, asked) : \E v \in seen : p \notin Wrong(v, asked)

\* A check that fails has a reason in the tree, at one moment of the run at
\* least: an exception that is in force is never held against it, at any
\* verbosity.  (Unless an about.toml came or went under it.)
NoFalseAlarm ==
  Checked /\ outcome = "failed" =>
    \/ \E w \in seen : Wrong(w, asked) # {}
    \/ \E v, w \in seen : Listed(v) # Listed(w)

\* What a check tells the maintainer to do is right, if deny.toml stays as it is
\* and has no second skip of the crate: a skip it calls stale can be removed and
\* no crate is duplicated for it; a crate it wants a skip for is duplicated.
AdviceHolds ==
  Checked /\ outcome \in {"ok", "failed"} /\ (\A v, w \in seen : v.deny = w.deny) =>
    /\ \A s \in stale :
         \/ \E t \in stale : t # s /\ t.name = s.name
         \/ \E w \in seen : Duplicated(w, w.deny.skips \ {s}) = Duplicated(w, w.deny.skips)
    /\ \A c \in duplicates : \E w \in seen : c \in Duplicated(w, w.deny.skips)

\* An ignore that prune wants removed did not fire, whatever audit.toml hides;
\* and none that never fired while it ran is left out.
PruneIsExact ==
  command = "prune" /\ pc = "idle" /\ outcome \in {"ok", "failed"} =>
    /\ \A i \in dead : \E w \in seen : i \notin Firing(w)
    /\ \A i \in Ids : (\A w \in seen : w.deny # Broken /\ i \in w.deny.ignores \ Firing(w))
         => i \in dead /\ ("check" \in asked => outcome = "failed")

=============================================================================
