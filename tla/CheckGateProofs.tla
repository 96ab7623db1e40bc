--------------------------- MODULE CheckGateProofs ---------------------------
(***************************************************************************)
(* A check passes nothing that was wrong all along and fails for nothing   *)
(* that never was, and prune condemns no ignore that fires: every result a *)
(* step leaves behind was true of a tree seen during the run.              *)
(***************************************************************************)
EXTENDS CheckGate, TLAPS

Done == pc = "idle" /\ outcome \in {"ok", "failed"}
From(steps) == command = "check" /\ (pc \in steps \/ Done)

AfterPolicy == {"resolve", "notices", "report"}
AfterAudit == {"sync"} \cup AfterPolicy
AfterRead == {"naked", "audit"} \cup AfterAudit
AfterDeny == {"readDeny"} \cup AfterRead
Checking == {"deny"} \cup AfterDeny
Pruning == {"ignores", "nakedAudit", "pruned"}

\* A tree of the run there was a reason to fail in.
Reason == \/ \E w \in seen : Wrong(w, asked) # {}
          \/ \E v, w \in seen : Listed(v) # Listed(w)

\* Where the run is, and the tools it began with.
Place ==
  /\ tree \in seen
  /\ pc \in {"idle"} \cup Checking \cup Pruning
  /\ pc \in Checking => command = "check"
  /\ pc \in Pruning => command = "prune"
  /\ From(Checking) => \E w \in seen : w.tools = Tools

\* What each step that passed found, in the tree it found it in.
SaidSeen ==
  /\ said # {} => \E w \in seen : w.deny # Broken /\ said = Diagnostics(w)
  /\ \A d \in said : d[1] \in warnings
  /\ "license-not-encountered" \in warnings =>
       \E d \in said : d[1] = "license-not-encountered"

DenySeen ==
  From(AfterDeny) /\ "cargo deny" \notin failed =>
    \E w \in seen : w.deny # Broken => DenyPasses(w) /\ said = Diagnostics(w)

StaleSeen ==
  From(AfterRead) =>
    /\ \E w \in seen :
         stale = IF w.deny = Broken THEN {}
                 ELSE {s \in w.deny.skips : s.name \in StaleNames(said)}
    /\ \A c \in duplicates : <<"duplicate", c>> \in said

AuditSeen ==
  From(AfterAudit) /\ "cargo audit" \notin failed =>
    \E w \in seen : Alarms(w) = {} /\ (AuditWarnings(w) \cap Coded # {} => warnings # {})

Attributed(m) == \E v \in seen : Resolves(v, m)
Compares(m) == \E v \in seen : /\ Verdict(v, m) # "stale"
                               /\ Verdict(v, m) \in {"drifted", "reduced"} => warnings # {}

PolicySeen ==
  From(AfterPolicy) /\ failed = {} =>
    \E w \in seen :
      /\ w.deny # Broken /\ \A m \in Members : w.about[m] # Broken
      /\ \A m \in Listed(w) :
           /\ w.about[m] = Derived(w, m)
           /\ (pc = "resolve" /\ m \in todo) \/ Attributed(m)
           /\ "notices" \in asked => \/ pc = "resolve" /\ m \in again
                                     \/ pc = "notices" /\ m \in todo
                                     \/ Compares(m)

Reasons ==
  /\ failed # {} => Reason
  /\ "warnings" \in asked /\ warnings # {} => Reason
  /\ \A m \in todo \cup again : m \in Members /\ \E w \in seen : m \in Listed(w)
  /\ again # {} => "notices" \in asked
  /\ pc = "notices" /\ todo # {} => "notices" \in asked

Reported ==
  command = "check" /\ pc = "idle" =>
    (outcome = "ok" => ~Failures) /\ (outcome = "failed" => Failures)

PruneSeen ==
  command = "prune" =>
    /\ pc \in {"nakedAudit", "pruned"} \/ Done =>
         \E w \in seen : w.deny # Broken /\ configured = w.deny.ignores
    /\ pc = "pruned" \/ Done => \E w \in seen : dead = configured \ Firing(w)
    /\ Done => (outcome = "failed") = (dead # {} /\ "check" \in asked)

Inv == /\ Place /\ SaidSeen /\ DenySeen /\ StaleSeen /\ AuditSeen /\ PolicySeen
       /\ Reasons /\ Reported /\ PruneSeen

-----------------------------------------------------------------------------
(* What is wrong with a tree, tag by tag *)

LEMMA WrongUnusable ==
  ASSUME NEW w, NEW o, NEW x
  PROVE  /\ <<"tool", x>> \in Wrong(w, o) <=> x \in Tools \ w.tools
         /\ w.deny = Broken => <<"unreadable", "deny.toml">> \in Wrong(w, o)
         /\ x \in Members /\ w.about[x] = Broken => <<"unreadable", x>> \in Wrong(w, o)
         /\ x \in Alarms(w) => <<"alarm", x>> \in Wrong(w, o)
         /\ x \in Listed(w) /\ ~Resolves(w, x) => <<"unattributed", x>> \in Wrong(w, o)
  BY DEF Wrong, Unusable, Offences, Denied

LEMMA WrongOffences ==
  ASSUME NEW w, NEW o, w.deny # Broken
  PROVE  /\ ~DenyPasses(w) => Wrong(w, o) # {}
         /\ (\E m \in Listed(w) : w.about[m] # Derived(w, m)) => Wrong(w, o) # {}
         /\ "warnings" \in o /\ Diagnostics(w) # {} => Wrong(w, o) # {}
         /\ "exceptions" \in o /\ Unmatched(w) \cup Unnecessary(w) # {} => Wrong(w, o) # {}
         /\ "licences" \in o /\ NotEncountered(w) # {} => Wrong(w, o) # {}
<1>1. ~DenyPasses(w) => Wrong(w, o) # {}
  <2>1. ASSUME NEW i \in Vulnerable(w) PROVE <<"advisory", i>> \in Wrong(w, o)
    BY DEF Wrong, Offences
  <2>2. ASSUME NEW l \in Rejected(w) PROVE <<"rejected", l>> \in Wrong(w, o)
    BY DEF Wrong, Offences
  <2>3. ASSUME w.deny.multiple = "deny", NEW c \in Duplicated(w, w.deny.skips)
        PROVE  <<"duplicate", c>> \in Wrong(w, o)
    BY <2>3 DEF Wrong, Offences
  <2> QED BY <2>1, <2>2, <2>3 DEF DenyPasses
<1>2. ASSUME NEW m \in Listed(w), w.about[m] # Derived(w, m)
      PROVE  <<"out of sync", m>> \in Wrong(w, o)
  BY <1>2 DEF Wrong, Offences
<1>3. ASSUME "warnings" \in o, NEW d \in Diagnostics(w)
      PROVE  <<"diagnostic", d>> \in Wrong(w, o)
  BY <1>3 DEF Wrong, Denied
<1>4. ASSUME "exceptions" \in o, NEW s \in Unmatched(w) \cup Unnecessary(w)
      PROVE  <<"stale skip", s>> \in Wrong(w, o)
  BY <1>4 DEF Wrong, Denied
<1>5. ASSUME "licences" \in o, NEW l \in NotEncountered(w)
      PROVE  <<"unused", l>> \in Wrong(w, o)
  BY <1>5 DEF Wrong, Denied
<1> QED BY <1>1, <1>2, <1>3, <1>4, <1>5

LEMMA WrongWarnings ==
  ASSUME NEW w, NEW o, "warnings" \in o, AuditWarnings(w) \cap Coded # {}
  PROVE  Wrong(w, o) # {}
<1>1. ASSUME NEW i \in AuditWarnings(w) \cap Coded
      PROVE  <<"audit warning", i>> \in Wrong(w, o)
  BY DEF Wrong, Denied
<1> QED BY <1>1

LEMMA WrongNotices ==
  ASSUME NEW w, NEW o, NEW m \in Listed(w), "notices" \in o
  PROVE  /\ Verdict(w, m) = "stale" => Wrong(w, o) # {}
         /\ "warnings" \in o /\ Verdict(w, m) \in {"drifted", "reduced"} => Wrong(w, o) # {}
<1>1. ASSUME Verdict(w, m) = "stale" PROVE <<"stale notices", m>> \in Wrong(w, o)
  BY <1>1 DEF Wrong, Denied
<1>2. ASSUME "warnings" \in o, Verdict(w, m) \in {"drifted", "reduced"}
      PROVE  <<"drifted notices", m>> \in Wrong(w, o)
  BY <1>2 DEF Wrong, Denied
<1> QED BY <1>1, <1>2

Tags == {"tool", "unreadable", "alarm", "unattributed", "advisory", "rejected",
         "duplicate", "out of sync", "stale notices", "drifted notices", "stale skip",
         "unused", "diagnostic", "audit warning"}

\* Every wrong thing has its tag, and what the tag says of it holds.
LEMMA Tagged ==
  ASSUME NEW w, NEW o, NEW p \in Wrong(w, o)
  PROVE  \E tag \in Tags : p = <<tag, p[2]>>
<1>1. ASSUME NEW tag \in Tags, NEW S, p \in {tag} \X S
      PROVE  \E t \in Tags : p = <<t, p[2]>>
  BY <1>1
<1>2. ASSUME p \in Unusable(w) PROVE \E t \in Tags : p = <<t, p[2]>>
  BY <1>2, <1>1 DEF Unusable, Tags
<1>3. ASSUME p \in Offences(w) PROVE \E t \in Tags : p = <<t, p[2]>>
  BY <1>3, <1>1 DEF Offences, Tags
<1>4. ASSUME p \in Denied(w, o) PROVE \E t \in Tags : p = <<t, p[2]>>
  BY <1>4, <1>1 DEF Denied, Tags
<1>5. \/ p \in Unusable(w) \/ p \in Offences(w) \/ p \in Denied(w, o)
      \/ p \in {"alarm"} \X Alarms(w)
      \/ p \in {"unattributed"} \X {m \in Listed(w) : ~Resolves(w, m)}
  BY DEF Wrong
<1> QED BY <1>1, <1>2, <1>3, <1>4, <1>5 DEF Tags

LEMMA TagsMean ==
  ASSUME NEW w, NEW o, NEW x
  PROVE  /\ <<"tool", x>> \in Wrong(w, o) => x \in Tools \ w.tools
         /\ <<"unreadable", x>> \in Wrong(w, o) =>
              w.deny = Broken \/ \E m \in Members : w.about[m] = Broken
         /\ <<"alarm", x>> \in Wrong(w, o) => x \in Alarms(w)
         /\ <<"unattributed", x>> \in Wrong(w, o) => x \in Listed(w) /\ ~Resolves(w, x)
         /\ \A tag \in {"advisory", "rejected", "duplicate"} :
              <<tag, x>> \in Wrong(w, o) => w.deny # Broken /\ ~DenyPasses(w)
         /\ <<"out of sync", x>> \in Wrong(w, o) =>
              x \in Listed(w) /\ w.about[x] # Derived(w, x)
         /\ <<"stale notices", x>> \in Wrong(w, o) =>
              x \in Listed(w) /\ "notices" \in o /\ Verdict(w, x) = "stale"
         /\ <<"drifted notices", x>> \in Wrong(w, o) =>
              /\ x \in Listed(w) /\ {"notices", "warnings"} \subseteq o
              /\ Verdict(w, x) \in {"drifted", "reduced"}
         /\ <<"audit warning", x>> \in Wrong(w, o) =>
              "warnings" \in o /\ x \in AuditWarnings(w) \cap Coded
         /\ <<"stale skip", x>> \in Wrong(w, o) =>
              w.deny # Broken /\ "exceptions" \in o /\ x \in Unmatched(w) \cup Unnecessary(w)
         /\ <<"unused", x>> \in Wrong(w, o) =>
              w.deny # Broken /\ "licences" \in o /\ x \in NotEncountered(w)
         /\ <<"diagnostic", x>> \in Wrong(w, o) =>
              w.deny # Broken /\ "warnings" \in o /\ x \in Diagnostics(w)
<1>1. /\ <<"tool", x>> \in Wrong(w, o) => x \in Tools \ w.tools
      /\ <<"unreadable", x>> \in Wrong(w, o) =>
           w.deny = Broken \/ \E m \in Members : w.about[m] = Broken
      /\ <<"alarm", x>> \in Wrong(w, o) => x \in Alarms(w)
      /\ <<"unattributed", x>> \in Wrong(w, o) => x \in Listed(w) /\ ~Resolves(w, x)
  BY DEF Wrong, Unusable, Offences, Denied
<1>2. /\ <<"advisory", x>> \in Wrong(w, o) => w.deny # Broken /\ x \in Vulnerable(w)
      /\ <<"rejected", x>> \in Wrong(w, o) => w.deny # Broken /\ x \in Rejected(w)
      /\ <<"duplicate", x>> \in Wrong(w, o) =>
           /\ w.deny # Broken /\ w.deny.multiple = "deny"
           /\ x \in Duplicated(w, w.deny.skips)
      /\ <<"out of sync", x>> \in Wrong(w, o) =>
           x \in Listed(w) /\ w.about[x] # Derived(w, x)
  BY DEF Wrong, Unusable, Offences, Denied
<1>3. /\ <<"stale notices", x>> \in Wrong(w, o) =>
           x \in Listed(w) /\ "notices" \in o /\ Verdict(w, x) = "stale"
      /\ <<"drifted notices", x>> \in Wrong(w, o) =>
           /\ x \in Listed(w) /\ {"notices", "warnings"} \subseteq o
           /\ Verdict(w, x) \in {"drifted", "reduced"}
      /\ <<"audit warning", x>> \in Wrong(w, o) =>
           "warnings" \in o /\ x \in AuditWarnings(w) \cap Coded
  BY DEF Wrong, Unusable, Offences, Denied
<1>4. /\ <<"stale skip", x>> \in Wrong(w, o) =>
           w.deny # Broken /\ "exceptions" \in o /\ x \in Unmatched(w) \cup Unnecessary(w)
      /\ <<"unused", x>> \in Wrong(w, o) =>
           w.deny # Broken /\ "licences" \in o /\ x \in NotEncountered(w)
      /\ <<"diagnostic", x>> \in Wrong(w, o) =>
           w.deny # Broken /\ "warnings" \in o /\ x \in Diagnostics(w)
  BY DEF Wrong, Unusable, Offences, Denied
<1>5. \A tag \in {"advisory", "rejected", "duplicate"} :
        <<tag, x>> \in Wrong(w, o) => w.deny # Broken /\ ~DenyPasses(w)
  <2>1. x \in Duplicated(w, w.deny.skips) /\ w.deny.multiple = "deny" => ~DenyPasses(w)
    BY <1>2 DEF DenyPasses
  <2> QED BY <1>2, <2>1 DEF DenyPasses
<1> QED BY <1>1, <1>2, <1>3, <1>4, <1>5

-----------------------------------------------------------------------------
(* Every step keeps the invariant *)

LEMMA InitInv == Init => Inv
  BY DEF Init, Inv, Place, SaidSeen, DenySeen, StaleSeen, AuditSeen, PolicySeen, Reasons,
     Reported, PruneSeen, From, Done, Checking, AfterDeny, AfterRead, AfterAudit,
     AfterPolicy, Pruning, Failures, Warned

USE DEF From, Done, Checking, AfterDeny, AfterRead, AfterAudit, AfterPolicy, Pruning

LEMMA BeginInv == ASSUME TypeOK, Inv, Begin PROVE Inv'
<1>1. command' = "check" /\ pc' = "deny" => tree.tools = Tools
  BY DEF Begin, Works, Tools, TypeOK, Trees, Quit
<1>2. /\ pc' \in {"deny", "ignores"} \/ (pc' = "idle" /\ outcome' = "error")
      /\ pc' = "deny" => command' = "check"
      /\ pc' = "ignores" => command' = "prune"
      /\ seen' = {tree'} /\ tree' = tree
      /\ said' = {} /\ failed' = {} /\ warnings' = {} /\ todo' = {} /\ again' = {}
  BY DEF Begin, Quit
<1>3. Place'
  BY <1>1, <1>2 DEF Place
<1>4. SaidSeen' /\ Reasons'
  BY <1>2 DEF SaidSeen, Reasons
<1>5. DenySeen' /\ StaleSeen' /\ AuditSeen' /\ PolicySeen'
  BY <1>2 DEF DenySeen, StaleSeen, AuditSeen, PolicySeen
<1>6. Reported' /\ PruneSeen'
  BY <1>2 DEF Reported, PruneSeen
<1> QED BY <1>3, <1>4, <1>5, <1>6 DEF Inv

LEMMA EditInv == ASSUME Inv, Edit PROVE Inv'
<1>1. /\ tree' \in seen' /\ \A w \in seen : w \in seen'
      /\ UNCHANGED <<pc, command, asked, report, loop, pruning, outcome, runs>>
  BY DEF Edit
<1>2. Place'
  BY <1>1 DEF Inv, Place
<1>3. SaidSeen'
  BY <1>1 DEF Inv, SaidSeen, report
<1>4. DenySeen'
  BY <1>1 DEF Inv, DenySeen, report
<1>5. StaleSeen'
  BY <1>1 DEF Inv, StaleSeen, report
<1>6. AuditSeen'
  BY <1>1 DEF Inv, AuditSeen, report
<1>7. PolicySeen'
  <2>1. \A m \in Members : /\ Attributed(m) => Attributed(m)'
                           /\ Compares(m) => Compares(m)'
    BY <1>1 DEF Attributed, Compares, report
  <2>2. \A w : Listed(w) \subseteq Members
    BY DEF Listed
  <2>3. Inv => PolicySeen
    BY DEF Inv
  <2> QED BY <1>1, <2>1, <2>2, <2>3 DEF PolicySeen, report, loop
<1>8. Reasons'
  <2>1. Reason => Reason'
    BY <1>1 DEF Reason
  <2> QED BY <1>1, <2>1 DEF Inv, Reasons, report, loop
<1>9. Reported' /\ PruneSeen'
  BY <1>1 DEF Inv, Reported, PruneSeen, Failures, Warned, report, pruning
<1> QED BY <1>2, <1>3, <1>4, <1>5, <1>6, <1>7, <1>8, <1>9 DEF Inv

LEMMA RunDenyInv == ASSUME Inv, RunDeny PROVE Inv'
<1> USE DEF Same
<1>1. Place'
  BY DEF Inv, Place, RunDeny, Quit
<1>2. tree \in seen /\ seen' = seen /\ asked' = asked /\ command = "check" /\ command' = command
  BY DEF Inv, Place, RunDeny
<1>3. CASE "cargo" \notin tree.tools
  <2>1. /\ pc' = "idle" /\ outcome' = "error" /\ UNCHANGED <<report, loop, pruning>>
    BY <1>3 DEF RunDeny, Quit, report
  <2>2. SaidSeen' /\ Reasons'
    BY <1>2, <2>1 DEF Inv, SaidSeen, Reasons, Reason, report, loop
  <2>3. DenySeen' /\ StaleSeen' /\ AuditSeen' /\ PolicySeen' /\ Reported' /\ PruneSeen'
    BY <1>2, <2>1 DEF DenySeen, StaleSeen, AuditSeen, PolicySeen, Reported, PruneSeen
  <2> QED BY <1>1, <2>2, <2>3 DEF Inv
<1>4. CASE "cargo" \in tree.tools
  <2>1. /\ pc' = "readDeny"
        /\ said' = {} \/ (tree.deny # Broken /\ said' = Diagnostics(tree))
        /\ warnings' = Counted(said')
        /\ UNCHANGED loop
    BY <1>4 DEF RunDeny
  <2>2. \/ failed' = {} /\ (tree.deny # Broken => DenyPasses(tree) /\ said' = Diagnostics(tree))
        \/ /\ failed' = {"cargo deny"}
           /\ "deny" \notin tree.tools \/ tree.deny = Broken \/ ~DenyPasses(tree)
    BY <1>4 DEF RunDeny
  <2>3. SaidSeen'
    <3>1. said' # {} => tree.deny # Broken /\ said' = Diagnostics(tree)
      BY <2>1
    <3> QED BY <1>2, <2>1, <3>1 DEF SaidSeen, Counted
  <2>4. failed' # {} => Reason'
    BY <1>2, <2>2, WrongUnusable, WrongOffences DEF Reason, Tools
  <2>5. "warnings" \in asked' /\ warnings' # {} => Reason'
    BY <1>2, <2>1, WrongOffences DEF Reason, Counted
  <2>6. Reasons'
    BY <1>2, <2>1, <2>4, <2>5 DEF Inv, Reasons, loop
  <2>7. DenySeen'
    BY <1>2, <2>2 DEF DenySeen
  <2>8. StaleSeen' /\ AuditSeen' /\ PolicySeen' /\ Reported' /\ PruneSeen'
    BY <1>2, <2>1 DEF StaleSeen, AuditSeen, PolicySeen, Reported, PruneSeen, RunDeny
  <2> QED BY <1>1, <2>3, <2>6, <2>7, <2>8 DEF Inv
<1> QED BY <1>3, <1>4

USE DEF Same

\* A step of a check that is not its last, in a tree it has seen.
LEMMA Frame ==
  ASSUME Inv, Same, NEW from \in Checking, pc = from, pc' \in Checking,
         UNCHANGED <<outcome, pruning>>
  PROVE  /\ Place' /\ Reported' /\ PruneSeen'
         /\ tree \in seen /\ seen' = seen /\ asked' = asked
         /\ command = "check" /\ command' = command
  BY DEF Inv, Place, Reported, PruneSeen

LEMMA ReadDenyInv == ASSUME Inv, ReadDeny PROVE Inv'
<1>1. /\ pc = "readDeny" /\ pc' \in {"naked", "audit"}
      /\ UNCHANGED <<said, failed, warnings, loop, configured, dead, outcome>>
  BY DEF ReadDeny
<1>2. Place' /\ tree \in seen /\ seen' = seen /\ asked' = asked /\ command' = "check"
  BY <1>1 DEF Inv, Place, ReadDeny
<1>3. Reported' /\ PruneSeen'
  BY <1>1, <1>2 DEF Reported, PruneSeen
<1>4. SaidSeen'
  BY <1>1, <1>2 DEF Inv, SaidSeen
<1>5. DenySeen'
  BY <1>1, <1>2 DEF Inv, DenySeen, ReadDeny
<1>6. StaleSeen'
  <2>1. /\ stale' = {s \in (IF tree.deny = Broken THEN {} ELSE tree.deny.skips) :
                       s.name \in StaleNames(said')}
        /\ \A c \in duplicates' : <<"duplicate", c>> \in said'
    BY <1>1 DEF ReadDeny, StaleAmong, Unaccounted, DuplicatesAmong
  <2> QED BY <1>2, <2>1 DEF StaleSeen
<1>7. AuditSeen' /\ PolicySeen'
  BY <1>1 DEF AuditSeen, PolicySeen
<1>8. Reasons'
  BY <1>1, <1>2 DEF Inv, Reasons, Reason, loop
<1> QED BY <1>2, <1>3, <1>4, <1>5, <1>6, <1>7, <1>8 DEF Inv

LEMMA NakedInv == ASSUME Inv, Naked PROVE Inv'
<1>1. /\ pc = "naked" /\ pc' = "audit"
      /\ UNCHANGED <<report, loop, configured, dead, outcome>>
  BY DEF Naked
<1>2. Place' /\ tree \in seen /\ seen' = seen /\ asked' = asked /\ UNCHANGED command
  BY <1>1 DEF Inv, Place, Naked
<1>3. SaidSeen' /\ DenySeen' /\ StaleSeen'
  BY <1>1, <1>2 DEF Inv, SaidSeen, DenySeen, StaleSeen, report
<1>4. AuditSeen' /\ PolicySeen' /\ Reported' /\ PruneSeen'
  BY <1>1, <1>2 DEF Inv, Place, AuditSeen, PolicySeen, Reported, PruneSeen
<1>5. Reasons'
  BY <1>1, <1>2 DEF Inv, Reasons, Reason, report, loop
<1> QED BY <1>2, <1>3, <1>4, <1>5 DEF Inv

LEMMA RunAuditInv == ASSUME Inv, RunAudit PROVE Inv'
<1>1. /\ pc = "audit" /\ command = "check" /\ tree \in seen /\ Same
      /\ UNCHANGED <<said, stale, duplicates, loop, pruning>>
  BY DEF Inv, Place, RunAudit
<1>2. CASE "cargo" \notin tree.tools
  <2>1. pc' = "idle" /\ outcome' = "error" /\ UNCHANGED <<failed, warnings>>
    BY <1>2 DEF RunAudit, Quit
  <2>2. Place' /\ SaidSeen' /\ Reasons'
    BY <1>1, <2>1 DEF Inv, Place, SaidSeen, Reasons, Reason, loop
  <2>3. DenySeen' /\ StaleSeen' /\ AuditSeen' /\ PolicySeen' /\ Reported' /\ PruneSeen'
    BY <1>1, <2>1 DEF DenySeen, StaleSeen, AuditSeen, PolicySeen, Reported, PruneSeen
  <2> QED BY <2>2, <2>3 DEF Inv
<1>3. CASE "cargo" \in tree.tools
  <2>1. /\ pc' = "sync" /\ UNCHANGED outcome
        /\ warnings' = warnings \cup AuditCounted(tree)
        /\ failed' = failed \cup (IF "audit" \in tree.tools /\ Alarms(tree) = {}
                                  THEN {} ELSE {"cargo audit"})
    BY <1>3 DEF RunAudit
  <2>0. /\ "license-not-encountered" \in warnings' => "license-not-encountered" \in warnings
        /\ "audit" \in tree.tools /\ AuditWarnings(tree) \cap Coded # {} => warnings' # {}
        /\ warnings' # {} => warnings # {} \/ AuditWarnings(tree) \cap Coded # {}
    BY <2>1 DEF AuditCounted
  <2>2. Place' /\ Reported' /\ PruneSeen'
    BY <1>1, <2>1, Frame
  <2>3. SaidSeen' /\ DenySeen' /\ StaleSeen'
    BY <1>1, <2>0, <2>1 DEF Inv, SaidSeen, DenySeen, StaleSeen
  <2>4. AuditSeen' /\ PolicySeen'
    BY <1>1, <2>0, <2>1 DEF AuditSeen, PolicySeen
  <2>5. ASSUME "audit" \notin tree.tools \/ Alarms(tree) # {} PROVE Reason'
    BY <2>5, <1>1, WrongUnusable DEF Reason, Tools
  <2>6. Reason => Reason'
    BY <1>1 DEF Reason
  <2>8. "warnings" \in asked /\ AuditWarnings(tree) \cap Coded # {} => Reason'
    BY <1>1, WrongWarnings DEF Reason
  <2>7. Reasons'
    BY <1>1, <2>0, <2>1, <2>5, <2>6, <2>8 DEF Inv, Reasons, loop
  <2> QED BY <2>2, <2>3, <2>4, <2>7 DEF Inv
<1> QED BY <1>2, <1>3

LEMMA CheckPolicyInv == ASSUME Inv, CheckPolicy PROVE Inv'
<1>1. /\ pc = "sync" /\ pc' \in {"resolve", "report"} /\ Same
      /\ UNCHANGED <<said, warnings, stale, duplicates, pruning, outcome>>
  BY DEF CheckPolicy
<1>2. /\ Place' /\ Reported' /\ PruneSeen'
      /\ tree \in seen /\ seen' = seen /\ asked' = asked
      /\ command = "check" /\ command' = command
  BY <1>1, Frame
<1>3. SaidSeen' /\ StaleSeen'
  BY <1>1, <1>2 DEF Inv, SaidSeen, StaleSeen
<1>4. /\ "cargo deny" \notin failed' => "cargo deny" \notin failed
      /\ "cargo audit" \notin failed' => "cargo audit" \notin failed
  BY DEF CheckPolicy
<1>5. DenySeen' /\ AuditSeen'
  BY <1>1, <1>2, <1>4 DEF Inv, DenySeen, AuditSeen
<1>6. Reason => Reason'
  BY <1>1 DEF Reason
<1>7. CASE \/ tree.deny = Broken \/ \E m \in Members : tree.about[m] = Broken
           \/ "cargo" \notin tree.tools /\ Listed(tree) # {}
  <2>1. pc' = "report" /\ failed' # {} /\ UNCHANGED loop
    BY <1>7 DEF CheckPolicy
  <2>2. PolicySeen'
    BY <2>1 DEF PolicySeen
  <2>3. Reason'
    BY <1>2, <1>7, WrongUnusable DEF Reason, Tools
  <2>4. Reasons'
    BY <1>1, <1>2, <2>1, <2>3 DEF Inv, Reasons, loop
  <2> QED BY <1>2, <1>3, <1>5, <2>2, <2>4 DEF Inv
<1>8. CASE ~(\/ tree.deny = Broken \/ \E m \in Members : tree.about[m] = Broken
             \/ "cargo" \notin tree.tools /\ Listed(tree) # {})
  <2>1. /\ pc' = "resolve" /\ todo' = Listed(tree)
        /\ again' = IF "notices" \in asked THEN Listed(tree) ELSE {}
        /\ failed' = failed \cup (IF \E m \in Listed(tree) :
                                        tree.about[m] # Derived(tree, m)
                                  THEN {"about.toml"} ELSE {})
    BY <1>8 DEF CheckPolicy
  <2>2. PolicySeen'
    <3>1. ASSUME failed' = {} PROVE \A m \in Listed(tree) : tree.about[m] = Derived(tree, m)
      BY <2>1, <3>1
    <3> QED BY <1>2, <1>8, <2>1, <3>1 DEF PolicySeen
  <2>3. failed' # {} => Reason'
    BY <1>2, <1>6, <1>8, <2>1, WrongOffences DEF Inv, Reasons, Reason
  <2>4. Reasons'
    BY <1>1, <1>2, <1>6, <2>1, <2>3 DEF Inv, Reasons, Listed
  <2> QED BY <1>2, <1>3, <1>5, <2>2, <2>4 DEF Inv
<1> QED BY <1>7, <1>8

LEMMA ResolveInv == ASSUME Inv, NEW n \in Members, Resolve(n) PROVE Inv'
<1>1. /\ pc = "resolve" /\ pc' = pc /\ n \in todo /\ todo' = todo \ {n}
      /\ failed' = failed \cup (IF Resolves(tree, n) THEN {} ELSE {"cargo-about"})
      /\ Same /\ UNCHANGED <<said, warnings, stale, duplicates, again, pruning, outcome>>
  BY DEF Resolve
<1>2. /\ Place' /\ Reported' /\ PruneSeen'
      /\ tree \in seen /\ seen' = seen /\ asked' = asked
      /\ command = "check" /\ command' = command
  BY <1>1, Frame
<1>3. SaidSeen' /\ DenySeen' /\ StaleSeen' /\ AuditSeen'
  BY <1>1, <1>2 DEF Inv, SaidSeen, DenySeen, StaleSeen, AuditSeen
<1>4. PolicySeen'
  <2>1. \A m : (Attributed(m) => Attributed(m)') /\ (Compares(m) => Compares(m)')
    BY <1>1, <1>2 DEF Attributed, Compares
  <2>2. failed' = {} => failed = {} /\ Attributed(n)'
    BY <1>1, <1>2 DEF Attributed
  <2> QED BY <1>1, <1>2, <2>1, <2>2 DEF Inv, PolicySeen
<1>5. Reasons'
  <2>1. Reason => Reason'
    BY <1>1 DEF Reason
  <2>2. ASSUME ~Resolves(tree, n) PROVE Reason'
    <3>1. PICK w \in seen : n \in Listed(w)
      BY <1>1 DEF Inv, Reasons
    <3>2. CASE n \in Listed(tree)
      BY <3>2, <2>2, <1>2, WrongUnusable DEF Reason
    <3>3. CASE n \notin Listed(tree)
      BY <3>1, <3>3, <1>2 DEF Reason
    <3> QED BY <3>2, <3>3
  <2> QED BY <1>1, <1>2, <2>1, <2>2 DEF Inv, Reasons
<1> QED BY <1>2, <1>3, <1>4, <1>5 DEF Inv

LEMMA ResolvedInv == ASSUME Inv, Resolved PROVE Inv'
<1>1. /\ pc = "resolve" /\ pc' = "notices" /\ todo = {} /\ todo' = again /\ again' = {}
      /\ Same /\ UNCHANGED <<report, pruning, outcome>>
  BY DEF Resolved
<1>2. /\ Place' /\ Reported' /\ PruneSeen'
      /\ tree \in seen /\ seen' = seen /\ asked' = asked
      /\ command = "check" /\ command' = command
  BY <1>1, Frame
<1>3. SaidSeen' /\ DenySeen' /\ StaleSeen' /\ AuditSeen'
  BY <1>1, <1>2 DEF Inv, SaidSeen, DenySeen, StaleSeen, AuditSeen, report
<1>4. PolicySeen'
  <2>1. \A m : (Attributed(m) => Attributed(m)') /\ (Compares(m) => Compares(m)')
    BY <1>1, <1>2 DEF Attributed, Compares, report
  <2> QED BY <1>1, <1>2, <2>1 DEF Inv, PolicySeen, report
<1>5. Reasons'
  BY <1>1, <1>2 DEF Inv, Reasons, Reason, report
<1> QED BY <1>2, <1>3, <1>4, <1>5 DEF Inv

LEMMA CompareInv == ASSUME Inv, NEW n \in Members, Compare(n) PROVE Inv'
<1> DEFINE v == Verdict(tree, n)
<1>1. /\ pc = "notices" /\ pc' = pc /\ n \in todo /\ todo' = todo \ {n}
      /\ failed' = failed \cup (IF v = "stale" THEN {"notices"} ELSE {})
      /\ warnings' = warnings \cup (IF v = "reduced" THEN {"license-set-reduced"} ELSE {})
                       \cup (IF v = "drifted" THEN {"license-notices-drifted"} ELSE {})
      /\ Same /\ UNCHANGED <<said, stale, duplicates, again, pruning, outcome>>
  BY DEF Compare
<1> HIDE DEF v
<1>2. /\ Place' /\ Reported' /\ PruneSeen'
      /\ tree \in seen /\ seen' = seen /\ asked' = asked
      /\ command = "check" /\ command' = command
  BY <1>1, Frame
<1>3. SaidSeen' /\ DenySeen' /\ StaleSeen' /\ AuditSeen'
  BY <1>1, <1>2 DEF Inv, SaidSeen, DenySeen, StaleSeen, AuditSeen
<1>4. PolicySeen'
  <2>1. \A m : (Attributed(m) => Attributed(m)') /\ (Compares(m) => Compares(m)')
    BY <1>1, <1>2 DEF Attributed, Compares
  <2>2. failed' = {} => failed = {} /\ Compares(n)'
    <3>1. failed' = {} => v # "stale" /\ (v \in {"drifted", "reduced"} => warnings' # {})
      BY <1>1
    <3> QED BY <1>1, <1>2, <3>1 DEF Compares, v
  <2> QED BY <1>1, <1>2, <2>1, <2>2 DEF Inv, PolicySeen
<1>5. Reasons'
  <2>1. Reason => Reason'
    BY <1>1 DEF Reason
  <2>2. "notices" \in asked
    BY <1>1 DEF Inv, Reasons
  <2>3. ASSUME v = "stale" \/ ("warnings" \in asked /\ v \in {"drifted", "reduced"})
        PROVE  Reason'
    <3>1. PICK w \in seen : n \in Listed(w)
      BY <1>1 DEF Inv, Reasons
    <3>2. CASE n \in Listed(tree)
      BY <2>2, <2>3, <3>2, <1>2, WrongNotices DEF Reason, v
    <3>3. CASE n \notin Listed(tree)
      BY <3>1, <3>3, <1>2 DEF Reason
    <3> QED BY <3>2, <3>3
  <2>4. "warnings" \in asked' /\ warnings' # {} => Reason'
    BY <1>1, <1>2, <2>1, <2>3 DEF Inv, Reasons
  <2> QED BY <1>1, <1>2, <2>1, <2>2, <2>3, <2>4 DEF Inv, Reasons
<1> QED BY <1>2, <1>3, <1>4, <1>5 DEF Inv

LEMMA ComparedInv == ASSUME Inv, Compared PROVE Inv'
<1>1. /\ pc = "notices" /\ pc' = "report" /\ todo = {}
      /\ Same /\ UNCHANGED <<report, loop, pruning, outcome>>
  BY DEF Compared
<1>2. /\ Place' /\ Reported' /\ PruneSeen'
      /\ tree \in seen /\ seen' = seen /\ asked' = asked
      /\ command = "check" /\ command' = command
  BY <1>1, Frame
<1>3. SaidSeen' /\ DenySeen' /\ StaleSeen' /\ AuditSeen'
  BY <1>1, <1>2 DEF Inv, SaidSeen, DenySeen, StaleSeen, AuditSeen, report
<1>4. PolicySeen'
  <2>1. \A m : (Attributed(m) => Attributed(m)') /\ (Compares(m) => Compares(m)')
    BY <1>1, <1>2 DEF Attributed, Compares, report
  <2> QED BY <1>1, <1>2, <2>1 DEF Inv, PolicySeen, report
<1>5. Reasons'
  BY <1>1, <1>2 DEF Inv, Reasons, Reason, report, loop
<1> QED BY <1>2, <1>3, <1>4, <1>5 DEF Inv

LEMMA ReportInv == ASSUME Inv, Report PROVE Inv'
<1>1. /\ pc = "report" /\ pc' = "idle" /\ command = "check"
      /\ outcome' = (IF Failures THEN "failed" ELSE "ok")
      /\ Same /\ UNCHANGED <<report, loop, pruning>>
  BY DEF Inv, Place, Report, Quit
<1>2. Place' /\ SaidSeen' /\ DenySeen' /\ StaleSeen' /\ AuditSeen'
  BY <1>1 DEF Inv, Place, SaidSeen, DenySeen, StaleSeen, AuditSeen, report
<1>3. PolicySeen'
  <2>1. \A m : (Attributed(m) => Attributed(m)') /\ (Compares(m) => Compares(m)')
    BY <1>1 DEF Attributed, Compares, report
  <2> QED BY <1>1, <2>1 DEF Inv, PolicySeen, report, loop
<1>4. Reasons'
  BY <1>1 DEF Inv, Reasons, Reason, report, loop
<1>5. Reported' /\ PruneSeen'
  BY <1>1 DEF Reported, PruneSeen, Failures, Warned, report
<1> QED BY <1>2, <1>3, <1>4, <1>5 DEF Inv

\* The steps of prune touch nothing of a check.
LEMMA PruneInv == ASSUME Inv, Prune PROVE Inv'
<1>1. /\ command = "prune" /\ pc \in Pruning /\ pc' \in {"idle"} \cup Pruning
      /\ Same /\ UNCHANGED <<report, loop>>
  BY DEF Inv, Place, Prune, ReadIgnores, NakedAudit, Pruned, Quit
<1>2. Place' /\ SaidSeen'
  BY <1>1 DEF Inv, Place, SaidSeen, report
<1>3. DenySeen' /\ StaleSeen' /\ AuditSeen' /\ PolicySeen' /\ Reported'
  BY <1>1 DEF DenySeen, StaleSeen, AuditSeen, PolicySeen, Reported
<1>4. Reasons'
  BY <1>1 DEF Inv, Reasons, Reason, report, loop
<1>5. PruneSeen'
  <2>1. CASE ReadIgnores
    BY <1>1, <2>1 DEF Inv, Place, PruneSeen, ReadIgnores, Quit
  <2>2. CASE NakedAudit
    BY <1>1, <2>2 DEF Inv, Place, PruneSeen, NakedAudit, Quit
  <2>3. CASE Pruned
    BY <1>1, <2>3 DEF Inv, Place, PruneSeen, Pruned, Quit
  <2> QED BY <2>1, <2>2, <2>3 DEF Prune
<1> QED BY <1>2, <1>3, <1>4, <1>5 DEF Inv

-----------------------------------------------------------------------------
(* Types *)

ReportOK == /\ said \subseteq Codes \X (Crates \cup Skips \cup Licences \cup Ids)
            /\ failed \subseteq Steps /\ warnings \subseteq Codes
            /\ stale \subseteq Skips /\ inForce \subseteq Skips
            /\ duplicates \subseteq Crates /\ named \subseteq Licences

LEMMA DiagnosticsType ==
  ASSUME NEW w \in Trees, w.deny # Broken
  PROVE  Diagnostics(w) \subseteq Codes \X (Crates \cup Skips \cup Licences \cup Ids)
<1>1. /\ w.deny.skips \subseteq Skips /\ w.deny.ignores \subseteq Ids
      /\ w.deny.allow \subseteq Licences /\ w.lock \in Locks /\ w.db \subseteq Ids
  BY DEF Trees, Deny
<1>2. CarriedIn(w.lock, Crates) \subseteq Licences
  BY <1>1, CheckAssumption DEF CheckAssumption, CarriedIn, Locks
<1>3. /\ Duplicated(w, w.deny.skips) \subseteq Crates
      /\ Unmatched(w) \subseteq Skips /\ Unnecessary(w) \subseteq Skips
      /\ NotEncountered(w) \subseteq Licences /\ Rejected(w) \subseteq Licences
      /\ Vulnerable(w) \subseteq Ids
  BY <1>1, <1>2 DEF Duplicated, Unmatched, Unnecessary, NotEncountered, Rejected,
     Vulnerable, Firing
<1> QED BY <1>3 DEF Diagnostics, Codes

\* The tree stays one the constants allow.
LEMMA EditType == ASSUME tree \in Trees, Edit PROVE tree' \in Trees
<1> USE CheckAssumption DEF CheckAssumption
<1>1. ASSUME NEW d \in Denies, tree' = [tree EXCEPT !.deny = d] PROVE tree' \in Trees
  BY <1>1 DEF Trees
<1>2. ASSUME NEW l \in Lockings, tree' = [tree EXCEPT !.lock = l] PROVE tree' \in Trees
  BY <1>2 DEF Trees
<1>3. ASSUME NEW db \in SUBSET Ids, tree' = [tree EXCEPT !.db = db] PROVE tree' \in Trees
  BY <1>3 DEF Trees
<1>4. ASSUME NEW a \in {NoFile} \cup SUBSET Ids, tree' = [tree EXCEPT !.audit = a]
      PROVE  tree' \in Trees
  BY <1>4 DEF Trees
<1>5. ASSUME NEW m \in Members, NEW a \in Abouts, tree' = [tree EXCEPT !.about[m] = a]
      PROVE  tree' \in Trees
  <2>1. [tree.about EXCEPT ![m] = a] \in [Members -> {NoFile, Broken} \cup SUBSET Licences]
    BY DEF Trees
  <2> QED BY <1>5, <2>1 DEF Trees
<1>6. ASSUME NEW m \in Members, NEW n \in Notices, tree' = [tree EXCEPT !.notices[m] = n]
      PROVE  tree' \in Trees
  <2>1. [tree.notices EXCEPT ![m] = n] \in [Members -> {NoFile, Broken} \cup Locks]
    BY DEF Trees
  <2> QED BY <1>6, <2>1 DEF Trees
<1>7. ASSUME NEW t \in Toolings, tree' = [tree EXCEPT !.tools = t] PROVE tree' \in Trees
  BY <1>7 DEF Trees
<1> QED BY <1>1, <1>2, <1>3, <1>4, <1>5, <1>6, <1>7 DEF Edit

\* The variables hold what they are meant to (check.rs:64-94, prune.rs:28-36).
THEOREM TypeCorrect == Spec => []TypeOK
<1>1. Init => TypeOK
  <2>1. Start \subseteq Trees /\ 0 \in 0..MaxRuns /\ 0 \in 0..MaxEdits
    BY CheckAssumption DEF CheckAssumption
  <2> QED BY <2>1 DEF Init, TypeOK
<1>2. TypeOK /\ [Next]_vars => TypeOK'
  <2> SUFFICES ASSUME TypeOK, [Next]_vars PROVE TypeOK'
    OBVIOUS
  <2>1. CASE Begin
    <3>1. runs' \in 0..MaxRuns
      BY <2>1, CheckAssumption DEF CheckAssumption, Begin, TypeOK
    <3>2. asked' \subseteq Options /\ command' \in {"check", "prune"}
      BY <2>1 DEF Begin, Options
    <3>3. /\ pc' \in {"idle", "deny", "ignores"} /\ scratch' \in BOOLEAN
          /\ outcome' \in {"none", "error"}
      BY <2>1 DEF Begin, Quit, TypeOK
    <3> QED BY <2>1, <3>1, <3>2, <3>3 DEF Begin, TypeOK
  <2>2. CASE RunDeny
    <3>1. tree.deny # Broken =>
            Diagnostics(tree) \subseteq Codes \X (Crates \cup Skips \cup Licences \cup Ids)
      BY DiagnosticsType DEF TypeOK
    <3>2. said' \subseteq Codes \X (Crates \cup Skips \cup Licences \cup Ids)
      BY <2>2, <3>1 DEF RunDeny, TypeOK
    <3>3. warnings' \subseteq Codes
      <4>1. "cargo" \in tree.tools => warnings' = Counted(said')
        BY <2>2 DEF RunDeny
      <4>2. "cargo" \notin tree.tools => warnings' = warnings
        BY <2>2 DEF RunDeny
      <4> QED BY <3>2, <4>1, <4>2 DEF TypeOK, Counted
    <3>4. failed' \subseteq Steps
      BY <2>2 DEF RunDeny, TypeOK, Steps
    <3> QED BY <2>2, <3>2, <3>3, <3>4 DEF RunDeny, TypeOK, Quit, loop, pruning
  <2>3. CASE ReadDeny
    <3>1. tree.deny # Broken => tree.deny.skips \subseteq Skips
      BY DEF TypeOK, Trees, Deny
    <3>2. stale' \subseteq Skips /\ inForce' \subseteq Skips
      BY <2>3, <3>1 DEF ReadDeny, StaleAmong
    <3>3. duplicates' \subseteq Crates /\ named' \subseteq Licences
      BY <2>3 DEF ReadDeny, Unaccounted, DuplicatesAmong, UnusedAmong
    <3> QED BY <2>3, <3>2, <3>3 DEF ReadDeny, TypeOK, loop
  <2>4. CASE Naked
    BY <2>4 DEF Naked, TypeOK, report, loop
  <2>5. CASE RunAudit
    BY <2>5 DEF RunAudit, AuditCounted, TypeOK, Quit, Steps, Codes, loop, pruning
  <2>6. CASE CheckPolicy
    <3>1. failed' \subseteq Steps
      BY <2>6 DEF CheckPolicy, TypeOK, Steps
    <3>2. todo' \subseteq Members /\ again' \subseteq Members
      BY <2>6 DEF CheckPolicy, TypeOK, loop, Listed
    <3> QED BY <2>6, <3>1, <3>2 DEF CheckPolicy, TypeOK, pruning
  <2>7. ASSUME NEW m \in Members, Resolve(m) PROVE TypeOK'
    BY <2>7 DEF Resolve, TypeOK, Steps, pruning
  <2>8. ASSUME NEW m \in Members, Compare(m) PROVE TypeOK'
    BY <2>8 DEF Compare, TypeOK, Steps, Codes, pruning
  <2>9. CASE Resolved
    BY <2>9 DEF Resolved, TypeOK, report, pruning
  <2>10. CASE Compared
    BY <2>10 DEF Compared, TypeOK, report, loop, pruning
  <2>11. CASE Report
    BY <2>11 DEF Report, TypeOK, Quit, report, loop, pruning
  <2>12. CASE ReadIgnores
    BY <2>12 DEF ReadIgnores, TypeOK, Trees, Deny, Quit, report, loop
  <2>13. CASE NakedAudit
    BY <2>13 DEF NakedAudit, TypeOK, Quit, report, loop
  <2>14. CASE Pruned
    BY <2>14 DEF Pruned, TypeOK, Quit, report, loop
  <2>15. CASE Edit
    <3>1. tree' \in Trees
      BY <2>15, EditType DEF TypeOK
    <3>2. edits' \in 0..MaxEdits
      BY <2>15, CheckAssumption DEF CheckAssumption, Edit, TypeOK
    <3>3. /\ seen' = seen \cup {tree'}
          /\ UNCHANGED <<pc, command, asked, report, loop, pruning, outcome, runs>>
      BY <2>15 DEF Edit
    <3> QED BY <3>1, <3>2, <3>3 DEF TypeOK, report, loop, pruning
  <2>16. CASE UNCHANGED vars
    BY <2>16 DEF vars, TypeOK, report, loop, pruning
  <2> QED BY <2>1, <2>2, <2>3, <2>4, <2>5, <2>6, <2>7, <2>8, <2>9, <2>10, <2>11, <2>12,
             <2>13, <2>14, <2>15, <2>16 DEF Next, Check, Prune, Finished
<1> QED BY <1>1, <1>2, PTL DEF Spec

\* What a run has found so far it has seen.
THEOREM Found == Spec => []Inv
<1>1. TypeOK /\ Inv /\ [Next]_vars => Inv'
  <2> SUFFICES ASSUME TypeOK, Inv, [Next]_vars PROVE Inv'
    OBVIOUS
  <2>1. ASSUME UNCHANGED vars PROVE Inv'
    <3>1. \A m : (Attributed(m) = Attributed(m)') /\ (Compares(m) = Compares(m)')
      BY <2>1 DEF vars, Attributed, Compares, report
    <3>2. Reason = Reason' /\ Failures = Failures'
      BY <2>1 DEF vars, Reason, Failures, Warned, report
    <3>3. Place' /\ SaidSeen' /\ DenySeen' /\ StaleSeen' /\ AuditSeen'
      BY <2>1 DEF vars, Inv, Place, SaidSeen, DenySeen, StaleSeen, AuditSeen, report
    <3>4. PolicySeen' /\ Reasons' /\ Reported' /\ PruneSeen'
      BY <2>1, <3>1, <3>2 DEF vars, Inv, PolicySeen, Reasons, Reported, PruneSeen, report,
         loop, pruning
    <3> QED BY <3>3, <3>4 DEF Inv
  <2> QED BY <2>1, BeginInv, EditInv, RunDenyInv, ReadDenyInv, NakedInv, RunAuditInv,
             CheckPolicyInv, ResolveInv, ResolvedInv, CompareInv, ComparedInv, ReportInv,
             PruneInv DEF Next, Check, Finished
<1> QED BY <1>1, InitInv, TypeCorrect, PTL DEF Spec

\* What is wrong from a run's start to its end is not passed over
\* (check.rs:17-21, cli.rs:441-494).
THEOREM PassIsDeserved == Spec => []NoSilentPass
<1>1. Inv => NoSilentPass
  <2> SUFFICES ASSUME Inv, Checked, outcome = "ok", NEW p,
                      \A v \in seen : p \in Wrong(v, asked)
               PROVE  FALSE
    BY DEF NoSilentPass
  <2>0. Done /\ command = "check" /\ tree \in seen
    BY DEF Checked, Inv, Place
  <2>1. ~Failures /\ failed = {}
    BY <2>0 DEF Inv, Reported, Failures, Warned
  <2>2. PICK u \in seen : u.tools = Tools
    BY <2>0 DEF Inv, Place
  <2>3. PICK d \in seen : d.deny # Broken => DenyPasses(d) /\ said = Diagnostics(d)
    BY <2>0, <2>1 DEF Inv, DenySeen
  <2>4. PICK r \in seen : stale = IF r.deny = Broken THEN {}
                                  ELSE {s \in r.deny.skips : s.name \in StaleNames(said)}
    BY <2>0 DEF Inv, StaleSeen
  <2>5. PICK q \in seen : /\ Alarms(q) = {}
                          /\ AuditWarnings(q) \cap Coded # {} => warnings # {}
    BY <2>0, <2>1 DEF Inv, AuditSeen
  <2>6. PICK w \in seen :
          /\ w.deny # Broken /\ \A m \in Members : w.about[m] # Broken
          /\ \A m \in Listed(w) : /\ w.about[m] = Derived(w, m)
                                  /\ Attributed(m)
                                  /\ "notices" \in asked => Compares(m)
    BY <2>0, <2>1 DEF Inv, PolicySeen
  <2>7. PICK tag \in Tags : p = <<tag, p[2]>>
    BY <2>0, Tagged
  <2> DEFINE x == p[2]
  <2> HIDE DEF x
  <2>70. p = <<tag, x>>
    BY <2>7 DEF x
  <2>8. ASSUME tag \in {"tool", "unreadable", "alarm"} PROVE FALSE
    <3>1. CASE tag = "tool"
      <4>1. <<"tool", x>> \in Wrong(u, asked)
        BY <2>70, <3>1
      <4> QED BY <2>2, <4>1, TagsMean
    <3>2. CASE tag = "unreadable"
      <4>1. <<"unreadable", x>> \in Wrong(w, asked)
        BY <2>70, <3>2
      <4> QED BY <2>6, <4>1, TagsMean
    <3>3. CASE tag = "alarm"
      <4>1. <<"alarm", x>> \in Wrong(q, asked)
        BY <2>70, <3>3
      <4> QED BY <2>5, <4>1, TagsMean
    <3> QED BY <2>8, <3>1, <3>2, <3>3
  <2>9. ASSUME tag \in {"unattributed", "out of sync"} PROVE FALSE
    <3>1. x \in Listed(w)
      BY <2>70, <2>9, TagsMean
    <3>2. PICK v \in seen : Resolves(v, x)
      BY <2>6, <3>1 DEF Attributed
    <3>3. CASE tag = "unattributed"
      <4>1. <<"unattributed", x>> \in Wrong(v, asked)
        BY <2>70, <3>3
      <4> QED BY <3>2, <4>1, TagsMean
    <3>4. CASE tag = "out of sync"
      <4>1. <<"out of sync", x>> \in Wrong(w, asked)
        BY <2>70, <3>4
      <4> QED BY <2>6, <4>1, TagsMean
    <3> QED BY <2>9, <3>3, <3>4
  <2>10. ASSUME tag \in {"stale notices", "drifted notices"} PROVE FALSE
    <3>1. /\ x \in Listed(w) /\ "notices" \in asked
          /\ tag = "drifted notices" => "warnings" \in asked
      BY <2>70, <2>10, TagsMean
    <3>2. PICK v \in seen : /\ Verdict(v, x) # "stale"
                            /\ Verdict(v, x) \in {"drifted", "reduced"} => warnings # {}
      BY <2>6, <3>1 DEF Compares
    <3>3. tag = "drifted notices" /\ Verdict(v, x) \in {"drifted", "reduced"}
      BY <2>70, <2>10, <3>2, TagsMean
    <3> QED BY <2>1, <3>1, <3>2, <3>3 DEF Failures, Warned
  <2>11. ASSUME tag \in {"advisory", "rejected", "duplicate"} PROVE FALSE
    BY <2>3, <2>70, <2>11, TagsMean
  <2>12. ASSUME tag = "stale skip" PROVE FALSE
    <3>1. /\ "exceptions" \in asked /\ d.deny # Broken
          /\ x \in Unmatched(d) \cup Unnecessary(d)
          /\ r.deny # Broken /\ x \in Unmatched(r) \cup Unnecessary(r)
      BY <2>70, <2>12, TagsMean
    <3>2. <<"unmatched-skip", x>> \in said \/ <<"unnecessary-skip", x>> \in said
      BY <2>3, <3>1 DEF Diagnostics
    <3>3. x.name \in StaleNames(said)
      <4>1. PICK e \in said : e[1] \in {"unmatched-skip", "unnecessary-skip"} /\ e[2] = x
        BY <3>2
      <4> QED BY <4>1 DEF StaleNames
    <3>4. x \in r.deny.skips
      BY <3>1 DEF Unmatched, Unnecessary
    <3> QED BY <2>1, <2>4, <3>1, <3>3, <3>4 DEF Failures, Warned
  <2>13. ASSUME tag = "unused" PROVE FALSE
    <3>1. "licences" \in asked /\ d.deny # Broken /\ x \in NotEncountered(d)
      BY <2>70, <2>13, TagsMean
    <3>2. <<"license-not-encountered", x>> \in said
      BY <2>3, <3>1 DEF Diagnostics
    <3>3. "license-not-encountered" \in warnings
      BY <3>2 DEF Inv, SaidSeen
    <3> QED BY <2>1, <3>1, <3>3 DEF Failures, Warned
  <2>14. ASSUME tag = "diagnostic" PROVE FALSE
    <3>1. "warnings" \in asked /\ d.deny # Broken /\ x \in Diagnostics(d)
      BY <2>70, <2>14, TagsMean
    <3>2. x[1] \in warnings
      BY <2>3, <3>1 DEF Inv, SaidSeen
    <3> QED BY <2>1, <3>1, <3>2 DEF Failures, Warned
  <2>15. ASSUME tag = "audit warning" PROVE FALSE
    <3>1. <<"audit warning", x>> \in Wrong(q, asked)
      BY <2>70, <2>15
    <3>2. "warnings" \in asked /\ x \in AuditWarnings(q) \cap Coded
      BY <3>1, TagsMean
    <3> QED BY <2>1, <2>5, <3>2 DEF Failures, Warned
  <2> QED BY <2>8, <2>9, <2>10, <2>11, <2>12, <2>13, <2>14, <2>15 DEF Tags
<1> QED BY <1>1, Found, PTL

\* A failed check had something to fail for, and no exception that was in force
\* (check.rs:451-456, exceptions.rs:212-216).
THEOREM FailureHasReason == Spec => []NoFalseAlarm
<1>1. Inv => NoFalseAlarm
  <2> SUFFICES ASSUME Inv, Checked, outcome = "failed" PROVE Reason
    BY DEF NoFalseAlarm, Reason
  <2>0. Done /\ command = "check" /\ Failures
    BY DEF Checked, Inv, Reported
  <2>1. CASE failed # {} \/ ("warnings" \in asked /\ warnings # {})
    BY <2>1 DEF Inv, Reasons
  <2>2. CASE "exceptions" \in asked /\ stale # {}
    <3>1. StaleNames(said) # {}
      BY <2>0, <2>2 DEF Inv, StaleSeen
    <3>2. PICK e \in said : e[1] \in {"unmatched-skip", "unnecessary-skip"}
      BY <3>1 DEF StaleNames
    <3>3. PICK w \in seen : w.deny # Broken /\ said = Diagnostics(w)
      BY <3>2 DEF Inv, SaidSeen
    <3>4. Unmatched(w) \cup Unnecessary(w) # {}
      BY <3>2, <3>3 DEF Diagnostics
    <3> QED BY <2>2, <3>3, <3>4, WrongOffences DEF Reason
  <2>3. CASE "licences" \in asked /\ "license-not-encountered" \in warnings
    <3>1. PICK e \in said : e[1] = "license-not-encountered"
      BY <2>3 DEF Inv, SaidSeen
    <3>2. PICK w \in seen : w.deny # Broken /\ said = Diagnostics(w)
      BY <3>1 DEF Inv, SaidSeen
    <3>3. NotEncountered(w) # {}
      BY <3>1, <3>2 DEF Diagnostics
    <3> QED BY <2>3, <3>2, <3>3, WrongOffences DEF Reason
  <2> QED BY <2>0, <2>1, <2>2, <2>3 DEF Failures, Warned
<1>2. QED BY <1>1, Found, PTL

\* A stale skip that is its crate's only one accounts for no duplicate
\* (exceptions.rs:205-209, check.rs:171-189).
THEOREM AdviceIsRight == Spec => []AdviceHolds
<1>1. ASSUME NEW w, NEW s \in Unmatched(w) \cup Unnecessary(w)
      PROVE  Duplicated(w, w.deny.skips \ {s}) = Duplicated(w, w.deny.skips)
  <2> DEFINE kept(skips, c) == {v \in w.lock[c] :
                                  \A t \in skips : t.name = c => v \notin Matched(w, t)}
  <2>1. CASE s \in Unmatched(w)
    BY <2>1 DEF Unmatched, Duplicated
  <2>2. CASE s \in Unnecessary(w)
    <3>1. \A c \in Crates : c # s.name =>
            kept(w.deny.skips \ {s}, c) = kept(w.deny.skips, c)
      OBVIOUS
    <3>2. \A skips : ~Several(kept(skips, s.name))
      BY <2>2 DEF Unnecessary, Several
    <3> HIDE DEF kept
    <3>3. \A c \in Crates : Several(kept(w.deny.skips \ {s}, c))
                              <=> Several(kept(w.deny.skips, c))
      BY <3>1, <3>2
    <3> QED BY <3>3 DEF Duplicated, kept
  <2> QED BY <2>1, <2>2
<1>2. Inv => AdviceHolds
  <2> SUFFICES ASSUME Inv, Checked, outcome \in {"ok", "failed"},
                      \A v, w \in seen : v.deny = w.deny
               PROVE  /\ \A s \in stale :
                           \/ \E t \in stale : t # s /\ t.name = s.name
                           \/ \E w \in seen : Duplicated(w, w.deny.skips \ {s})
                                                = Duplicated(w, w.deny.skips)
                      /\ \A c \in duplicates :
                           \E w \in seen : c \in Duplicated(w, w.deny.skips)
    BY DEF AdviceHolds
  <2>0. Done /\ command = "check"
    BY DEF Checked
  <2>1. PICK r \in seen : stale = IF r.deny = Broken THEN {}
                                  ELSE {s \in r.deny.skips : s.name \in StaleNames(said)}
    BY <2>0 DEF Inv, StaleSeen
  <2>2. ASSUME NEW s \in stale
        PROVE  \/ \E t \in stale : t # s /\ t.name = s.name
               \/ \E w \in seen : Duplicated(w, w.deny.skips \ {s})
                                    = Duplicated(w, w.deny.skips)
    <3>1. PICK e \in said : /\ e[1] \in {"unmatched-skip", "unnecessary-skip"}
                            /\ e[2].name = s.name
      BY <2>1 DEF StaleNames
    <3>2. PICK w \in seen : w.deny # Broken /\ said = Diagnostics(w)
      BY <3>1 DEF Inv, SaidSeen
    <3>3. e[2] \in Unmatched(w) \cup Unnecessary(w)
      BY <3>1, <3>2 DEF Diagnostics
    <3>4. e[2] \in w.deny.skips
      BY <3>3 DEF Unmatched, Unnecessary
    <3>5. w.deny = r.deny
      OBVIOUS
    <3>6. e[2].name \in StaleNames(said)
      BY <3>1 DEF StaleNames
    <3>7. e[2] \in stale
      BY <2>1, <3>2, <3>4, <3>5, <3>6
    <3>8. CASE e[2] = s
      BY <1>1, <3>3, <3>8
    <3> QED BY <3>1, <3>7, <3>8
  <2>3. ASSUME NEW c \in duplicates
        PROVE  \E w \in seen : c \in Duplicated(w, w.deny.skips)
    <3>1. <<"duplicate", c>> \in said
      BY <2>0 DEF Inv, StaleSeen
    <3>2. PICK w \in seen : w.deny # Broken /\ said = Diagnostics(w)
      BY <3>1 DEF Inv, SaidSeen
    <3> QED BY <3>1, <3>2 DEF Diagnostics
  <2> QED BY <2>2, <2>3
<1> QED BY <1>2, Found, PTL

\* prune condemns the ignores that do not fire, and only those
\* (prune.rs:92-98, cli.rs:759-796).
THEOREM PruneIsRight == Spec => []PruneIsExact
<1>1. Inv => PruneIsExact
  BY DEF Inv, PruneSeen, PruneIsExact
<1> QED BY <1>1, Found, PTL

=============================================================================
