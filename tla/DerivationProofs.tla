--------------------------- MODULE DerivationProofs ---------------------------
(***************************************************************************)
(* Whatever sync and init report success for agrees with deny.toml, and    *)
(* what a maintainer wrote is lost only with the write cut short in it.    *)
(* The licences an about.toml accepts are those of what ships, which       *)
(* LicenseScope finds and the second part is about.                        *)
(***************************************************************************)
EXTENDS Derivation, LicenseScope, TLAPS

Syncing == pc \in {"fillAudit", "readPolicy", "member", "fillAbout"}
Synced(m) == about[m] # Broken /\ about[m] = Merged(m, about[m], policy)

\* How far a run has come with audit.toml, and which deny.toml it goes by.
AuditPhase ==
  /\ pc # "idle" => deny # NoFile
  /\ Syncing => mode \in {"sync", "check"} /\ (mode = "sync" => ~drifted)
  /\ pc = "fillAudit" => mode = "sync"
  /\ pc \in {"fillAudit", "initAudit", "member", "fillAbout"} /\ ~moved => policy = deny
  /\ pc \in {"readPolicy", "member", "fillAbout"} /\ ~moved =>
       audit = Ignores(deny) \/ drifted
  /\ pc = "initAudit" => mode \in {"init", "force"}

\* The members a run has been through agree with the policy it read.
AboutPhase ==
  /\ pc \in {"member", "fillAbout"} =>
       /\ \A m \in todo : about[m] # NoFile
       /\ \A m \in Members \ todo : about[m] # NoFile => Synced(m) \/ drifted
  /\ pc = "fillAbout" => /\ mode = "sync" /\ at \in todo
                         /\ text = Merged(at, text, policy)

\* What is about to be written keeps what its maintainer wrote.
TextKept ==
  pc = "fillAbout" /\ at \notin cut =>
    /\ hand[at] \notin {NoFile, Broken}
    /\ text.pinned = hand[at].pinned /\ text.dev = hand[at].dev

\* What success means when a run has ended.
Agreed ==
  Settled => /\ audit = Ignores(deny)
             /\ mode \in {"sync", "check"} =>
                  /\ policy = deny
                  /\ \A m \in Members : about[m] # NoFile => Synced(m)

Inv == FilesOK /\ RunOK /\ AuditPhase /\ AboutPhase /\ TextKept /\ HandKept /\ Agreed

-----------------------------------------------------------------------------
(* The merges *)

LEMMA ListsOf ==
  ASSUME NEW S \in SUBSET Crates, NEW f \in [S -> SUBSET Licences]
  PROVE  f \in Lists
  BY DEF Lists

LEMMA ListsAre ==
  ASSUME NEW f \in Lists
  PROVE  DOMAIN f \subseteq Crates /\ f \in [DOMAIN f -> SUBSET Licences]
  BY DEF Lists

\* An empty about.toml is one like any other.
LEMMA BlankType == Blank \in About
<1>1. NoLists \in Lists
  <2>1. NoLists \in [{} -> SUBSET Licences]
    BY DEF NoLists
  <2> QED BY <2>1, ListsOf
<1> QED BY <1>1 DEF Blank, About

LEMMA IgnoresType == ASSUME NEW d \in Deny PROVE Ignores(d) \in SUBSET Ids
  BY DEF Deny, Ignores, OrNone

\* merge_about_toml yields a file whose derived part it would not change, and
\* leaves the rest alone (sync.rs:220-275).
LEMMA MergedIsStable ==
  ASSUME NEW m \in Members, NEW a \in About, NEW d \in Deny
  PROVE  /\ Merged(m, a, d) \in About
         /\ Merged(m, a, d).pinned = a.pinned /\ Merged(m, a, d).dev = a.dev
         /\ Merged(m, Merged(m, a, d), d) = Merged(m, a, d)
<1> USE DerivationAssumption DEF DerivationAssumption
<1> DEFINE S == DOMAIN d.exceptions \cap Reaches[m][a.dev]
           l == [c \in S |-> d.exceptions[c]]
           k == OrNone(d.allow) \cap Used[m][a.dev]
<1>0. a.dev \in BOOLEAN /\ Reaches[m][a.dev] \in SUBSET Crates
      /\ Used[m][a.dev] \in SUBSET Licences
  BY DEF About
<1>1. l \in Lists
  <2>1. d.exceptions \in Lists
    BY DEF Deny
  <2>2. S \in SUBSET Crates /\ l \in [S -> SUBSET Licences]
    BY <2>1, ListsAre, <1>0
  <2> HIDE DEF l, S
  <2> QED BY <2>2, ListsOf
<1>2. k \in SUBSET Licences
  BY <1>0
<1>3. Merged(m, a, d) = [a EXCEPT !.accepted = k, !.lists = l]
  BY DEF Merged
<1> HIDE DEF l, k
<1>4. /\ Merged(m, a, d) \in About
      /\ Merged(m, a, d).pinned = a.pinned /\ Merged(m, a, d).dev = a.dev
      /\ Merged(m, a, d).accepted = k /\ Merged(m, a, d).lists = l
  BY <1>1, <1>2, <1>3 DEF About
<1>5. Merged(m, Merged(m, a, d), d)
        = [Merged(m, a, d) EXCEPT !.accepted = k, !.lists = l]
  BY <1>4 DEF Merged, l, k
<1>6. @ = Merged(m, a, d)
  BY <1>4, <1>3 DEF About
<1> QED BY <1>4, <1>5, <1>6

LEMMA CompletedType == ASSUME NEW d \in Deny PROVE Completed(d) \in Deny
  BY DerivationAssumption DEF DerivationAssumption, Deny, Completed

-----------------------------------------------------------------------------
LEMMA BoundsHold == Spec => [](runs \in 0..MaxRuns /\ edits \in 0..MaxEdits)
<1> DEFINE B == runs \in 0..MaxRuns /\ edits \in 0..MaxEdits
<1>1. Init => B
  BY DerivationAssumption DEF DerivationAssumption, Init
<1>2. B /\ [Next]_vars => B'
  <2> SUFFICES ASSUME B, [Next]_vars PROVE B'
    OBVIOUS
  <2>1. \/ UNCHANGED <<runs, edits>>
        \/ runs < MaxRuns /\ runs' = runs + 1 /\ UNCHANGED edits
        \/ edits < MaxEdits /\ edits' = edits + 1 /\ UNCHANGED runs
    BY DEF Next, SyncAudit, NoDeny, FillAudit, ReadPolicy, Unreadable, Compare,
       OpenAbout, FillAbout, Done, Abort, InitDeny, InitAudit, EditDeny, EditAbout,
       Starts, Edits, vars
  <2> QED BY <2>1, DerivationAssumption DEF DerivationAssumption
<1> QED BY <1>1, <1>2, PTL DEF Spec

-----------------------------------------------------------------------------
(* The invariant *)

LEMMA InitHolds == Init => Inv
<1> SUFFICES ASSUME Init PROVE Inv
  OBVIOUS
<1> USE DerivationAssumption DEF DerivationAssumption, Init
<1>1. FilesOK /\ RunOK
  BY BlankType DEF FilesOK, RunOK
<1>2. AuditPhase /\ AboutPhase /\ TextKept /\ Agreed
  BY DEF AuditPhase, AboutPhase, TextKept, Agreed, Syncing, Settled
<1>3. HandKept
  BY <1>1 DEF HandKept, Kept, FilesOK, RunOK
<1> QED BY <1>1, <1>2, <1>3 DEF Inv

\* A run that begins or ends, or deny.toml moving under it, writes no about.toml.
LEMMA Still ==
  ASSUME Inv, [Next]_vars, UNCHANGED <<about, hand, cut>>,
         pc # "fillAbout", pc' # "fillAbout"
  PROVE  HandKept' /\ TextKept'
  BY DEF Inv, HandKept, TextKept, Kept, BeingWritten

\* Agreement with a policy is a matter of the file and that policy.
LEMMA SyncedFrame ==
  ASSUME NEW m, UNCHANGED policy, about'[m] = about[m]
  PROVE  Synced(m)' <=> Synced(m)
  BY DEF Synced

LEMMA StepHolds == Inv /\ [Next]_vars => Inv'
<1> SUFFICES ASSUME Inv, [Next]_vars PROVE Inv'
  OBVIOUS
<1> USE DerivationAssumption DEF DerivationAssumption
<1> USE DEF Inv
<1>1. CASE SyncAudit
  <2>1. FilesOK' /\ RunOK'
    BY <1>1, IgnoresType DEF SyncAudit, Starts, FilesOK, RunOK
  <2>2. AuditPhase' /\ AboutPhase' /\ Agreed'
    BY <1>1 DEF SyncAudit, Starts, AuditPhase, AboutPhase, Agreed, Syncing, Settled
  <2>3. HandKept' /\ TextKept'
    BY <1>1, Still DEF SyncAudit, Starts
  <2> QED BY <2>1, <2>2, <2>3
<1>2. CASE NoDeny
  <2>1. FilesOK' /\ RunOK'
    BY <1>2 DEF NoDeny, Starts, Fails, FilesOK, RunOK, files
  <2>2. AuditPhase' /\ AboutPhase' /\ Agreed'
    BY <1>2 DEF NoDeny, Starts, Fails, files, AuditPhase, AboutPhase, Agreed, Syncing, Settled
  <2>3. HandKept' /\ TextKept'
    BY <1>2, Still DEF NoDeny, Starts, Fails, files
  <2> QED BY <2>1, <2>2, <2>3
<1>3. CASE FillAudit
  <2>1. FilesOK' /\ RunOK'
    BY <1>3, IgnoresType DEF FillAudit, FilesOK, RunOK, history
  <2>2. AuditPhase' /\ AboutPhase' /\ Agreed'
    BY <1>3 DEF FillAudit, history, AuditPhase, AboutPhase, Agreed, Syncing, Settled
  <2>3. HandKept' /\ TextKept'
    BY <1>3, Still DEF FillAudit, history
  <2> QED BY <2>1, <2>2, <2>3
<1>4. CASE ReadPolicy
  <2>1. FilesOK' /\ RunOK'
    BY <1>4 DEF ReadPolicy, FilesOK, RunOK, AuditPhase, files, history
  <2>2. AuditPhase' /\ AboutPhase' /\ Agreed'
    BY <1>4 DEF ReadPolicy, files, history, AuditPhase, AboutPhase, Agreed, Syncing, Settled
  <2>3. HandKept' /\ TextKept'
    BY <1>4, Still DEF ReadPolicy, files, history
  <2> QED BY <2>1, <2>2, <2>3
<1>5. CASE Unreadable
  <2>1. FilesOK' /\ RunOK'
    BY <1>5 DEF Unreadable, Fails, FilesOK, RunOK, files, history
  <2>2. AuditPhase' /\ AboutPhase' /\ Agreed'
    BY <1>5 DEF Unreadable, Fails, files, history, AuditPhase, AboutPhase, Agreed, Syncing, Settled
  <2>3. HandKept' /\ TextKept'
    BY <1>5, Still DEF Unreadable, Fails, files, history
  <2> QED BY <2>1, <2>2, <2>3
<1>6. CASE Compare
  <2>1. FilesOK' /\ RunOK'
    BY <1>6 DEF Compare, FilesOK, RunOK, files, history
  <2>2. AuditPhase' /\ Agreed'
    BY <1>6 DEF Compare, files, history, AuditPhase, Agreed, Syncing, Settled
  <2>4. AboutPhase'
    <3> PICK m \in todo : /\ about[m] # Broken /\ todo' = todo \ {m}
                          /\ drifted' = (drifted \/ about[m] # Merged(m, about[m], policy))
      BY <1>6 DEF Compare
    <3>1. UNCHANGED <<about, policy>> /\ pc = "member" /\ pc' = "member"
      BY <1>6 DEF Compare, files
    <3>2. \A n : Synced(n)' <=> Synced(n)
      BY <3>1, SyncedFrame
    <3>3. Synced(m) \/ drifted'
      BY DEF Synced
    <3>4. drifted => drifted'
      OBVIOUS
    <3> QED BY <3>1, <3>2, <3>3, <3>4 DEF AboutPhase
  <2>3. HandKept' /\ TextKept'
    BY <1>6, Still DEF Compare, files, history
  <2> QED BY <2>1, <2>2, <2>3, <2>4
<1>7. CASE OpenAbout
  <2> PICK m \in todo :
        /\ about[m] # Broken /\ about[m] # Merged(m, about[m], policy)
        /\ at' = m /\ text' = Merged(m, about[m], policy)
        /\ about' = [about EXCEPT ![m] = Blank]
    BY <1>7 DEF OpenAbout
  <2>0. m \in Members /\ about[m] \in About /\ policy \in Deny
    BY <1>7 DEF OpenAbout, FilesOK, RunOK, AboutPhase
  <2>1. /\ text' \in About /\ text'.pinned = about[m].pinned
        /\ text'.dev = about[m].dev /\ Merged(m, text', policy) = text'
    BY <2>0, MergedIsStable
  <2>2. FilesOK' /\ RunOK'
    BY <1>7, <2>0, <2>1, BlankType DEF OpenAbout, FilesOK, RunOK, history
  <2>3. AuditPhase' /\ Agreed'
    BY <1>7 DEF OpenAbout, history, AuditPhase, Agreed, Syncing, Settled
  <2>4. AboutPhase'
    <3>1. UNCHANGED <<policy, todo, drifted>> /\ pc = "member" /\ mode' = "sync"
      BY <1>7 DEF OpenAbout
    <3>2. \A n \in Members : about'[n] = IF n = m THEN Blank ELSE about[n]
      BY DEF FilesOK, RunOK
    <3>3. Blank # NoFile
      BY BlankType
    <3>4. \A n \in Members \ todo : (Synced(n)' <=> Synced(n)) /\ about'[n] = about[n]
      BY <3>1, <3>2, SyncedFrame
    <3>5. text' = Merged(at', text', policy')
      BY <3>1, <2>1
    <3> QED BY <3>1, <3>2, <3>3, <3>4, <3>5 DEF AboutPhase, RunOK
  <2>5. HandKept' /\ TextKept'
    BY <1>7, <2>0, <2>1 DEF OpenAbout, history, HandKept, TextKept, Kept, BeingWritten, FilesOK, RunOK
  <2> QED BY <2>2, <2>3, <2>4, <2>5
<1>8. CASE FillAbout
  <2>0. /\ at \in todo /\ text \in About /\ mode = "sync"
        /\ text = Merged(at, text, policy) /\ at \in Members
    BY <1>8 DEF FillAbout, AboutPhase, FilesOK, RunOK
  <2>1. FilesOK' /\ RunOK'
    BY <1>8, <2>0 DEF FillAbout, FilesOK, RunOK, history
  <2>2. AuditPhase' /\ Agreed'
    BY <1>8 DEF FillAbout, history, AuditPhase, Agreed, Syncing, Settled
  <2>3. AboutPhase'
    <3>1. UNCHANGED <<policy, drifted>> /\ pc' = "member" /\ todo' = todo \ {at}
      BY <1>8 DEF FillAbout
    <3>2. \A n \in Members : about'[n] = IF n = at THEN text ELSE about[n]
      BY <1>8 DEF FillAbout, FilesOK, RunOK
    <3>3. pc = "fillAbout" /\ text \notin {NoFile, Broken}
      BY <1>8, <2>0 DEF FillAbout
    <3>4. \A n \in Members \ {at} : (Synced(n)' <=> Synced(n)) /\ about'[n] = about[n]
      BY <3>1, <3>2, SyncedFrame
    <3>5. about'[at] = Merged(at, about'[at], policy') /\ about'[at] # Broken
      BY <3>1, <3>2, <3>3, <2>0
    <3>6. \A n \in {at} : Synced(n)'
      BY <3>5 DEF Synced
    <3> QED BY <3>1, <3>2, <3>3, <3>4, <3>6, <2>0 DEF AboutPhase, RunOK
  <2>4. HandKept' /\ TextKept'
    BY <1>8, <2>0 DEF FillAbout, history, HandKept, TextKept, Kept, BeingWritten, FilesOK, RunOK
  <2> QED BY <2>1, <2>2, <2>3, <2>4
<1>9. CASE Done
  <2>1. FilesOK' /\ RunOK'
    BY <1>9 DEF Done, FilesOK, RunOK, files, history
  <2>2. AuditPhase' /\ AboutPhase' /\ Agreed'
    <3>1. UNCHANGED <<about, policy>>
      BY <1>9 DEF Done, files
    <3>2. \A n : Synced(n)' <=> Synced(n)
      BY <3>1, SyncedFrame
    <3> QED BY <1>9, <3>2 DEF Done, files, history, AuditPhase, AboutPhase, Agreed, Syncing, Settled
  <2>3. HandKept' /\ TextKept'
    BY <1>9, Still DEF Done, files, history
  <2> QED BY <2>1, <2>2, <2>3
<1>10. CASE Abort
  <2>1. AuditPhase' /\ AboutPhase' /\ Agreed' /\ TextKept'
    BY <1>10 DEF Abort, Fails, AuditPhase, AboutPhase, Agreed, TextKept, Syncing, Settled
  <2>2. CASE pc = "fillAbout"
    <3> PICK piece \in Pieces(text) : about' = [about EXCEPT ![at] = piece]
      BY <1>10, <2>2 DEF Abort
    <3>1. NoLists \in Lists
      BY BlankType DEF Blank, About
    <3>2. piece \in {Broken} \cup About
      BY <3>1, BlankType DEF Pieces, FilesOK, RunOK, About
    <3>3. FilesOK' /\ RunOK'
      BY <1>10, <2>2, <3>2 DEF Abort, Fails, FilesOK, RunOK
    <3>4. HandKept'
      BY <1>10, <2>2 DEF Abort, Fails, HandKept, Kept, BeingWritten, FilesOK, RunOK
    <3> QED BY <2>1, <3>3, <3>4
  <2>3. CASE pc # "fillAbout"
    <3>1. FilesOK' /\ RunOK'
      BY <1>10, <2>3 DEF Abort, Fails, FilesOK, RunOK
    <3>2. HandKept'
      BY <1>10, <2>3 DEF Abort, Fails, HandKept, Kept, BeingWritten
    <3> QED BY <2>1, <3>1, <3>2
  <2> QED BY <2>2, <2>3
<1>11. CASE InitDeny
  <2>1. deny' \in Deny
    BY <1>11, CompletedType DEF InitDeny, FilesOK, RunOK
  <2>2. FilesOK' /\ RunOK'
    BY <1>11, <2>1 DEF InitDeny, Starts, FilesOK, RunOK
  <2>3. AuditPhase' /\ AboutPhase' /\ Agreed'
    BY <1>11, <2>1 DEF InitDeny, Starts, AuditPhase, AboutPhase, Agreed, Syncing, Settled
  <2>4. HandKept' /\ TextKept'
    BY <1>11, Still DEF InitDeny, Starts
  <2> QED BY <2>2, <2>3, <2>4
<1>12. CASE InitAudit
  <2>1. FilesOK' /\ RunOK'
    BY <1>12, IgnoresType DEF InitAudit, FilesOK, RunOK, history
  <2>2. AuditPhase' /\ AboutPhase' /\ Agreed'
    BY <1>12 DEF InitAudit, history, AuditPhase, AboutPhase, Agreed, Syncing, Settled
  <2>3. HandKept' /\ TextKept'
    BY <1>12, Still DEF InitAudit, history
  <2> QED BY <2>1, <2>2, <2>3
<1>13. CASE EditDeny
  <2>1. FilesOK' /\ RunOK'
    BY <1>13 DEF EditDeny, Edits, FilesOK, RunOK, run
  <2>2. AuditPhase' /\ AboutPhase' /\ Agreed'
    BY <1>13 DEF EditDeny, Edits, run, AuditPhase, AboutPhase, Agreed, Syncing, Settled, Synced, Merged
  <2>3. HandKept' /\ TextKept'
    BY <1>13 DEF EditDeny, Edits, run, HandKept, TextKept, Kept, BeingWritten
  <2> QED BY <2>1, <2>2, <2>3
<1>14. CASE EditAbout
  <2>1. FilesOK' /\ RunOK'
    BY <1>14 DEF EditAbout, Edits, FilesOK, RunOK, run
  <2>2. AuditPhase' /\ AboutPhase' /\ Agreed'
    BY <1>14 DEF EditAbout, Edits, run, AuditPhase, AboutPhase, Agreed, Syncing, Settled
  <2>3. HandKept' /\ TextKept'
    BY <1>14 DEF EditAbout, Edits, run, HandKept, TextKept, Kept, BeingWritten, FilesOK, RunOK
  <2> QED BY <2>1, <2>2, <2>3
<1>15. CASE UNCHANGED vars
  <2> USE <1>15 DEF vars, files, run, history
  <2>1. FilesOK' /\ RunOK'
    BY DEF FilesOK, RunOK
  <2>2. \A n : Synced(n)' <=> Synced(n)
    BY SyncedFrame
  <2>3. AuditPhase' /\ AboutPhase' /\ Agreed'
    BY <2>2 DEF AuditPhase, AboutPhase, Agreed, Syncing, Settled
  <2>4. HandKept' /\ TextKept'
    BY DEF HandKept, TextKept, Kept, BeingWritten
  <2> QED BY <2>1, <2>3, <2>4
<1> QED BY <1>1, <1>2, <1>3, <1>4, <1>5, <1>6, <1>7, <1>8, <1>9, <1>10, <1>11,
           <1>12, <1>13, <1>14, <1>15 DEF Next

LEMMA Inductive == Spec => []Inv
  BY InitHolds, StepHolds, PTL DEF Spec

-----------------------------------------------------------------------------
(* The theorems *)

\* The files hold what the commands can write there, or a maintainer can.
THEOREM TypeCorrect == Spec => []TypeOK
<1>1. Inv /\ (runs \in 0..MaxRuns /\ edits \in 0..MaxEdits) => TypeOK
  BY DEF Inv, TypeOK
<1> QED BY <1>1, Inductive, BoundsHold, PTL

\* After any success, cargo-audit ignores exactly what deny.toml ignores, however
\* many runs were cut short before (sync.rs:341-363, init.rs:204-220).
THEOREM AuditInAgreement == Spec => []AuditAgrees
<1>1. Inv => AuditAgrees
  BY DEF Inv, Agreed, AuditAgrees
<1> QED BY <1>1, Inductive, PTL

\* And every about.toml accepts exactly what deny.toml lets it
\* (sync.rs:478-533).
THEOREM AboutInAgreement == Spec => []AboutAgrees
<1>1. Inv => AboutAgrees
  <2> SUFFICES ASSUME Inv, Settled, mode \in {"sync", "check"},
                      NEW m \in Members, about[m] # NoFile
               PROVE  /\ about[m] # Broken
                      /\ about[m].accepted = OrNone(deny.allow) \cap Used[m][about[m].dev]
                      /\ \A c \in Crates :
                           IF c \in DOMAIN deny.exceptions /\ c \in Reaches[m][about[m].dev]
                           THEN c \in DOMAIN about[m].lists
                                /\ about[m].lists[c] = deny.exceptions[c]
                           ELSE c \notin DOMAIN about[m].lists
    BY DEF AboutAgrees
  <2>1. about[m] # Broken /\ about[m] = Merged(m, about[m], deny) /\ about[m] \in About
    BY DEF Inv, Agreed, Synced, FilesOK
  <2>2. /\ about[m].accepted = OrNone(deny.allow) \cap Used[m][about[m].dev]
        /\ about[m].lists = [c \in DOMAIN deny.exceptions \cap Reaches[m][about[m].dev] |->
                                deny.exceptions[c]]
    BY <2>1 DEF Merged, About
  <2> QED BY <2>1, <2>2
<1> QED BY <1>1, Inductive, PTL

\* What a maintainer wrote in an about.toml goes only with the write that was cut
\* short in that very file (sync.rs:206-211).
THEOREM HandIsKept == Spec => []HandKept
  BY Inductive, PTL DEF Inv

\* Only the maintainer and init --force take anything from deny.toml
\* (init.rs:105-109, 166-173).
THEOREM PolicyIsKept == Spec => PolicyKept
<1>1. Inv /\ [Next]_vars /\ edits \in 0..MaxEdits =>
        [deny # NoFile => \/ edits' # edits
                          \/ pc = "idle" /\ mode' = "force"
                          \/ deny' # NoFile /\ Extends(deny', deny)]_vars
  <2> SUFFICES ASSUME Inv, Next, edits \in 0..MaxEdits, deny # NoFile
               PROVE  \/ edits' # edits
                      \/ pc = "idle" /\ mode' = "force"
                      \/ deny' # NoFile /\ Extends(deny', deny)
    OBVIOUS
  <2>1. deny \in Deny
    BY DEF Inv, FilesOK
  <2>2. CASE InitDeny
    BY <2>1, <2>2, CompletedType, DerivationAssumption
       DEF InitDeny, Starts, Extends, Completed, DerivationAssumption, Deny
  <2>3. CASE EditDeny \/ EditAbout
    BY <2>3, DerivationAssumption DEF EditDeny, EditAbout, Edits, DerivationAssumption
  <2>4. CASE UNCHANGED deny
    BY <2>4 DEF Extends
  <2> QED BY <2>2, <2>3, <2>4 DEF Next, SyncAudit, NoDeny, FillAudit, ReadPolicy,
             Unreadable, Compare, OpenAbout, FillAbout, Done, Abort, InitAudit, files
<1> QED BY <1>1, Inductive, BoundsHold, PTL DEF Spec, PolicyKept

-----------------------------------------------------------------------------
(* The scope of licences (LicenseScope): the walk finds exactly what ships,  *)
(* on every graph.                                                           *)

\* What is not yet expanded waits on the stack, and nothing is on it that an
\* edge does not lead to.
Frontier ==
  /\ phase = "start" => seen = {} /\ stack = {}
  /\ phase = "done" \/ ignore.transitive => stack = {}
  /\ phase # "start" /\ ~ignore.transitive =>
       /\ Root \in seen \cup stack
       /\ \A p \in seen, q \in Packages : Ships(p, q) => q \in seen \cup stack
  /\ \A S \in SUBSET Packages : Root \in S /\ Closed(S) => seen \cup stack \subseteq S

\* What the callers take is of what was seen.
Taken ==
  phase = "done" =>
    IF caller = "about"
    THEN /\ accepted = Allow \cap UNION {License[p] : p \in seen \ {Root}}
         /\ exceptions = (seen \ {Root}) \cap Excepted
    ELSE digested = (seen \ {Root}) \ Local

ScopeInv == ScopeTypeOK /\ Frontier /\ Taken

\* An edge ships when it is not left out: the loop of edge_ships and the rule
\* its comment states agree (license_scope.rs:343-357).
LEMMA ShipsUnlessLeftOut ==
  ASSUME ScopeTypeOK, NEW p \in Packages, NEW q \in Packages
  PROVE  Ships(p, q) <=> ~(graph[p, q] \subseteq LeftOut)
  BY DEF Ships, LeftOut, Excluded

\* A closed set holds what an edge from it leads to.
LEMMA ClosedUnderShips ==
  ASSUME ScopeTypeOK, NEW S \in SUBSET Packages
  PROVE  Closed(S) <=> \A p \in S, q \in Packages : Ships(p, q) => q \in S
  BY ShipsUnlessLeftOut DEF Closed

LEMMA ScopeInitHolds == ScopeInit => ScopeInv
  BY GraphAssumption DEF GraphAssumption, ScopeInit, ScopeInv, ScopeTypeOK, Frontier, Taken

LEMMA ScopeStepHolds == ScopeInv /\ [ScopeNext]_scopeVars => ScopeInv'
<1> SUFFICES ASSUME ScopeInv, [ScopeNext]_scopeVars PROVE ScopeInv'
  OBVIOUS
<1> USE GraphAssumption DEF GraphAssumption, ScopeInv
<1>u. UNCHANGED input =>
        /\ \A p, q : Ships(p, q)' <=> Ships(p, q)
        /\ \A S : Closed(S)' <=> Closed(S)
  BY DEF input, Ships, Excluded, Closed, LeftOut
<1>1. CASE Start
  <2>1. ScopeTypeOK'
    BY <1>1 DEF Start, ScopeTypeOK, input, result
  <2>2. Frontier'
    <3>1. UNCHANGED input /\ phase = "start" /\ phase' = "walk" /\ seen = {} /\ stack = {}
      BY <1>1 DEF Start, Frontier
    <3>2. CASE ignore.transitive
      <4>1. seen' = {q \in Packages : Ships(Root, q)} /\ stack' = {}
        BY <1>1, <3>1, <3>2 DEF Start
      <4>2. ASSUME NEW S \in SUBSET Packages, Root \in S, Closed(S) PROVE seen' \subseteq S
        BY <4>1, <4>2, ClosedUnderShips
      <4> QED BY <3>1, <3>2, <4>1, <4>2, <1>u DEF Frontier, input
    <3>3. CASE ~ignore.transitive
      <4>1. seen' = {} /\ stack' = {Root}
        BY <1>1, <3>1, <3>3 DEF Start
      <4> QED BY <3>1, <3>3, <4>1, <1>u DEF Frontier, input
    <3> QED BY <3>2, <3>3
  <2>3. Taken'
    BY <1>1 DEF Start, Taken
  <2> QED BY <2>1, <2>2, <2>3
<1>2. CASE Pop
  <2> PICK p \in stack :
        /\ seen' = seen \cup {p}
        /\ stack' = (stack \ {p})
                      \cup (IF p \in seen THEN {} ELSE {q \in Packages : Ships(p, q)})
    BY <1>2 DEF Pop
  <2>0. UNCHANGED input /\ phase = "walk" /\ phase' = "walk" /\ p \in Packages
    BY <1>2 DEF Pop, ScopeTypeOK
  <2>1. ScopeTypeOK'
    BY <1>2, <2>0 DEF Pop, ScopeTypeOK, input, result
  <2>2. Frontier'
    <3>1. ~ignore.transitive
      BY DEF Frontier
    <3>2. \A r \in seen', q \in Packages : Ships(r, q) => q \in seen' \cup stack'
      BY <3>1, <2>0 DEF Frontier
    <3>3. ASSUME NEW S \in SUBSET Packages, Root \in S, Closed(S)
          PROVE  seen' \cup stack' \subseteq S
      <4>1. p \in S /\ seen \cup stack \subseteq S
        BY <3>3 DEF Frontier
      <4> QED BY <4>1, <2>0, <3>3, ClosedUnderShips
    <3> QED BY <3>1, <3>2, <3>3, <2>0, <1>u DEF Frontier, input
  <2>3. Taken'
    BY <2>0 DEF Taken
  <2> QED BY <2>1, <2>2, <2>3
<1>3. CASE Collect
  <2>0. UNCHANGED <<input, seen, stack>> /\ stack = {} /\ phase = "walk" /\ phase' = "done"
    BY <1>3 DEF Collect
  <2>1. ScopeTypeOK'
    BY <1>3 DEF Collect, ScopeTypeOK, input
  <2>2. Frontier'
    BY <2>0, <1>u DEF Frontier, input
  <2>3. Taken'
    BY <1>3 DEF Collect, Taken, input
  <2> QED BY <2>1, <2>2, <2>3
<1>4. CASE UNCHANGED scopeVars
  BY <1>4, <1>u DEF scopeVars, input, result, ScopeTypeOK, Frontier, Taken
<1> QED BY <1>1, <1>2, <1>3, <1>4 DEF ScopeNext

LEMMA ScopeInductive == ScopeSpec => []ScopeInv
  BY ScopeInitHolds, ScopeStepHolds, PTL DEF ScopeSpec

\* The walk stays within the packages of the graph, and what its callers take
\* within what deny.toml allows and excepts.
THEOREM ScopeTypeCorrect == ScopeSpec => []ScopeTypeOK
  BY ScopeInductive, PTL DEF ScopeInv

\* When the walk is done, it has seen the root, and what it has seen is closed and
\* lies in every closed set that holds the root.
LEMMA WalkDone ==
  ASSUME ScopeInv, phase = "done", ~ignore.transitive
  PROVE  /\ seen \in SUBSET Packages /\ Root \in seen /\ Closed(seen)
         /\ \A S \in SUBSET Packages : Root \in S /\ Closed(S) => seen \subseteq S
<1>1. stack = {} /\ seen \in SUBSET Packages
  BY DEF ScopeInv, Frontier, ScopeTypeOK
<1>2. \A p \in seen, q \in Packages : Ships(p, q) => q \in seen
  BY <1>1 DEF ScopeInv, Frontier
<1>3. Closed(seen)
  BY <1>1, <1>2, ClosedUnderShips DEF ScopeInv
<1> QED BY <1>1, <1>3 DEF ScopeInv, Frontier

\* On every graph, cyclic or not, the walk finds the least set that holds the
\* root and what every edge that ships leads to (license_scope.rs:298-341).
THEOREM Exact == ScopeSpec => []WalkIsExact
<1>1. ScopeInv => WalkIsExact
  BY WalkDone DEF WalkIsExact
<1> QED BY <1>1, ScopeInductive, PTL

\* A scope without transitive dependencies lies within the full one
\* (license_scope.rs:317-326).
THEOREM Direct == ScopeSpec => []DirectIsReachable
<1>1. ScopeInv => DirectIsReachable
  BY DEF ScopeInv, Frontier, DirectIsReachable
<1> QED BY <1>1, ScopeInductive, PTL

\* What an about.toml accepts and what a record digests are those of the packages
\* that ship by the graph, on every graph (license_scope.rs:216-247).
THEOREM Taking == ScopeSpec => []TakenIsShipped
<1>1. ScopeInv => TakenIsShipped
  <2> SUFFICES ASSUME ScopeInv, phase = "done", ~ignore.transitive
               PROVE  TakenIsShipped
    BY DEF TakenIsShipped
  <2>1. Shipped = seen \ {Root}
    BY WalkDone DEF Shipped
  <2>2. Taken
    BY DEF ScopeInv
  <2> QED BY <2>1, <2>2 DEF Taken, TakenIsShipped
<1> QED BY <1>1, ScopeInductive, PTL
=============================================================================
