--------------------------- MODULE VerifyInputsProofs ---------------------------
(***************************************************************************)
(* What VerifyInputs promises, for every workspace and every history of    *)
(* edits, releases and mislaid records.                                    *)
(***************************************************************************)
EXTENDS VerifyInputs, TLAPS

\* Every variable keeps to its type.
THEOREM TypeCorrect == Spec => []TypeOK
<1>1. Init => TypeOK
  <2> SUFFICES ASSUME Init PROVE TypeOK
    OBVIOUS
  <2>1. tree \in Trees /\ tree.deny \in Policies \cup {NoFile, Broken}
    BY InputsAssumption DEF Init, Tree
  <2>2. Whole \in Targets
    BY DEF Targets
  <2>3. /\ lock \in {Lock(w) : w \in Trees}
        /\ about \in {AboutDigest(w, t) : w \in Trees, t \in Targets}
    BY <2>1, <2>2 DEF Init
  <2> QED
    <3>1. /\ records \in [Targets -> Releases \cup {NoRecord, Torn}]
          /\ runs \in 0..MaxRuns /\ edits \in 0..MaxEdits /\ releases \in 0..MaxReleases
      BY InputsAssumption DEF Init
    <3>2. /\ tree \in Trees /\ seen \subseteq Trees
          /\ asked \in Targets /\ strict \in BOOLEAN /\ pc = "idle"
          /\ policy \in Policies \cup {NoFile, Broken} /\ reach \subseteq Keys
          /\ release \in Releases \cup {NoRecord}
      BY <2>1, <2>2 DEF Init
    <3>3. /\ mismatches = {} /\ unverified = {} /\ verdict = "none" /\ warned \in BOOLEAN
          /\ outcome = "none"
      BY DEF Init
    <3> QED
      BY <2>3, <3>1, <3>2, <3>3 DEF TypeOK
<1>2. TypeOK /\ [Next]_vars => TypeOK'
  <2> SUFFICES ASSUME TypeOK, [Next]_vars PROVE TypeOK'
    OBVIOUS
  <2> USE DEF TypeOK
  <2>1. CASE Begin
    <3>1. pc' \in {"idle", "load"} /\ outcome' \in {"none", "error", "remote"}
      BY <2>1 DEF Begin, Quit
    <3>2. runs' \in 0..MaxRuns
      BY <2>1, InputsAssumption DEF Begin
    <3>3. /\ asked' \in Targets /\ strict' \in BOOLEAN /\ release' = NoRecord
          /\ seen' = {tree} /\ mismatches' = {} /\ unverified' = {}
          /\ verdict' = "none" /\ UNCHANGED <<tree, records, inputs, edits, releases>>
      BY <2>1 DEF Begin
    <3>4. warned' \in BOOLEAN
      BY <2>1 DEF Begin
    <3> QED
      BY <3>1, <3>2, <3>3, <3>4 DEF inputs
  <2>2. CASE Load
    BY <2>2 DEF Load, Going, Quit, Same, inputs, findings, bounds
  <2>3. CASE ReadLock
    BY <2>3 DEF ReadLock, Going, Same, findings, bounds
  <2>4. CASE ReadDeny
    <3>1. tree.deny \in Policies \cup {NoFile, Broken}
      BY InputsAssumption DEF Tree
    <3> QED
      BY <2>4, <3>1 DEF ReadDeny, Going, Quit, Same, findings, bounds
  <2>5. CASE ResolveScope
    <3>1. asked # Whole => tree.needs[asked] \subseteq Keys
      BY InputsAssumption DEF Tree, Targets
    <3> QED
      BY <2>5, <3>1 DEF ResolveScope, Going, Quit, Same, findings, bounds
  <2>6. CASE DigestAbout
    BY <2>6 DEF DigestAbout, Going, Quit, Same, findings, bounds
  <2>7. CASE Compare
    <3>1. \A r, found : Mismatches(r, found)
                          \subseteq {"package", "dependencies", "lockfile", "policy", "about"}
      BY DEF Mismatches
    <3>2. \A r, t : Unverified(r, t) \subseteq {"dependencies", "policy", "about", "tool"}
      BY DEF Unverified
    <3> QED
      BY <2>7, <3>1, <3>2 DEF Compare, Going, Same, inputs, bounds
  <2>8. CASE Gate
    <3>1. /\ verdict' \in {"none", "passed", "failed"} /\ warned' \in BOOLEAN
          /\ pc' \in {"idle", "report"} /\ outcome' \in {outcome, "error"}
          /\ Same /\ UNCHANGED <<release, inputs, mismatches, unverified>>
      BY <2>8 DEF Gate, Going, Quit
    <3> QED
      BY <3>1 DEF Same, inputs, bounds
  <2>9. CASE Report
    BY <2>9 DEF Report, Quit, Same, inputs, findings, bounds
  <2>10. CASE Release
    BY <2>10, InputsAssumption DEF Release, Releases, inputs, findings
  <2>11. CASE Mislay
    BY <2>11, InputsAssumption DEF Mislay, inputs, findings
  <2>12. CASE Edit
    BY <2>12, InputsAssumption DEF Edit, inputs, findings
  <2>13. CASE UNCHANGED vars
    BY <2>13 DEF vars, inputs, findings, bounds
  <2> QED
    BY <2>1, <2>2, <2>3, <2>4, <2>5, <2>6, <2>7, <2>8, <2>9, <2>10, <2>11, <2>12, <2>13
    DEF Next, Finished
<1> QED
  BY <1>1, <1>2, PTL DEF Spec

-----------------------------------------------------------------------------
(* Lemmas on the digests *)

\* The digest of a scope is taken of the packages the scope reaches.
LEMMA ScopedDigest ==
  ASSUME NEW w, NEW t \in Targets
  PROVE  Dependencies(Lock(w), t, Needs(w, t)) = Third(w, Needs(w, t))
<1>1. CASE t = Whole
  BY <1>1 DEF Dependencies, Lock
<1>2. CASE t # Whole
  <2>1. Needs(w, t) \subseteq Needs(w, Whole)
    BY <1>2 DEF Needs, Scope, Targets
  <2>2. Lock(w).third = Third(w, Needs(w, Whole))
    BY DEF Lock
  <2>3. Dependencies(Lock(w), t, Needs(w, t))
          = {e \in Third(w, Needs(w, Whole)) : e[1] \in Needs(w, t)}
    BY <1>2, <2>2 DEF Dependencies
  <2> QED
    BY <2>1, <2>3 DEF Third
<1> QED
  BY <1>1, <1>2

\* Equal digests of about.toml files are of equal files.
LEMMA AboutInjective ==
  ASSUME NEW v, NEW w, NEW t, AboutDigest(v, t) # {},
         AboutDigest(v, t) \subseteq AboutDigest(w, t)
  PROVE  \A m \in Scope(t) \cap Members : v.about[m] = w.about[m]
<1> DEFINE Files(u) == {m \in Scope(t) : u.about[m] # NoFile}
           Set(u) == {<<m, u.about[m]>> : m \in Files(u)}
<1>1. AboutDigest(v, t) = {Set(v)} /\ AboutDigest(w, t) = {Set(w)}
  BY DEF AboutDigest
<1>2. Set(v) = Set(w)
  BY <1>1
<1>3. \A m \in Scope(t) : v.about[m] # NoFile => <<m, v.about[m]>> \in Set(w)
  BY <1>2
<1>4. \A m \in Scope(t) : w.about[m] # NoFile => <<m, w.about[m]>> \in Set(v)
  BY <1>2
<1>5. \A m : /\ <<m, v.about[m]>> \in Set(w) => w.about[m] = v.about[m]
             /\ <<m, w.about[m]>> \in Set(v) => v.about[m] = w.about[m]
  OBVIOUS
<1> QED
  BY <1>3, <1>4, <1>5

\* The digest of about.toml files depends on those of its scope only.
LEMMA AboutScoped ==
  ASSUME NEW v, NEW w, NEW t, \A m \in Scope(t) : v.about[m] = w.about[m]
  PROVE  AboutDigest(v, t) = AboutDigest(w, t)
<1>1. {m \in Scope(t) : v.about[m] # NoFile} = {m \in Scope(t) : w.about[m] # NoFile}
  OBVIOUS
<1>2. {<<m, v.about[m]>> : m \in {m \in Scope(t) : v.about[m] # NoFile}}
        = {<<m, w.about[m]>> : m \in {m \in Scope(t) : w.about[m] # NoFile}}
  BY <1>1
<1> QED
  BY <1>1, <1>2 DEF AboutDigest

-----------------------------------------------------------------------------
(* The invariant: what was read is what there was, at some moment *)

Past(steps) == pc \in steps \/ Done

Found == [dependencies |-> Dependencies(lock, asked, reach), raw |-> lock,
          policy |-> policy, about |-> about]

Inv ==
  /\ tree \in seen
  /\ Past({"lock", "deny", "scope", "about", "compare", "gate", "report"}) =>
       release \in Releases
  /\ Past({"deny", "scope", "about", "compare", "gate", "report"}) =>
       \E w \in seen : lock = Lock(w)
  /\ Past({"scope", "about", "compare", "gate", "report"}) =>
       \E w \in seen : policy = w.deny
  /\ Past({"about", "compare", "gate", "report"}) =>
       asked = Whole \/ \E w \in seen : reach = w.needs[asked]
  /\ Past({"compare", "gate", "report"}) =>
       \E w \in seen : about = AboutDigest(w, asked)
  /\ Past({"gate", "report"}) =>
       /\ mismatches = Mismatches(Record(release), Found)
       /\ \E tool : unverified = Unverified(Record(release), tool)
  /\ Past({"report"}) =>
       /\ policy \in Policies
       /\ verdict = "passed" => \E w \in seen : Needs(w, Whole) \subseteq Accepts[policy]
  /\ Done /\ outcome = "ok" => verdict = "passed" /\ mismatches = {}

\* What a run has read at each step is what some tree of the run held
\* (verify.rs:253-321).
THEOREM Read == Spec => []Inv
<1>1. Init => Inv
  BY DEF Init, Inv, Past, Done
<1>2. TypeOK /\ Inv /\ [Next]_vars => Inv'
  <2> SUFFICES ASSUME TypeOK, Inv, [Next]_vars PROVE Inv'
    OBVIOUS
  <2>1. CASE Begin
    <3>1. /\ pc' = "load" \/ (pc' = "idle" /\ outcome' \in {"remote", "error"})
          /\ tree' = tree /\ seen' = {tree}
      BY <2>1 DEF Begin, Quit
    <3> QED
      BY <3>1 DEF Inv, Past, Done
  <2>2. CASE Load
    BY <2>2 DEF Load, Inv, Past, Done, Going, Quit, Same, TypeOK
  <2>3. CASE ReadLock
    BY <2>3 DEF ReadLock, Inv, Past, Done, Going, Same
  <2>4. CASE ReadDeny
    BY <2>4 DEF ReadDeny, Inv, Past, Done, Going, Quit, Same
  <2>5. CASE ResolveScope
    BY <2>5 DEF ResolveScope, Inv, Past, Done, Going, Quit, Same
  <2>6. CASE DigestAbout
    BY <2>6 DEF DigestAbout, Inv, Past, Done, Going, Quit, Same
  <2>7. CASE Compare
    BY <2>7 DEF Compare, Inv, Past, Done, Going, Same, inputs, Found, Mismatches
  <2>8. CASE Gate
    BY <2>8 DEF Gate, Inv, Past, Done, Going, Quit, Same, inputs, Found, Mismatches
  <2>9. CASE Report
    BY <2>9 DEF Report, Inv, Past, Done, Quit, Same, inputs, findings, Found, Mismatches,
                IsOk, Reproduced
  <2>10. CASE Release
    BY <2>10 DEF Release, Inv, Past, Done, inputs, findings, Found, Mismatches
  <2>11. CASE Mislay
    BY <2>11 DEF Mislay, Inv, Past, Done, inputs, findings, Found, Mismatches
  <2>12. CASE Edit
    BY <2>12 DEF Edit, Inv, Past, Done, inputs, findings, Found, Mismatches
  <2>13. CASE UNCHANGED vars
    BY <2>13 DEF vars, Inv, Past, Done, inputs, findings, Found, Mismatches
  <2> QED
    BY <2>1, <2>2, <2>3, <2>4, <2>5, <2>6, <2>7, <2>8, <2>9, <2>10, <2>11, <2>12, <2>13
    DEF Next, Finished
<1> QED
  BY <1>1, <1>2, TypeCorrect, PTL DEF Spec

-----------------------------------------------------------------------------
(* What a run concludes *)

\* What a record has no digest of is reported as unverified.
LEMMA Reported ==
  ASSUME NEW r, NEW tool, unverified = Unverified(Record(r), tool)
  PROVE  /\ "dependencies" \notin unverified =>
              Record(r).dependencies # {} \/ Record(r).raw # {}
         /\ "policy" \notin unverified => Record(r).policy # {}
         /\ "about" \notin unverified => Record(r).about # {}
  BY DEF Unverified

\* A release that verifies is the one checked out, in the scope asked for, in all
\* that is not reported as unverified.
THEOREM Verified == Spec => []VerifiedIsReleased
<1>1. TypeOK /\ Inv => VerifiedIsReleased
  <2> SUFFICES ASSUME TypeOK, Inv, Done, outcome = "ok"
               PROVE  /\ release.target = asked
                      /\ "dependencies" \notin unverified =>
                           \E v, w \in seen :
                             Dependencies(Lock(v), asked, Needs(w, asked))
                               = Third(release.tree, Needs(release.tree, asked))
                      /\ "policy" \notin unverified =>
                           \E w \in seen : w.deny = release.tree.deny
                      /\ "about" \notin unverified =>
                           \E w \in seen : \A m \in Scope(asked) :
                             w.about[m] = release.tree.about[m]
    BY DEF VerifiedIsReleased
  <2> DEFINE r == Record(release)
  <2>1. /\ release \in Releases /\ asked \in Targets
        /\ release.target \in Targets /\ release.schema \in Schemas
        /\ release.target # Whole => release.schema = 6
    BY DEF Inv, Past, TypeOK, Releases
  <2>2. Mismatches(r, Found) = {}
    BY DEF Inv, Past
  <2>3. /\ r.package = asked
        /\ r.dependencies \subseteq {Found.dependencies}
        /\ r.dependencies = {} => r.raw \subseteq {Found.raw}
        /\ r.policy \subseteq {Found.policy} /\ r.about \subseteq Found.about
    BY <2>2 DEF Mismatches
  <2>4. release.schema \in 1..6
    BY <2>1, InputsAssumption
  <2>5. release.target = asked
    BY <2>1, <2>3, <2>4 DEF Record
  <2>6. PICK tool : unverified = Unverified(r, tool)
    BY DEF Inv, Past
  <2>7. ASSUME "dependencies" \notin unverified
        PROVE  \E v, w \in seen : Dependencies(Lock(v), asked, Needs(w, asked))
                                    = Third(release.tree, Needs(release.tree, asked))
    <3>1. r.dependencies # {} \/ r.raw # {}
      BY <2>6, <2>7, Reported
    <3>2. PICK v \in seen : lock = Lock(v)
      BY DEF Inv, Past
    <3>3. PICK w \in seen : asked = Whole \/ reach = w.needs[asked]
      BY <3>2 DEF Inv, Past
    <3>4. asked # Whole => Needs(w, asked) = w.needs[asked]
      BY DEF Needs, Scope
    <3>5. Found.dependencies = Dependencies(Lock(v), asked, Needs(w, asked))
      BY <3>2, <3>3, <3>4 DEF Found, Dependencies
    <3>6. CASE r.dependencies # {}
      <4>1. r.dependencies = {Dependencies(Lock(release.tree), asked,
                                           Needs(release.tree, asked))}
        BY <2>5, <3>6 DEF Record
      <4>2. Dependencies(Lock(release.tree), asked, Needs(release.tree, asked))
              = Third(release.tree, Needs(release.tree, asked))
        BY <2>1, ScopedDigest
      <4> QED
        BY <2>3, <3>5, <4>1, <4>2
    <3>7. CASE r.dependencies = {}
      <4>1. r.raw = {Lock(release.tree)} /\ release.schema < 3
        BY <3>1, <3>7 DEF Record
      <4>2. asked = Whole
        BY <2>1, <2>4, <2>5, <4>1
      <4>3. Lock(release.tree) = Lock(v)
        BY <2>3, <3>2, <3>7, <4>1 DEF Found
      <4>4. Dependencies(Lock(v), asked, Needs(w, asked))
              = Dependencies(Lock(release.tree), asked, Needs(release.tree, asked))
        BY <4>2, <4>3 DEF Dependencies
      <4> QED
        BY <2>1, <4>4, ScopedDigest
    <3> QED
      BY <3>6, <3>7
  <2>8. ASSUME "policy" \notin unverified
        PROVE  \E w \in seen : w.deny = release.tree.deny
    <3>1. r.policy # {}
      BY <2>6, <2>8, Reported
    <3>2. policy = release.tree.deny
      BY <2>3, <3>1 DEF Record, Found
    <3> QED
      BY <3>2 DEF Inv, Past
  <2>9. ASSUME "about" \notin unverified
        PROVE  \E w \in seen : \A m \in Scope(asked) : w.about[m] = release.tree.about[m]
    <3>1. r.about # {}
      BY <2>6, <2>9, Reported
    <3>2. r.about = AboutDigest(release.tree, asked)
      BY <2>5, <3>1 DEF Record
    <3>3. PICK w \in seen : about = AboutDigest(w, asked)
      BY DEF Inv, Past
    <3>4. AboutDigest(release.tree, asked) \subseteq AboutDigest(w, asked)
      BY <2>3, <3>2, <3>3 DEF Found
    <3>5. \A m \in Scope(asked) \cap Members : release.tree.about[m] = w.about[m]
      BY <3>1, <3>2, <3>4, AboutInjective
    <3>6. Scope(asked) \subseteq Members
      BY <2>1 DEF Scope, Targets
    <3> QED
      BY <3>5, <3>6
  <2> QED
    BY <2>5, <2>7, <2>8, <2>9
<1> QED
  BY <1>1, TypeCorrect, Read, PTL

\* The gate that reproduces a verdict applies the released policy.
THEOREM Replayed == Spec => []PolicyReplayed
<1>1. TypeOK /\ Inv => PolicyReplayed
  <2> SUFFICES ASSUME TypeOK, Inv, Done, outcome = "ok", "policy" \notin unverified
               PROVE  \E w \in seen : Needs(w, Whole) \subseteq Accepts[release.tree.deny]
    BY DEF PolicyReplayed
  <2>1. PICK tool : unverified = Unverified(Record(release), tool)
    BY DEF Inv, Past
  <2>2. Record(release).policy # {}
    BY <2>1, Reported
  <2>3. Mismatches(Record(release), Found) = {}
    BY DEF Inv, Past
  <2>4. Record(release).policy \subseteq {Found.policy}
    BY <2>3 DEF Mismatches
  <2>5. policy = release.tree.deny
    BY <2>2, <2>4 DEF Record, Found
  <2> QED
    BY <2>5 DEF Inv, Past
<1> QED
  BY <1>1, TypeCorrect, Read, PTL

\* Neither the release's own version bump nor a sibling crate's changes are a
\* mismatch.
THEOREM NoneFalse == Spec => []NoFalseMismatch
<1>1. TypeOK /\ Inv => NoFalseMismatch
  <2> SUFFICES ASSUME TypeOK, Inv, Done, release.target = asked,
                      \A w \in seen : /\ Alike(w, release.tree, asked)
                                      /\ release.schema < 3 => w.own = release.tree.own
               PROVE  mismatches = {}
    BY DEF NoFalseMismatch
  <2> DEFINE r == Record(release)
             old == release.tree
  <2>1. /\ release \in Releases /\ asked \in Targets
        /\ release.target # Whole => release.schema = 6
        /\ release.schema \in 1..6
    BY InputsAssumption DEF Inv, Past, TypeOK, Releases
  <2>2. r.package = asked
    BY <2>1 DEF Record
  <2>3. \A w \in seen : /\ Needs(w, asked) = Needs(old, asked)
                        /\ \A k \in Needs(old, asked) : w.sums[k] = old.sums[k]
    BY DEF Alike, Needs
  <2>4. PICK v \in seen : lock = Lock(v)
    BY DEF Inv, Past
  <2>5. Third(v, Needs(v, asked)) = Third(old, Needs(old, asked))
    BY <2>3 DEF Third
  <2>6. r.dependencies \subseteq {Found.dependencies}
    <3>1. PICK w \in seen : asked = Whole \/ reach = w.needs[asked]
      BY <2>4 DEF Inv, Past
    <3>2. asked # Whole => Needs(w, asked) = w.needs[asked]
      BY DEF Needs, Scope
    <3>3. Found.dependencies = Dependencies(Lock(v), asked, Needs(w, asked))
      BY <2>4, <3>1, <3>2 DEF Found, Dependencies
    <3>4. Needs(w, asked) = Needs(v, asked)
      BY <2>3
    <3>5. Found.dependencies = Third(old, Needs(old, asked))
      BY <2>1, <2>5, <3>3, <3>4, ScopedDigest
    <3>6. r.dependencies \subseteq {Third(old, Needs(old, asked))}
      BY <2>1, ScopedDigest DEF Record
    <3> QED
      BY <3>5, <3>6
  <2>7. r.dependencies = {} => r.raw \subseteq {Found.raw}
    <3>1. CASE release.schema < 3
      <4>1. asked = Whole
        BY <2>1, <3>1
      <4>2. Lock(old) = Lock(v)
        BY <2>5, <3>1, <4>1 DEF Lock
      <4> QED
        BY <2>4, <3>1, <4>2 DEF Record, Found
    <3>2. CASE ~(release.schema < 3)
      BY <3>2 DEF Record
    <3> QED
      BY <3>1, <3>2
  <2>8. r.policy \subseteq {Found.policy}
    BY DEF Inv, Past, Alike, Record, Found
  <2>9. r.about \subseteq Found.about
    <3>1. PICK w \in seen : about = AboutDigest(w, asked)
      BY DEF Inv, Past
    <3>2. AboutDigest(w, asked) = AboutDigest(old, asked)
      BY AboutScoped DEF Alike
    <3> QED
      BY <3>1, <3>2 DEF Record, Found
  <2>10. Mismatches(r, Found) = {}
    BY <2>2, <2>6, <2>7, <2>8, <2>9 DEF Mismatches
  <2> QED
    BY <2>10 DEF Inv, Past
<1> QED
  BY <1>1, TypeCorrect, Read, PTL

=============================================================================
