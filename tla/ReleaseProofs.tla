----------------------------- MODULE ReleaseProofs -----------------------------
(***************************************************************************)
(* The way of a release record, for every value of the constants: what a   *)
(* record of release-prep is worth (ReleaseGate), with others at work in   *)
(* the tree and on the database or with nobody disturbing the run; what    *)
(* its readers are served once it is published (Distribution); and how     *)
(* a file is replaced as a whole (AtomicWrite).  The three share no state. *)
(***************************************************************************)
EXTENDS ReleaseGate, Distribution, AtomicWrite, TLAPS

-----------------------------------------------------------------------------
(***************************************************************************)
(* What a release record is worth, for every tree, policy, database        *)
(* history and number of runs: what holds with others at work in the tree  *)
(* and on the database, and what a run nobody disturbed can promise.       *)
(***************************************************************************)

\* Every variable keeps to its type (release.rs:359-616).
THEOREM TypeCorrect == Spec => []TypeOK
<1> USE GateAssumption DEF GateAssumption, TypeOK, Record, Verdict, Stopped, Commits
<1>1. Init => TypeOK
  BY DEF Init
<1>2. TypeOK /\ [Next]_vars => TypeOK'
  <2> SUFFICES ASSUME TypeOK, [Next]_vars PROVE TypeOK'
    OBVIOUS
  <2> USE DEF Step, tree, run, bounds, history
  <2>1. CASE ReadLock
    BY <2>1 DEF ReadLock
  <2>2. CASE ScopeDigest
    BY <2>2 DEF ScopeDigest
  <2>3. CASE CheckAbout
    BY <2>3 DEF CheckAbout
  <2>4. CASE ResolveLicenses
    BY <2>4 DEF ResolveLicenses
  <2>5. CASE DigestAbout
    BY <2>5 DEF DigestAbout
  <2>6. CASE ReadPolicy
    BY <2>6 DEF ReadPolicy
  <2>7. CASE RunDeny
    BY <2>7 DEF RunDeny
  <2>8. CASE ReadCommit
    BY <2>8 DEF ReadCommit
  <2>9. CASE LiveAudit
    BY <2>9 DEF LiveAudit
  <2>10. CASE OpenRecord
    BY <2>10 DEF OpenRecord
  <2>11. CASE WriteRecord
    BY <2>11 DEF WriteRecord
  <2>12. CASE Exit
    BY <2>12 DEF Exit
  <2>13. CASE Abort
    BY <2>13 DEF Abort
  <2>14. CASE Disturb
    BY <2>14 DEF Disturb
  <2>15. CASE Publish
    BY <2>15 DEF Publish
  <2>16. CASE UNCHANGED vars
    BY <2>16 DEF vars, tree, run, bounds, history
  <2> QED
    BY <2>1, <2>2, <2>3, <2>4, <2>5, <2>6, <2>7, <2>8, <2>9, <2>10, <2>11, <2>12, <2>13, <2>14, <2>15, <2>16 DEF Next, Release
<1> QED
  BY <1>1, <1>2, PTL DEF Spec

-----------------------------------------------------------------------------
\* What holds of a run whoever edits the tree beside it.
Judged == {"judged", "located", "audited", "writing", "written"}

PolicyInv ==
  /\ pc \in Judged => verdict.deny = denyText
  /\ pc \in {"writing", "written"} => verdict.passed
  /\ PolicyIsGatePolicy

LEMMA PolicyStep == TypeOK /\ PolicyInv /\ [Next]_vars => PolicyInv'
<1> SUFFICES ASSUME TypeOK, PolicyInv, [Next]_vars PROVE PolicyInv'
  OBVIOUS
<1> USE DEF PolicyInv, PolicyIsGatePolicy, Vouching, Judged, Stopped, Step,
            TypeOK, tree, run, bounds, history
<1>1. CASE ReadLock
  BY <1>1 DEF ReadLock
<1>2. CASE ScopeDigest
  BY <1>2 DEF ScopeDigest
<1>3. CASE CheckAbout
  BY <1>3 DEF CheckAbout
<1>4. CASE ResolveLicenses
  BY <1>4 DEF ResolveLicenses
<1>5. CASE DigestAbout
  BY <1>5 DEF DigestAbout
<1>6. CASE ReadPolicy
  BY <1>6 DEF ReadPolicy
<1>7. CASE RunDeny
  BY <1>7 DEF RunDeny
<1>8. CASE ReadCommit
  BY <1>8 DEF ReadCommit
<1>9. CASE LiveAudit
  BY <1>9 DEF LiveAudit
<1>10. CASE OpenRecord
  BY <1>10 DEF OpenRecord
<1>11. CASE WriteRecord
  BY <1>11 DEF WriteRecord
<1>12. CASE Exit
  BY <1>12 DEF Exit
<1>13. CASE Abort
  BY <1>13 DEF Abort
<1>14. CASE Disturb
  BY <1>14 DEF Disturb
<1>15. CASE Publish
  BY <1>15 DEF Publish
<1>16. CASE UNCHANGED vars
  BY <1>16 DEF vars, tree, run, bounds, history
<1> QED
  BY <1>1, <1>2, <1>3, <1>4, <1>5, <1>6, <1>7, <1>8, <1>9, <1>10, <1>11, <1>12, <1>13, <1>14, <1>15, <1>16 DEF Next, Release

\* A record attests a run whose gate passed, under the very policy it digests
\* (release.rs:333-334, 393-397).
THEOREM PolicyRecorded == Spec => []PolicyIsGatePolicy
<1>1. Init => PolicyInv
  BY DEF Init, PolicyInv, PolicyIsGatePolicy, Vouching, Judged
<1>2. PolicyInv => PolicyIsGatePolicy
  BY DEF PolicyInv
<1> QED
  BY <1>1, <1>2, PolicyStep, TypeCorrect, PTL DEF Spec

\* A failing gate leaves the record of an earlier run whole
\* (release.rs:403, 494-500).
THEOREM RecordKept == Spec => FailedGateKeepsRecord
<1>1. Init => PolicyInv
  BY DEF Init, PolicyInv, PolicyIsGatePolicy, Vouching, Judged
<1>2. TypeOK /\ PolicyInv /\ [Next]_vars => [record' # record => verdict.passed]_vars
  BY DEF PolicyInv, Next, Release, ReadLock, ScopeDigest, CheckAbout,
         ResolveLicenses, DigestAbout, ReadPolicy, RunDeny, ReadCommit, LiveAudit,
         OpenRecord, WriteRecord, Exit, Abort, Disturb, Publish, vars, Step
<1> QED
  BY <1>1, <1>2, PolicyStep, TypeCorrect, PTL DEF Spec, FailedGateKeepsRecord

-----------------------------------------------------------------------------
\* What holds of a run nobody has disturbed since its first read.
CommitInv ==
  /\ still /\ pc = "judged" => head = verdict.commit
  /\ still /\ pc \in Judged \ {"judged"} => dbCommit = verdict.commit
  /\ CommitIsGateCommit

LEMMA CommitStep == TypeOK /\ CommitInv /\ [Next]_vars => CommitInv'
<1> SUFFICES ASSUME TypeOK, CommitInv, [Next]_vars PROVE CommitInv'
  OBVIOUS
<1> USE DEF CommitInv, CommitIsGateCommit, Vouching, Judged, Stopped, Step,
            TypeOK, tree, run, bounds, history
<1>1. CASE ReadLock
  BY <1>1 DEF ReadLock
<1>2. CASE ScopeDigest
  BY <1>2 DEF ScopeDigest
<1>3. CASE CheckAbout
  BY <1>3 DEF CheckAbout
<1>4. CASE ResolveLicenses
  BY <1>4 DEF ResolveLicenses
<1>5. CASE DigestAbout
  BY <1>5 DEF DigestAbout
<1>6. CASE ReadPolicy
  BY <1>6 DEF ReadPolicy
<1>7. CASE RunDeny
  BY <1>7 DEF RunDeny
<1>8. CASE ReadCommit
  BY <1>8 DEF ReadCommit
<1>9. CASE LiveAudit
  BY <1>9 DEF LiveAudit
<1>10. CASE OpenRecord
  BY <1>10 DEF OpenRecord
<1>11. CASE WriteRecord
  BY <1>11 DEF WriteRecord
<1>12. CASE Exit
  BY <1>12 DEF Exit
<1>13. CASE Abort
  BY <1>13 DEF Abort
<1>14. CASE Disturb
  BY <1>14 DEF Disturb
<1>15. CASE Publish
  BY <1>15 DEF Publish
<1>16. CASE UNCHANGED vars
  BY <1>16 DEF vars, tree, run, bounds, history
<1> QED
  BY <1>1, <1>2, <1>3, <1>4, <1>5, <1>6, <1>7, <1>8, <1>9, <1>10, <1>11, <1>12, <1>13, <1>14, <1>15, <1>16
  DEF Next, Release

\* The recorded commit is the one the gate judged, whatever the run's own live
\* audit refreshed since (release.rs:502-507, 541).
THEOREM CommitRecorded == Spec => []CommitIsGateCommit
<1>1. Init => CommitInv
  BY DEF Init, CommitInv, CommitIsGateCommit, Vouching, Judged
<1>2. CommitInv => CommitIsGateCommit
  BY DEF CommitInv
<1> QED
  BY <1>1, <1>2, CommitStep, TypeCorrect, PTL DEF Spec

-----------------------------------------------------------------------------
\* Cargo.lock is up to date with the manifests.
Fresh == \A l \in Locks : Resolved[l] = l

Digested == {"digested", "policy"} \cup Judged

QuietInv == still =>
  /\ pc \notin Stopped => lockText = lock
  /\ pc \in {"synced", "resolved"} \cup Digested => <<deny, lock, about>> \in InSync
  /\ pc \in Digested => aboutText = about
  /\ pc \in {"policy"} \cup Judged => denyText = deny
  /\ pc \in Judged => /\ verdict.lock = lock
                      /\ verdict.passed => <<lock, deny, verdict.commit>> \in Passes

LEMMA QuietStep ==
  Fresh /\ TypeOK /\ QuietInv /\ [Next]_vars => QuietInv'
<1> SUFFICES ASSUME Fresh, TypeOK, QuietInv, [Next]_vars PROVE QuietInv'
  OBVIOUS
<1> USE GateAssumption DEF GateAssumption, Fresh, QuietInv,
            Digested, Judged, Stopped, Step, TypeOK, tree, run, bounds, history
<1>1. CASE ReadLock
  BY <1>1 DEF ReadLock
<1>2. CASE ScopeDigest
  BY <1>2 DEF ScopeDigest
<1>3. CASE CheckAbout
  BY <1>3 DEF CheckAbout
<1>4. CASE ResolveLicenses
  BY <1>4 DEF ResolveLicenses
<1>5. CASE DigestAbout
  BY <1>5 DEF DigestAbout
<1>6. CASE ReadPolicy
  BY <1>6 DEF ReadPolicy
<1>7. CASE RunDeny
  BY <1>7 DEF RunDeny
<1>8. CASE ReadCommit
  BY <1>8 DEF ReadCommit
<1>9. CASE LiveAudit
  BY <1>9 DEF LiveAudit
<1>10. CASE OpenRecord
  BY <1>10 DEF OpenRecord
<1>11. CASE WriteRecord
  BY <1>11 DEF WriteRecord
<1>12. CASE Exit
  BY <1>12 DEF Exit
<1>13. CASE Abort
  BY <1>13 DEF Abort
<1>14. CASE Disturb
  BY <1>14 DEF Disturb
<1>15. CASE Publish
  BY <1>15 DEF Publish
<1>16. CASE UNCHANGED vars
  BY <1>16 DEF vars, tree, run, bounds, history
<1> QED
  BY <1>1, <1>2, <1>3, <1>4, <1>5, <1>6, <1>7, <1>8, <1>9, <1>10, <1>11, <1>12, <1>13, <1>14, <1>15, <1>16
  DEF Next, Release

Checkout == [lock |-> lock, deny |-> deny, about |-> about]

LEMMA PromiseStep ==
  /\ Fresh /\ TypeOK /\ PolicyInv /\ CommitInv /\ QuietInv
  /\ TypeOK' /\ [Next]_vars
  => [Promise!Next]_<<Attested, Checkout>>
<1> SUFFICES ASSUME Fresh, TypeOK, PolicyInv, CommitInv, QuietInv, TypeOK', [Next]_vars
             PROVE  [Promise!Next]_<<Attested, Checkout>>
  OBVIOUS
<1>1. CASE WriteRecord
  <2>1. UNCHANGED Checkout
    BY <1>1 DEF WriteRecord, tree, Checkout
  <2>2. CASE still
    <3>1. /\ record' = [deps |-> lock, deny |-> deny, about |-> about,
                        commit |-> verdict.commit]
          /\ verdict.commit \in Commits
          /\ <<lock, deny, verdict.commit>> \in Passes
          /\ <<deny, lock, about>> \in InSync
      BY <1>1, <2>2 DEF WriteRecord, Step, PolicyInv, CommitInv, QuietInv, Digested,
                        Judged, Stopped, TypeOK, Verdict
    <3>2. Attested' = record'
      BY <1>1, <2>2 DEF WriteRecord, Attested
    <3> QED
      BY <2>1, <3>1, <3>2 DEF Checkout, Promise!Next, Promise!Attest, Promise!Attests
  <2>3. CASE ~still
    <3>1. Attested' = Torn
      BY <1>1, <2>3, GateAssumption
      DEF WriteRecord, Attested, Vouching, GateAssumption, Record, TypeOK
    <3> QED
      BY <2>1, <3>1 DEF Checkout, Promise!Next, Promise!Tear
  <2> QED
    BY <2>2, <2>3 DEF TypeOK
<1>2. CASE record' = Torn /\ UNCHANGED tree
  BY <1>2 DEF tree, Attested, Vouching, Promise!Next, Promise!Tear, Checkout
<1>3. CASE UNCHANGED <<record, sound>>
  <2>1. UNCHANGED Attested
    BY <1>3 DEF Attested, Vouching
  <2> QED
    BY <2>1 DEF TypeOK, Promise!Next, Promise!Edit, Checkout
<1> QED
  BY <1>1, <1>2, <1>3
     DEF Next, Release, ReadLock, ScopeDigest, CheckAbout, ResolveLicenses,
         DigestAbout, ReadPolicy, RunDeny, ReadCommit, LiveAudit, OpenRecord, Exit,
         Abort, Disturb, Publish, vars, history

\* In an up-to-date tree an undisturbed run writes a record of that tree, at a
\* commit at which the tree passes, or none (release.rs:359-426).
THEOREM AttestationKept == ASSUME Fresh PROVE Spec => ImplementsAttestation
<1>1. Init => PolicyInv /\ CommitInv /\ QuietInv
  BY DEF Init, PolicyInv, PolicyIsGatePolicy, CommitInv, CommitIsGateCommit, QuietInv,
         Vouching, Judged, Digested, Stopped
<1>2. Init => Attested \notin [deps : Locks, deny : Policies, about : Abouts,
                               commit : Commits]
  BY GateAssumption DEF GateAssumption, Init, Record, Attested, Vouching
<1> QED
  BY <1>1, <1>2, Fresh, PolicyStep, CommitStep, QuietStep, PromiseStep, TypeCorrect, PTL
     DEF Spec, ImplementsAttestation, Promise!Spec, Checkout

-----------------------------------------------------------------------------
(***************************************************************************)
(* For any number of publisher runs, records and readers: keys never       *)
(* outlive what they signed, and a pipeline that publishes one step at a   *)
(* time to an immutable release serves one matching triple.                *)
(***************************************************************************)

\* A run has its key before it does anything with it.
Keyed == \A p \in Publishers : stage[p] \in Busy => key[p] \in Keys

TInv == AssetTypeOK /\ Keyed

LEMMA SigsMade == NoSig \in Sigs /\ \A k \in Keys, r \in Records : [key |-> k, of |-> r] \in Sigs
  BY DEF Sigs

LEMMA KeysMade == \A n \in 0..MaxPublishes : n < MaxPublishes => n + 1 \in Keys /\ n + 1 \in 0..MaxPublishes
  BY DistributionAssumption DEF DistributionAssumption, Keys

LEMMA TypeStep == TInv /\ [AssetNext]_assetVars => TInv'
<1> SUFFICES ASSUME TInv, [AssetNext]_assetVars PROVE TInv'
  OBVIOUS
<1> USE DEF TInv, Keyed, AssetTypeOK, Busy, Files,
        assets, options, disk, publisher, reader, Elsewhere, Go, Fail, Unlinked,
        Upload, Took, Told, VerdictOf
<1>1. ASSUME NEW p \in Publishers, Publishing(p) PROVE TInv'
  <2>1. CASE Start(p)
    <3> USE DEF Start
    <3>1. CASE result' = [result EXCEPT ![p] = "misnamed"]
               /\ UNCHANGED <<stage, publish, key, signed, sealable>>
      <4>1. \E f \in Files : file' = [file EXCEPT ![p] = f]
        BY <2>1
      <4>2. publishes' \in 0..MaxPublishes
        BY <2>1, KeysMade
      <4> QED
        BY <2>1, <3>1, <4>1, <4>2
    <3>2. CASE /\ stage' = [stage EXCEPT ![p] = "keying"]
               /\ \E b \in BOOLEAN : publish' = [publish EXCEPT ![p] = b]
               /\ key' = [key EXCEPT ![p] = publishes']
               /\ signed' = [signed EXCEPT ![p] = NoSig]
               /\ result' = [result EXCEPT ![p] = "none"]
               /\ sealable' = FALSE
      <4>1. \E f \in Files : file' = [file EXCEPT ![p] = f]
        BY <2>1
      <4>2. publishes' \in Keys /\ publishes' \in 0..MaxPublishes
        BY <2>1, KeysMade
      <4>3. signed' \in [Publishers -> Sigs]
        BY <3>2, SigsMade
      <4> QED
        BY <2>1, <3>2, <4>1, <4>2, <4>3
    <3> QED
      BY <2>1, <3>1, <3>2
  <2>2. CASE Generate(p)
    BY <2>2 DEF Generate
  <2>3. CASE Sign(p)
    <3>1. PICK t \in Sigs : signed' = [signed EXCEPT ![p] = t]
      BY <2>3, SigsMade DEF Sign
    <3>2. signed' \in [Publishers -> Sigs]
      BY <3>1
    <3> QED
      BY <2>3, <3>2 DEF Sign
  <2>4. CASE DropKey(p)
    BY <2>4 DEF DropKey
  <2>5. CASE UploadRecord(p)
    BY <2>5 DEF UploadRecord
  <2>6. CASE UploadSig(p)
    <3>1. sig' = sig \/ sig' = signed[p]
      BY <2>6 DEF UploadSig
    <3>2. sig' \in Sigs
      BY <3>1
    <3> QED
      BY <2>6, <3>2 DEF UploadSig
  <2>7. CASE UploadPub(p)
    BY <2>7 DEF UploadPub
  <2>8. CASE PublishDraft(p)
    BY <2>8 DEF PublishDraft
  <2>9. CASE Cleanup(p)
    BY <2>9 DEF Cleanup
  <2>10. CASE Kill(p)
    BY <2>10 DEF Kill
  <2> QED
    BY <1>1, <2>1, <2>2, <2>3, <2>4, <2>5, <2>6, <2>7, <2>8, <2>9, <2>10
    DEF Publishing
<1>2. ASSUME NEW v \in Readers, Reading(v) PROVE TInv'
  <2>1. CASE FetchRecord(v)
    BY <2>1 DEF FetchRecord
  <2>2. CASE FetchSig(v)
    BY <2>2 DEF FetchSig
  <2>3. CASE FetchKey(v)
    BY <2>3, DistributionAssumption DEF DistributionAssumption, FetchKey
  <2>4. CASE Check(v)
    <3> DEFINE a == IF gotSig[v] = [key |-> gotKey[v], of |-> gotRec[v]]
                    THEN VerdictOf(gotRec[v]) ELSE "mismatch"
    <3>1. a \in {"passed", "rejected", "mismatch"}
      BY DEF VerdictOf
    <3>2. Told(v, "check", a) /\ UNCHANGED <<Elsewhere, gotRec, gotSig, gotKey>>
      BY <2>4 DEF Check
    <3> HIDE DEF a
    <3> QED
      BY <3>1, <3>2
  <2> QED
    BY <1>2, <2>1, <2>2, <2>3, <2>4 DEF Reading
<1>3. CASE Prepare
  BY <1>3 DEF Prepare
<1>4. CASE Undraft
  BY <1>4 DEF Undraft
<1>5. CASE UNCHANGED assetVars
  BY <1>5 DEF assetVars
<1> QED
  BY <1>1, <1>2, <1>3, <1>4, <1>5 DEF AssetNext

LEMMA TypeInv == AssetSpec => []TInv
<1>1. AssetInit => TInv
  <2> SUFFICES ASSUME AssetInit PROVE TInv
    OBVIOUS
  <2>1. 0 \in 0..MaxPublishes
    BY DistributionAssumption DEF DistributionAssumption
  <2>2. sig \in Sigs /\ pub \in Keys \cup {NoKey} /\ keysLeft \subseteq Keys /\ stuck \subseteq Keys
    BY DEF AssetInit, Sigs, NoSig, NoKey
  <2>3. signed \in [Publishers -> Sigs] /\ gotSig \in [Readers -> Sigs]
    BY DEF AssetInit, Sigs
  <2> QED
    BY <2>1, <2>2, <2>3 DEF AssetInit, TInv, Keyed, AssetTypeOK, Busy, Files
<1> QED
  BY <1>1, TypeStep, PTL DEF AssetSpec

\* Every variable keeps to its type, so a run never signs or uploads without
\* a key of its own (publish_record.rs:118-187).
THEOREM AssetTypeCorrect == AssetSpec => []AssetTypeOK
  BY TypeInv, PTL DEF TInv
-----------------------------------------------------------------------------
(* Keys: a run's key is its own, and off the disk before anything it signed  *)
(* is uploaded.                                                              *)

Unsent == {"keying", "signing", "dropping"}
Sending == {"sendRecord", "sendSig", "sendPub"}

FreshKeys == /\ \A p \in Publishers : key[p] <= publishes
             /\ sig.key <= publishes /\ pub <= publishes /\ \A k \in keysLeft : k <= publishes

Distinct == \A p, q \in Publishers : p # q /\ key[p] = key[q] => key[p] = NoKey

Staged == \A p \in Publishers :
  /\ stage[p] # "stopped" => key[p] # NoKey
  /\ stage[p] \in Unsent => key[p] \notin {sig.key, pub}
  /\ stage[p] \in Sending => key[p] \notin keysLeft \ stuck
  /\ stage[p] \in {"dropping"} \cup Sending => signed[p] = NoSig \/ signed[p].key = key[p]

KInv == FreshKeys /\ Distinct /\ Staged /\ SignedKeyDiscarded

LEMMA KeysInductive == AssetTypeOK /\ KInv /\ [AssetNext]_assetVars => KInv'
<1> SUFFICES ASSUME AssetTypeOK, KInv, [AssetNext]_assetVars PROVE KInv'
  OBVIOUS
<1>0. /\ stage \in [Publishers -> Busy \cup {"stopped"}]
      /\ key \in [Publishers -> Nat] /\ signed \in [Publishers -> Sigs]
      /\ publishes \in Nat /\ pub \in Nat /\ sig.key \in Nat /\ keysLeft \subseteq Nat \ {NoKey}
      /\ NoSig.key = NoKey
  BY DistributionAssumption
  DEF DistributionAssumption, AssetTypeOK, Keys, NoKey, Sigs, NoSig
<1> USE <1>0
    DEF NoKey, Busy, assets, options, disk, publisher, Go, Fail, Unlinked, Upload,
        KInv, FreshKeys, Distinct, Staged, SignedKeyDiscarded, Unsent, Sending
<1>1. ASSUME NEW p \in Publishers, Publishing(p) PROVE KInv'
  <2>1. CASE Start(p)
    <3>1. CASE UNCHANGED <<stage, key, signed>>
      BY <2>1, <3>1 DEF Start
    <3>2. CASE /\ stage' = [stage EXCEPT ![p] = "keying"]
               /\ key' = [key EXCEPT ![p] = publishes + 1]
               /\ signed' = [signed EXCEPT ![p] = NoSig]
      <4>1. UNCHANGED <<sig, pub, keysLeft, stuck>> /\ publishes' = publishes + 1
        BY <2>1 DEF Start
      <4>2. FreshKeys' /\ SignedKeyDiscarded'
        BY <3>2, <4>1
      <4>3. Distinct'
        BY <3>2, <4>1
      <4>4. Staged'
        BY <3>2, <4>1
      <4> QED
        BY <4>2, <4>3, <4>4
    <3> QED
      BY <2>1, <3>1, <3>2 DEF Start
  <2>2. CASE Generate(p)
    BY <2>2 DEF Generate
  <2>3. CASE Sign(p)
    <3>1. signed'[p] = NoSig \/ signed'[p].key = key[p]
      BY <2>3 DEF Sign
    <3>2. \A q \in Publishers : q # p => signed'[q] = signed[q]
      BY <2>3 DEF Sign
    <3> QED
      BY <2>3, <3>1, <3>2 DEF Sign
  <2>4. CASE DropKey(p)
    BY <2>4 DEF DropKey
  <2>5. CASE UploadRecord(p)
    BY <2>5 DEF UploadRecord
  <2>6. CASE UploadSig(p)
    <3>1. sig' = sig \/ (sig' = signed[p] /\ stage[p] = "sendSig")
      BY <2>6 DEF UploadSig
    <3>2. sig'.key \in {sig.key, NoKey, key[p]}
      BY <3>1
    <3>3. UNCHANGED <<pub, key, signed, keysLeft, stuck, publishes>>
      BY <2>6 DEF UploadSig
    <3>4. \A q \in Publishers : q # p => stage'[q] = stage[q]
      BY <2>6 DEF UploadSig
    <3>5. stage'[p] \in {"sendPub", "cleaning"} /\ stage[p] = "sendSig"
      BY <2>6 DEF UploadSig
    <3>6. FreshKeys' /\ Distinct' /\ SignedKeyDiscarded'
      BY <3>2, <3>3, <3>5
    <3>7. Staged'
      BY <3>2, <3>3, <3>4, <3>5
    <3> QED
      BY <3>6, <3>7
  <2>7. CASE UploadPub(p)
    <3>1. pub' \in {pub, key[p]} /\ UNCHANGED <<sig, key, signed, keysLeft, stuck, publishes>>
      BY <2>7 DEF UploadPub
    <3>2. \A q \in Publishers : q # p => stage'[q] = stage[q]
      BY <2>7 DEF UploadPub
    <3>3. stage'[p] \in {"publishing", "cleaning"} /\ stage[p] = "sendPub"
      BY <2>7 DEF UploadPub
    <3>4. FreshKeys' /\ Distinct' /\ SignedKeyDiscarded'
      BY <3>1, <3>3
    <3>5. Staged'
      BY <3>1, <3>2, <3>3
    <3> QED
      BY <3>4, <3>5
  <2>8. CASE PublishDraft(p)
    BY <2>8 DEF PublishDraft
  <2>9. CASE Cleanup(p)
    BY <2>9 DEF Cleanup
  <2>10. CASE Kill(p)
    BY <2>10 DEF Kill
  <2> QED
    BY <1>1, <2>1, <2>2, <2>3, <2>4, <2>5, <2>6, <2>7, <2>8, <2>9, <2>10
    DEF Publishing
<1>2. CASE UNCHANGED <<assets, publisher, publishes>>
  BY <1>2
<1> QED
  BY <1>1, <1>2 DEF AssetNext, Reading, FetchRecord, FetchSig, FetchKey, Check, Prepare,
                    Undraft, Elsewhere, assetVars

\* However many publishers run at once and whenever they are killed, nothing on
\* the release was signed by a key still on disk (publish_record.rs:152-154).
THEOREM KeysDiscarded == AssetSpec => []SignedKeyDiscarded
<1>1. AssetInit => KInv
  BY DistributionAssumption
  DEF DistributionAssumption, AssetInit, KInv, FreshKeys, Distinct, Staged, SignedKeyDiscarded,
      NoKey, NoSig, Unsent, Sending
<1>2. KInv => SignedKeyDiscarded
  BY DEF KInv
<1> QED
  BY <1>1, <1>2, KeysInductive, AssetTypeCorrect, PTL DEF AssetSpec
-----------------------------------------------------------------------------
(* One pipeline step at a time, a published release taking no new assets:    *)
(* what a run uploads is what it signed, and what is public is all of it.    *)

Alone == \A p, q \in Publishers : p # q /\ stage[p] \in Busy => stage[q] \notin Busy

Matched == \A p \in Publishers :
  /\ stage[p] = "dropping" => signed[p] \in {NoSig, [key |-> key[p], of |-> local]}
  /\ stage[p] \in Sending \cup {"publishing"}
       => signed[p] = [key |-> key[p], of |-> local]
  /\ stage[p] \in {"sendSig", "sendPub", "publishing"} => draft /\ rec = local
  /\ stage[p] \in {"sendPub", "publishing"} => sig = signed[p]
  /\ stage[p] = "publishing" => pub = key[p]

Sealable == sealable => /\ Matching
                        /\ \A p \in Publishers : stage[p] \in {"stopped", "cleaning"}

ReadSoFar == \A v \in Readers :
  /\ step[v] # "stopped" => answer[v] = "none"
  /\ step[v] \in {"signature", "key", "check"} => ~draft /\ gotRec[v] = rec
  /\ step[v] \in {"key", "check"} => gotSig[v] = sig
  /\ step[v] = "check" => gotKey[v] \in {pub, ManifestKey} \ {NoKey}

PInv == Alone /\ Matched /\ Sealable /\ PublicTripleMatches

IInv == PInv /\ ReadSoFar

Orderly == Exclusive /\ Immutable

LEMMA Published == Orderly /\ TInv /\ PInv /\ [AssetNext]_assetVars => PInv'
<1> SUFFICES ASSUME Orderly, TInv, PInv, [AssetNext]_assetVars PROVE PInv'
  OBVIOUS
<1>0. /\ stage \in [Publishers -> Busy \cup {"stopped"}]
      /\ key \in [Publishers -> Keys \cup {NoKey}] /\ signed \in [Publishers -> Sigs]
      /\ \A p \in Publishers : stage[p] \in Busy => key[p] # NoKey
      /\ local \in Records /\ local # NoAsset /\ draft \in BOOLEAN /\ sealable \in BOOLEAN
  BY DistributionAssumption DEF DistributionAssumption, TInv, AssetTypeOK, Keyed, Keys, NoKey
<1> USE <1>0
    DEF Orderly, NoSig, Busy, assets, options, disk, publisher, Go, Fail, Unlinked,
        Upload, Open, PInv, Alone, Matched, Sealable, Matching, PublicTripleMatches,
        Sending, Idle
<1>1. ASSUME NEW p \in Publishers, Publishing(p) PROVE PInv'
  <2>1. CASE Start(p)
    BY <2>1 DEF Start
  <2>2. CASE Generate(p)
    BY <2>2 DEF Generate
  <2>3. CASE Sign(p)
    BY <2>3 DEF Sign
  <2>4. CASE DropKey(p)
    BY <2>4 DEF DropKey
  <2>5. CASE UploadRecord(p)
    BY <2>5 DEF UploadRecord
  <2>6. CASE UploadSig(p)
    BY <2>6 DEF UploadSig
  <2>7. CASE UploadPub(p)
    BY <2>7 DEF UploadPub
  <2>8. CASE PublishDraft(p)
    <3>1. stage[p] = "publishing" /\ UNCHANGED <<local, assets, key, signed>> /\ Matching
      BY <2>8 DEF PublishDraft
    <3>2. stage'[p] = "cleaning" /\ \A q \in Publishers : q # p => stage'[q] = stage[q]
      BY <2>8 DEF PublishDraft
    <3>3. \A q \in Publishers : q # p => stage[q] = "stopped"
      BY <3>1
    <3> QED
      BY <3>1, <3>2, <3>3
  <2>9. CASE Cleanup(p)
    BY <2>9 DEF Cleanup
  <2>10. CASE Kill(p)
    BY <2>10 DEF Kill
  <2> QED
    BY <1>1, <2>1, <2>2, <2>3, <2>4, <2>5, <2>6, <2>7, <2>8, <2>9, <2>10
    DEF Publishing
<1>2. CASE Prepare
  BY <1>2 DEF Prepare
<1>3. CASE Undraft
  BY <1>3 DEF Undraft
<1>4. CASE UNCHANGED <<local, draft, assets, publisher, sealable>>
  BY <1>4
<1> QED
  BY <1>1, <1>2, <1>3, <1>4 DEF AssetNext, Reading, FetchRecord, FetchSig, FetchKey, Check,
                                Elsewhere, assetVars

\* In an orderly pipeline a published release carries a record, that record's
\* signature and that signature's key, whatever failed before it
\* (publish_record.rs:170-187).
THEOREM TripleMatches == ASSUME Orderly PROVE AssetSpec => []PublicTripleMatches
<1>1. AssetInit => PInv
  BY DEF AssetInit, PInv, Alone, Matched, Sealable, PublicTripleMatches, Busy, Sending
<1>2. PInv => PublicTripleMatches
  BY DEF PInv
<1> QED
  BY <1>1, <1>2, Published, TypeInv, Orderly, PTL DEF AssetSpec
-----------------------------------------------------------------------------
(* The reader                                                                *)

LEMMA ReadersSound ==
  Orderly /\ TInv /\ PInv /\ ReadSoFar /\ [AssetNext]_assetVars => ReadSoFar'
<1> SUFFICES ASSUME Orderly, TInv, PInv, ReadSoFar, [AssetNext]_assetVars PROVE ReadSoFar'
  OBVIOUS
<1>0. /\ stage \in [Publishers -> Busy \cup {"stopped"}]
      /\ step \in [Readers -> {"record", "signature", "key", "check", "stopped"}]
      /\ gotRec \in [Readers -> Records \cup {NoAsset}] /\ gotSig \in [Readers -> Sigs]
      /\ gotKey \in [Readers -> Keys \cup {NoKey, Foreign}]
      /\ DOMAIN answer = Readers /\ draft \in BOOLEAN
  BY DEF TInv, AssetTypeOK
<1>1. ASSUME NEW p \in Publishers, Publishing(p) PROVE ReadSoFar'
  <2>1. UNCHANGED reader
    BY <1>1 DEF Publishing, Start, Generate, Sign, DropKey, UploadRecord, UploadSig,
                UploadPub, Upload, PublishDraft, Cleanup, Kill
  <2>2. ~draft => ~draft' /\ UNCHANGED assets
    BY <1>0, <1>1
    DEF Orderly, Open, PInv, Matched, Publishing, Start, Generate, Sign, DropKey,
        UploadRecord, UploadSig, UploadPub, Upload, PublishDraft, Cleanup, Kill, assets,
        Go, Sending
  <2> QED
    BY <2>1, <2>2 DEF reader, assets, ReadSoFar
<1>2. ASSUME NEW v \in Readers, Reading(v) PROVE ReadSoFar'
  <2> USE <1>0 DEF ReadSoFar, Elsewhere, assets, Took, Told
  <2>1. CASE FetchRecord(v)
    BY <2>1 DEF FetchRecord
  <2>2. CASE FetchSig(v)
    BY <2>2 DEF FetchSig
  <2>3. CASE FetchKey(v)
    BY <2>3 DEF FetchKey
  <2>4. CASE Check(v)
    BY <2>4 DEF Check
  <2> QED
    BY <1>2, <2>1, <2>2, <2>3, <2>4 DEF Reading
<1>3. CASE Prepare \/ Undraft \/ UNCHANGED assetVars
  BY <1>3 DEF Prepare, Undraft, assetVars, reader, assets, ReadSoFar
<1> QED
  BY <1>1, <1>2, <1>3 DEF AssetNext

\* The promise of SealedRelease is kept: one record goes public, and whoever
\* reads it, between whatever uploads and failures, gets its verdict or none
\* (remote.rs:316-344, publish_record.rs:170-187).
THEOREM Refinement == ASSUME Orderly PROVE AssetSpec => ImplementsSealed
<1> DEFINE served == IF draft THEN NoAsset ELSE rec
<1> DEFINE heard == [v \in Readers |-> Heard(v)]
<1>1. AssetInit => IInv /\ Sealed!Init
  BY DEF AssetInit, IInv, PInv, Alone, Matched, Sealable, PublicTripleMatches, Busy, Sending,
         ReadSoFar, Heard, Sealed!Init
<1>2. TInv /\ IInv /\ [AssetNext]_assetVars => IInv'
  BY Published, ReadersSound, Orderly DEF IInv
<1>3. TInv /\ IInv /\ [AssetNext]_assetVars => [Sealed!Next]_<<served, heard>>
  <2> SUFFICES ASSUME TInv, IInv, [AssetNext]_assetVars
               PROVE  Sealed!Next \/ UNCHANGED <<served, heard>>
    OBVIOUS
  <2>0. /\ draft \in BOOLEAN /\ NoAsset \notin Records /\ Passed \subseteq Records
        /\ DOMAIN answer = Readers /\ DOMAIN gotKey = Readers /\ Foreign \notin Keys
        /\ pub \in Keys \cup {NoKey} /\ ManifestKey \in {NoKey, Foreign}
        /\ Foreign # NoKey
    BY DistributionAssumption
    DEF DistributionAssumption, TInv, AssetTypeOK, Foreign, Keys, NoKey
  <2>1. CASE (\E p \in Publishers : Publishing(p)) \/ Undraft \/ Prepare
    <3>1. UNCHANGED heard
      BY <2>1 DEF Publishing, Start, Generate, Sign, DropKey, UploadRecord, UploadSig,
                  UploadPub, Upload, PublishDraft, Cleanup, Kill, Prepare, Undraft, reader,
                  Heard
    <3>2. CASE draft /\ ~draft'
      <4>1. Matching' /\ rec' \in Records
        BY <1>2, <3>2, TypeStep DEF IInv, PInv, PublicTripleMatches, Matching, TInv, AssetTypeOK
      <4> QED
        BY <3>1, <3>2, <4>1 DEF Sealed!Next, Sealed!Seal
    <3>3. CASE draft' = draft
      <4>1. ~draft => UNCHANGED rec
        BY <2>0, <2>1, <3>3, Orderly
        DEF Orderly, Open, Publishing, Start, Generate, Sign, DropKey, UploadRecord,
            UploadSig, UploadPub, Upload, PublishDraft, Cleanup, Kill, Prepare, Undraft, assets
      <4> QED
        BY <2>0, <3>1, <3>3, <4>1
    <3>4. ~draft => draft' = draft
      BY <2>0, <2>1
      DEF Publishing, Start, Generate, Sign, DropKey, UploadRecord, UploadSig, UploadPub,
          Upload, PublishDraft, Cleanup, Kill, Prepare, Undraft
    <3> QED
      BY <1>2, <2>0, <3>2, <3>3, <3>4, TypeStep DEF TInv, AssetTypeOK
  <2>2. ASSUME NEW v \in Readers, Reading(v)
        PROVE  Sealed!Next \/ UNCHANGED <<served, heard>>
    <3>1. UNCHANGED served
      BY <2>2 DEF Reading, FetchRecord, FetchSig, FetchKey, Check, Elsewhere, assets
    <3>2. CASE /\ answer[v] = "none" /\ UNCHANGED answer
               /\ \A w \in Readers \ {v} : gotKey'[w] = gotKey[w]
      BY <2>0, <3>1, <3>2 DEF Heard
    <3>3. CASE /\ step[v] # "stopped" /\ UNCHANGED gotKey
               /\ answer' = [answer EXCEPT ![v] = "unavailable"]
      <4>1. answer[v] = "none"
        BY <3>3 DEF IInv, ReadSoFar
      <4>2. heard[v] = "none" /\ heard' = [heard EXCEPT ![v] = "unavailable"]
        BY <2>0, <3>3, <4>1 DEF Heard
      <4> HIDE DEF heard
      <4> QED
        BY <3>1, <4>2 DEF heard, Sealed!Next, Sealed!Answer
    <3>4. CASE Check(v)
      <4>1. /\ ~draft /\ gotRec[v] = rec /\ gotSig[v] = sig /\ answer[v] = "none"
            /\ gotKey[v] \in {pub, Foreign}
            /\ sig = [key |-> pub, of |-> rec] /\ rec \in Records
        BY <2>0, <3>4
        DEF Check, Told, IInv, ReadSoFar, PInv, PublicTripleMatches, Matching, TInv, AssetTypeOK
      <4>2. UNCHANGED gotKey
        BY <3>4 DEF Check
      <4>3. CASE gotKey[v] = pub
        <5>1. answer' = [answer EXCEPT ![v] = VerdictOf(rec)]
          BY <3>4, <4>1, <4>3 DEF Check, Told
        <5>2. heard[v] = "none" /\ heard' = [heard EXCEPT ![v] = VerdictOf(rec)]
          BY <2>0, <4>1, <4>2, <5>1 DEF Heard, VerdictOf
        <5> QED
          BY <2>0, <3>1, <4>1, <5>2 DEF VerdictOf, Sealed!Next, Sealed!Answer
      <4>4. CASE gotKey[v] = Foreign /\ pub # Foreign
        <5>0. gotSig[v] # [key |-> gotKey[v], of |-> gotRec[v]]
          <6>1. gotSig[v].key # gotKey[v]
            BY <4>1, <4>4
          <6> QED
            BY <6>1
        <5>1. answer' = [answer EXCEPT ![v] = "mismatch"]
          BY <3>4, <5>0 DEF Check, Told
        <5>2. heard[v] = "none" /\ heard' = [heard EXCEPT ![v] = "unavailable"]
          BY <2>0, <4>1, <4>2, <4>4, <5>1 DEF Heard
        <5> QED
          BY <3>1, <5>2 DEF Sealed!Next, Sealed!Answer
      <4> QED
        BY <4>1, <4>3, <4>4
    <3>5. CASE FetchRecord(v) \/ FetchSig(v) \/ FetchKey(v)
      <4>1. step[v] # "stopped" => answer[v] = "none"
        BY <2>2 DEF IInv, ReadSoFar
      <4>2. \A w \in Readers \ {v} : gotKey'[w] = gotKey[w]
        BY <2>0, <3>5 DEF FetchRecord, FetchSig, FetchKey
      <4>3. step[v] # "stopped"
        BY <3>5 DEF FetchRecord, FetchSig, FetchKey, Took, Told
      <4>4. CASE UNCHANGED answer
        BY <3>2, <4>1, <4>2, <4>3, <4>4
      <4>5. CASE UNCHANGED gotKey /\ answer' = [answer EXCEPT ![v] = "unavailable"]
        BY <3>3, <4>3, <4>5
      <4> QED
        BY <3>5, <4>4, <4>5 DEF FetchRecord, FetchSig, FetchKey, Took, Told
    <3> QED
      BY <2>2, <3>4, <3>5 DEF Reading
  <2>3. CASE UNCHANGED assetVars
    BY <2>3 DEF assetVars, assets, reader, Heard
  <2> QED
    BY <2>1, <2>2, <2>3 DEF AssetNext
<1> QED
  BY <1>1, <1>2, <1>3, TypeInv, PTL DEF AssetSpec, ImplementsSealed, Sealed!Spec

-----------------------------------------------------------------------------
(***************************************************************************)
(* AtomicWrite keeps its promises for any number of writers, contents and  *)
(* power losses.  The invariants of AtomicWrite are not inductive by       *)
(* themselves: FileInv adds what each step of a write has already secured  *)
(* before the rename makes it visible.                                     *)
(***************************************************************************)

Active == Staging \cup {"resolved", "staged", "ready"}

\* A staging name belongs to one writer and is nothing the target might name.
Owned == \A w \in Writers : phase[w] \in Active =>
           /\ name[w] \in Names
           /\ name[w] \notin onDisk
           /\ \A u \in Writers : name[w] \notin before[u]
           /\ \A u \in Writers : u # w /\ phase[u] \in Active => name[u] # name[w]

\* What a writer has staged is its own contents, synced before the rename.
StagedOwn == \A w \in Writers :
            /\ phase[w] \in {"written", "staged", "ready"} => data[name[w]] = val[w]
            /\ phase[w] \in {"staged", "ready"} => name[w] \in synced

\* All that the target's entry might name is whole and on stable storage.
Stable == /\ target \in onDisk
          /\ onDisk \ {NoFile} \subseteq synced
          /\ \A i \in onDisk : i # NoFile => data[i] \in Values

\* What a rename replaced is never again a staged copy.
Replaced == \A w \in Writers : /\ before[w] \ {NoFile} \subseteq synced
                               /\ phase[w] = "renamed" => target \notin before[w]
                               /\ w \in settled => phase[w] = "ok"

\* Until a warning, every copy that may become the target has its permissions.
Permitted ==
  /\ NoFile \in onDisk => mode[Original] = "default"
  /\ \A i \in onDisk : i # NoFile /\ mode[i] # mode[Original] => warned
  /\ mode[Original] = "readonly" => /\ onDisk = {Original}
                                    /\ \A w \in Writers : phase[w] \in Final
  /\ \A w \in Writers :
       /\ phase[w] \in Active /\ seen[w] = "absent" => mode[Original] = "default"
       /\ phase[w] \in Active /\ seen[w] # "absent" /\ seen[w] # mode[Original] => warned
       /\ phase[w] \in Staging \cup {"staged"} => mode[name[w]] = "default"
       /\ phase[w] = "ready" /\ mode[name[w]] # mode[Original] => warned

Parts == /\ Owned /\ StagedOwn /\ Stable /\ Replaced
         /\ PublishedOwn /\ SettledStays /\ Permitted

FileInv == FileTypeOK /\ Parts

-----------------------------------------------------------------------------
\* Every variable keeps to its type, for every constant (all of fs_atomic.rs).
THEOREM FileTypeCorrect == FileSpec => []FileTypeOK
<1>1. FileInit => FileTypeOK
  <2> SUFFICES ASSUME FileInit PROVE FileTypeOK
    OBVIOUS
  <2> USE DEF Inodes, Contents, Modes, Steps, Final, Staging
  <2>1. PICK v \in Values : /\ data = [i \in Inodes |-> v]
                            /\ val = [w \in Writers |-> v]
                            /\ published = [w \in Writers |-> v]
    BY DEF FileInit
  <2>2. mode \in [Inodes -> Modes]
    BY DEF FileInit
  <2>3. /\ data \in [Inodes -> Contents]
        /\ val \in [Writers -> Values]
        /\ published \in [Writers -> Contents]
    BY <2>1
  <2>4. losses \in 0..MaxPowerLosses
    BY DistinctAssumption DEF FileInit, DistinctAssumption
  <2> QED
    BY <2>2, <2>3, <2>4 DEF FileInit, FileTypeOK
<1>2. FileTypeOK /\ [FileNext]_fileVars => FileTypeOK'
  <2> SUFFICES ASSUME FileTypeOK, [FileNext]_fileVars PROVE FileTypeOK'
    OBVIOUS
  <2> USE DistinctAssumption DEF DistinctAssumption, FileTypeOK, Inodes, Contents,
                                 Modes, Steps, Final, Staging, GoTo, fs, fileHistory
  <2>1. ASSUME NEW w \in Writers, Resolve(w) PROVE FileTypeOK'
    BY <2>1 DEF Resolve, Unused, Dangling, ReadOnly
  <2>2. ASSUME NEW w \in Writers, Create(w) PROVE FileTypeOK'
    BY <2>2 DEF Create
  <2>3. ASSUME NEW w \in Writers, Fill(w, "created", "writing", Partial) PROVE FileTypeOK'
    BY <2>3 DEF Fill
  <2>4. ASSUME NEW w \in Writers, Fill(w, "writing", "written", val[w]) PROVE FileTypeOK'
    BY <2>4 DEF Fill
  <2>5. ASSUME NEW w \in Writers, SyncData(w) PROVE FileTypeOK'
    BY <2>5 DEF SyncData
  <2>6. ASSUME NEW w \in Writers, Abandon(w) PROVE FileTypeOK'
    BY <2>6 DEF Abandon
  <2>7. ASSUME NEW w \in Writers, CarryMode(w) PROVE FileTypeOK'
    BY <2>7 DEF CarryMode
  <2>8. ASSUME NEW w \in Writers, Rename(w) PROVE FileTypeOK'
    BY <2>8 DEF Rename
  <2>9. ASSUME NEW w \in Writers, SyncDir(w) PROVE FileTypeOK'
    BY <2>9 DEF SyncDir
  <2>10. ASSUME NEW w \in Writers, KillWriter(w) PROVE FileTypeOK'
    BY <2>10 DEF KillWriter
  <2>11. CASE PowerLoss
    BY <2>11 DEF PowerLoss
  <2>12. CASE UNCHANGED fileVars
    BY <2>12 DEF fileVars
  <2> QED
    BY <2>1, <2>2, <2>3, <2>4, <2>5, <2>6, <2>7, <2>8, <2>9, <2>10, <2>11, <2>12 DEF FileNext, Stage
<1> QED
  BY <1>1, <1>2, PTL DEF FileSpec

LEMMA Initially == FileInit => Parts
<1> SUFFICES ASSUME FileInit PROVE Parts
  OBVIOUS
<1>1. PICK v \in Values : /\ data = [i \in Inodes |-> v]
                          /\ val = [w \in Writers |-> v]
                          /\ published = [w \in Writers |-> v]
  BY DEF FileInit
<1> USE DEF Inodes, Final, Staging, Active
<1>2. Owned /\ StagedOwn /\ Replaced /\ PublishedOwn /\ SettledStays
  BY <1>1 DEF FileInit, Owned, StagedOwn, Replaced, PublishedOwn, SettledStays
<1>3. Stable
  BY <1>1, DistinctAssumption DEF FileInit, Stable, DistinctAssumption
<1>4. Permitted
  BY DistinctAssumption DEF FileInit, Permitted, Modes, DistinctAssumption
<1> QED
  BY <1>2, <1>3, <1>4 DEF Parts

LEMMA Inductive == FileInv /\ FileTypeOK' /\ [FileNext]_fileVars => Parts'
<1> SUFFICES ASSUME FileInv, FileTypeOK', [FileNext]_fileVars PROVE Parts'
  OBVIOUS
<1> USE DistinctAssumption DEF DistinctAssumption, FileInv, Parts, FileTypeOK, Inodes,
                               Final, Staging, Active, GoTo, fs, fileHistory, Owned,
                               StagedOwn, Stable, Replaced, PublishedOwn,
                               SettledStays, Permitted
<1>1. ASSUME NEW w \in Writers, Resolve(w) PROVE Parts'
  BY <1>1 DEF Resolve, Unused, Dangling, ReadOnly, Modes
<1>2. ASSUME NEW w \in Writers, Create(w) PROVE Parts'
  BY <1>2 DEF Create
<1>3. ASSUME NEW w \in Writers, Fill(w, "created", "writing", Partial) PROVE Parts'
  BY <1>3 DEF Fill
<1>4. ASSUME NEW w \in Writers, Fill(w, "writing", "written", val[w]) PROVE Parts'
  BY <1>4 DEF Fill
<1>5. ASSUME NEW w \in Writers, SyncData(w) PROVE Parts'
  BY <1>5 DEF SyncData
<1>6. ASSUME NEW w \in Writers, Abandon(w) PROVE Parts'
  BY <1>6 DEF Abandon
<1>7. ASSUME NEW w \in Writers, CarryMode(w) PROVE Parts'
  BY <1>7 DEF CarryMode
<1>8. ASSUME NEW w \in Writers, Rename(w) PROVE Parts'
  BY <1>8 DEF Rename
<1>9. ASSUME NEW w \in Writers, SyncDir(w) PROVE Parts'
  BY <1>9 DEF SyncDir
<1>10. ASSUME NEW w \in Writers, KillWriter(w) PROVE Parts'
  BY <1>10 DEF KillWriter
<1>11. CASE PowerLoss
  BY <1>11 DEF PowerLoss
<1>12. CASE UNCHANGED fileVars
  BY <1>12 DEF fileVars
<1> QED
  BY <1>1, <1>2, <1>3, <1>4, <1>5, <1>6, <1>7, <1>8, <1>9, <1>10, <1>11, <1>12 DEF FileNext, Stage

\* A reader finds one writer's contents, whole, before and after a power loss;
\* a writer that succeeds published its own; what it replaced does not return;
\* permissions are lost only with a warning (fs_atomic.rs:23-124).
THEOREM Safe == FileSpec => [](NeverTorn /\ PublishedOwn /\ SettledStays /\ ModeKept)
<1>1. FileInv /\ [FileNext]_fileVars /\ FileTypeOK' => FileInv'
  BY Inductive DEF FileInv
<1>2. FileInv => NeverTorn /\ PublishedOwn /\ SettledStays /\ ModeKept
  BY DEF FileInv, Parts, Stable, Permitted, NeverTorn, ModeKept
<1>3. FileInit /\ FileTypeOK => FileInv
  BY Initially DEF FileInv
<1> QED
  BY <1>1, <1>2, <1>3, FileTypeCorrect, PTL DEF FileSpec

\* A writer that renamed published its own contents, not those another writer
\* staged (fs_atomic.rs:23-28).
THEOREM OwnIsPublished == FileSpec => []PublishedOwn
BY Safe, PTL

\* What a write with a synced directory replaced does not come back
\* (fs_atomic.rs:103-104).
THEOREM SettledForGood == FileSpec => []SettledStays
BY Safe, PTL

\* The target keeps its permissions but for a failure that is warned of
\* (fs_atomic.rs:66-95).
THEOREM PermissionsKept == FileSpec => []ModeKept
BY Safe, PTL

\* Through a link only a file that is there is written.
Followed == link => \A w \in Writers : phase[w] \in Active => seen[w] # "absent"

LEMMA FollowedStep == FileTypeOK /\ Followed /\ [FileNext]_fileVars => Followed' /\ link' = link
<1> SUFFICES ASSUME FileTypeOK, Followed, [FileNext]_fileVars PROVE Followed' /\ link' = link
  OBVIOUS
<1> USE DEF FileTypeOK, Followed, Active, Staging, Final, GoTo, fs, fileHistory
<1>1. ASSUME NEW w \in Writers, Resolve(w) PROVE Followed' /\ link' = link
  <2>1. link /\ phase'[w] \in Active => seen'[w] # "absent"
    BY <1>1 DEF Resolve, Dangling, Modes
  <2> QED
    BY <1>1, <2>1 DEF Resolve
<1>2. ASSUME NEW w \in Writers, Create(w) PROVE Followed' /\ link' = link
  BY <1>2 DEF Create
<1>3. ASSUME NEW w \in Writers, Fill(w, "created", "writing", Partial)
      PROVE  Followed' /\ link' = link
  BY <1>3 DEF Fill
<1>4. ASSUME NEW w \in Writers, Fill(w, "writing", "written", val[w])
      PROVE  Followed' /\ link' = link
  BY <1>4 DEF Fill
<1>5. ASSUME NEW w \in Writers, SyncData(w) PROVE Followed' /\ link' = link
  BY <1>5 DEF SyncData
<1>6. ASSUME NEW w \in Writers, Abandon(w) PROVE Followed' /\ link' = link
  BY <1>6 DEF Abandon
<1>7. ASSUME NEW w \in Writers, CarryMode(w) PROVE Followed' /\ link' = link
  BY <1>7 DEF CarryMode
<1>8. ASSUME NEW w \in Writers, Rename(w) PROVE Followed' /\ link' = link
  <2>1. link' = link
    BY <1>8 DEF Rename
  <2> QED
    BY <1>8, <2>1 DEF Rename
<1>9. ASSUME NEW w \in Writers, SyncDir(w) PROVE Followed' /\ link' = link
  BY <1>9 DEF SyncDir
<1>10. ASSUME NEW w \in Writers, KillWriter(w) PROVE Followed' /\ link' = link
  BY <1>10 DEF KillWriter
<1>11. CASE PowerLoss
  BY <1>11 DEF PowerLoss
<1>12. CASE UNCHANGED fileVars
  BY <1>12 DEF fileVars
<1> QED
  BY <1>1, <1>2, <1>3, <1>4, <1>5, <1>6, <1>7, <1>8, <1>9, <1>10, <1>11, <1>12 DEF FileNext, Stage

\* No writer replaces a symbolic link: one that dangles is refused, and any
\* other is resolved before the rename (fs_atomic.rs:45-62).
THEOREM LinkIsKept == FileSpec => LinkKept
<1>1. FileInit => Followed
  BY DEF FileInit, Followed, Active, Staging
<1>2. FileTypeOK /\ Followed /\ [FileNext]_fileVars => Followed' /\ [link' = link]_fileVars
  BY FollowedStep
<1> QED
  BY <1>1, <1>2, FileTypeCorrect, PTL DEF FileSpec, LinkKept

-----------------------------------------------------------------------------
\* Only what the target's entry may name is visible: a step that leaves those
\* inodes and the entry alone is invisible in the register.
LEMMA Invisible ==
  ASSUME Stable, UNCHANGED <<target, onDisk>>,
         \A i \in onDisk : i # NoFile => data'[i] = data[i]
  PROVE  UNCHANGED <<File, Disk>>
BY DEF Stable, Seen, File, Disk

LEMMA RegisterStep == FileInv /\ [FileNext]_fileVars => [Register!Next]_<<File, Disk>>
<1> SUFFICES ASSUME FileInv, [FileNext]_fileVars PROVE [Register!Next]_<<File, Disk>>
  OBVIOUS
<1> USE DEF Active, Staging
<1>1. Stable /\ FileTypeOK
  BY DEF FileInv, Parts
<1>2. ASSUME NEW w \in Writers,
             \/ Create(w)
             \/ Fill(w, "created", "writing", Partial)
             \/ Fill(w, "writing", "written", val[w])
      PROVE  UNCHANGED <<File, Disk>>
  <2>1. name[w] \notin onDisk
    BY <1>2 DEF FileInv, Parts, Owned, Create, Fill
  <2>2. UNCHANGED <<target, onDisk>> /\ \A i \in onDisk : i # NoFile => data'[i] = data[i]
    BY <1>1, <1>2, <2>1 DEF Create, Fill, FileTypeOK
  <2> QED
    BY <1>1, <2>2, Invisible
<1>3. ASSUME UNCHANGED <<target, onDisk, data>> PROVE UNCHANGED <<File, Disk>>
  BY <1>3 DEF File, Disk, Seen
<1>4. ASSUME NEW w \in Writers, Rename(w) PROVE Register!Replace(val[w])
  <2>1. name[w] # NoFile /\ data[name[w]] = val[w]
    BY <1>4, DistinctAssumption DEF FileInv, Parts, Owned, StagedOwn, Rename, DistinctAssumption
  <2> QED
    BY <1>4, <2>1 DEF Rename, Register!Replace, File, Disk, Seen
<1>5. ASSUME NEW w \in Writers, SyncDir(w)
      PROVE  Register!Flush \/ UNCHANGED <<File, Disk>>
  BY <1>3, <1>5 DEF SyncDir, Register!Flush, File, Disk, Seen
<1>6. ASSUME PowerLoss PROVE Register!PowerLoss
  <2>1. \A i \in onDisk : i # NoFile => data'[i] = data[i]
    BY <1>1, <1>6 DEF PowerLoss, Stable, FileTypeOK
  <2>2. target' \in onDisk /\ onDisk' = {target'}
    BY <1>6 DEF PowerLoss
  <2>3. File' = Seen(target')
    BY <2>1, <2>2 DEF File, Seen
  <2> QED
    BY <2>2, <2>3 DEF Register!PowerLoss, File, Disk, Seen
<1>7. ASSUME NEW w \in Writers,
             Resolve(w) \/ SyncData(w) \/ Abandon(w) \/ CarryMode(w) \/ KillWriter(w)
      PROVE  UNCHANGED <<File, Disk>>
  BY <1>3, <1>7 DEF Resolve, SyncData, Abandon, CarryMode, KillWriter, fs
<1>8. CASE UNCHANGED fileVars
  BY <1>3, <1>8 DEF fileVars, fs
<1>9. ASSUME NEW w \in Writers, Rename(w) PROVE Register!Next
  BY <1>1, <1>4, <1>9 DEF FileTypeOK, Register!Next
<1> QED
  BY <1>2, <1>5, <1>6, <1>7, <1>8, <1>9 DEF FileNext, Stage, Register!Next

\* The staged, synced and renamed file is an atomic register that a power loss
\* rolls back to a whole value at worst (fs_atomic.rs:36-111).
THEOREM FileRefinement == FileSpec => RefinesRegister
<1>1. FileInit => Register!Init
  <2> SUFFICES ASSUME FileInit PROVE Register!Init
    OBVIOUS
  <2>1. PICK v \in Values : data = [i \in Inodes |-> v]
    BY DEF FileInit
  <2>2. Seen(target) \in Values \cup {NoFile}
    BY <2>1 DEF FileInit, Seen, Inodes
  <2> QED
    BY <2>2 DEF FileInit, Register!Init, Register!Contents, File, Disk
<1>2. FileInv /\ [FileNext]_fileVars /\ FileTypeOK' => FileInv'
  BY Inductive DEF FileInv
<1>3. FileInit /\ FileTypeOK => FileInv
  BY Initially DEF FileInv
<1> QED
  BY <1>1, <1>2, <1>3, RegisterStep, FileTypeCorrect, PTL DEF FileSpec, RefinesRegister, Register!Spec

=============================================================================
