----------------------------- MODULE Distribution -----------------------------
(***************************************************************************)
(* `jci-audit publish-record` (publish_record.rs) and the remote path of   *)
(* `verify` (remote.rs).  A publisher signs the record with a key of its   *)
(* own and uploads record, signature and public key one by one to a draft; *)
(* a reader fetches the three one by one from the published release.       *)
(***************************************************************************)
EXTENDS Naturals

CONSTANTS Publishers, Readers,
          Records,     \* contents a record file may have
          Passed,      \* those that attest a gate that passed
          NoAsset,
          Exclusive,   \* is the pipeline one step at a time?
          Immutable,   \* does a published release refuse new assets?
          ManifestKey, \* the key in Cargo.toml at the tag, NoKey if none
          MaxPublishes      \* bound on publisher runs, and so on keys

NoKey == 0
Foreign == MaxPublishes + 1        \* a key no run generates
Keys == 1..MaxPublishes
NoSig == [key |-> NoKey, of |-> NoAsset]
Sigs == [key : Keys, of : Records] \cup {NoSig}

ASSUME DistributionAssumption ==
  /\ Passed \subseteq Records /\ NoAsset \notin Records
  /\ Exclusive \in BOOLEAN /\ Immutable \in BOOLEAN
  /\ MaxPublishes \in Nat /\ ManifestKey \in {NoKey, Foreign}

VARIABLES local,      \* the record file release-prep wrote
          draft,      \* is the release still a draft?
          rec, sig, pub,              \* its three assets
          stage, file, publish, key, signed,   \* each publisher's step, options,
                                               \* key and signature
          result,     \* how its last run ended
          keysLeft,   \* the keys whose private half is in a work directory
          stuck,      \* history: those the system refused to remove
          sealable,   \* history: did the latest run to start succeed?
          step, gotRec, gotSig, gotKey, answer,  \* each reader
          publishes

assets == <<rec, sig, pub>>
options == <<file, publish, key>>
disk == <<keysLeft, stuck>>
publisher == <<stage, options, signed, result, disk>>
reader == <<step, gotRec, gotSig, gotKey, answer>>
assetVars == <<local, draft, assets, publisher, sealable, reader, publishes>>

Busy == {"keying", "signing", "dropping", "sendRecord",
         "sendSig", "sendPub", "publishing", "cleaning"}
Files == {"release", "crate", "other"}
Idle == \A p \in Publishers : stage[p] \notin Busy

AssetTypeOK ==
  /\ local \in Records /\ draft \in BOOLEAN
  /\ rec \in Records \cup {NoAsset} /\ sig \in Sigs /\ pub \in Keys \cup {NoKey}
  /\ stage \in [Publishers -> Busy \cup {"stopped"}]
  /\ file \in [Publishers -> Files] /\ publish \in [Publishers -> BOOLEAN]
  /\ key \in [Publishers -> Keys \cup {NoKey}]
  /\ signed \in [Publishers -> Sigs]
  /\ keysLeft \subseteq Keys /\ stuck \subseteq Keys
  /\ result \in [Publishers -> {"none", "ok", "failed", "misnamed"}]
  /\ sealable \in BOOLEAN
  /\ step \in [Readers -> {"record", "signature", "key", "check", "stopped"}]
  /\ gotRec \in [Readers -> Records \cup {NoAsset}]
  /\ gotSig \in [Readers -> Sigs]
  /\ gotKey \in [Readers -> Keys \cup {NoKey, Foreign}]
  /\ answer \in [Readers -> {"none", "passed", "rejected", "mismatch", "unavailable"}]
  /\ publishes \in 0..MaxPublishes

AssetInit ==
  /\ local \in Records /\ draft = TRUE
  /\ rec = NoAsset /\ sig = NoSig /\ pub = NoKey
  /\ stage = [p \in Publishers |-> "stopped"]
  /\ file = [p \in Publishers |-> "release"]
  /\ publish = [p \in Publishers |-> FALSE]
  /\ key = [p \in Publishers |-> NoKey]
  /\ signed = [p \in Publishers |-> NoSig]
  /\ result = [p \in Publishers |-> "none"]
  /\ keysLeft = {} /\ stuck = {} /\ sealable = FALSE
  /\ step = [v \in Readers |-> "record"]
  /\ gotRec = [v \in Readers |-> NoAsset]
  /\ gotSig = [v \in Readers |-> NoSig]
  /\ gotKey = [v \in Readers |-> NoKey]
  /\ answer = [v \in Readers |-> "none"]
  /\ publishes = 0

-----------------------------------------------------------------------------
(* The publisher *)

Go(p, from, to) == stage[p] = from /\ stage' = [stage EXCEPT ![p] = to]

\* The work directory goes, and any key left in it, before the error is shown.
Fail(p, from) ==
  /\ Go(p, from, "cleaning")
  /\ result' = [result EXCEPT ![p] = "failed"]

\* Only release-<VERSION>.json passes, no crate's and no other version's record.
Misnamed(f) == f # "release"

Start(p) ==
  /\ stage[p] = "stopped" /\ (Exclusive => Idle)
  /\ publishes < MaxPublishes /\ publishes' = publishes + 1
  /\ \E f \in Files :
       /\ file' = [file EXCEPT ![p] = f]
       /\ IF Misnamed(f)
          THEN /\ result' = [result EXCEPT ![p] = "misnamed"]
               /\ UNCHANGED <<stage, publish, key, signed, sealable>>
          ELSE /\ stage' = [stage EXCEPT ![p] = "keying"]
               /\ \E b \in BOOLEAN : publish' = [publish EXCEPT ![p] = b]
               /\ key' = [key EXCEPT ![p] = publishes']
               /\ signed' = [signed EXCEPT ![p] = NoSig]
               /\ result' = [result EXCEPT ![p] = "none"]
               /\ sealable' = FALSE
  /\ UNCHANGED <<local, draft, assets, disk, reader>>

\* rsign generate; one that fails may have written the key already.
Generate(p) ==
  /\ \/ /\ Go(p, "keying", "signing") /\ UNCHANGED result
        /\ keysLeft' = keysLeft \cup {key[p]}
     \/ /\ Fail(p, "keying")
        /\ keysLeft' \in {keysLeft, keysLeft \cup {key[p]}}
  /\ UNCHANGED <<local, draft, assets, options, signed, stuck, sealable, reader, publishes>>

\* rsign sign; its result is kept and not yet looked at.
Sign(p) ==
  /\ Go(p, "signing", "dropping")
  /\ \E s \in {[key |-> key[p], of |-> local], NoSig} :
       signed' = [signed EXCEPT ![p] = s]
  /\ UNCHANGED <<local, draft, assets, options, disk, result, sealable,
                 reader, publishes>>

Unlinked(p) ==
  \/ keysLeft' = keysLeft \ {key[p]} /\ UNCHANGED stuck
  \/ key[p] \in keysLeft /\ stuck' = stuck \cup {key[p]} /\ UNCHANGED keysLeft

\* Mutant: the private key is left for the clean-up at the end.
DropKey_Skipped(p) ==
  /\ \/ /\ signed[p] # NoSig
        /\ Go(p, "dropping", "sendRecord") /\ UNCHANGED result
     \/ Fail(p, "dropping")
  /\ UNCHANGED <<local, draft, assets, options, signed, disk, sealable,
                 reader, publishes>>

\* The private key goes first, then a failed signature is reported.
DropKey(p) ==
  /\ \/ /\ signed[p] # NoSig
        /\ Go(p, "dropping", "sendRecord") /\ UNCHANGED result
     \/ Fail(p, "dropping")
  /\ Unlinked(p)
  /\ UNCHANGED <<local, draft, assets, options, signed, sealable, reader, publishes>>

Open == draft \/ ~Immutable

\* Mutant: an upload that failed does not stop the run.
Upload_Unchecked(p, from, to, stored, kept) ==
  /\ (Open /\ stored) \/ kept
  /\ Go(p, from, to) /\ UNCHANGED result
  /\ UNCHANGED <<local, draft, options, signed, disk, sealable, reader, publishes>>

\* A failed upload ends the run, whether or not the asset arrived.
Upload(p, from, to, stored, kept) ==
  /\ \/ Open /\ stored /\ Go(p, from, to) /\ UNCHANGED result
     \/ Fail(p, from) /\ ((Open /\ stored) \/ kept)
  /\ UNCHANGED <<local, draft, options, signed, disk, sealable, reader, publishes>>

\* The record file is read again, the signature is of what rsign read.
UploadRecord(p) == /\ Upload(p, "sendRecord", "sendSig",
                             rec' = local, UNCHANGED rec)
                   /\ UNCHANGED <<sig, pub>>

UploadSig(p) == /\ Upload(p, "sendSig", "sendPub",
                          sig' = signed[p], UNCHANGED sig)
                /\ UNCHANGED <<rec, pub>>

UploadPub(p) == /\ Upload(p, "sendPub", "publishing",
                          pub' = key[p], UNCHANGED pub)
                /\ UNCHANGED <<rec, sig>>

\* With --publish the release is un-drafted, or that fails or seems to.
PublishDraft(p) ==
  /\ \/ /\ Go(p, "publishing", "cleaning")
        /\ IF publish[p] THEN draft' = FALSE ELSE UNCHANGED draft
        /\ result' = [result EXCEPT ![p] = "ok"]
        /\ sealable' = TRUE
     \/ /\ publish[p] /\ Fail(p, "publishing")
        /\ draft' \in {draft, FALSE}
        /\ UNCHANGED sealable
  /\ UNCHANGED <<local, assets, options, signed, disk, reader, publishes>>

\* remove_dir_all of the work directory, its failure ignored.
Cleanup(p) ==
  /\ Go(p, "cleaning", "stopped")
  /\ Unlinked(p)
  /\ UNCHANGED <<local, draft, assets, options, signed, result, sealable,
                 reader, publishes>>

Kill(p) ==
  /\ stage[p] \in Busy /\ stage' = [stage EXCEPT ![p] = "stopped"]
  /\ result' = [result EXCEPT ![p] = "failed"]
  /\ UNCHANGED <<local, draft, assets, options, signed, disk, sealable,
                 reader, publishes>>

\* release-prep writes the record anew.
Prepare ==
  /\ Exclusive => Idle
  /\ local' \in Records \ {local}
  /\ UNCHANGED <<draft, assets, publisher, sealable, reader, publishes>>

\* A later job of the pipeline publishes what a successful run left a draft.
Undraft ==
  /\ draft /\ draft' = FALSE
  /\ sealable /\ (Exclusive => Idle)
  /\ UNCHANGED <<local, assets, publisher, sealable, reader, publishes>>

-----------------------------------------------------------------------------
(* The reader: verify_remote_with *)

Told(v, from, a) == /\ step[v] = from /\ step' = [step EXCEPT ![v] = "stopped"]
                    /\ answer' = [answer EXCEPT ![v] = a]
Took(v, from, to) == /\ step[v] = from /\ step' = [step EXCEPT ![v] = to]
                     /\ UNCHANGED answer

Elsewhere == <<local, draft, assets, publisher, sealable, publishes>>

\* The assets of a draft are not to be had.
FetchRecord(v) ==
  /\ \/ /\ ~draft /\ rec # NoAsset /\ Took(v, "record", "signature")
        /\ gotRec' = [gotRec EXCEPT ![v] = rec]
     \/ Told(v, "record", "unavailable") /\ UNCHANGED gotRec
  /\ UNCHANGED <<Elsewhere, gotSig, gotKey>>

FetchSig(v) ==
  /\ \/ /\ ~draft /\ sig # NoSig /\ Took(v, "signature", "key")
        /\ gotSig' = [gotSig EXCEPT ![v] = sig]
     \/ Told(v, "signature", "unavailable") /\ UNCHANGED gotSig
  /\ UNCHANGED <<Elsewhere, gotRec, gotKey>>

\* fetch_pubkey_from_sources: the asset, then, whatever kept it from being had,
\* the manifest of a reader that named a package.
FetchKey(v) ==
  /\ \/ \E k \in {pub, ManifestKey} \ {NoKey} :
          /\ k = pub => ~draft
          /\ Took(v, "key", "check") /\ gotKey' = [gotKey EXCEPT ![v] = k]
     \/ Told(v, "key", "unavailable") /\ UNCHANGED gotKey
  /\ UNCHANGED <<Elsewhere, gotRec, gotSig>>

\* Mutant: a record without a verdict counts as a pass.
VerdictOf_Lenient(r) == "passed"

VerdictOf(r) == IF r \in Passed THEN "passed" ELSE "rejected"

\* rsign verify, and then the record's own verdict, which must be there.
Check(v) ==
  /\ Told(v, "check", IF gotSig[v] = [key |-> gotKey[v], of |-> gotRec[v]]
                      THEN VerdictOf(gotRec[v]) ELSE "mismatch")
  /\ UNCHANGED <<Elsewhere, gotRec, gotSig, gotKey>>

-----------------------------------------------------------------------------
Publishing(p) == \/ Start(p) \/ Generate(p) \/ Sign(p) \/ DropKey(p)
                 \/ UploadRecord(p) \/ UploadSig(p) \/ UploadPub(p) \/ PublishDraft(p)
                 \/ Cleanup(p) \/ Kill(p)

Reading(v) == FetchRecord(v) \/ FetchSig(v) \/ FetchKey(v) \/ Check(v)

AssetNext == \/ \E p \in Publishers : Publishing(p)
             \/ \E v \in Readers : Reading(v)
             \/ Prepare \/ Undraft

AssetSpec == AssetInit /\ [][AssetNext]_assetVars

-----------------------------------------------------------------------------
(* Properties *)

Matching == pub # NoKey /\ rec # NoAsset /\ sig = [key |-> pub, of |-> rec]

\* What goes public is a whole triple of one run: after any failed, killed or
\* repeated run, no signature is served beside another's record or key
\* (publish_record.rs:170-187).
PublicTripleMatches == ~draft => Matching

\* No asset was signed by a key whose private half is still on disk, unless
\* the system refused to remove it (publish_record.rs:152-154).
SignedKeyDiscarded == {sig.key, pub} \cap keysLeft \subseteq stuck

\* The release is sealed once, and every reader hears of the record that was
\* sealed.  Slow fetches are never mistaken for a mismatch: only a key the
\* manifest supplied can fail to fit, which leaves the reader with no verdict
\* (remote.rs:316-344, publish_record.rs:170-187).
Heard(v) == IF answer[v] = "mismatch" /\ gotKey[v] = Foreign
            THEN "unavailable" ELSE answer[v]
Sealed == INSTANCE SealedRelease
  WITH NoRecord <- NoAsset, served <- IF draft THEN NoAsset ELSE rec,
       answer <- [v \in Readers |-> Heard(v)]
ImplementsSealed == Sealed!Spec
=============================================================================
