--------------------------- MODULE VerifyPinProofs ---------------------------
(***************************************************************************)
(* Kept apart, any number of verifications of any releases scan the        *)
(* snapshots they were asked to and leave the shared database as it was.   *)
(***************************************************************************)
EXTENDS VerifyPin, ManifestKey, TLAPS

LEMMA TypeStep == TypeOK /\ [Next]_vars => TypeOK'
<1> SUFFICES ASSUME TypeOK, [Next]_vars PROVE TypeOK'
  OBVIOUS
<1> USE PinAssumption DEF PinAssumption, TypeOK, Commits, Stopped, Step, db, locals
<1>1. ASSUME NEW p \in Verifiers, Start(p) PROVE TypeOK'
  BY <1>1 DEF Start
<1>2. ASSUME NEW p \in Verifiers, NoteHead(p) PROVE TypeOK'
  BY <1>2 DEF NoteHead
<1>3. ASSUME NEW p \in Verifiers, ProbeShallow(p) PROVE TypeOK'
  <2>1. unshallow' \in [Verifiers -> BOOLEAN]
    BY <1>3 DEF ProbeShallow
  <2>2. pc' \in [Verifiers -> Stopped \cup {"noting", "noted", "probed", "fetched",
                                          "pinned", "scanned"}]
    BY <1>3 DEF ProbeShallow
  <2> QED
    BY <1>3, <2>1, <2>2 DEF ProbeShallow
<1>4. ASSUME NEW p \in Verifiers, Fetch(p) PROVE TypeOK'
  <2>0. {origin} \subseteq 1..origin
    OBVIOUS
  <2>1. known \subseteq known' /\ known' \subseteq 1..origin /\ shallow' \in BOOLEAN
    <3>1. CASE UNCHANGED <<known, shallow>>
      BY <3>1
    <3>2. CASE known' = 1..origin /\ shallow' = FALSE
      BY <3>2
    <3>3. CASE /\ UNCHANGED shallow
               /\ known' = known \cup (IF shallow THEN {origin} ELSE 1..origin)
      <4>1. CASE shallow /\ known' = known \cup {origin}
        BY <2>0, <3>3, <4>1
      <4>2. CASE ~shallow /\ known' = known \cup 1..origin
        BY <3>3, <4>2
      <4> QED
        BY <3>3, <4>1, <4>2
    <3> QED
      BY <1>4, <3>1, <3>2, <3>3 DEF Fetch
  <2>2. pc' \in [Verifiers -> Stopped \cup {"noting", "noted", "probed", "fetched",
                                          "pinned", "scanned"}]
    BY <1>4 DEF Fetch
  <2> QED
    BY <1>4, <2>1, <2>2 DEF Fetch
<1>5. ASSUME NEW p \in Verifiers, Pin(p) PROVE TypeOK'
  BY <1>5 DEF Pin
<1>6. ASSUME NEW p \in Verifiers, Gate(p) PROVE TypeOK'
  BY <1>6 DEF Gate
<1>7. ASSUME NEW p \in Verifiers, Restore(p) PROVE TypeOK'
  BY <1>7 DEF Restore
<1>8. ASSUME NEW p \in Verifiers, Kill(p) PROVE TypeOK'
  BY <1>8 DEF Kill
<1>9. CASE Refresh
  BY <1>9 DEF Refresh
<1>10. CASE Publish
  BY <1>10 DEF Publish
<1>11. CASE UNCHANGED vars
  BY <1>11 DEF vars
<1> QED
  BY <1>1, <1>2, <1>3, <1>4, <1>5, <1>6, <1>7, <1>8, <1>9, <1>10, <1>11 DEF Next

\* Every variable keeps to its type (verify.rs:253-459).
THEOREM TypeCorrect == Spec => []TypeOK
<1>1. Init => TypeOK
  <2> SUFFICES ASSUME Init PROVE TypeOK
    OBVIOUS
  <2>1. 1 \in Commits /\ 0 \in 0..MaxRuns /\ {1} \subseteq 1..1
    BY PinAssumption DEF PinAssumption, Commits
  <2> QED
    BY <2>1 DEF Init, TypeOK, Stopped
<1> QED
  BY <1>1, TypeStep, PTL DEF Spec

-----------------------------------------------------------------------------
\* One run at a time, what it noted is what it must restore.
Alone == \A p, q \in Verifiers :
           p # q /\ pc[p] \notin Stopped => pc[q] \in Stopped

Pinned == \A p \in Verifiers :
  /\ pc[p] = "pinned" => head = want[p]
  /\ ~excused => /\ pc[p] \in {"noting", "noted", "probed", "fetched"} => head = resting
                 /\ pc[p] \in {"noted", "probed", "fetched", "pinned", "scanned"}
                      => previous[p] = resting /\ previous[p] # 0

IInv == Alone /\ Pinned /\ ScansRecorded /\ LeftAsFound

LEMMA Inductive == Exclusive /\ TypeOK /\ IInv /\ [Next]_vars => IInv'
<1> SUFFICES ASSUME Exclusive, TypeOK, IInv, [Next]_vars PROVE IInv'
  OBVIOUS
<1> USE PinAssumption DEF PinAssumption, TypeOK, IInv, Alone, Pinned, ScansRecorded,
            LeftAsFound, Idle, Commits, Stopped, Step, db, locals
<1>1. ASSUME NEW p \in Verifiers, Start(p) PROVE IInv'
  BY <1>1 DEF Start
<1>2. ASSUME NEW p \in Verifiers, NoteHead(p) PROVE IInv'
  BY <1>2 DEF NoteHead
<1>3. ASSUME NEW p \in Verifiers, ProbeShallow(p) PROVE IInv'
  BY <1>3 DEF ProbeShallow
<1>4. ASSUME NEW p \in Verifiers, Fetch(p) PROVE IInv'
  BY <1>4 DEF Fetch
<1>5. ASSUME NEW p \in Verifiers, Pin(p) PROVE IInv'
  BY <1>5 DEF Pin
<1>6. ASSUME NEW p \in Verifiers, Gate(p) PROVE IInv'
  BY <1>6 DEF Gate
<1>7. ASSUME NEW p \in Verifiers, Restore(p) PROVE IInv'
  BY <1>7 DEF Restore
<1>8. ASSUME NEW p \in Verifiers, Kill(p) PROVE IInv'
  BY <1>8 DEF Kill
<1>9. CASE Refresh
  BY <1>9 DEF Refresh
<1>10. CASE Publish
  BY <1>10 DEF Publish
<1>11. CASE UNCHANGED vars
  BY <1>11 DEF vars
<1> QED
  BY <1>1, <1>2, <1>3, <1>4, <1>5, <1>6, <1>7, <1>8, <1>9, <1>10, <1>11 DEF Next

LEMMA Initially == Init => IInv
BY PinAssumption DEF PinAssumption, Init, IInv, Alone, Pinned, ScansRecorded,
                     LeftAsFound, Idle, Stopped

\* Verifications that do not overlap reproduce at the recorded commit only
\* (verify.rs:396-398).
THEOREM RecordedIsScanned == ASSUME Exclusive PROVE Spec => []ScansRecorded
<1>1. IInv => ScansRecorded
  BY DEF IInv
<1> QED
  BY <1>1, Initially, Inductive, TypeCorrect, Exclusive, PTL DEF Spec

\* They put the shared checkout back, unless what puts it back failed
\* (verify.rs:296-302).
THEOREM Restored == ASSUME Exclusive PROVE Spec => []LeftAsFound
<1>1. IInv => LeftAsFound
  BY DEF IInv
<1> QED
  BY <1>1, Initially, Inductive, TypeCorrect, Exclusive, PTL DEF Spec

-----------------------------------------------------------------------------
(* The search for a release's key (ManifestKey), for workspaces of any size, *)
(* tags moved any number of times, and fetches that fail.                    *)

Files == Manifest \cup {Missing}

\* The plain types of a search.
KeyTypes ==
  /\ tag \in Workspaces /\ seen \subseteq Workspaces /\ tag \in seen
  /\ asset \in Texts /\ signer \in Keys /\ verdict \in {"passed", "failed", "malformed"}
  /\ stage \in {"idle", "assets", "pubkey", "root", "members", "check"}
  /\ package \in Names \cup {NoName} /\ key \in Keys \cup {NoKey}
  /\ todo \in Seq(Dirs \cup Globs)
  /\ result \in {"none", "error", "no release", "no key", "ok", "failed", "mismatch"}
  /\ failed \in BOOLEAN
  /\ searches \in 0..MaxSearches /\ moves \in 0..MaxMoves

\* The key is one the release published, or one that the package's manifest had at
\* a moment when the tag was looked at.
Sourced ==
  \/ Holds(asset, key)
  \/ \E w \in seen : \E f \in Manifests(w) : Named(f) /\ f.key = key

\* Nothing is answered before the search has ended, nor with a key from elsewhere.
Answers ==
  /\ stage # "idle" => result = "none"
  /\ stage = "check" => Sourced
  /\ result \in {"ok", "failed"} => key = signer /\ Sourced

\* The root is not the package.
NotRoot == tag.root \in Manifest /\ tag.root # Missing /\ ~Named(tag.root)

\* What a search at place p of the list of members has before it, and behind it:
\* nothing that is the package.
Ahead(list, rest, p) ==
  /\ p \in 1..Len(list) + 1 /\ Len(rest) = Len(list) + 1 - p
  /\ \A i \in 1..Len(rest) : rest[i] = list[p - 1 + i]

Behind(p) ==
  \A i \in 1..Len(tag.root.members) : i < p =>
    \/ tag.root.members[i] \in Globs
    \/ tag.member[tag.root.members[i]] # Missing /\ ~Named(tag.member[tag.root.members[i]])

Passed(p) == NotRoot /\ Ahead(tag.root.members, todo, p) /\ Behind(p)

Somewhere == \E p \in 1..Len(tag.root.members) + 1 : Passed(p)

\* While the tag has not been moved, a search has passed only what it may pass.
OnCourse ==
  /\ stage \in {"root", "members"} => package # NoName
  /\ stage = "members" /\ seen = {tag} => Somewhere

KeyInv == KeyTypes /\ Answers /\ OnCourse /\ PackageIsFound

\* A workspace has a root and members, each a manifest or missing.
LEMMA WorkspaceIs ==
  ASSUME NEW w \in Workspaces
  PROVE  /\ w.root \in Files /\ \A d \in Dirs : w.member[d] \in Files
         /\ w.root \in Manifests(w) /\ \A d \in Dirs : w.member[d] \in Manifests(w)
BY ManifestAssumption DEF ManifestAssumption, Files, Manifests

\* The next member, and those after it.
LEMMA TailIs ==
  ASSUME NEW T, NEW s \in Seq(T), s # <<>>
  PROVE  /\ Len(s) \in Nat /\ Len(s) > 0 /\ Head(s) = s[1] /\ s[1] \in T
         /\ Tail(s) \in Seq(T) /\ Len(Tail(s)) = Len(s) - 1
         /\ \A i \in 1..Len(Tail(s)) : Tail(s)[i] = s[i + 1]
OBVIOUS

\* A list with no members.
LEMMA NoMembers == <<>> \in Seq(Dirs \cup Globs)
OBVIOUS

\* A count below its bound.
LEMMA Counted ==
  ASSUME NEW m \in Nat, NEW n \in 0..m, n < m PROVE n + 1 \in 0..m
OBVIOUS

\* Every step of a search, and every move of the tag, keeps to the types.
LEMMA KeyTypesKept == KeyTypes /\ [KeyNext]_keyVars => KeyTypes'
<1> SUFFICES ASSUME KeyTypes, [KeyNext]_keyVars PROVE KeyTypes'
  OBVIOUS
<1>0. MaxSearches \in Nat /\ MaxMoves \in Nat
  BY ManifestAssumption DEF ManifestAssumption
<1> USE DEF KeyTypes, keyVars, release, Same, Quit, Go
<1>1. CASE Begin
  <2>1. searches' \in 0..MaxSearches /\ todo' \in Seq(Dirs \cup Globs)
    <3>1. searches' = searches + 1 /\ searches < MaxSearches /\ todo' = <<>>
      BY <1>1 DEF Begin
    <3>2. searches + 1 \in 0..MaxSearches
      BY <1>0, <3>1, Counted
    <3>3. searches' \in 0..MaxSearches
      BY <3>1, <3>2
    <3>4. todo' \in Seq(Dirs \cup Globs)
      BY <3>1, NoMembers
    <3> QED BY <3>3, <3>4
  <2>2. /\ stage' \in {"idle", "assets"} /\ result' \in {"none", "error"}
        /\ key' = NoKey /\ seen' = {tag} /\ failed' = FALSE /\ package' \in Names \cup {NoName}
        /\ UNCHANGED <<tag, asset, signer, verdict, moves>>
    BY <1>1 DEF Begin
  <2> QED BY <2>1, <2>2
<1>2. CASE FetchAssets
  BY <1>2 DEF FetchAssets, Refused
<1>3. CASE FetchAssetKey
  BY <1>3 DEF FetchAssetKey
<1>4. CASE FetchRoot
  <2>1. tag.root # Missing => tag.root \in Manifest
    BY WorkspaceIs DEF Files
  <2>2. CASE tag.root # Missing /\ tag.root.name = package /\ TakeKey(tag.root) /\ UNCHANGED <<todo, failed>>
    <3>1. tag.root.key \in Keys \cup {NoKey}
      BY <2>1, <2>2 DEF Manifest
    <3> QED BY <1>4, <2>2, <3>1 DEF FetchRoot, TakeKey
  <2>3. CASE /\ tag.root # Missing /\ UNCHANGED <<failed, key>> /\ Go("members")
             /\ todo' = tag.root.members
    <3>1. tag.root.members \in Seq(Dirs \cup Globs)
      BY <2>1, <2>3 DEF Manifest
    <3> QED BY <1>4, <2>3, <3>1 DEF FetchRoot
  <2>4. CASE Unfetched(tag.root)
    BY <1>4, <2>4 DEF FetchRoot, Unfetched, Refused
  <2> QED BY <1>4, <2>2, <2>3, <2>4 DEF FetchRoot
<1>5. CASE Skip
  <2>1. Tail(todo) \in Seq(Dirs \cup Globs)
    BY <1>5, TailIs DEF Skip
  <2> QED BY <1>5, <2>1 DEF Skip
<1>6. CASE FetchMember
  <2> DEFINE f == tag.member[Head(todo)]
  <2>1. f # Missing => f \in Manifest
    BY <1>6, WorkspaceIs DEF Files, FetchMember
  <2> HIDE DEF f
  <2>2. CASE f # Missing /\ f.name = package /\ TakeKey(f) /\ UNCHANGED <<todo, failed>>
    <3>1. f.key \in Keys \cup {NoKey}
      BY <2>1, <2>2 DEF Manifest
    <3> QED BY <1>6, <2>2, <3>1 DEF FetchMember, TakeKey
  <2>3. CASE todo' = Tail(todo) /\ UNCHANGED <<stage, key, result, failed>>
    <3>1. todo # <<>>
      BY <1>6 DEF FetchMember
    <3>2. Tail(todo) \in Seq(Dirs \cup Globs)
      BY <3>1, TailIs
    <3> QED BY <1>6, <2>3, <3>2 DEF FetchMember
  <2>4. CASE Unfetched(f)
    BY <1>6, <2>4 DEF FetchMember, Unfetched, Refused
  <2> QED BY <1>6, <2>2, <2>3, <2>4 DEF FetchMember, f
<1>7. CASE NotListed
  BY <1>7 DEF NotListed
<1>8. CASE CheckRecord
  BY <1>8 DEF CheckRecord, Answer
<1>9. CASE Move
  <2>1. moves' \in 0..MaxMoves
    <3>1. moves' = moves + 1 /\ moves < MaxMoves
      BY <1>9 DEF Move
    <3>2. moves + 1 \in 0..MaxMoves
      BY <1>0, <3>1, Counted
    <3> QED BY <3>1, <3>2
  <2>2. /\ tag' \in Workspaces /\ seen' = seen \cup {tag'}
        /\ UNCHANGED <<asset, signer, verdict, stage, package, todo, key, result, failed, searches>>
    BY <1>9 DEF Move
  <2> QED BY <2>1, <2>2
<1>10. CASE Finished \/ UNCHANGED keyVars
  BY <1>10 DEF Finished
<1> QED BY <1>1, <1>2, <1>3, <1>4, <1>5, <1>6, <1>7, <1>8, <1>9, <1>10 DEF KeyNext, Verify, Search

\* Where a search may take its key from.
LEMMA TakenKeyIsSourced ==
  ASSUME KeyTypes, NEW f \in Manifests(tag), Named(f), TakeKey(f), UNCHANGED <<tag, asset, seen, package>>
  PROVE  stage' = "check" => Sourced'
BY DEF KeyTypes, TakeKey, Quit, Go, Sourced, Named, Manifests

\* No step answers before the search has ended; a key is taken from the asset or
\* from a manifest of the package, and stays as it was taken.
LEMMA AnswersKept == KeyTypes /\ Answers /\ [KeyNext]_keyVars => Answers'
<1> SUFFICES ASSUME KeyTypes, Answers, [KeyNext]_keyVars PROVE Answers'
  OBVIOUS
<1> USE DEF release
<1>0. UNCHANGED <<asset, key, package, seen>> => (Sourced' <=> Sourced)
  BY DEF Sourced, Named, Manifests
<1>1. CASE Begin
  BY <1>1 DEF Begin, Quit, Answers
<1>2. CASE FetchAssets
  BY <1>0, <1>2 DEF FetchAssets, Same, Quit, Go, Answers
<1>3. CASE FetchAssetKey
  BY <1>3 DEF FetchAssetKey, Same, Quit, Go, Answers, Sourced
<1>4. CASE FetchRoot
  <2>1. tag.root \in Manifests(tag)
    BY WorkspaceIs DEF KeyTypes
  <2>2. CASE tag.root # Missing /\ tag.root.name = package /\ TakeKey(tag.root)
    <3>1. stage' = "check" => Sourced'
      BY <1>4, <2>1, <2>2, TakenKeyIsSourced DEF Named, FetchRoot, Same
    <3> QED BY <1>4, <2>2, <3>1 DEF Answers, FetchRoot, TakeKey, Quit, Go
  <2>3. CASE Go("members") \/ Unfetched(tag.root)
    BY <1>4, <2>3 DEF Answers, FetchRoot, Unfetched, Quit, Go
  <2> QED BY <1>4, <2>2, <2>3 DEF FetchRoot
<1>5. CASE Skip
  BY <1>0, <1>5 DEF Skip, Same, Answers
<1>6. CASE FetchMember
  <2> DEFINE f == tag.member[Head(todo)]
  <2>1. f \in Manifests(tag)
    BY <1>6, WorkspaceIs DEF KeyTypes, FetchMember
  <2> HIDE DEF f
  <2>2. CASE f # Missing /\ f.name = package /\ TakeKey(f)
    <3>1. stage' = "check" => Sourced'
      BY <1>6, <2>1, <2>2, TakenKeyIsSourced DEF Named, FetchMember, Same
    <3> QED BY <1>6, <2>2, <3>1 DEF Answers, FetchMember, TakeKey, Quit, Go
  <2>3. CASE UNCHANGED <<stage, key, result>> \/ Unfetched(f)
    BY <1>6, <2>3 DEF Answers, FetchMember, Unfetched, Quit, Go
  <2> QED BY <1>6, <2>2, <2>3 DEF FetchMember, f
<1>7. CASE NotListed
  BY <1>7 DEF NotListed, Quit, Answers
<1>8. CASE CheckRecord
  BY <1>0, <1>8 DEF CheckRecord, Same, Quit, Answers
<1>9. CASE Move
  <2>1. Sourced => Sourced'
    BY <1>9 DEF Move, Sourced, Named, Manifests
  <2> QED BY <1>9, <2>1 DEF Move, Answers
<1>10. CASE Finished \/ UNCHANGED keyVars
  BY <1>0, <1>10 DEF Finished, keyVars, Answers
<1> QED BY <1>1, <1>2, <1>3, <1>4, <1>5, <1>6, <1>7, <1>8, <1>9, <1>10 DEF KeyNext, Verify, Search

\* No member that can be fetched is the package, with a key.
NotThere ==
  \A d \in Dirs : Reachable(tag, d) =>
    ~(Named(tag.member[d]) /\ tag.member[d].key # NoKey)

\* What is next in the list, when a search has come to place p.
LEMMA NextIs ==
  ASSUME KeyTypes, NEW p, Passed(p)
  PROVE  LET list == tag.root.members
         IN  /\ list \in Seq(Dirs \cup Globs) /\ Len(list) \in Nat /\ p \in 1..Len(list) + 1
             /\ todo = <<>> => p = Len(list) + 1
             /\ todo # <<>> => p <= Len(list) /\ Head(todo) = list[p]
<1> DEFINE list == tag.root.members
           T == Dirs \cup Globs
<1>1. list \in Seq(T) /\ todo \in Seq(T)
  BY DEF KeyTypes, Passed, NotRoot, Manifest
<1>2. p \in 1..Len(list) + 1 /\ Len(todo) = Len(list) + 1 - p
      /\ \A i \in 1..Len(todo) : todo[i] = list[p - 1 + i]
  BY DEF Passed, NotRoot, Ahead, Behind
<1> HIDE DEF list, T
<1>3. Len(list) \in Nat
  BY <1>1
<1>4. ASSUME todo = <<>> PROVE p = Len(list) + 1
  <2>1. Len(todo) = 0
    BY <1>4
  <2> QED BY <1>2, <1>3, <2>1
<1>5. ASSUME todo # <<>> PROVE p <= Len(list) /\ Head(todo) = list[p]
  <2>1. Len(todo) \in Nat /\ Len(todo) > 0 /\ Head(todo) = todo[1]
    BY <1>1, <1>5, TailIs
  <2>2. todo[1] = list[p - 1 + 1]
    BY <1>2, <2>1
  <2> QED BY <1>2, <1>3, <2>1, <2>2
<1> QED BY <1>1, <1>2, <1>3, <1>4, <1>5 DEF list, T

\* Passing one member leaves those behind it.
LEMMA AheadOn ==
  ASSUME NEW T, NEW list \in Seq(T), NEW rest \in Seq(T), NEW p \in Nat,
         Ahead(list, rest, p), rest # <<>>
  PROVE  p + 1 \in 1..Len(list) + 1 /\ Ahead(list, Tail(rest), p + 1)
<1>1. /\ Len(rest) \in Nat /\ Len(rest) > 0 /\ Len(Tail(rest)) = Len(rest) - 1
      /\ \A i \in 1..Len(Tail(rest)) : Tail(rest)[i] = rest[i + 1]
  BY TailIs
<1>2. /\ p \in 1..Len(list) + 1 /\ Len(rest) = Len(list) + 1 - p /\ Len(list) \in Nat
      /\ \A i \in 1..Len(rest) : rest[i] = list[p - 1 + i]
  BY DEF Ahead
<1> DEFINE q == p + 1
           left == Tail(rest)
<1>3. q \in 1..Len(list) + 1 /\ Len(left) = Len(list) + 1 - q
  BY <1>1, <1>2
<1>4. \A i \in 1..Len(left) : left[i] = list[q - 1 + i]
  <2> SUFFICES ASSUME NEW i \in 1..Len(left) PROVE left[i] = list[q - 1 + i]
    OBVIOUS
  <2>1. i + 1 \in 1..Len(rest) /\ p - 1 + (i + 1) = q - 1 + i
    BY <1>1
  <2> QED BY <1>1, <1>2, <2>1
<1>5. q \in 1..Len(list) + 1 /\ Ahead(list, left, q)
  <2> HIDE DEF q, left
  <2> QED BY <1>3, <1>4 DEF Ahead
<1> QED BY <1>5

\* A pattern, or a member of another name, is passed.
LEMMA PassedOn ==
  ASSUME KeyTypes, NEW p \in Nat, Passed(p), todo # <<>>,
         todo' = Tail(todo), UNCHANGED <<tag, package>>,
         \/ Head(todo) \in Globs
         \/ tag.member[Head(todo)] # Missing /\ ~Named(tag.member[Head(todo)])
  PROVE  Somewhere'
<1> DEFINE list == tag.root.members
           Skipped(x) == x \in Globs \/ (tag.member[x] # Missing /\ ~Named(tag.member[x]))
<1>1. /\ list \in Seq(Dirs \cup Globs) /\ Len(list) \in Nat /\ p \in 1..Len(list) + 1
      /\ p <= Len(list) /\ Head(todo) = list[p] /\ todo \in Seq(Dirs \cup Globs)
  BY NextIs DEF KeyTypes
<1>2. NotRoot /\ Ahead(list, todo, p) /\ \A i \in 1..Len(list) : i < p => Skipped(list[i])
  BY DEF Passed, Behind
<1>3. Skipped(list[p])
  BY <1>1
<1>4. tag' = tag /\ package' = package
  OBVIOUS
<1> HIDE DEF list, Skipped
<1>5. p + 1 \in 1..Len(list) + 1 /\ Ahead(list, Tail(todo), p + 1)
  BY <1>1, <1>2, AheadOn
<1>6. \A i \in 1..Len(list) : i < p + 1 => Skipped(list[i])
  <2> SUFFICES ASSUME NEW i \in 1..Len(list), i < p + 1 PROVE Skipped(list[i])
    OBVIOUS
  <2>1. i = p \/ i < p
    BY <1>1
  <2> QED BY <1>2, <1>3, <2>1
<1>7. Passed(p + 1)'
  <2>1. list' = list
    BY <1>4 DEF list
  <2>2. NotRoot'
    BY <1>2, <1>4 DEF NotRoot, Named
  <2>3. Ahead(list', todo', p + 1)
    BY <1>5, <2>1
  <2>4. (\A i \in 1..Len(list) : i < p + 1 => Skipped(list[i]))'
    BY <1>4, <1>6, <2>1 DEF Skipped, Named
  <2>5. Behind(p + 1)'
    BY <2>4 DEF Behind, Skipped, list, Named
  <2> QED BY <2>2, <2>3, <2>5 DEF Passed, list
<1>8. \E q \in 1..Len(tag'.root.members) + 1 : Passed(q)'
  BY <1>4, <1>5, <1>7 DEF list
<1> QED BY <1>8 DEF Somewhere

\* A search goes from the root to the first place of the list and on to the next
\* place only past what is not the package; a move of the tag ends the claim.
LEMMA OnCourseKept == KeyTypes /\ OnCourse /\ [KeyNext]_keyVars => OnCourse'
<1> SUFFICES ASSUME KeyTypes, OnCourse, [KeyNext]_keyVars PROVE OnCourse'
  OBVIOUS
<1> USE DEF Same, Quit, Go
<1>1. CASE Begin \/ FetchAssets \/ FetchAssetKey \/ NotListed \/ CheckRecord
  BY <1>1 DEF Begin, FetchAssets, FetchAssetKey, NotListed, CheckRecord, OnCourse
<1>2. CASE FetchRoot
  <2>1. CASE stage' # "members"
    <3>1. stage' # "root"
      BY <1>2, <2>1 DEF FetchRoot, TakeKey, Unfetched
    <3> QED BY <2>1, <3>1 DEF OnCourse
  <2>2. CASE stage' = "members"
    <3>1. /\ tag.root # Missing /\ tag.root.name # package /\ todo' = tag.root.members
          /\ tag' = tag /\ package' = package /\ package # NoName
      BY <1>2, <2>2 DEF FetchRoot, TakeKey, Unfetched, OnCourse
    <3>2. tag.root \in Manifest
      BY <3>1, WorkspaceIs DEF KeyTypes, Files
    <3>3. tag.root.members \in Seq(Dirs \cup Globs)
      BY <3>2 DEF Manifest
    <3>4. Len(tag.root.members) \in Nat
      BY <3>3
    <3>5. Passed(1)' /\ 1 \in 1..Len(tag.root.members) + 1
      BY <3>1, <3>2, <3>4 DEF Passed, NotRoot, Ahead, Behind, Named
    <3> QED BY <3>1, <3>5 DEF OnCourse, Somewhere
  <2> QED BY <2>1, <2>2
<1>3. ASSUME Skip \/ FetchMember, stage' # "members" PROVE OnCourse'
  <2>1. stage' # "root"
    BY <1>3 DEF Skip, FetchMember, TakeKey, Unfetched
  <2> QED BY <1>3, <2>1 DEF OnCourse
<1>4. ASSUME Skip \/ FetchMember, stage' = "members" PROVE OnCourse'
  <2>1. /\ stage = "members" /\ todo # <<>> /\ todo' = Tail(todo)
        /\ tag' = tag /\ package' = package /\ seen' = seen
        /\ \/ Head(todo) \in Globs
           \/ tag.member[Head(todo)] # Missing /\ ~Named(tag.member[Head(todo)])
    BY <1>4 DEF Skip, FetchMember, TakeKey, Unfetched, Named
  <2>2. CASE seen = {tag}
    <3>1. PICK p \in 1..Len(tag.root.members) + 1 : Passed(p)
      BY <2>1, <2>2 DEF OnCourse, Somewhere
    <3>2. Somewhere'
      <4>1. p \in Nat
        BY <3>1
      <4> QED BY <2>1, <3>1, <4>1, PassedOn
    <3> QED BY <1>4, <2>1, <3>2 DEF OnCourse
  <2> QED BY <1>4, <2>1, <2>2 DEF OnCourse
<1>5. CASE Move
  <2>1. seen' # {tag'} /\ stage' = stage /\ package' = package
    BY <1>5 DEF Move, KeyTypes
  <2> QED BY <2>1 DEF OnCourse
<1>6. CASE Finished \/ UNCHANGED keyVars
  <2>1. /\ tag' = tag /\ stage' = stage /\ package' = package /\ todo' = todo /\ seen' = seen
    BY <1>6 DEF Finished, keyVars, release
  <2>2. \A p : Passed(p)' <=> Passed(p)
    BY <2>1 DEF Passed, NotRoot, Ahead, Behind, Named
  <2> QED BY <2>1, <2>2 DEF OnCourse, Somewhere
<1> QED BY <1>1, <1>2, <1>3, <1>4, <1>5, <1>6 DEF KeyNext, Verify, Search

\* The search ends where the list does, or at a member that is missing or has no
\* key: what comes before is not the package, and what comes after is not reached.
LEMMA EndedRightly ==
  ASSUME KeyTypes, NEW p, Passed(p),
         \/ todo = <<>>
         \/ /\ todo # <<>> /\ Head(todo) \in Dirs
            /\ LET f == tag.member[Head(todo)]
               IN f = Missing \/ (Named(f) /\ f.key = NoKey)
  PROVE  NotThere
<1> DEFINE list == tag.root.members
           Skipped(x) == x \in Globs \/ (tag.member[x] # Missing /\ ~Named(tag.member[x]))
<1>1. /\ Len(list) \in Nat /\ p \in 1..Len(list) + 1
      /\ todo = <<>> => p = Len(list) + 1
      /\ todo # <<>> => p <= Len(list) /\ Head(todo) = list[p]
  BY NextIs
<1>2. \A i \in 1..Len(list) : i < p => Skipped(list[i])
  BY DEF Passed, NotRoot, Ahead, Behind
<1>3. Dirs \cap Globs = {}
  BY ManifestAssumption DEF ManifestAssumption
<1> SUFFICES ASSUME NEW d \in Dirs, Reachable(tag, d), Named(tag.member[d]), tag.member[d].key # NoKey
             PROVE  FALSE
  BY DEF NotThere
<1>4. PICK n \in 1..Len(list) : list[n] = d /\ \A i \in 1..(n - 1) : Skipped(list[i])
  BY DEF Reachable
<1>5. ~(n < p)
  <2>1. ~Skipped(d)
    BY <1>3
  <2> HIDE DEF Skipped
  <2> QED BY <1>2, <1>4, <2>1
<1>6. todo # <<>> /\ p \in 1..n
  BY <1>1, <1>5
<1>7. ~(n = p)
  BY <1>1, <1>4, <1>6 DEF Named
<1>8. Skipped(list[p])
  <2>1. p \in 1..(n - 1)
    BY <1>1, <1>6, <1>7
  <2> HIDE DEF Skipped
  <2> QED BY <1>4, <2>1
<1> QED BY <1>1, <1>3, <1>6, <1>8

\* Only a search that may have found nothing ends without a key.
LEMMA FoundKept ==
  KeyTypes /\ Answers /\ OnCourse /\ PackageIsFound /\ [KeyNext]_keyVars => PackageIsFound'
<1> SUFFICES ASSUME KeyTypes, Answers, OnCourse, PackageIsFound, [KeyNext]_keyVars,
                    result' = "no key", ~failed', seen' = {tag'}, package' # NoName,
                    stage' = "idle"
             PROVE  (\/ tag.root = Missing
                     \/ Named(tag.root) /\ tag.root.key = NoKey
                     \/ ~Named(tag.root) /\ NotThere)'
  BY DEF PackageIsFound, NotThere
<1> USE DEF Same, Quit, Go
<1>1. CASE Begin \/ FetchAssets \/ FetchAssetKey \/ Skip \/ CheckRecord \/ Move
  <2>1. Begin => result' # "no key"
    BY DEF Begin
  <2>2. FetchAssets => result' # "no key"
    BY DEF FetchAssets, Refused, Answers
  <2>3. FetchAssetKey => result' # "no key" \/ package' = NoName
    BY DEF FetchAssetKey, Answers
  <2>4. Skip => result' # "no key"
    BY DEF Skip, Answers
  <2>5. CheckRecord => result' # "no key"
    BY DEF CheckRecord, Answer
  <2>6. Move => seen' # {tag'}
    BY DEF Move, KeyTypes
  <2> QED BY <1>1, <2>1, <2>2, <2>3, <2>4, <2>5, <2>6
<1>2. ASSUME tag' = tag, package' = package,
             \/ tag.root = Missing
             \/ Named(tag.root) /\ tag.root.key = NoKey
             \/ ~Named(tag.root) /\ NotThere
      PROVE  (\/ tag.root = Missing
              \/ Named(tag.root) /\ tag.root.key = NoKey
              \/ ~Named(tag.root) /\ NotThere)'
  <2>1. (NotThere' <=> NotThere) /\ (Named(tag.root)' <=> Named(tag.root))
    BY <1>2 DEF NotThere, Named, Reachable
  <2> QED BY <1>2, <2>1
<1>3. CASE FetchRoot
  <2>1. tag' = tag /\ package' = package
    BY <1>3 DEF FetchRoot
  <2>2. \/ tag.root = Missing
        \/ Named(tag.root) /\ tag.root.key = NoKey
    BY <1>3 DEF FetchRoot, TakeKey, Unfetched, Refused, Named, Answers
  <2> QED BY <1>2, <2>1, <2>2
<1>4. CASE FetchMember \/ NotListed
  <2>1. tag' = tag /\ package' = package /\ stage = "members" /\ seen = {tag} /\ result = "none"
    BY <1>4 DEF FetchMember, NotListed, Answers
  <2>2. PICK p \in 1..Len(tag.root.members) + 1 : Passed(p)
    BY <2>1 DEF OnCourse, Somewhere
  <2>3. \/ todo = <<>>
        \/ /\ todo # <<>> /\ Head(todo) \in Dirs
           /\ LET f == tag.member[Head(todo)]
              IN f = Missing \/ (Named(f) /\ f.key = NoKey)
    BY <1>4, <2>1 DEF FetchMember, NotListed, TakeKey, Unfetched, Refused, Named
  <2>4. NotThere /\ ~Named(tag.root)
    BY <2>2, <2>3, EndedRightly DEF Passed, NotRoot, Ahead, Behind
  <2> QED BY <1>2, <2>1, <2>4
<1>5. CASE Finished \/ UNCHANGED keyVars
  <2>1. /\ tag' = tag /\ package' = package /\ result' = result /\ failed' = failed
        /\ seen' = seen /\ stage' = stage
    BY <1>5 DEF Finished, keyVars, release
  <2>2. \/ tag.root = Missing
        \/ Named(tag.root) /\ tag.root.key = NoKey
        \/ ~Named(tag.root) /\ NotThere
    BY <2>1 DEF PackageIsFound, NotThere
  <2> QED BY <1>2, <2>1, <2>2
<1> QED BY <1>1, <1>3, <1>4, <1>5 DEF KeyNext, Verify, Search

\* It holds at first.
LEMMA KeyInitially == KeyInit => KeyInv
<1> SUFFICES ASSUME KeyInit PROVE KeyInv
  OBVIOUS
<1>1. 0 \in 0..MaxSearches /\ 0 \in 0..MaxMoves
  BY ManifestAssumption DEF ManifestAssumption
<1>2. KeyTypes
  BY <1>1, NoMembers DEF KeyInit, KeyTypes
<1>3. Answers /\ OnCourse /\ PackageIsFound
  BY DEF KeyInit, Answers, OnCourse, PackageIsFound
<1> QED BY <1>2, <1>3 DEF KeyInv

\* The inductive invariant of the search.
LEMMA KeyInductive == KeySpec => []KeyInv
<1>1. KeyInv /\ [KeyNext]_keyVars => KeyInv'
  BY KeyTypesKept, AnswersKept, OnCourseKept, FoundKept DEF KeyInv
<1> QED BY <1>1, KeyInitially, PTL DEF KeySpec

\* A search keeps to its types, however often it is begun again.
THEOREM KeyTypeCorrect == KeySpec => []KeyTypes
<1>1. KeyInv => KeyTypes
  BY DEF KeyInv
<1> QED BY <1>1, KeyInductive, PTL

\* A verdict comes with the key the release published, or with one that a manifest
\* of the named package held, in any workspace and however the tag is moved
\* (remote.rs:232-276).
THEOREM KeyIsThePackages == KeySpec => []KeyIsPackages
<1>1. KeyInv => KeyIsPackages
  BY DEF KeyInv, Answers, Sourced, KeyIsPackages
<1> QED BY <1>1, KeyInductive, PTL

\* Undisturbed, a search that finds no key has looked at every manifest that can
\* be reached, of any number of members (remote.rs:232-276).
THEOREM PackageWasFound == KeySpec => []PackageIsFound
<1>1. KeyInv => PackageIsFound
  BY DEF KeyInv
<1> QED BY <1>1, KeyInductive, PTL
=============================================================================
