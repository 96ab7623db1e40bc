------------------------------ MODULE ManifestKey ------------------------------
(***************************************************************************)
(* `jci-audit verify` without a record in the checkout (cli.rs, remote.rs):*)
(* the public key is the release's own asset or, when a package is named,  *)
(* the one in that package's Cargo.toml at the release tag, found by one   *)
(* fetch per manifest of the workspace.  A tag may be moved between two    *)
(* fetches, and a fetch may fail or get no answer.  How the assets came to *)
(* be is Distribution.                                                     *)
(***************************************************************************)
EXTENDS Sequences, Naturals

CONSTANTS Names, NoName,     \* of packages; a manifest or an option without one
          Dirs, Globs,       \* members of a workspace: directories, and patterns
          Keys, NoKey,
          Comment,           \* a line of a .pub file that holds no key
          Missing,           \* no such file
          Texts,             \* contents of the .pub asset, as lines, or Missing
          Workspaces,        \* what the tag may point to
          MaxSearches, MaxMoves  \* bounds

Manifest == [name : Names \cup {NoName}, key : Keys \cup {NoKey},
             members : Seq(Dirs \cup Globs)]

\* A manifest that does not parse has no name, no key and no members.
ASSUME ManifestAssumption ==
  /\ NoName \notin Names /\ NoKey \notin Keys /\ Comment \notin Keys
  /\ Dirs \cap Globs = {}
  /\ \A t \in Texts : t = Missing \/ t \in Seq(Keys \cup {Comment})
  /\ \A w \in Workspaces :
       /\ DOMAIN w = {"root", "member"} /\ DOMAIN w.member = Dirs
       /\ \A f \in {w.root} \cup {w.member[d] : d \in Dirs} : f = Missing \/ f \in Manifest
  /\ MaxSearches \in Nat /\ MaxMoves \in Nat

VARIABLES tag,        \* what the release tag points to
          asset,      \* the release's .pub
          signer,     \* the key its record was signed with
          verdict,    \* what that record attests
          stage, package,
          todo,       \* the members yet to be fetched
          key, result,
          seen,       \* history: what the tag pointed to since the run began
          failed,     \* history: did a fetch of this run fail?
          searches, moves

release == <<asset, signer, verdict>>
keyVars ==
  <<tag, release, stage, package, todo, key, result, seen, failed, searches, moves>>

KeyInit ==
  /\ tag \in Workspaces /\ seen = {tag}
  /\ asset \in Texts /\ signer \in Keys /\ verdict \in {"passed", "failed", "malformed"}
  /\ stage = "idle" /\ package = NoName /\ todo = <<>> /\ key = NoKey
  /\ result = "none" /\ failed = FALSE /\ searches = 0 /\ moves = 0

Quit(how) == stage' = "idle" /\ result' = how
Go(to) == stage' = to /\ UNCHANGED result
Same == UNCHANGED <<tag, release, package, seen, searches, moves>>
Refused == failed' = TRUE

\* The repository and the tag prefix must be given, and rsign installed; an
\* empty --package names none.
Begin ==
  /\ stage = "idle" /\ searches < MaxSearches /\ searches' = searches + 1
  /\ package' \in Names \cup {NoName}
  /\ \/ stage' = "assets" /\ result' = "none"
     \/ Quit("error")
  /\ todo' = <<>> /\ key' = NoKey /\ seen' = {tag} /\ failed' = FALSE
  /\ UNCHANGED <<tag, release, moves>>

\* The record and its signature.
FetchAssets ==
  /\ stage = "assets"
  /\ \/ Go("pubkey") /\ UNCHANGED failed
     \/ Quit("no release") /\ Refused
  /\ Same /\ UNCHANGED <<todo, key>>

\* parse_pubkey_asset: the one line that is not a comment.
KeyLines(text) ==
  IF text = Missing THEN {} ELSE {n \in DOMAIN text : text[n] # Comment}

Holds(text, k) == \E n \in KeyLines(text) : KeyLines(text) = {n} /\ k = text[n]

\* The asset comes first; the manifest only for a package that was named.
FetchAssetKey ==
  /\ stage = "pubkey"
  /\ \/ /\ key' \in Keys /\ Holds(asset, key') /\ Go("check") /\ UNCHANGED failed
     \/ /\ UNCHANGED key
        /\ failed' \in {failed, TRUE}
        /\ failed' \/ ~\E k \in Keys : Holds(asset, k)
        /\ IF package = NoName THEN Quit("no key") ELSE Go("root")
  /\ Same /\ UNCHANGED todo

\* extract_pubkey_from_manifest
TakeKey(manifest) ==
  IF manifest.key = NoKey THEN Quit("no key") /\ UNCHANGED key
  ELSE key' = manifest.key /\ Go("check")

\* Mutant: a server that gives no answer is waited for.
Unfetched_Patient(file) ==
  /\ UNCHANGED <<key, todo, result, stage>>
  /\ Refused

\* fetch_raw, of a file the tag does not hold, or from a server that refuses or
\* gives no answer within the time allowed.
Unfetched(file) ==
  /\ Quit("no key") /\ UNCHANGED <<key, todo>>
  /\ \/ file = Missing /\ UNCHANGED failed
     \/ Refused

FetchRoot ==
  /\ stage = "root"
  /\ \/ /\ tag.root # Missing /\ UNCHANGED failed
        /\ \/ /\ tag.root.name = package /\ TakeKey(tag.root) /\ UNCHANGED todo
           \/ /\ tag.root.name # package /\ Go("members") /\ todo' = tag.root.members
              /\ UNCHANGED key
     \/ Unfetched(tag.root)
  /\ Same

\* Mutant: a pattern ends the search.
Skip_Ends ==
  /\ stage = "members" /\ todo # <<>> /\ Head(todo) \in Globs
  /\ Quit("no key")
  /\ Same /\ UNCHANGED <<todo, key, failed>>

Skip ==
  /\ stage = "members" /\ todo # <<>> /\ Head(todo) \in Globs
  /\ todo' = Tail(todo)
  /\ Same /\ UNCHANGED <<stage, key, result, failed>>

\* Mutant: a member is taken for the package, whatever its own name is.
FetchMember_Unnamed ==
  /\ stage = "members" /\ todo # <<>> /\ Head(todo) \in Dirs
  /\ LET manifest == tag.member[Head(todo)]
     IN \/ manifest # Missing /\ TakeKey(manifest) /\ UNCHANGED <<todo, failed>>
        \/ Unfetched(manifest)
  /\ Same

\* One member after the other, in the order listed; the first that cannot be
\* fetched ends the search.
FetchMember ==
  /\ stage = "members" /\ todo # <<>> /\ Head(todo) \in Dirs
  /\ LET manifest == tag.member[Head(todo)]
     IN \/ /\ manifest # Missing /\ UNCHANGED failed
           /\ \/ manifest.name = package /\ TakeKey(manifest) /\ UNCHANGED todo
              \/ /\ manifest.name # package /\ todo' = Tail(todo)
                 /\ UNCHANGED <<stage, key, result>>
        \/ Unfetched(manifest)
  /\ Same

NotListed ==
  /\ stage = "members" /\ todo = <<>> /\ Quit("no key")
  /\ Same /\ UNCHANGED <<todo, key, failed>>

\* A signed record that attests a failure fails the run.
Answer == IF verdict = "passed" THEN "ok" ELSE "failed"

\* The signature first, then what it signs.
CheckRecord ==
  /\ stage = "check"
  /\ Quit(IF key # signer THEN "mismatch"
          ELSE IF verdict = "malformed" THEN "error" ELSE Answer)
  /\ Same /\ UNCHANGED <<todo, key, failed>>


\* What follows the release's assets: fetches of manifests, each of which is given
\* 30 seconds, and steps that wait for nobody.
Search == FetchRoot \/ Skip \/ FetchMember \/ NotListed \/ CheckRecord

Verify == FetchAssets \/ FetchAssetKey \/ Search

\* The tag is moved by force.
Move ==
  /\ moves < MaxMoves /\ moves' = moves + 1
  /\ tag' \in Workspaces \ {tag} /\ seen' = seen \cup {tag'}
  /\ UNCHANGED <<release, stage, package, todo, key, result, failed, searches>>

Finished == stage = "idle" /\ searches = MaxSearches /\ UNCHANGED keyVars

KeyNext == Begin \/ Verify \/ Move \/ Finished

\* A program that searches takes its next step.  Nothing is said of Begin and Move,
\* nor of FetchAssets and FetchAssetKey: no time is set for them, and a server that
\* never answers one holds the run for ever.
Fairness == WF_keyVars(Search)

KeySpec == KeyInit /\ [][KeyNext]_keyVars /\ Fairness

-----------------------------------------------------------------------------
(* Properties *)

Manifests(w) == {w.root} \cup {w.member[d] : d \in Dirs}

Named(f) == f # Missing /\ f.name = package

\* A verdict is only given with the key that the release published for it or that
\* one manifest, of the package asked for, held at the tag: never one put together
\* from what the tag pointed to at two moments, nor another crate's.
KeyIsPackages ==
  result \in {"ok", "failed"} =>
    /\ key = signer
    /\ \/ Holds(asset, key)
       \/ \E w \in seen : \E f \in Manifests(w) : Named(f) /\ f.key = key

\* The members that are looked at before a given one can all be fetched.
Reachable(w, d) ==
  \E n \in 1..Len(w.root.members) :
    /\ w.root.members[n] = d
    /\ \A i \in 1..(n - 1) :
         LET e == w.root.members[i]
         IN e \in Globs \/ (w.member[e] # Missing /\ ~Named(w.member[e]))

\* When nothing fails and nobody moves the tag, the manifest of the package is
\* found wherever it is listed: at the root, or in any directory among the members.
PackageIsFound ==
  stage = "idle" /\ result = "no key" /\ ~failed /\ seen = {tag} /\ package # NoName =>
    \/ tag.root = Missing
    \/ Named(tag.root) /\ tag.root.key = NoKey
    \/ /\ ~Named(tag.root)
       /\ \A d \in Dirs : Reachable(tag, d) =>
            ~(Named(tag.member[d]) /\ tag.member[d].key # NoKey)

\* Once the release's assets have been answered for, the run ends: the search for
\* the package goes through its list however the tag moves under it, and a server of
\* manifests that never answers does not hold it (remote.rs:426-429, 487).
RunEnds == stage \in {"root", "members", "check"} ~> stage = "idle"

=============================================================================
