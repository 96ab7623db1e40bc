----------------------------- MODULE LicenseScope -----------------------------
(***************************************************************************)
(* reachable_shipped_ids of license_scope.rs: the worklist that decides    *)
(* which packages of a resolved dependency graph ship with a crate, and    *)
(* what its two callers take from them, the licences an about.toml must    *)
(* accept and the entries of Cargo.lock a release record digests.          *)
(* The stack is a set: the order in which it is popped, and a package on   *)
(* it twice, make no difference to what is seen.                           *)
(***************************************************************************)
EXTENDS Naturals

CONSTANTS Packages,
          Root,       \* the crate the metadata was taken for
          Graphs,     \* [Packages \X Packages -> SUBSET Kinds]
          License,    \* the licences each package's expression names
          Allow,      \* deny.toml's [licenses].allow
          Excepted,   \* the packages its exceptions name
          Local       \* the packages without a source: workspace and path

\* The dep_kinds of an edge. An edge without the field is {"unstated"}; no edge
\* is {}, which ships as little as an edge with an empty list does.
Kinds == {"normal", "dev", "build", "unstated"}
Policies == [dev : BOOLEAN, build : BOOLEAN, transitive : BOOLEAN]
ShippedPolicy == [dev |-> TRUE, build |-> FALSE, transitive |-> FALSE]

ASSUME GraphAssumption ==
  /\ Root \in Packages
  /\ Graphs \subseteq [Packages \X Packages -> SUBSET Kinds]
  /\ Root \in Local /\ Local \subseteq Packages /\ Excepted \subseteq Packages

VARIABLES graph, caller,    \* the resolved graph; who asks
          ignore,           \* the edges left out: about.toml's, or the digest's
          seen, stack, phase,
          accepted, exceptions, digested   \* what the caller takes

input == <<graph, caller, ignore>>
result == <<accepted, exceptions, digested>>
scopeVars == <<input, seen, stack, phase, result>>

Excluded(k) == (k = "dev" /\ ignore.dev) \/ (k = "build" /\ ignore.build)

\* Mutant: an edge that is a dev edge for some target is left out.
Ships_AnyExcluded(p, q) ==
  graph[p, q] # {} /\ \A k \in graph[p, q] : ~Excluded(k)

\* An edge ships if one of its kinds does.
Ships(p, q) == \E k \in graph[p, q] : ~Excluded(k)

ScopeTypeOK ==
  /\ graph \in Graphs /\ caller \in {"about", "digest"} /\ ignore \in Policies
  /\ caller = "digest" => ignore = ShippedPolicy
  /\ seen \subseteq Packages /\ stack \subseteq Packages
  /\ phase \in {"start", "walk", "done"}
  /\ accepted \subseteq Allow
  /\ exceptions \subseteq Excepted /\ digested \subseteq Packages

ScopeInit ==
  /\ graph \in Graphs /\ caller \in {"about", "digest"} /\ ignore \in Policies
  /\ caller = "digest" => ignore = ShippedPolicy
  /\ seen = {} /\ stack = {} /\ phase = "start"
  /\ accepted = {} /\ exceptions = {} /\ digested = {}

\* Only the direct dependencies count, or the walk begins at the root.
Start ==
  /\ phase = "start" /\ phase' = "walk"
  /\ IF ignore.transitive
     THEN seen' = {q \in Packages : Ships(Root, q)} /\ UNCHANGED stack
     ELSE stack' = {Root} /\ UNCHANGED seen
  /\ UNCHANGED <<input, result>>

\* Mutant: what has been seen is expanded again and again.
Pop_Again ==
  /\ phase = "walk"
  /\ \E p \in stack :
       /\ seen' = seen \cup {p}
       /\ stack' = (stack \ {p}) \cup {q \in Packages : Ships(p, q)}
  /\ UNCHANGED <<input, phase, result>>

\* Mutant: a package counts as seen once it is pushed, and is never expanded.
Pop_SeenOnPush ==
  /\ phase = "walk"
  /\ \E p \in stack :
       LET pushed == {q \in Packages : p \notin seen /\ Ships(p, q)}
       IN seen' = seen \cup {p} \cup pushed /\ stack' = (stack \ {p}) \cup pushed
  /\ UNCHANGED <<input, phase, result>>

Pop ==
  /\ phase = "walk"
  /\ \E p \in stack :
       /\ seen' = seen \cup {p}
       /\ stack' = (stack \ {p})
                     \cup (IF p \in seen THEN {} ELSE {q \in Packages : Ships(p, q)})
  /\ UNCHANGED <<input, phase, result>>

\* Mutant: the crate's own licence counts as a third party's.
Collect_Root ==
  /\ phase = "walk" /\ stack = {} /\ phase' = "done"
  /\ accepted' = Allow \cap UNION {License[p] : p \in seen}
  /\ UNCHANGED <<input, seen, stack, exceptions, digested>>

\* The crate itself is not one of its third parties. The digest keeps the
\* entries of Cargo.lock that have a source.
Collect ==
  /\ phase = "walk" /\ stack = {} /\ phase' = "done"
  /\ LET shipped == seen \ {Root}
     IN IF caller = "about"
        THEN /\ accepted' = Allow \cap UNION {License[p] : p \in shipped}
             /\ exceptions' = shipped \cap Excepted
             /\ UNCHANGED digested
        ELSE digested' = shipped \ Local /\ UNCHANGED <<accepted, exceptions>>
  /\ UNCHANGED <<input, seen, stack>>

ScopeNext == Start \/ Pop \/ Collect

\* The loop runs until it returns.
ScopeSpec == ScopeInit /\ [][ScopeNext]_scopeVars /\ WF_scopeVars(ScopeNext)

-----------------------------------------------------------------------------
(* Properties *)

\* An edge leads on unless every one of its kinds is left out.
LeftOut == (IF ignore.dev THEN {"dev"} ELSE {}) \cup (IF ignore.build THEN {"build"} ELSE {})
Closed(S) == \A p \in S, q \in Packages : q \in S \/ graph[p, q] \subseteq LeftOut

\* The walk finds what ships and nothing else: the least set that holds the
\* root and every package an edge leads to from a member of it, where an edge
\* is left out only when every one of its kinds is (license_scope.rs:290-357).
WalkIsExact ==
  phase = "done" /\ ~ignore.transitive =>
    /\ Root \in seen /\ Closed(seen)
    /\ \A S \in SUBSET Packages : Root \in S /\ Closed(S) => seen \subseteq S

\* What ships with the crate, by the graph alone: what no closed set leaves out.
Shipped ==
  {p \in Packages : \A S \in SUBSET Packages : Root \in S /\ Closed(S) => p \in S} \ {Root}

\* What the callers take rests on the graph and not on the walk: about.toml accepts
\* the allowed licences that third parties which ship name, and excepts those of
\* them that deny.toml does; the record digests the ones with a source.  Neither
\* what only tests use, nor the crate itself on a cycle back to it, widens the
\* policy (license_scope.rs:6-12, 216-218; release.rs:106).
TakenIsShipped ==
  phase = "done" /\ ~ignore.transitive =>
    IF caller = "about"
    THEN /\ \A l \in Allow : l \in accepted <=> \E p \in Shipped : l \in License[p]
         /\ exceptions = Shipped \cap Excepted
    ELSE digested = Shipped \ Local

\* Leaving transitive dependencies out never adds a package: such a scope lies
\* within what the walk would have found (license_scope.rs:293-297).
DirectIsReachable ==
  phase = "done" /\ ignore.transitive =>
    \A S \in SUBSET Packages : Root \in S /\ Closed(S) => seen \subseteq S

\* The walk ends, on cyclic graphs too.
Terminates == <>(phase = "done")
=============================================================================
