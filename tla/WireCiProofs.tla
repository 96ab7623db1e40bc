----------------------------- MODULE WireCiProofs -----------------------------
(***************************************************************************)
(* wire-ci completes what it was cut short in, on any number of CircleCI   *)
(* files, workflows, entries and declared jobs.  The first half is about   *)
(* WireJobs and Discover as functions: what one job's step does to a list  *)
(* of entries, and by induction what a whole list of jobs does to a file.  *)
(* The second is about runs: what a repeated run computes is what the      *)
(* first one did, whatever part of that has been written.                  *)
(*                                                                         *)
(* c is a file's content and new what wiring makes of it; E and O are the  *)
(* entries of one workflow before and after; J is a list of jobs, j the    *)
(* job being wired and k another; T are the names of targets; d is a disk. *)
(***************************************************************************)
EXTENDS WireCi, FiniteSetTheorems, SequenceTheorems, TLAPS

-----------------------------------------------------------------------------
(* Loops over a list of jobs *)

\* A set of numbers that has any has a least one.
LEMMA LeastOf ==
  ASSUME NEW T, T \subseteq Nat, T # {}
  PROVE  Min(T) \in T /\ \A y \in T : Min(T) <= y
<1>1. PICK x \in T : \A y \in T : ~ (<<y, x>> \in OpToRel(<, Nat))
  BY NatLessThanWellFounded, WFMin
<1>2. \A y \in T : x <= y
  <2> TAKE y \in T
  <2>1. <<y, x>> \in Nat \X Nat
    OBVIOUS
  <2>2. ~ (y < x)
    BY <1>1, <2>1 DEF OpToRel
  <2> QED BY <2>2
<1>3. \E z \in T : \A y \in T : z <= y
  BY <1>2
<1> QED BY <1>3 DEF Min

\* Induction over the jobs of a list: wiring takes them one after another.
LEMMA Counting ==
  ASSUME NEW S, NEW m \in Nat, 0 \in S, \A n \in 0..m : n \in S /\ n < m => n + 1 \in S
  PROVE  0..m \subseteq S
<1> DEFINE T == {n \in 0..m : n \notin S}
<1> SUFFICES ASSUME T # {} PROVE FALSE
  OBVIOUS
<1>1. PICK x \in T : \A y \in T : x <= y
  <2> HIDE DEF T
  <2>1. T \subseteq Nat
    BY DEF T
  <2> QED BY <2>1, LeastOf
<1>2. x # 0 /\ x - 1 \in 0..m /\ x - 1 \in S
  BY <1>1
<1> QED BY <1>1, <1>2

\* One round of a loop over 1..m stays within V, where G[<<n, x>>] is what the
\* n-th round makes of x.
Steps(G, V, m) == \A n \in 1..m : \A x \in V : G[<<n, x>>] \in V

\* f is the history of that loop.
Iterates(f, G, V, v, m) ==
  f \in [0..m -> V] /\ f[0] = v /\ \A n \in 1..m : f[n] = G[<<n, f[n - 1]>>]

\* Such a loop has a history: the recursive functions of WireJobs are that.
LEMMA Iteration ==
  ASSUME NEW V, NEW v \in V, NEW m \in Nat, NEW G, Steps(G, V, m)
  PROVE  \E f : Iterates(f, G, V, v, m)
<1> USE DEF Steps
<1> DEFINE Good(f, k) == f \in [0..k -> V] /\ f[0] = v /\ \A n \in 1..k : f[n] = G[<<n, f[n - 1]>>]
           S == {k \in 0..m : \E f : Good(f, k)}
<1>1. 0 \in S
  <2>1. Good([n \in 0..0 |-> v], 0)
    OBVIOUS
  <2>2. \E f : Good(f, 0)
    <3> HIDE DEF Good
    <3> QED BY <2>1
  <2> QED BY <2>2
<1>2. ASSUME NEW k \in 0..m, k \in S, k < m PROVE k + 1 \in S
  <2>1. PICK f : Good(f, k)
    BY <1>2
  <2> DEFINE g == [n \in 0..k+1 |-> IF n = k+1 THEN G[<<n, f[k]>>] ELSE f[n]]
  <2>2. g \in [0..k+1 -> V]
    BY <2>1, <1>2
  <2>3. g[0] = v
    BY <2>1
  <2>4. ASSUME NEW n \in 1..k+1 PROVE g[n] = G[<<n, g[n-1]>>]
    <3>1. CASE n = k + 1
      <4>1. g[n] = G[<<n, f[k]>>] /\ n - 1 = k /\ g[k] = f[k]
        BY <3>1
      <4> QED BY <4>1
    <3>2. CASE n # k + 1
      <4>1. n \in 1..k /\ n - 1 \in 0..k+1 /\ n - 1 # k + 1
        BY <3>2
      <4>2. g[n] = f[n] /\ g[n - 1] = f[n - 1]
        BY <4>1
      <4> QED BY <2>1, <4>1, <4>2
    <3> QED BY <3>1, <3>2
  <2>5. Good(g, k + 1)
    BY <2>2, <2>3, <2>4
  <2>6. \E h : Good(h, k + 1)
    <3> HIDE DEF g, Good
    <3> QED BY <2>5
  <2> QED BY <2>6, <1>2
<1>3. m \in S
  <2> HIDE DEF S
  <2> QED BY <1>1, <1>2, Counting
<1>4. PICK f : Good(f, m)
  BY <1>3
<1>5. Iterates(f, G, V, v, m)
  BY <1>4 DEF Iterates
<1> QED BY <1>5

-----------------------------------------------------------------------------
(* What the operators of WireJobs return *)

\* named_job_line: the first entry of a name, or none (wire_ci.rs:2187-2199).
LEMMA NamedIs ==
  ASSUME NEW E \in Seq(Entry), NEW t
  PROVE  \/ Named(E, t) = 0 /\ \A i \in DOMAIN E : EffectiveName(E[i]) # t
         \/ /\ Named(E, t) \in DOMAIN E /\ EffectiveName(E[Named(E, t)]) = t
            /\ \A i \in DOMAIN E : EffectiveName(E[i]) = t => Named(E, t) <= i
<1> DEFINE I == {i \in 1..Len(E) : EffectiveName(E[i]) = t}
<1>1. Named(E, t) = IF I # {} THEN Min(I) ELSE 0
  BY DEF Named, SelectInSeq
<1>2. I \subseteq Nat /\ DOMAIN E = 1..Len(E)
  OBVIOUS
<1>3. CASE I = {}
  BY <1>1, <1>2, <1>3
<1>4. CASE I # {}
  <2>1. Named(E, t) \in I /\ \A i \in I : Named(E, t) <= i
    <3> HIDE DEF I
    <3> QED BY <1>1, <1>2, <1>4, LeastOf
  <2> QED BY <2>1, <1>2
<1> QED BY <1>3, <1>4

\* A job always has a name to go by: job_name, or its orb job.
LEMMA NewNameTyped ==
  ASSUME NEW j \in Job PROVE NewName(j) \in Names /\ NewName(j) # NoName
BY WireAssumption DEF Job, NewName, NameOr, WireAssumption

\* Appending adds one element.
LEMMA AppendSet ==
  ASSUME NEW T, NEW s \in Seq(T), NEW x \in T
  PROVE  ToSet(Append(s, x)) = ToSet(s) \cup {x}
<1>1. DOMAIN Append(s, x) = 1..Len(s) + 1 /\ DOMAIN s = 1..Len(s)
  OBVIOUS
<1>2. \A i \in 1..Len(s) : Append(s, x)[i] = s[i]
  OBVIOUS
<1>3. Append(s, x)[Len(s) + 1] = x /\ Len(s) \in Nat
  OBVIOUS
<1>4. 1..Len(s) + 1 = (1..Len(s)) \cup {Len(s) + 1}
  BY <1>3
<1> QED BY <1>1, <1>2, <1>3, <1>4 DEF ToSet

\* Membership of a list is membership of its elements.
LEMMA ContainsIs ==
  ASSUME NEW T, NEW s \in Seq(T), NEW x PROVE Contains(s, x) <=> x \in ToSet(s)
BY DEF Contains, ToSet

\* The loop of Merged has a history, which is what its CHOOSE denotes.
LEMMA MergedUnfolds ==
  ASSUME NEW J \in Seq(Job), NEW j \in Job
  PROVE  \E f :
           /\ f = [n \in 0..Len(J) |-> IF n = 0 THEN j.requires ELSE Add(f[n - 1], J[n], j)]
           /\ Merged(j, J) = [j EXCEPT !.requires = f[Len(J)]]
<1> DEFINE V == Seq(Names)
           m == Len(J)
           G == [p \in (1..m) \X V |-> Add(p[2], J[p[1]], j)]
           IsIt(f) == f = [n \in 0..m |-> IF n = 0 THEN j.requires ELSE Add(f[n - 1], J[n], j)]
<1>1. j.requires \in V /\ m \in Nat
  BY DEF Job
<1>2. ASSUME NEW n \in 1..m, NEW x \in V PROVE G[<<n, x>>] \in V
  <2>1. J[n] \in Job /\ NewName(J[n]) \in Names
    BY NewNameTyped
  <2>2. G[<<n, x>>] = Add(x, J[n], j)
    OBVIOUS
  <2> QED BY <2>1, <2>2 DEF Add
<1>3. PICK f : Iterates(f, G, V, j.requires, m)
  <2>1. Steps(G, V, m)
    BY <1>2 DEF Steps
  <2> HIDE DEF V, G, m
  <2> QED BY <1>1, <2>1, Iteration
<1>4. IsIt(f)
  <2>1. ASSUME NEW n \in 1..m PROVE f[n] = Add(f[n - 1], J[n], j)
    <3>1. n - 1 \in 0..m
      BY <1>1
    <3>2. <<n, f[n - 1]>> \in (1..m) \X V
      <4> HIDE DEF V, m
      <4> QED BY <1>3, <3>1 DEF Iterates
    <3>3. G[<<n, f[n - 1]>>] = Add(f[n - 1], J[n], j)
      <4> HIDE DEF V, m
      <4> QED BY <3>2
    <3> QED BY <1>3, <3>3 DEF Iterates
  <2> QED BY <1>1, <1>3, <2>1 DEF Iterates
<1> DEFINE names == CHOOSE g : IsIt(g)
<1>5. IsIt(names)
  <2> HIDE DEF IsIt
  <2> QED BY <1>4
<1>6. Merged(j, J) = [j EXCEPT !.requires = names[Len(J)]]
  BY DEF Merged
<1> QED BY <1>5, <1>6

\* The siblings whose required_by names the job.
Askers(j, J) == {NewName(k) : k \in {o \in ToSet(J) : Asks(o, j)}}

\* What a job is rendered with: its own declaration, its requires extended by
\* exactly the siblings that ask for it (required_by_contributors).
LEMMA MergedIs ==
  ASSUME NEW J \in Seq(Job), NEW j \in Job
  PROVE  /\ Merged(j, J) \in Job
         /\ Merged(j, J) = [j EXCEPT !.requires = Merged(j, J).requires]
         /\ ToSet(Merged(j, J).requires) = ToSet(j.requires) \cup Askers(j, J)
<1>1. PICK f :
        /\ f = [n \in 0..Len(J) |-> IF n = 0 THEN j.requires ELSE Add(f[n - 1], J[n], j)]
        /\ Merged(j, J) = [j EXCEPT !.requires = f[Len(J)]]
  BY MergedUnfolds
<1> DEFINE Of(n) == ToSet(j.requires) \cup {NewName(J[i]) : i \in {l \in 1..n : Asks(J[l], j)}}
           S == {n \in 0..Len(J) : f[n] \in Seq(Names) /\ ToSet(f[n]) = Of(n)}
<1>2. 0 \in S
  <2>1. f[0] = j.requires
    BY <1>1
  <2>2. {l \in 1..0 : Asks(J[l], j)} = {}
    OBVIOUS
  <2>3. Of(0) = ToSet(j.requires)
    BY <2>2
  <2> QED BY <2>1, <2>3 DEF Job
<1>3. ASSUME NEW n \in 0..Len(J), n \in S, n < Len(J) PROVE n + 1 \in S
  <2>0. n + 1 \in 0..Len(J)
    BY <1>3
  <2>1. f[n + 1] = Add(f[n], J[n + 1], j)
    BY <1>1, <1>3
  <2>2. f[n] \in Seq(Names) /\ ToSet(f[n]) = Of(n)
    BY <1>3
  <2>3. J[n + 1] \in Job
    BY <1>3
  <2>4. NewName(J[n + 1]) \in Names
    BY <2>3, NewNameTyped
  <2> DEFINE x == NewName(J[n + 1])
  <2>5. Of(n + 1) = Of(n) \cup (IF Asks(J[n + 1], j) THEN {x} ELSE {})
    <3>1. 1..(n + 1) = (1..n) \cup {n + 1}
      BY <1>3
    <3> QED BY <3>1
  <2> HIDE DEF Of
  <2>6. CASE Asks(J[n + 1], j) /\ ~Contains(f[n], x)
    <3>1. f[n + 1] = Append(f[n], x)
      BY <2>1, <2>6 DEF Add
    <3>2. ToSet(Append(f[n], x)) = ToSet(f[n]) \cup {x}
      BY <2>2, <2>4, AppendSet
    <3>3. Append(f[n], x) \in Seq(Names)
      BY <2>2, <2>4
    <3>4. ToSet(f[n + 1]) = Of(n + 1)
      BY <2>2, <2>5, <2>6, <3>1, <3>2
    <3> QED BY <2>0, <3>1, <3>3, <3>4
  <2>7. CASE ~(Asks(J[n + 1], j) /\ ~Contains(f[n], x))
    <3>1. f[n + 1] = f[n]
      BY <2>1, <2>7 DEF Add
    <3>2. Asks(J[n + 1], j) => x \in ToSet(f[n])
      BY <2>2, <2>7 DEF Contains, ToSet
    <3>3. ToSet(f[n + 1]) = Of(n + 1)
      BY <2>2, <2>5, <3>1, <3>2
    <3> QED BY <2>0, <2>2, <3>1, <3>3
  <2> QED BY <2>6, <2>7
<1>4. Len(J) \in S
  <2> HIDE DEF S
  <2>1. Len(J) \in Nat
    OBVIOUS
  <2>2. 0..Len(J) \subseteq S
    BY <1>2, <1>3, <2>1, Counting
  <2> QED BY <2>1, <2>2
<1>5. Of(Len(J)) = ToSet(j.requires) \cup Askers(j, J)
  BY DEF Askers, ToSet
<1>6. f[Len(J)] \in Seq(Names) /\ ToSet(f[Len(J)]) = ToSet(j.requires) \cup Askers(j, J)
  BY <1>4, <1>5
<1>7. [j EXCEPT !.requires = f[Len(J)]] \in Job
  BY <1>6 DEF Job
<1>8. [j EXCEPT !.requires = f[Len(J)]].requires = f[Len(J)]
  BY DEF Job
<1> QED BY <1>1, <1>6, <1>7, <1>8

\* An entry whose requires gains a name.
Gained(e, x) == [e EXCEPT !.requires.items = Append(@, x)]

\* It changes in nothing else.
LEMMA GainedIs ==
  ASSUME NEW e \in Entry, NEW x \in Names
  PROVE  /\ Gained(e, x) \in Entry
         /\ Gained(e, x).orbJob = e.orbJob /\ Gained(e, x).name = e.name
         /\ EffectiveName(Gained(e, x)) = EffectiveName(e)
         /\ Gained(e, x).requires.form = e.requires.form
         /\ Gained(e, x).requires.items = Append(e.requires.items, x)
<1>1. e.requires \in [form : Readable \cup {"odd"}, items : Seq(Names)]
  BY DEF Entry
<1>2. Append(e.requires.items, x) \in Seq(Names)
  BY <1>1
<1>3. Gained(e, x).requires = [e.requires EXCEPT !.items = Append(e.requires.items, x)]
  BY DEF Gained, Entry
<1>4. Gained(e, x).requires \in [form : Readable \cup {"odd"}, items : Seq(Names)]
  BY <1>1, <1>2, <1>3
<1>5. Gained(e, x) \in Entry
  BY <1>4 DEF Gained, Entry
<1>6. Gained(e, x).requires.form = e.requires.form
      /\ Gained(e, x).requires.items = Append(e.requires.items, x)
  BY <1>1, <1>3
<1>7. Gained(e, x).orbJob = e.orbJob /\ Gained(e, x).name = e.name
  BY DEF Gained, Entry
<1> QED BY <1>5, <1>6, <1>7 DEF EffectiveName

\* What a job's entry is made of, and that rendering it again, under the name it
\* now has, changes nothing.
LEMMA RenderIs ==
  ASSUME NEW j \in Job, NEW m \in Job, m = [j EXCEPT !.requires = m.requires],
         NEW kept \in Names \cup {NoName}
  PROVE  /\ Render(m, kept) \in Entry
         /\ Render(m, kept).orbJob = j.orbJob
         /\ Render(m, kept).name = IF j.jobName = NoName THEN kept ELSE j.jobName
         /\ Render(m, kept).requires.form \in Readable
         /\ Render(m, kept).requires.items = m.requires
         /\ Render(m, Render(m, kept).name) = Render(m, kept)
<1>1. m.jobName = j.jobName /\ m.orbJob = j.orbJob
  BY DEF Job
<1>2. m.requires \in Seq(Names) /\ m.orbJob \in DOMAIN Orb /\ m.params \in Settings
      /\ m.extras \in Extras /\ m.jobName \in Names \cup {NoName}
  BY DEF Job
<1> QED BY <1>1, <1>2 DEF Render, Entry, Readable, Appendable

\* No declared job is patched as another's external target.
LEMMA ExternalIs ==
  ASSUME NEW J \in Seq(Job), NEW j \in ToSet(J), NEW k \in ToSet(J), j.workflow = k.workflow
  PROVE  NewName(k) \notin External(j, J)
BY DEF External, IsDeclared

\* The job's name decides if any entry has it; its orb job decides if none.
LEMMA CandidatesIs ==
  ASSUME NEW E \in Seq(Entry), NEW j \in Job
  PROVE  \/ Exact(j, E) = {} /\ Candidates(j, E) = {i \in DOMAIN E : E[i].orbJob = j.orbJob}
         \/ \E p \in Exact(j, E) : Candidates(j, E) = {p} /\ \A i \in Exact(j, E) : p <= i
<1>1. CASE Exact(j, E) = {}
  BY <1>1 DEF Candidates
<1>2. CASE Exact(j, E) # {}
  <2>1. Exact(j, E) \subseteq Nat
    BY DEF Exact
  <2>2. Min(Exact(j, E)) \in Exact(j, E) /\ \A i \in Exact(j, E) : Min(Exact(j, E)) <= i
    BY <1>2, <2>1, LeastOf
  <2> QED BY <1>2, <2>2 DEF Candidates
<1> QED BY <1>1, <1>2

\* A target is where it was as long as the entries keep their names.
LEMMA NamedSame ==
  ASSUME NEW E \in Seq(Entry), NEW O \in Seq(Entry), DOMAIN E = DOMAIN O,
         \A i \in DOMAIN E : EffectiveName(O[i]) = EffectiveName(E[i]), NEW t
  PROVE  Named(O, t) = Named(E, t)
<1>1. DOMAIN E \subseteq Nat /\ 0 \notin DOMAIN E
  OBVIOUS
<1> DEFINE a == Named(E, t)
           b == Named(O, t)
<1>2. \/ a = 0 /\ \A i \in DOMAIN E : EffectiveName(E[i]) # t
      \/ a \in DOMAIN E /\ EffectiveName(E[a]) = t /\ \A i \in DOMAIN E : EffectiveName(E[i]) = t => a <= i
  BY NamedIs
<1>3. \/ b = 0 /\ \A i \in DOMAIN E : EffectiveName(E[i]) # t
      \/ b \in DOMAIN E /\ EffectiveName(E[b]) = t /\ \A i \in DOMAIN E : EffectiveName(E[i]) = t => b <= i
  BY NamedIs
<1> HIDE DEF a, b
<1>4. a = b
  BY <1>1, <1>2, <1>3
<1> QED BY <1>4 DEF a, b

-----------------------------------------------------------------------------
(* Telling the targets of required_by *)

\* The entry of this name requires x.
Answered(E, t, x) ==
  LET i == Named(E, t)
  IN i # 0 /\ E[i].requires.form \in Appendable /\ Contains(E[i].requires.items, x)

\* An entry is as it was, or has gained x, which it lacked, as one of the targets.
Gains(new, old, x, T) ==
  \/ new = old
  \/ new = Gained(old, x) /\ ~Contains(old.requires.items, x) /\ EffectiveName(old) \in T

\* Every target has been told of x, and nothing else has changed.
Told(E, O, T, x) ==
  /\ O \in Seq(Entry) /\ DOMAIN O = DOMAIN E
  /\ \A i \in DOMAIN E : Gains(O[i], E[i], x, T)
  /\ \A t \in T : Answered(O, t, x)

\* Appending to the requires of patchable targets tells each of them, once.
LEMMA AppendToIs ==
  ASSUME NEW E \in Seq(Entry), NEW T, Patchable(E, T), NEW x \in Names
  PROVE  Told(E, AppendTo(E, T, x), T, x)
<1> DEFINE O == AppendTo(E, T, x)
           At(i) == /\ \E t \in T : i = Named(E, t)
                    /\ ~Contains(E[i].requires.items, x)
<1>1. O = [i \in DOMAIN E |-> IF At(i) THEN Gained(E[i], x) ELSE E[i]]
  BY DEF AppendTo, Gained
<1>2. DOMAIN E = 1..Len(E) /\ Len(E) \in Nat /\ \A i \in DOMAIN E : E[i] \in Entry
  OBVIOUS
<1>3. \A i \in DOMAIN E : O[i] = IF At(i) THEN Gained(E[i], x) ELSE E[i]
  BY <1>1
<1>4. DOMAIN O = DOMAIN E
  BY <1>1
<1> HIDE DEF O, At
<1>5. \A i \in DOMAIN E : O[i] \in Entry
  BY <1>2, <1>3, GainedIs
<1>6. O \in Seq(Entry)
  <2>1. O = [i \in 1..Len(E) |-> O[i]]
    BY <1>1, <1>2 DEF O
  <2> QED BY <1>2, <1>5, <2>1
<1>7. ASSUME NEW i \in DOMAIN E
      PROVE  /\ EffectiveName(O[i]) = EffectiveName(E[i])
             /\ O[i].requires.form = E[i].requires.form
  <2>1. E[i] \in Entry
    BY <1>2
  <2> QED BY <1>3, <2>1, GainedIs
<1>8. ASSUME NEW i \in DOMAIN E, At(i) PROVE ~Contains(E[i].requires.items, x) /\ EffectiveName(E[i]) \in T
  <2>1. PICK t \in T : i = Named(E, t)
    BY <1>8 DEF At
  <2>2. EffectiveName(E[i]) = t
    BY <1>2, <2>1, NamedIs
  <2> QED BY <1>8, <2>1, <2>2 DEF At
<1>9. ASSUME NEW t \in T PROVE Answered(O, t, x)
  <2> DEFINE i == Named(E, t)
  <2>1. i # 0 /\ E[i].requires.form \in Appendable
    BY DEF Patchable
  <2>2. i \in DOMAIN E
    BY <2>1, NamedIs
  <2>3. Named(O, t) = i
    BY <1>4, <1>6, <1>7, NamedSame
  <2> HIDE DEF i
  <2>4. O[i].requires.form \in Appendable
    BY <1>7, <2>1, <2>2
  <2>5. Contains(O[i].requires.items, x)
    <3>1. CASE At(i)
      <4>1. O[i].requires.items = Append(E[i].requires.items, x)
        BY <1>2, <1>3, <2>2, <3>1, GainedIs
      <4>2. E[i].requires.items \in Seq(Names)
        BY <1>2, <2>2 DEF Entry
      <4>3. x \in ToSet(Append(E[i].requires.items, x))
        BY <4>2, AppendSet
      <4>4. Append(E[i].requires.items, x) \in Seq(Names)
        BY <4>2
      <4>5. Contains(Append(E[i].requires.items, x), x)
        BY <4>3, <4>4, ContainsIs
      <4> QED BY <4>1, <4>5
    <3>2. CASE ~At(i)
      <4>1. Contains(E[i].requires.items, x)
        BY <3>2 DEF At, i
      <4> QED BY <1>3, <2>2, <3>2, <4>1
    <3> QED BY <3>1, <3>2
  <2> QED BY <2>1, <2>3, <2>4, <2>5 DEF Answered
<1>10. \A i \in DOMAIN E : Gains(O[i], E[i], x, T)
  BY <1>3, <1>8 DEF Gains
<1>11. Told(E, O, T, x)
  BY <1>4, <1>6, <1>9, <1>10 DEF Told
<1> QED BY <1>11 DEF O

-----------------------------------------------------------------------------
(* Wiring one job *)

\* The name at place p, if there is an entry.
Kept(E, p) == IF p \in DOMAIN E THEN E[p].name ELSE NoName

\* What wiring job j makes of its workflow's list: its entry at p, resynced in
\* place or appended, every other as it was or told to require j.
Patched(E, O, j, J, p) ==
  /\ E \in Seq(Entry) /\ O \in Seq(Entry)
  /\ p \in DOMAIN O /\ DOMAIN O = DOMAIN E \cup {p} /\ p \in 1..Len(E) + 1
  /\ IF p \in DOMAIN E THEN Candidates(j, E) = {p} ELSE Candidates(j, E) = {}
  /\ O[p] = Render(Merged(j, J), Kept(E, p))
  /\ \A i \in DOMAIN E \ {p} : Gains(O[i], E[i], NewName(j), External(j, J))
  /\ \A t \in External(j, J) : Answered(O, t, NewName(j))

\* A rendered entry goes by its job's name, or by one it had and nobody declared.
LEMMA RenderedName ==
  ASSUME NEW J \in Seq(Job), NEW j \in Job, NEW kept \in Names \cup {NoName}
  PROVE  LET e == Render(Merged(j, J), kept)
         IN  \/ EffectiveName(e) = NewName(j)
             \/ kept # NoName /\ EffectiveName(e) = kept /\ j.jobName = NoName
<1>1. Merged(j, J) \in Job /\ Merged(j, J) = [j EXCEPT !.requires = Merged(j, J).requires]
  BY MergedIs
<1> DEFINE e == Render(Merged(j, J), kept)
<1>2. e.orbJob = j.orbJob /\ e.name = IF j.jobName = NoName THEN kept ELSE j.jobName
  BY <1>1, RenderIs
<1> QED BY <1>2 DEF EffectiveName, NewName, NameOr

\* What a list of jobs holds are jobs.
LEMMA InSeq ==
  ASSUME NEW J \in Seq(Job), NEW j \in ToSet(J) PROVE j \in Job
BY DEF ToSet

\* The name that is kept is one an entry may have.
LEMMA KeptTyped ==
  ASSUME NEW E \in Seq(Entry), NEW p PROVE Kept(E, p) \in Names \cup {NoName}
<1>1. ASSUME p \in DOMAIN E PROVE E[p].name \in Names \cup {NoName}
  <2>1. E[p] \in Entry
    BY <1>1
  <2> QED BY <2>1 DEF Entry
<1> QED BY <1>1 DEF Kept

\* Placing the job in its list, before the siblings that ask for it are told.
LEMMA IsPatched ==
  ASSUME NEW E \in Seq(Entry), NEW J \in Seq(Job), NEW j \in ToSet(J),
         Cardinality(Candidates(j, E)) <= 1,
         \A i \in Candidates(j, E) : EffectiveName(E[i]) \notin External(j, J),
         NEW P, P = IF Candidates(j, E) = {} THEN Append(E, Render(Merged(j, J), NoName))
                    ELSE [E EXCEPT ![Min(Candidates(j, E))] = Render(Merged(j, J), @.name)],
         Patchable(P, External(j, J))
  PROVE  \E p : Patched(E, AppendTo(P, External(j, J), NewName(j)), j, J, p)
<1> DEFINE T == External(j, J)
           x == NewName(j)
           O == AppendTo(P, T, x)
<1>1. j \in Job /\ x \in Names /\ x \notin T
  BY InSeq, NewNameTyped, ExternalIs
<1>2. PICK p : /\ p \in 1..Len(E) + 1 /\ P \in Seq(Entry) /\ p \in DOMAIN P /\ DOMAIN P = DOMAIN E \cup {p}
               /\ IF p \in DOMAIN E THEN Candidates(j, E) = {p} ELSE Candidates(j, E) = {}
               /\ P[p] = Render(Merged(j, J), Kept(E, p))
               /\ \A i \in DOMAIN E \ {p} : P[i] = E[i]
  <2>0. Merged(j, J) \in Job /\ Merged(j, J) = [j EXCEPT !.requires = Merged(j, J).requires]
    BY <1>1, MergedIs
  <2>1. CASE Candidates(j, E) = {}
    <3> DEFINE r == Render(Merged(j, J), NoName)
    <3>1. r \in Entry
      BY <2>0, RenderIs
    <3>2. P = Append(E, r)
      BY <2>1
    <3>3. Len(E) + 1 \notin DOMAIN E
      OBVIOUS
    <3>4. Kept(E, Len(E) + 1) = NoName
      BY <3>3 DEF Kept
    <3> HIDE DEF r
    <3>5. /\ P \in Seq(Entry) /\ Len(E) + 1 \in DOMAIN P /\ DOMAIN P = DOMAIN E \cup {Len(E) + 1}
          /\ P[Len(E) + 1] = r /\ \A i \in DOMAIN E : P[i] = E[i] /\ Len(E) + 1 \in 1..Len(E) + 1
      BY <3>1, <3>2
    <3> QED BY <2>1, <3>3, <3>4, <3>5 DEF r
  <2>2. CASE Candidates(j, E) # {}
    <3>1. PICK p \in DOMAIN E : Candidates(j, E) = {p}
      <4>1. Candidates(j, E) \subseteq DOMAIN E
        BY <1>1, CandidatesIs DEF Exact
      <4>2. IsFiniteSet(Candidates(j, E))
        <5>1. 1 \in Int /\ Len(E) \in Int /\ DOMAIN E = 1..Len(E)
          OBVIOUS
        <5>2. IsFiniteSet(1..Len(E))
          BY <5>1, FS_Interval
        <5> QED BY <4>1, <5>1, <5>2, FS_Subset
      <4>3. Cardinality(Candidates(j, E)) = 1
        BY <2>2, <4>2, FS_EmptySet, FS_CardinalityType
      <4> QED BY <4>1, <4>2, <4>3, FS_Singleton
    <3> DEFINE r == Render(Merged(j, J), E[p].name)
    <3>2. Min({p}) = p
      <4>1. {p} \subseteq Nat /\ {p} # {}
        OBVIOUS
      <4>2. Min({p}) \in {p}
        BY <4>1, LeastOf
      <4> QED BY <4>2
    <3>3. P = [E EXCEPT ![p] = r]
      BY <3>1, <3>2
    <3>4. r \in Entry
      <4>1. Kept(E, p) = E[p].name /\ Kept(E, p) \in Names \cup {NoName}
        BY KeptTyped DEF Kept
      <4> QED BY <2>0, <4>1, RenderIs
    <3> HIDE DEF r
    <3>5. DOMAIN P = DOMAIN E /\ P[p] = r /\ \A i \in DOMAIN E \ {p} : P[i] = E[i]
      BY <3>1, <3>3
    <3>6. P \in Seq(Entry)
      <4>1. p \in 1..Len(E)
        BY <3>1
      <4>2. [E EXCEPT ![p] = r] \in Seq(Entry)
        BY <3>4, <4>1, ExceptSeq
      <4> QED BY <3>3, <4>2
    <3>7. p \in 1..Len(E) + 1 /\ DOMAIN P = DOMAIN E \cup {p} /\ p \in DOMAIN P
      BY <3>1, <3>5
    <3>8. r = Render(Merged(j, J), Kept(E, p))
      BY <3>1 DEF r, Kept
    <3> QED BY <3>1, <3>5, <3>6, <3>7, <3>8
  <2> QED BY <2>1, <2>2
<1>3. /\ O \in Seq(Entry) /\ DOMAIN O = DOMAIN P
      /\ \A i \in DOMAIN P : Gains(O[i], P[i], x, T)
      /\ \A t \in T : Answered(O, t, x)
  <2>1. P \in Seq(Entry) /\ Patchable(P, T)
    BY <1>2
  <2>2. Told(P, O, T, x)
    <3> HIDE DEF T, x
    <3> QED BY <1>1, <2>1, AppendToIs
  <2> HIDE DEF O, T, x
  <2> QED BY <2>2 DEF Told
<1>4. EffectiveName(P[p]) \notin T
  <2>1. \/ EffectiveName(P[p]) = x
        \/ /\ Kept(E, p) # NoName /\ EffectiveName(P[p]) = Kept(E, p)
    BY <1>1, <1>2, KeptTyped, RenderedName
  <2>2. CASE Kept(E, p) # NoName
    <3>1. p \in DOMAIN E /\ E[p].name = Kept(E, p) /\ p \in Candidates(j, E)
      BY <1>2, <2>2 DEF Kept
    <3>2. EffectiveName(E[p]) = Kept(E, p)
      BY <2>2, <3>1 DEF EffectiveName, NameOr
    <3> QED BY <1>1, <2>1, <3>1, <3>2
  <2> QED BY <1>1, <2>1, <2>2
<1>5. O[p] = P[p]
  BY <1>2, <1>3, <1>4 DEF Gains
<1> HIDE DEF O, T, x
<1>6. Patched(E, O, j, J, p)
  BY <1>2, <1>3, <1>5 DEF Patched, T, x
<1> QED BY <1>6 DEF O, T, x

\* The list that the job is for.
Site(c, j) == c.workflows[j.workflow]

\* What wiring one job makes of a file.
Step(c, new, j, J) ==
  /\ j.workflow \in DOMAIN c.workflows
  /\ new = [c EXCEPT !.pins = new.pins, !.workflows = new.workflows]
  /\ new.pins = c.pins \cup {Orb[j.orbJob]}
  /\ new.workflows = [c.workflows EXCEPT ![j.workflow] = Site(new, j)]
  /\ \E p : Patched(Site(c, j), Site(new, j), j, J, p)

\* wire_one_job, when it refuses nothing, makes that step and leaves a file that
\* is made of what files are made of (wire_ci.rs:2089-2185).
LEMMA WireOneIs ==
  ASSUME NEW W, NEW c \in Content(W), NEW J \in Seq(Job), NEW j \in ToSet(J), Apart(c, J),
         WireOne(c, j, J) # Refused
  PROVE  WireOne(c, j, J) \in Content(W) /\ Step(c, WireOne(c, j, J), j, J)
<1> DEFINE w == j.workflow
           E == c.workflows[w]
           T == External(j, J)
           found == Candidates(j, E)
           mine == Merged(j, J)
           P == IF found = {} THEN Append(E, Render(mine, NoName))
                ELSE [E EXCEPT ![Min(found)] = Render(mine, @.name)]
           O == AppendTo(P, T, NewName(j))
           new == [c EXCEPT !.pins = @ \cup {Orb[j.orbJob]}, !.workflows[w] = O]
<1>1. j \in Job
  BY InSeq
<1>2. /\ w \in DOMAIN c.workflows /\ Patchable(P, T) /\ Cardinality(found) <= 1
      /\ WireOne(c, j, J) = new
  <2> HIDE DEF O, P, found, new
  <2>1. w \in DOMAIN c.workflows
    BY DEF WireOne
  <2> QED BY <2>1 DEF WireOne, O, P, found, new
<1>3. w \in W /\ E \in Seq(Entry)
  BY <1>2 DEF Content
<1>4. \A i \in found : EffectiveName(E[i]) \notin T
  BY <1>2 DEF Apart
<1>5. \E p : Patched(E, O, j, J, p)
  <2>1. P = IF found = {} THEN Append(E, Render(Merged(j, J), NoName))
            ELSE [E EXCEPT ![Min(found)] = Render(Merged(j, J), @.name)]
    OBVIOUS
  <2> HIDE DEF P, E
  <2> QED BY <1>2, <1>3, <1>4, <2>1, IsPatched
<1>6. O \in Seq(Entry)
  BY <1>5 DEF Patched
<1> HIDE DEF O
<1>7. /\ new.pins = c.pins \cup {Orb[j.orbJob]} /\ new.workflows = [c.workflows EXCEPT ![w] = O]
      /\ new = [c EXCEPT !.pins = new.pins, !.workflows = new.workflows]
      /\ new.workflows[w] = O
  BY <1>2 DEF Content
<1>8. new \in Content(W)
  BY <1>1, <1>3, <1>6, <1>7 DEF Content, Job
<1> QED BY <1>2, <1>5, <1>7, <1>8 DEF Step, Site

\* An entry that gains a name keeps its own, and everything it required.
LEMMA GainsIs ==
  ASSUME NEW old \in Entry, NEW x \in Names, NEW T, NEW new, Gains(new, old, x, T)
  PROVE  /\ new \in Entry /\ EffectiveName(new) = EffectiveName(old)
         /\ new.name = old.name /\ new.orbJob = old.orbJob
         /\ new.requires.form = old.requires.form
         /\ ToSet(old.requires.items) \subseteq ToSet(new.requires.items)
<1>1. CASE new = old
  BY <1>1
<1>2. CASE new = Gained(old, x)
  <2>1. old.requires.items \in Seq(Names)
    BY DEF Entry
  <2>2. ToSet(Append(old.requires.items, x)) = ToSet(old.requires.items) \cup {x}
    BY <2>1, AppendSet
  <2> QED BY <1>2, <2>2, GainedIs
<1> QED BY <1>1, <1>2 DEF Gains

\* After the step every other entry keeps its name and what it required, and the
\* job's own is as it is rendered.
LEMMA PatchedIs ==
  ASSUME NEW J \in Seq(Job), NEW j \in ToSet(J), NEW E, NEW O, NEW p, Patched(E, O, j, J, p)
  PROVE  /\ \A i \in DOMAIN E \ {p} :
              /\ E[i] \in Entry /\ O[i] \in Entry
              /\ EffectiveName(O[i]) = EffectiveName(E[i])
              /\ O[i].name = E[i].name /\ O[i].orbJob = E[i].orbJob
              /\ O[i].requires.form = E[i].requires.form
              /\ ToSet(E[i].requires.items) \subseteq ToSet(O[i].requires.items)
         /\ O[p] \in Entry /\ O[p].orbJob = j.orbJob /\ O[p].requires.form \in Readable
         /\ O[p] = Render(Merged(j, J), O[p].name)
         /\ O[p].name = IF j.jobName = NoName THEN Kept(E, p) ELSE j.jobName
         /\ \/ EffectiveName(O[p]) = NewName(j)
            \/ /\ p \in DOMAIN E /\ EffectiveName(O[p]) = EffectiveName(E[p])
               /\ j.jobName = NoName /\ O[p].name = E[p].name /\ E[p].name # NoName
<1>1. j \in Job /\ NewName(j) \in Names
  BY InSeq, NewNameTyped
<1>2. ASSUME NEW i \in DOMAIN E \ {p}
      PROVE  /\ E[i] \in Entry /\ O[i] \in Entry
             /\ EffectiveName(O[i]) = EffectiveName(E[i])
             /\ O[i].name = E[i].name /\ O[i].orbJob = E[i].orbJob
             /\ O[i].requires.form = E[i].requires.form
             /\ ToSet(E[i].requires.items) \subseteq ToSet(O[i].requires.items)
  <2>1. E[i] \in Entry /\ Gains(O[i], E[i], NewName(j), External(j, J))
    BY DEF Patched
  <2> QED BY <1>1, <2>1, GainsIs
<1>3. E \in Seq(Entry) /\ O[p] = Render(Merged(j, J), Kept(E, p))
  BY DEF Patched
<1>4. Kept(E, p) \in Names \cup {NoName}
  BY <1>3, KeptTyped
<1>5. Merged(j, J) \in Job /\ Merged(j, J) = [j EXCEPT !.requires = Merged(j, J).requires]
  BY <1>1, MergedIs
<1>6. /\ O[p] \in Entry /\ O[p].orbJob = j.orbJob /\ O[p].requires.form \in Readable
      /\ O[p] = Render(Merged(j, J), O[p].name)
      /\ O[p].name = IF j.jobName = NoName THEN Kept(E, p) ELSE j.jobName
  BY <1>1, <1>3, <1>4, <1>5, RenderIs
<1>7. \/ EffectiveName(O[p]) = NewName(j)
      \/ Kept(E, p) # NoName /\ EffectiveName(O[p]) = Kept(E, p) /\ j.jobName = NoName
  BY <1>1, <1>3, <1>4, RenderedName
<1>8. Kept(E, p) # NoName => /\ p \in DOMAIN E /\ E[p].name = Kept(E, p)
                             /\ EffectiveName(E[p]) = Kept(E, p)
  BY DEF Kept, EffectiveName, NameOr
<1> QED BY <1>2, <1>6, <1>7, <1>8

\* Once wired, a job has one entry that it may stand for, the one at p.
LEMMA OwnClaim ==
  ASSUME NEW J \in Seq(Job), NEW j \in ToSet(J), NEW E, NEW O, NEW p, Patched(E, O, j, J, p)
  PROVE  /\ Candidates(j, O) = {p}
         /\ Exact(j, E) # {} => Exact(j, O) # {}
<1>1. j \in Job
  BY InSeq
<1>2. /\ E \in Seq(Entry) /\ O \in Seq(Entry) /\ DOMAIN O = DOMAIN E \cup {p} /\ p \in DOMAIN O
      /\ IF p \in DOMAIN E THEN Candidates(j, E) = {p} ELSE Candidates(j, E) = {}
  BY DEF Patched
<1>3. /\ \A i \in DOMAIN E \ {p} : /\ EffectiveName(O[i]) = EffectiveName(E[i])
                                   /\ O[i].orbJob = E[i].orbJob
      /\ O[p].orbJob = j.orbJob
      /\ \/ EffectiveName(O[p]) = NewName(j)
         \/ /\ p \in DOMAIN E /\ EffectiveName(O[p]) = EffectiveName(E[p])
  BY PatchedIs
<1>4. \/ Exact(j, E) = {} /\ Candidates(j, E) = {i \in DOMAIN E : E[i].orbJob = j.orbJob}
      \/ \E q \in Exact(j, E) : Candidates(j, E) = {q} /\ \A i \in Exact(j, E) : q <= i
  BY <1>1, <1>2, CandidatesIs
<1>5. \/ Exact(j, O) = {} /\ Candidates(j, O) = {i \in DOMAIN O : O[i].orbJob = j.orbJob}
      \/ \E q \in Exact(j, O) : Candidates(j, O) = {q} /\ \A i \in Exact(j, O) : q <= i
  BY <1>1, <1>2, CandidatesIs
<1>6. CASE Exact(j, E) = {}
  <2>1. Exact(j, O) \subseteq {p}
    BY <1>2, <1>3, <1>6 DEF Exact
  <2>2. {i \in DOMAIN O : O[i].orbJob = j.orbJob} = {p}
    BY <1>2, <1>3, <1>4, <1>6
  <2> QED BY <1>5, <1>6, <2>1, <2>2
<1>7. CASE Exact(j, E) # {}
  <2>1. p \in DOMAIN E /\ p \in Exact(j, E) /\ \A i \in Exact(j, E) : p <= i
    BY <1>2, <1>4, <1>7
  <2>2. Exact(j, O) = Exact(j, E)
    BY <1>2, <1>3, <2>1 DEF Exact
  <2>3. DOMAIN E \subseteq Nat /\ Exact(j, E) \subseteq DOMAIN E
    BY <1>2 DEF Exact
  <2>4. Candidates(j, O) = {p}
    BY <1>5, <2>1, <2>2, <2>3
  <2> QED BY <2>2, <2>4
<1> QED BY <1>6, <1>7

-----------------------------------------------------------------------------
(* No doubt about which entry is whose *)

\* Apart, of two jobs in one list.
ApartAt(E, j, k, J) ==
  LET names == {EffectiveName(E[i]) : i \in Candidates(k, E)}
  IN /\ names \cap External(j, J) = {}
     /\ j # k => /\ NewName(j) \notin names \cup {NewName(k)}
                 /\ Candidates(j, E) \cap Candidates(k, E) = {}
                 /\ j.orbJob = k.orbJob => Exact(j, E) # {}

\* Wiring one job leaves the entry of another, and the targets of its required_by,
\* where they were.
LEMMA OtherClaim ==
  ASSUME NEW J \in Seq(Job), NEW j \in ToSet(J), NEW k \in ToSet(J), j # k, j.workflow = k.workflow,
         NEW E, NEW O, NEW p, Patched(E, O, j, J, p),
         ApartAt(E, j, k, J), ApartAt(E, k, j, J)
  PROVE  /\ Candidates(k, O) = Candidates(k, E) /\ Exact(k, O) = Exact(k, E)
         /\ \A i \in Candidates(k, E) : i # p /\ i \in DOMAIN E /\ O[i] = E[i]
         /\ \A t \in External(k, J) : Named(O, t) = Named(E, t) /\ Named(O, t) # p
<1>1. j \in Job /\ k \in Job /\ NewName(j) # NewName(k)
  BY InSeq DEF ApartAt
<1>2. /\ E \in Seq(Entry) /\ O \in Seq(Entry) /\ DOMAIN O = DOMAIN E \cup {p} /\ p \in DOMAIN O
      /\ IF p \in DOMAIN E THEN Candidates(j, E) = {p} ELSE Candidates(j, E) = {}
      /\ \A i \in DOMAIN E \ {p} : Gains(O[i], E[i], NewName(j), External(j, J))
  BY DEF Patched
<1>3. /\ \A i \in DOMAIN E \ {p} : /\ EffectiveName(O[i]) = EffectiveName(E[i])
                                   /\ O[i].orbJob = E[i].orbJob
      /\ O[p].orbJob = j.orbJob
      /\ \/ EffectiveName(O[p]) = NewName(j)
         \/ /\ p \in DOMAIN E /\ EffectiveName(O[p]) = EffectiveName(E[p])
  BY PatchedIs
<1>4. \A e \in Seq(Entry) :
        \/ Exact(k, e) = {} /\ Candidates(k, e) = {i \in DOMAIN e : e[i].orbJob = k.orbJob}
        \/ \E q \in Exact(k, e) : Candidates(k, e) = {q} /\ \A i \in Exact(k, e) : q <= i
  BY <1>1, CandidatesIs
<1>5. p \in DOMAIN E => EffectiveName(E[p]) # NewName(k) /\ EffectiveName(E[p]) \notin External(k, J)
  BY <1>2 DEF ApartAt
<1>6. Exact(k, O) = Exact(k, E) /\ p \notin Exact(k, E)
  BY <1>1, <1>2, <1>3, <1>5 DEF Exact
<1>7. p \notin Candidates(k, E)
  <2>1. p \in DOMAIN E => p \notin Candidates(k, E)
    BY <1>2 DEF ApartAt
  <2>2. Candidates(k, E) \subseteq DOMAIN E
    BY <1>2, <1>4 DEF Exact
  <2> QED BY <2>1, <2>2
<1>8. Candidates(k, O) = Candidates(k, E)
  <2>1. CASE Exact(k, E) = {}
    <3>1. j.orbJob # k.orbJob
      BY <2>1 DEF ApartAt
    <3>2. Candidates(k, E) = {i \in DOMAIN E : E[i].orbJob = k.orbJob}
          /\ Candidates(k, O) = {i \in DOMAIN O : O[i].orbJob = k.orbJob}
      BY <1>2, <1>4, <1>6, <2>1
    <3> QED BY <1>2, <1>3, <1>7, <3>1, <3>2
  <2>2. CASE Exact(k, E) # {}
    <3>1. Candidates(k, E) = {Min(Exact(k, E))} /\ Candidates(k, O) = {Min(Exact(k, O))}
      BY <1>6, <2>2 DEF Candidates
    <3> QED BY <1>6, <3>1
  <2> QED BY <2>1, <2>2
<1>9. ASSUME NEW i \in Candidates(k, E) PROVE i # p /\ i \in DOMAIN E /\ O[i] = E[i]
  <2>1. i # p /\ i \in DOMAIN E
    BY <1>2, <1>4, <1>7 DEF Exact
  <2>2. EffectiveName(E[i]) \notin External(j, J)
    BY DEF ApartAt
  <2> QED BY <1>2, <2>1, <2>2 DEF Gains
<1>10. ASSUME NEW t \in External(k, J) PROVE Named(O, t) = Named(E, t) /\ Named(O, t) # p
  <2>1. t # NewName(j)
    BY ExternalIs
  <2>2. EffectiveName(O[p]) # t /\ (p \in DOMAIN E => EffectiveName(E[p]) # t)
    BY <1>3, <1>5, <2>1
  <2> DEFINE a == Named(E, t)
             b == Named(O, t)
  <2>3. \/ a = 0 /\ \A i \in DOMAIN E : EffectiveName(E[i]) # t
        \/ a \in DOMAIN E /\ EffectiveName(E[a]) = t /\ \A i \in DOMAIN E : EffectiveName(E[i]) = t => a <= i
    BY <1>2, NamedIs
  <2>4. \/ b = 0 /\ \A i \in DOMAIN O : EffectiveName(O[i]) # t
        \/ b \in DOMAIN O /\ EffectiveName(O[b]) = t /\ \A i \in DOMAIN O : EffectiveName(O[i]) = t => b <= i
    BY <1>2, NamedIs
  <2>5. DOMAIN O \subseteq Nat \ {0}
    BY <1>2
  <2> HIDE DEF a, b
  <2>6. a = b /\ b # p
    BY <1>2, <1>3, <2>2, <2>3, <2>4, <2>5
  <2> QED BY <2>6 DEF a, b
<1> QED BY <1>6, <1>8, <1>9, <1>10

\* Apart, within one list.
ApartIn(E, w, J) == \A j, k \in ToSet(J) : j.workflow = w /\ k.workflow = w => ApartAt(E, j, k, J)

\* Apart is a matter of each list on its own.
LEMMA ApartIs ==
  ASSUME NEW c, NEW J
  PROVE  Apart(c, J) <=> \A w \in DOMAIN c.workflows : ApartIn(c.workflows[w], w, J)
<1>1. Apart(c, J) <=> \A j, k \in ToSet(J) : 
         j.workflow = k.workflow /\ j.workflow \in DOMAIN c.workflows
            => ApartAt(c.workflows[j.workflow], j, k, J)
  BY DEF Apart, ApartAt
<1> QED BY <1>1 DEF ApartIn

\* The entries a job may stand for, by name.
NamesOf(k, E) == {EffectiveName(E[i]) : i \in Candidates(k, E)}

\* Wiring a job adds no name but its own to those its siblings may stand for.
LEMMA NamesNow ==
  ASSUME NEW J \in Seq(Job), NEW j \in ToSet(J), NEW k \in ToSet(J), j.workflow = k.workflow,
         NEW E, NEW O, NEW p, Patched(E, O, j, J, p), ApartIn(E, j.workflow, J)
  PROVE  /\ NamesOf(k, O) \subseteq NamesOf(k, E) \cup {NewName(k)}
         /\ Exact(k, E) # {} => Exact(k, O) # {}
         /\ IF k = j THEN Candidates(k, O) = {p} ELSE Candidates(k, O) = Candidates(k, E) \ {p}
<1>1. CASE k = j
  <2>1. Candidates(k, O) = {p} /\ (Exact(k, E) # {} => Exact(k, O) # {})
    BY <1>1, OwnClaim
  <2>2. \/ EffectiveName(O[p]) = NewName(k)
        \/ p \in DOMAIN E /\ EffectiveName(O[p]) = EffectiveName(E[p])
    BY <1>1, PatchedIs
  <2>3. p \in DOMAIN E => p \in Candidates(k, E)
    BY <1>1 DEF Patched
  <2>4. EffectiveName(O[p]) \in NamesOf(k, E) \cup {NewName(k)}
    BY <2>2, <2>3 DEF NamesOf
  <2>5. NamesOf(k, O) = {EffectiveName(O[p])}
    BY <2>1 DEF NamesOf
  <2> QED BY <1>1, <2>1, <2>4, <2>5
<1>2. CASE k # j
  <2>1. ApartAt(E, j, k, J) /\ ApartAt(E, k, j, J)
    BY DEF ApartIn
  <2>2. /\ Candidates(k, O) = Candidates(k, E) /\ Exact(k, O) = Exact(k, E)
        /\ \A i \in Candidates(k, E) : i # p /\ O[i] = E[i]
    BY <1>2, <2>1, OtherClaim
  <2>3. NamesOf(k, O) = NamesOf(k, E)
    BY <2>2 DEF NamesOf
  <2> QED BY <1>2, <2>2, <2>3
<1> QED BY <1>1, <1>2

\* No doubt about which entry is whose arises from wiring one of the jobs.
LEMMA ApartNow ==
  ASSUME NEW J \in Seq(Job), NEW j \in ToSet(J),
         NEW E, NEW O, NEW p, Patched(E, O, j, J, p), ApartIn(E, j.workflow, J)
  PROVE  ApartIn(O, j.workflow, J)
<1> SUFFICES ASSUME NEW a \in ToSet(J), NEW b \in ToSet(J),
                    a.workflow = j.workflow, b.workflow = j.workflow
             PROVE  ApartAt(O, a, b, J)
  BY DEF ApartIn
<1>1. ApartAt(E, a, b, J)
  BY DEF ApartIn
<1>2. /\ NamesOf(b, E) \cap External(a, J) = {}
      /\ a # b => /\ NewName(a) \notin NamesOf(b, E) \cup {NewName(b)}
                  /\ Candidates(a, E) \cap Candidates(b, E) = {}
                  /\ a.orbJob = b.orbJob => Exact(a, E) # {}
  BY <1>1 DEF ApartAt, NamesOf
<1>3. /\ NamesOf(b, O) \subseteq NamesOf(b, E) \cup {NewName(b)}
      /\ Exact(a, E) # {} => Exact(a, O) # {}
      /\ IF a = j THEN Candidates(a, O) = {p} ELSE Candidates(a, O) = Candidates(a, E) \ {p}
      /\ IF b = j THEN Candidates(b, O) = {p} ELSE Candidates(b, O) = Candidates(b, E) \ {p}
  BY NamesNow
<1>4. NewName(b) \notin External(a, J)
  BY ExternalIs
<1>5. /\ NamesOf(b, O) \cap External(a, J) = {}
      /\ a # b => /\ NewName(a) \notin NamesOf(b, O) \cup {NewName(b)}
                  /\ Candidates(a, O) \cap Candidates(b, O) = {}
                  /\ a.orbJob = b.orbJob => Exact(a, O) # {}
  BY <1>2, <1>3, <1>4
<1> QED BY <1>5 DEF ApartAt, NamesOf

-----------------------------------------------------------------------------
(* A job, once applied, stays so *)

\* The job has its entry, rendered from its declaration and its siblings', and
\* its external targets require it.
AppliedIn(E, k, J) ==
  /\ E \in Seq(Entry)
  /\ \E q : Candidates(k, E) = {q} /\ q \in DOMAIN E /\ E[q] = Render(Merged(k, J), E[q].name)
  /\ \A t \in External(k, J) : Answered(E, t, NewName(k))

\* A job that has just been wired is applied.
LEMMA AppliedNow ==
  ASSUME NEW J \in Seq(Job), NEW j \in ToSet(J), NEW E, NEW O, NEW p, Patched(E, O, j, J, p)
  PROVE  AppliedIn(O, j, J)
<1>1. Candidates(j, O) = {p}
  BY OwnClaim
<1>2. O[p] = Render(Merged(j, J), O[p].name)
  BY PatchedIs
<1> QED BY <1>1, <1>2 DEF AppliedIn, Patched

\* It remains applied while its siblings are wired.
LEMMA AppliedStill ==
  ASSUME NEW J \in Seq(Job), NEW j \in ToSet(J), NEW k \in ToSet(J), j.workflow = k.workflow,
         NEW E, NEW O, NEW p, Patched(E, O, j, J, p), ApartIn(E, j.workflow, J),
         AppliedIn(E, k, J)
  PROVE  AppliedIn(O, k, J)
<1>1. CASE k = j
  BY <1>1, AppliedNow
<1>2. CASE k # j
  <2>1. ApartAt(E, j, k, J) /\ ApartAt(E, k, j, J)
    BY DEF ApartIn
  <2>2. /\ Candidates(k, O) = Candidates(k, E)
        /\ \A i \in Candidates(k, E) : i # p /\ i \in DOMAIN E /\ O[i] = E[i]
        /\ \A t \in External(k, J) : Named(O, t) = Named(E, t) /\ Named(O, t) # p
    BY <1>2, <2>1, OtherClaim
  <2>3. E \in Seq(Entry) /\ O \in Seq(Entry) /\ DOMAIN O = DOMAIN E \cup {p}
        /\ \A i \in DOMAIN E \ {p} : Gains(O[i], E[i], NewName(j), External(j, J))
    BY DEF Patched
  <2>4. \E q : Candidates(k, O) = {q} /\ q \in DOMAIN O /\ O[q] = Render(Merged(k, J), O[q].name)
    BY <2>2, <2>3 DEF AppliedIn
  <2>5. ASSUME NEW t \in External(k, J) PROVE Answered(O, t, NewName(k))
    <3> DEFINE i == Named(E, t)
    <3>1. /\ Named(O, t) = i /\ i # p /\ i # 0 /\ E[i].requires.form \in Appendable
          /\ Contains(E[i].requires.items, NewName(k))
      BY <2>2 DEF AppliedIn, Answered
    <3>2. i \in DOMAIN E
      BY <2>3, <3>1, NamedIs
    <3> HIDE DEF i
    <3>5. /\ E[i] \in Entry /\ O[i] \in Entry /\ O[i].requires.form = E[i].requires.form
          /\ ToSet(E[i].requires.items) \subseteq ToSet(O[i].requires.items)
      BY <3>1, <3>2, PatchedIs
    <3>6. E[i].requires.items \in Seq(Names) /\ O[i].requires.items \in Seq(Names)
      BY <3>5 DEF Entry
    <3>7. NewName(k) \in ToSet(E[i].requires.items)
      BY <3>1, <3>6, ContainsIs
    <3>8. Contains(O[i].requires.items, NewName(k))
      BY <3>5, <3>6, <3>7, ContainsIs
    <3> QED BY <3>1, <3>5, <3>8 DEF Answered
  <2> QED BY <2>3, <2>4, <2>5 DEF AppliedIn
<1> QED BY <1>1, <1>2

\* The same, of the whole file: its workflow is there, and its orb is pinned.
Applied(c, k, J) ==
  /\ k.workflow \in DOMAIN c.workflows /\ Orb[k.orbJob] \in c.pins
  /\ AppliedIn(Site(c, k), k, J)

\* What has been applied needs nothing more.
LEMMA Fixed ==
  ASSUME NEW W, NEW c \in Content(W), NEW J \in Seq(Job), NEW j \in ToSet(J), Applied(c, j, J)
  PROVE  WireOne(c, j, J) = c
<1> DEFINE w == j.workflow
           E == c.workflows[w]
           T == External(j, J)
           x == NewName(j)
<1>1. w \in DOMAIN c.workflows /\ Orb[j.orbJob] \in c.pins /\ E \in Seq(Entry) /\ w \in W
  BY DEF Applied, AppliedIn, Site, Content
<1>2. PICK q \in DOMAIN E : Candidates(j, E) = {q} /\ E[q] = Render(Merged(j, J), E[q].name)
  BY DEF Applied, AppliedIn, Site
<1>3. \A t \in T : Answered(E, t, x)
  BY DEF Applied, AppliedIn, Site
<1>4. j \in Job
  BY InSeq
<1> HIDE DEF E, T, x
<1>5. Patchable(E, T)
  BY <1>3 DEF Patchable, Answered
<1>6. E[q].requires.form \in Readable
  <2>1. Merged(j, J) \in Job /\ Merged(j, J) = [j EXCEPT !.requires = Merged(j, J).requires]
    BY <1>4, MergedIs
  <2>2. E[q].name \in Names \cup {NoName}
    <3>1. E[q] \in Entry
      BY <1>1, <1>2
    <3> QED BY <3>1 DEF Entry
  <2> QED BY <1>2, <1>4, <2>1, <2>2, RenderIs
<1>7. Min({q}) = q /\ Cardinality({q}) = 1
  <2>1. {q} \subseteq Nat /\ {q} # {}
    BY <1>1, <1>2
  <2> QED BY <2>1, LeastOf, FS_Singleton
<1>8. [E EXCEPT ![Min({q})] = Render(Merged(j, J), @.name)] = E
  BY <1>1, <1>2, <1>7
<1>9. AppendTo(E, T, x) = E
  <2>1. ASSUME NEW i \in DOMAIN E, \E t \in T : i = Named(E, t)
        PROVE  Contains(E[i].requires.items, x)
    BY <1>3, <2>1 DEF Answered
  <2>2. AppendTo(E, T, x) = [i \in DOMAIN E |-> E[i]]
    BY <2>1 DEF AppendTo
  <2> QED BY <1>1, <2>2
<1>10. Pinnable(c, j)
  BY <1>1 DEF Pinnable
<1>11. WireOne(c, j, J) = [c EXCEPT !.pins = @ \cup {Orb[j.orbJob]}, !.workflows[w] = E]
  <2> DEFINE found == Candidates(j, E)
             P == IF found = {} THEN Append(E, Render(Merged(j, J), NoName))
                  ELSE [E EXCEPT ![Min(found)] = Render(Merged(j, J), @.name)]
             safe == /\ Patchable(E, T) /\ Pinnable(c, j) /\ Cardinality(found) <= 1
                     /\ \A i \in found : E[i].requires.form \in Readable
                     /\ Patchable(P, T)
  <2>1. WireOne(c, j, J) =
          IF safe THEN [c EXCEPT !.pins = @ \cup {Orb[j.orbJob]}, !.workflows[w] = AppendTo(P, T, x)]
          ELSE Refused
    BY <1>1 DEF WireOne, E, T, x
  <2>2. P = E
    BY <1>2, <1>8
  <2>3. safe
    <3> HIDE DEF P
    <3> QED BY <1>2, <1>5, <1>6, <1>7, <1>10, <2>2
  <2> HIDE DEF P, safe
  <2> QED BY <1>9, <2>1, <2>2, <2>3
<1>12. [c EXCEPT !.pins = @ \cup {Orb[j.orbJob]}, !.workflows[w] = E] = c
  <2>1. c.pins \cup {Orb[j.orbJob]} = c.pins
    BY <1>1
  <2>2. [c.workflows EXCEPT ![w] = E] = c.workflows
    BY <1>1 DEF E, Content
  <2> QED BY <2>1, <2>2 DEF Content
<1> QED BY <1>11, <1>12

\* One job's step, of a file: it is applied, what was applied still is, and the
\* jobs stay apart.
LEMMA StepKeeps ==
  ASSUME NEW W, NEW c \in Content(W), NEW new \in Content(W), NEW J \in Seq(Job),
         NEW j \in ToSet(J), Apart(c, J), Step(c, new, j, J)
  PROVE  /\ Apart(new, J) /\ Applied(new, j, J)
         /\ \A k \in ToSet(J) : Applied(c, k, J) => Applied(new, k, J)
<1> DEFINE E == Site(c, j)
           O == Site(new, j)
<1>1. PICK p : Patched(E, O, j, J, p)
  BY DEF Step
<1>2. /\ DOMAIN new.workflows = DOMAIN c.workflows /\ j.workflow \in DOMAIN c.workflows
      /\ \A w \in DOMAIN c.workflows : w # j.workflow => new.workflows[w] = c.workflows[w]
      /\ new.pins = c.pins \cup {Orb[j.orbJob]}
      /\ E = c.workflows[j.workflow] /\ O = new.workflows[j.workflow]
  BY DEF Step, Site, Content
<1>3. \A w \in DOMAIN c.workflows : ApartIn(c.workflows[w], w, J)
  BY ApartIs
<1> HIDE DEF E, O
<1>4. ApartIn(E, j.workflow, J)
  BY <1>2, <1>3
<1>5. Apart(new, J)
  <2>1. ApartIn(O, j.workflow, J)
    BY <1>1, <1>4, ApartNow
  <2>2. \A w \in DOMAIN new.workflows : ApartIn(new.workflows[w], w, J)
    BY <1>2, <1>3, <2>1
  <2> QED BY <2>2, ApartIs
<1>6. Applied(new, j, J)
  <2>1. AppliedIn(O, j, J)
    BY <1>1, AppliedNow
  <2> QED BY <1>2, <2>1 DEF Applied, Site
<1>7. ASSUME NEW k \in ToSet(J), Applied(c, k, J) PROVE Applied(new, k, J)
  <2>1. k.workflow \in DOMAIN new.workflows /\ Orb[k.orbJob] \in new.pins
    BY <1>2, <1>7 DEF Applied
  <2>2. CASE k.workflow = j.workflow
    <3>1. AppliedIn(E, k, J)
      BY <1>2, <1>7, <2>2 DEF Applied, Site
    <3>2. AppliedIn(O, k, J)
      BY <1>1, <1>4, <2>2, <3>1, AppliedStill
    <3> QED BY <1>2, <2>1, <2>2, <3>2 DEF Applied, Site
  <2>3. CASE k.workflow # j.workflow
    <3>1. Site(new, k) = Site(c, k)
      BY <1>2, <1>7, <2>3 DEF Applied, Site
    <3> QED BY <1>7, <2>1, <3>1 DEF Applied
  <2> QED BY <2>2, <2>3
<1> QED BY <1>5, <1>6, <1>7

-----------------------------------------------------------------------------
(* Wiring a list of jobs *)

\* A refusal and a missing file are no contents.
LEMMA NotRefused ==
  ASSUME NEW W \in SUBSET Workflows PROVE Refused \notin Content(W) /\ NoFile \notin Content(W)
BY WireAssumption DEF WireAssumption, IsContent

\* The history of wire_jobs_into: a file, or a refusal that lasts.
Trace(f, c, J, W) ==
  /\ f[0] = c /\ f[Len(J)] = WireJobs(c, J)
  /\ \A n \in 0..Len(J) : f[n] = Refused \/ (f[n] \in Content(W) /\ Apart(f[n], J))
  /\ \A n \in 1..Len(J) : f[n] = WireNext(f[n - 1], J[n], J)

\* There is one: the recursion of WireJobs is well defined.
LEMMA Traced ==
  ASSUME NEW W \in SUBSET Workflows, NEW c \in Content(W), NEW J \in Seq(Job), Apart(c, J)
  PROVE  \E f : Trace(f, c, J, W)
<1> DEFINE V == {x \in Content(W) : Apart(x, J)} \cup {Refused}
           m == Len(J)
           G == [p \in (1..m) \X V |-> WireNext(p[2], J[p[1]], J)]
           IsIt(f) == f = [n \in 0..m |-> IF n = 0 THEN c ELSE WireNext(f[n - 1], J[n], J)]
<1>1. c \in V /\ m \in Nat
  OBVIOUS
<1>2. ASSUME NEW n \in 1..m, NEW x \in V PROVE WireNext(x, J[n], J) \in V
  <2>1. J[n] \in ToSet(J)
    BY DEF ToSet
  <2>2. CASE x = Refused \/ WireOne(x, J[n], J) = Refused
    BY <2>2 DEF WireNext
  <2>3. CASE x # Refused /\ WireOne(x, J[n], J) # Refused
    <3>1. x \in Content(W) /\ Apart(x, J)
      BY <2>3
    <3>2. /\ WireOne(x, J[n], J) \in Content(W) /\ Step(x, WireOne(x, J[n], J), J[n], J)
      BY <2>1, <2>3, <3>1, WireOneIs
    <3>3. Apart(WireOne(x, J[n], J), J)
      BY <2>1, <3>1, <3>2, StepKeeps
    <3> QED BY <2>3, <3>2, <3>3 DEF WireNext
  <2> QED BY <2>2, <2>3
<1> HIDE DEF V, m
<1>3. \A n \in 1..m, x \in V : G[<<n, x>>] = WireNext(x, J[n], J)
  OBVIOUS
<1>4. PICK g : Iterates(g, G, V, c, m)
  <2>1. Steps(G, V, m)
    BY <1>2, <1>3 DEF Steps
  <2> HIDE DEF G
  <2> QED BY <1>1, <2>1, Iteration
<1>5. IsIt(g)
  <2>1. ASSUME NEW n \in 1..m PROVE g[n] = WireNext(g[n - 1], J[n], J)
    <3>1. n - 1 \in 0..m
      BY <1>1
    <3>2. g[n - 1] \in V
      BY <1>4, <3>1 DEF Iterates
    <3> HIDE DEF G
    <3> QED BY <1>3, <1>4, <3>2 DEF Iterates
  <2> QED BY <1>1, <1>4, <2>1 DEF Iterates
<1> DEFINE wired == CHOOSE f : IsIt(f)
<1>6. IsIt(wired)
  <2> HIDE DEF IsIt
  <2> QED BY <1>5
<1>7. WireJobs(c, J) = wired[m]
  BY DEF WireJobs, m
<1> HIDE DEF wired
<1>8. wired[0] = c /\ \A n \in 1..m : wired[n] = WireNext(wired[n - 1], J[n], J)
  BY <1>1, <1>6
<1>9. \A n \in 0..m : wired[n] \in V
  <2> DEFINE S == {n \in 0..m : wired[n] \in V}
  <2>1. 0 \in S
    BY <1>1, <1>8
  <2>2. ASSUME NEW n \in 0..m, n \in S, n < m PROVE n + 1 \in S
    <3>1. n + 1 \in 1..m /\ n + 1 - 1 = n /\ n + 1 \in 0..m
      BY <1>1, <2>2
    <3>2. wired[n + 1] = WireNext(wired[n], J[n + 1], J)
      BY <1>8, <3>1
    <3> QED BY <1>2, <2>2, <3>1, <3>2
  <2>3. 0..m \subseteq S
    <3> HIDE DEF S
    <3> QED BY <1>1, <2>1, <2>2, Counting
  <2> QED BY <2>3
<1>10. Trace(wired, c, J, W)
  <2>1. \A n \in 0..m : wired[n] = Refused \/ (wired[n] \in Content(W) /\ Apart(wired[n], J))
    <3> TAKE n \in 0..m
    <3>1. wired[n] \in V
      BY <1>9
    <3> DEFINE y == wired[n]
    <3>2. y \in V
      BY <3>1
    <3> HIDE DEF y
    <3>3. y = Refused \/ (y \in Content(W) /\ Apart(y, J))
      BY <3>2 DEF V
    <3> QED BY <3>3 DEF y
  <2> QED BY <1>7, <1>8, <2>1 DEF Trace, m
<1> QED BY <1>10

\* No job was refused, and each made its step.
Walk(f, c, J, W) ==
  /\ f[0] = c /\ f[Len(J)] = WireJobs(c, J)
  /\ \A n \in 0..Len(J) : f[n] \in Content(W) /\ Apart(f[n], J)
  /\ \A n \in 1..Len(J) : Step(f[n - 1], f[n], J[n], J)

\* When nothing was refused in the end, nothing was on the way.
LEMMA Walked ==
  ASSUME NEW W \in SUBSET Workflows, NEW c \in Content(W), NEW J \in Seq(Job), Apart(c, J),
         WireJobs(c, J) # Refused
  PROVE  \E f : Walk(f, c, J, W)
<1>1. PICK f : Trace(f, c, J, W)
  BY Traced
<1> DEFINE m == Len(J)
           S == {n \in 0..m : f[m - n] # Refused}
<1>2. m \in Nat
  OBVIOUS
<1>3. 0 \in S
  BY <1>1 DEF Trace
<1>4. ASSUME NEW n \in 0..m, n \in S, n < m PROVE n + 1 \in S
  <2>1. m - n \in 1..m /\ (m - n) - 1 = m - (n + 1) /\ n + 1 \in 0..m
    BY <1>2, <1>4
  <2>2. f[m - n] = WireNext(f[m - (n + 1)], J[m - n], J)
    BY <1>1, <2>1 DEF Trace
  <2>3. f[m - n] # Refused
    BY <1>4
  <2> QED BY <2>1, <2>2, <2>3 DEF WireNext
<1>5. 0..m \subseteq S
  <2> HIDE DEF S, m
  <2> QED BY <1>2, <1>3, <1>4, Counting
<1>6. ASSUME NEW n \in 0..m PROVE f[n] \in Content(W) /\ Apart(f[n], J) /\ f[n] # Refused
  <2>1. m - n \in 0..m /\ m - (m - n) = n
    BY <1>2
  <2>2. f[n] # Refused
    BY <1>5, <2>1
  <2> QED BY <1>1, <2>2 DEF Trace
<1>7. ASSUME NEW n \in 1..m PROVE Step(f[n - 1], f[n], J[n], J)
  <2>1. n - 1 \in 0..m /\ n \in 0..m /\ J[n] \in ToSet(J)
    BY <1>2 DEF ToSet
  <2>2. f[n - 1] \in Content(W) /\ Apart(f[n - 1], J) /\ f[n - 1] # Refused /\ f[n] # Refused
    BY <1>6, <2>1
  <2>3. f[n] = WireOne(f[n - 1], J[n], J)
    BY <1>1, <2>2 DEF Trace, WireNext
  <2> QED BY <2>1, <2>2, <2>3, WireOneIs
<1>8. Walk(f, c, J, W)
  BY <1>1, <1>6, <1>7 DEF Walk, Trace
<1> QED BY <1>8

\* What every step keeps, wiring keeps.
LEMMA Invariantly ==
  ASSUME NEW W, NEW c, NEW J \in Seq(Job), NEW f, Walk(f, c, J, W), NEW S, c \in S,
         \A x \in S \cap Content(W), y \in Content(W), j \in ToSet(J) :
           Apart(x, J) /\ Step(x, y, j, J) => y \in S
  PROVE  WireJobs(c, J) \in S
<1> DEFINE m == Len(J)
           R == {n \in 0..m : f[n] \in S}
<1>1. m \in Nat /\ 0 \in R
  BY DEF Walk
<1>2. ASSUME NEW n \in 0..m, n \in R, n < m PROVE n + 1 \in R
  <2>1. n + 1 \in 1..m /\ n + 1 \in 0..m /\ (n + 1) - 1 = n /\ J[n + 1] \in ToSet(J)
    BY <1>1, <1>2 DEF ToSet
  <2>2. Step(f[n], f[n + 1], J[n + 1], J) /\ Apart(f[n], J)
        /\ f[n] \in Content(W) /\ f[n + 1] \in Content(W)
    BY <2>1 DEF Walk
  <2>3. f[n] \in S
    BY <1>2
  <2> QED BY <2>1, <2>2, <2>3
<1>3. 0..m \subseteq R
  <2> HIDE DEF R, m
  <2> QED BY <1>1, <1>2, Counting
<1>4. f[m] \in S
  BY <1>1, <1>3
<1> QED BY <1>4 DEF Walk

\* Every job of the list is applied once the list has been wired.
LEMMA AllApplied ==
  ASSUME NEW W, NEW c, NEW J \in Seq(Job), NEW f, Walk(f, c, J, W)
  PROVE  \A j \in ToSet(J) : Applied(WireJobs(c, J), j, J)
<1> DEFINE m == Len(J)
           S == {n \in 0..m : \A i \in 1..n : Applied(f[n], J[i], J)}
<1>1. m \in Nat /\ 0 \in S
  OBVIOUS
<1>2. ASSUME NEW n \in 0..m, n \in S, n < m PROVE n + 1 \in S
  <2>1. /\ n + 1 \in 1..m /\ n + 1 \in 0..m /\ (n + 1) - 1 = n
        /\ \A i \in 1..(n + 1) : J[i] \in ToSet(J) /\ (i = n + 1 \/ i \in 1..n)
    BY <1>1, <1>2 DEF ToSet
  <2>2. /\ Step(f[n], f[n + 1], J[n + 1], J) /\ Apart(f[n], J)
        /\ f[n] \in Content(W) /\ f[n + 1] \in Content(W) /\ J[n + 1] \in ToSet(J)
    BY <1>1, <2>1 DEF Walk
  <2>3. /\ Applied(f[n + 1], J[n + 1], J)
        /\ \A k \in ToSet(J) : Applied(f[n], k, J) => Applied(f[n + 1], k, J)
    BY <2>2, StepKeeps
  <2>4. \A i \in 1..n : Applied(f[n], J[i], J)
    BY <1>2
  <2>5. \A i \in 1..(n + 1) : Applied(f[n + 1], J[i], J)
    BY <2>1, <2>3, <2>4
  <2> QED BY <2>1, <2>5
<1>3. 0..m \subseteq S
  <2> HIDE DEF S, m
  <2> QED BY <1>1, <1>2, Counting
<1>4. \A i \in 1..m : Applied(f[m], J[i], J)
  BY <1>1, <1>3
<1> QED BY <1>4 DEF Walk, ToSet

\* When every job is applied, wiring them again changes nothing.
LEMMA WireTwice ==
  ASSUME NEW W \in SUBSET Workflows, NEW c \in Content(W), NEW J \in Seq(Job), Apart(c, J),
         \A j \in ToSet(J) : Applied(c, j, J)
  PROVE  WireJobs(c, J) = c
<1>1. PICK f : Trace(f, c, J, W)
  BY Traced
<1> DEFINE m == Len(J)
           S == {n \in 0..m : f[n] = c}
<1>2. m \in Nat /\ 0 \in S
  BY <1>1 DEF Trace
<1>3. ASSUME NEW n \in 0..m, n \in S, n < m PROVE n + 1 \in S
  <2>1. n + 1 \in 1..m /\ n + 1 \in 0..m /\ (n + 1) - 1 = n /\ J[n + 1] \in ToSet(J)
    BY <1>2, <1>3 DEF ToSet
  <2>2. f[n + 1] = WireNext(c, J[n + 1], J)
    BY <1>1, <1>3, <2>1 DEF Trace
  <2>3. WireNext(c, J[n + 1], J) = c
    BY <2>1, NotRefused, Fixed DEF WireNext
  <2> QED BY <2>1, <2>2, <2>3
<1>4. 0..m \subseteq S
  <2> HIDE DEF S, m
  <2> QED BY <1>2, <1>3, Counting
<1>5. f[m] = c
  BY <1>2, <1>4
<1> QED BY <1>1, <1>5 DEF Trace

-----------------------------------------------------------------------------
(* What wiring leaves alone *)

\* Nothing of the own orb is left that no job stands for.
Covered(c, J) ==
  \A w \in DOMAIN c.workflows : \A i \in DOMAIN c.workflows[w] :
    ~ (/\ IsUndeclared(w, c.workflows[w][i], J)
       /\ c.workflows[w][i].requires.form \in Readable)

\* Wiring a job leaves nothing more to be discovered.
LEMMA StepCovers ==
  ASSUME NEW W, NEW c \in Content(W), NEW new \in Content(W), NEW J \in Seq(Job),
         NEW j \in ToSet(J), Step(c, new, j, J), Covered(c, J)
  PROVE  Covered(new, J)
<1> DEFINE E == Site(c, j)
           O == Site(new, j)
<1>1. PICK p : Patched(E, O, j, J, p)
  BY DEF Step
<1>2. /\ DOMAIN new.workflows = DOMAIN c.workflows /\ j.workflow \in DOMAIN c.workflows
      /\ \A w \in DOMAIN c.workflows : w # j.workflow => new.workflows[w] = c.workflows[w]
      /\ E = c.workflows[j.workflow] /\ O = new.workflows[j.workflow]
  BY DEF Step, Site, Content
<1> HIDE DEF E, O
<1>3. ASSUME NEW i \in DOMAIN O
      PROVE  ~ (IsUndeclared(j.workflow, O[i], J) /\ O[i].requires.form \in Readable)
  <2>1. CASE i = p
    <3>1. O[i].orbJob = j.orbJob
      BY <1>1, <2>1, PatchedIs
    <3> QED BY <3>1 DEF IsUndeclared, Identifies
  <2>2. CASE i # p
    <3>1. i \in DOMAIN E \ {p}
      BY <1>1, <2>2 DEF Patched
    <3>2. /\ EffectiveName(O[i]) = EffectiveName(E[i]) /\ O[i].orbJob = E[i].orbJob
          /\ O[i].requires.form = E[i].requires.form
      BY <1>1, <3>1, PatchedIs
    <3>3. ~ (IsUndeclared(j.workflow, E[i], J) /\ E[i].requires.form \in Readable)
      BY <1>2, <3>1 DEF Covered
    <3> QED BY <3>2, <3>3 DEF IsUndeclared, Identifies
  <2> QED BY <2>1, <2>2
<1> QED BY <1>2, <1>3 DEF Covered

\* The jobs for one workflow.
JobsIn(J, w) == {j \in ToSet(J) : j.workflow = w}

\* What became of the entries that no job stands for.
Preserves(c, new, J) ==
  /\ DOMAIN new.workflows = DOMAIN c.workflows
  /\ \A w \in DOMAIN c.workflows : \A i \in DOMAIN c.workflows[w] :
       /\ i \in DOMAIN new.workflows[w]
       /\ \/ IsManaged(c.workflows[w][i], JobsIn(J, w))
          \/ Extends(new.workflows[w][i], c.workflows[w][i],
                     Asking(c.workflows[w][i], JobsIn(J, w)))

\* An entry that nothing happens to has gained nothing.
LEMMA ExtendsItself ==
  ASSUME NEW e \in Entry, NEW names PROVE Extends(e, e, names)
<1>1. e.requires.items \in Seq(Names) /\ e = [e EXCEPT !.requires.items = e.requires.items]
  BY DEF Entry
<1> DEFINE s == e.requires.items
<1>2. SubSeq(s, Len(s) + 1, Len(s)) = <<>>
  BY <1>1
<1>3. IsPrefix(s, s)
  BY <1>1 DEF IsPrefix
<1>4. ToSet(<<>>) = {} /\ IsInjective(<<>>)
  BY DEF ToSet, IsInjective
<1> QED BY <1>1, <1>2, <1>3, <1>4 DEF Extends

\* A list has some names added to it, each once and none it had.
Grows(had, has, names) ==
  LET new == Len(had) + 1..Len(has)
  IN /\ Len(had) <= Len(has) /\ \A i \in 1..Len(had) : has[i] = had[i]
     /\ \A i \in new : has[i] \in names /\ \A k \in 1..Len(has) : has[k] = has[i] => k = i

\* That is what Extends says of an entry's requires.
LEMMA GrowsIs ==
  ASSUME NEW had \in Seq(Names), NEW has \in Seq(Names), NEW names
  PROVE  LET added == SubSeq(has, Len(had) + 1, Len(has))
         IN  /\ IsPrefix(had, has) /\ ToSet(added) \subseteq names \ ToSet(had) /\ IsInjective(added)
             <=> Grows(had, has, names)
<1> DEFINE a == Len(had)
           b == Len(has)
           added == SubSeq(has, a + 1, b)
<1>1. a \in Nat /\ b \in Nat /\ DOMAIN had = 1..a /\ DOMAIN has = 1..b
  OBVIOUS
<1>2. IsPrefix(had, has) <=> a <= b /\ \A i \in 1..a : has[i] = had[i]
  <2>1. SubSeq(had, 1, a) = had
    OBVIOUS
  <2>2. ASSUME a <= b
        PROVE  SubSeq(has, 1, a) \in Seq(Names) /\ Len(SubSeq(has, 1, a)) = a
               /\ \A i \in 1..a : SubSeq(has, 1, a)[i] = has[i]
    BY <1>1, <2>2
  <2>3. ASSUME a <= b PROVE SubSeq(has, 1, a) = had <=> \A i \in 1..a : has[i] = had[i]
    BY <1>1, <2>2, <2>3
  <2> QED BY <2>1, <2>3 DEF IsPrefix
<1>3. ASSUME a <= b PROVE DOMAIN added = 1..(b - a) /\ \A i \in 1..(b - a) : added[i] = has[a + i]
  BY <1>1, <1>3
<1>4. ASSUME a <= b, \A i \in 1..a : has[i] = had[i]
      PROVE  /\ ToSet(added) \subseteq names \ ToSet(had) /\ IsInjective(added)
             <=> Grows(had, has, names)
  <2>1. ToSet(added) = {has[i] : i \in a + 1..b}
    <3>1. ASSUME NEW i \in a + 1..b PROVE has[i] \in ToSet(added)
      <4>1. i - a \in 1..(b - a) /\ a + (i - a) = i
        BY <1>1
      <4> QED BY <1>3, <1>4, <4>1 DEF ToSet
    <3>2. ASSUME NEW i \in 1..(b - a) PROVE added[i] = has[a + i] /\ a + i \in a + 1..b
      BY <1>1, <1>3, <1>4
    <3> DEFINE R == {has[i] : i \in a + 1..b}
    <3>3. DOMAIN added = 1..(b - a)
      BY <1>3, <1>4
    <3> HIDE DEF added, a, b
    <3>4. ToSet(added) = {added[i] : i \in 1..(b - a)}
      BY <3>3 DEF ToSet
    <3>5. \A i \in 1..(b - a) : added[i] \in R
      BY <3>2
    <3>6. R \subseteq ToSet(added)
      BY <3>1
    <3> HIDE DEF R
    <3>7. ToSet(added) = R
      BY <3>4, <3>5, <3>6
    <3> QED BY <3>7 DEF R
  <2>2. IsInjective(added) <=> \A i, k \in a + 1..b : has[i] = has[k] => i = k
    <3>1. ASSUME IsInjective(added), NEW i \in a + 1..b, NEW k \in a + 1..b, has[i] = has[k]
          PROVE  i = k
      <4>1. /\ i - a \in 1..(b - a) /\ k - a \in 1..(b - a) /\ a + (i - a) = i /\ a + (k - a) = k
        BY <1>1
      <4>2. added[i - a] = added[k - a]
        BY <1>3, <1>4, <3>1, <4>1
      <4>3. i - a = k - a
        <5> HIDE DEF added
        <5> QED BY <1>3, <1>4, <3>1, <4>1, <4>2 DEF IsInjective
      <4> QED BY <1>1, <4>3
    <3>2. ASSUME \A i, k \in a + 1..b : has[i] = has[k] => i = k, NEW i \in 1..(b - a), NEW k \in 1..(b - a),
                 added[i] = added[k]
          PROVE  i = k
      <4>1. a + i \in a + 1..b /\ a + k \in a + 1..b /\ has[a + i] = has[a + k]
        BY <1>1, <1>3, <1>4, <3>2
      <4>2. a + i = a + k
        BY <3>2, <4>1
      <4> QED BY <1>1, <4>2
    <3> HIDE DEF added
    <3> QED BY <1>3, <1>4, <3>1, <3>2 DEF IsInjective
  <2>3. ToSet(had) = {has[i] : i \in 1..a}
    BY <1>1, <1>4 DEF ToSet
  <2> HIDE DEF added
  <2>4. 1..b = (1..a) \cup (a + 1..b)
    BY <1>1, <1>4
  <2>5. Grows(had, has, names) <=>
          \A i \in a + 1..b : has[i] \in names /\ \A k \in 1..b : has[k] = has[i] => k = i
    BY <1>4 DEF Grows
  <2>6. (1..a) \cap (a + 1..b) = {}
    BY <1>1
  <2> HIDE DEF a, b
  <2>7. ASSUME ToSet(added) \subseteq names \ ToSet(had), IsInjective(added), NEW i \in a + 1..b
        PROVE  has[i] \in names /\ \A k \in 1..b : has[k] = has[i] => k = i
    <3>1. has[i] \in names /\ has[i] \notin ToSet(had)
      BY <2>1, <2>7
    <3>2. \A k \in 1..a : has[k] # has[i]
      BY <2>3, <3>1
    <3> QED BY <2>2, <2>4, <2>7, <3>1, <3>2
  <2>8. ASSUME \A i \in a + 1..b : has[i] \in names /\ \A k \in 1..b : has[k] = has[i] => k = i
        PROVE  ToSet(added) \subseteq names \ ToSet(had) /\ IsInjective(added)
    <3>1. IsInjective(added)
      BY <2>2, <2>4, <2>8
    <3>2. \A i \in a + 1..b : has[i] \notin ToSet(had)
      BY <2>3, <2>4, <2>6, <2>8
    <3> QED BY <2>1, <2>8, <3>1, <3>2
  <2> QED BY <2>5, <2>7, <2>8
<1> QED BY <1>2, <1>4 DEF Grows

\* An entry extends another when it differs in that alone.
LEMMA ExtendsIs ==
  ASSUME NEW old \in Entry, NEW new \in Entry, NEW names
  PROVE  Extends(new, old, names) <=>
           /\ new = [old EXCEPT !.requires.items = new.requires.items]
           /\ Grows(old.requires.items, new.requires.items, names)
<1>1. old.requires.items \in Seq(Names) /\ new.requires.items \in Seq(Names)
  BY DEF Entry
<1> DEFINE had == old.requires.items
           has == new.requires.items
           added == SubSeq(has, Len(had) + 1, Len(has))
<1>2. Extends(new, old, names) <=>
        /\ new = [old EXCEPT !.requires.items = has]
        /\ IsPrefix(had, has)
        /\ ToSet(added) \subseteq names \ ToSet(had)
        /\ IsInjective(added)
  BY DEF Extends
<1>3. IsPrefix(had, has) /\ ToSet(added) \subseteq names \ ToSet(had) /\ IsInjective(added)
      <=> Grows(had, has, names)
  <2> HIDE DEF had, has
  <2> QED BY <1>1, GrowsIs DEF had, has
<1> QED BY <1>2, <1>3

\* One more name that it was asked to require keeps it so.
LEMMA ExtendsMore ==
  ASSUME NEW old \in Entry, NEW e \in Entry, NEW new, NEW x \in Names, NEW names, NEW T,
         Extends(e, old, names), Gains(new, e, x, T), EffectiveName(old) \in T => x \in names
  PROVE  Extends(new, old, names)
<1>1. CASE new = e
  BY <1>1
<1>2. CASE new = Gained(e, x) /\ ~Contains(e.requires.items, x) /\ EffectiveName(e) \in T
  <2> DEFINE had == old.requires.items
             has == e.requires.items
  <2>1. had \in Seq(Names) /\ has \in Seq(Names) /\ new \in Entry
    BY <1>2, GainedIs DEF Entry
  <2>2. new.requires.items = Append(has, x)
    BY <1>2, GainedIs
  <2>3. e = [old EXCEPT !.requires.items = has] /\ Grows(had, has, names)
    BY ExtendsIs
  <2>4. EffectiveName(e) = EffectiveName(old)
    BY <2>3 DEF EffectiveName, Entry
  <2>5. x \in names
    BY <1>2, <2>4
  <2>6. \A k \in 1..Len(has) : has[k] # x
    BY <1>2 DEF Contains
  <2>7. Grows(had, Append(has, x), names)
    <3> HIDE DEF had, has
    <3>1. /\ Len(Append(has, x)) = Len(has) + 1 /\ Append(has, x)[Len(has) + 1] = x
          /\ \A i \in 1..Len(has) : Append(has, x)[i] = has[i]
          /\ Len(had) \in Nat /\ Len(has) \in Nat
      BY <2>1
    <3> DEFINE longer == Append(has, x)
    <3> HIDE DEF longer
    <3>2. Len(had) <= Len(has) + 1 /\ \A i \in 1..Len(had) : longer[i] = had[i]
      BY <2>3, <3>1 DEF Grows, longer
    <3>3. ASSUME NEW i \in Len(had) + 1..Len(has) + 1
          PROVE  longer[i] \in names /\ \A k \in 1..Len(has) + 1 : longer[k] = longer[i] => k = i
      <4>1. CASE i = Len(has) + 1
        BY <2>5, <2>6, <3>1, <4>1 DEF longer
      <4>2. CASE i # Len(has) + 1
        <5>1. i \in Len(had) + 1..Len(has) /\ i \in 1..Len(has)
          BY <3>1, <4>2
        <5>2. has[i] \in names /\ has[i] # x /\ \A k \in 1..Len(has) : has[k] = has[i] => k = i
          BY <2>3, <2>6, <5>1 DEF Grows
        <5> QED BY <3>1, <5>1, <5>2 DEF longer
      <4> QED BY <4>1, <4>2
    <3>4. Len(longer) = Len(has) + 1
      BY <3>1 DEF longer
    <3>5. Grows(had, longer, names)
      BY <3>2, <3>3, <3>4 DEF Grows
    <3> QED BY <3>5 DEF longer
  <2>8. new = [old EXCEPT !.requires.items = new.requires.items]
    <3>1. new = [e EXCEPT !.requires.items = Append(has, x)]
      BY <1>2 DEF Gained
    <3> DEFINE y == Append(has, x)
    <3> HIDE DEF y
    <3>2. old.requires \in [form : Readable \cup {"odd"}, items : Seq(Names)]
      BY DEF Entry
    <3>3. e.requires = [old.requires EXCEPT !.items = has]
      BY <2>3 DEF Entry
    <3>4. [e.requires EXCEPT !.items = y] = [old.requires EXCEPT !.items = y]
      BY <3>2, <3>3
    <3>5. new = [e EXCEPT !.requires = [old.requires EXCEPT !.items = y]]
      BY <3>1, <3>4 DEF y
    <3>6. e = [old EXCEPT !.requires = e.requires]
      BY <2>3, <3>3 DEF Entry
    <3>7. new = [old EXCEPT !.requires = [old.requires EXCEPT !.items = y]]
      BY <3>5, <3>6 DEF Entry
    <3> QED BY <2>2, <3>7 DEF y
  <2> QED BY <2>1, <2>2, <2>7, <2>8, ExtendsIs
<1> QED BY <1>1, <1>2 DEF Gains

\* Wiring one job keeps the entries that are no job's: they gain the job's name
\* when its required_by asks for that, and nothing else.
LEMMA StepPreserves ==
  ASSUME NEW W, NEW b \in Content(W), NEW c \in Content(W), NEW new \in Content(W),
         NEW J \in Seq(Job), NEW j \in ToSet(J), Step(c, new, j, J), Preserves(b, c, J)
  PROVE  Preserves(b, new, J)
<1> DEFINE w == j.workflow
           B == b.workflows[w]
           E == Site(c, j)
           O == Site(new, j)
           jobs == JobsIn(J, w)
<1>1. PICK p : Patched(E, O, j, J, p)
  BY DEF Step
<1>2. /\ DOMAIN new.workflows = DOMAIN c.workflows /\ w \in DOMAIN c.workflows
      /\ \A v \in DOMAIN c.workflows : v # w => new.workflows[v] = c.workflows[v]
      /\ E = c.workflows[w] /\ O = new.workflows[w]
  BY DEF Step, Site, Content
<1>3. DOMAIN b.workflows = DOMAIN c.workflows /\ B \in Seq(Entry)
  BY <1>2 DEF Preserves, Content
<1> HIDE DEF E, O, B, jobs
<1>4. ASSUME NEW i \in DOMAIN B
      PROVE  /\ i \in DOMAIN O
             /\ IsManaged(B[i], jobs) \/ Extends(O[i], B[i], Asking(B[i], jobs))
  <2>1. /\ i \in DOMAIN E
        /\ IsManaged(B[i], jobs) \/ Extends(E[i], B[i], Asking(B[i], jobs))
    BY <1>2, <1>3 DEF Preserves, B, jobs
  <2>2. i \in DOMAIN O
    BY <1>1, <2>1 DEF Patched
  <2>3. B[i] \in Entry /\ E[i] \in Entry /\ NewName(j) \in Names /\ j \in jobs
    BY <1>1, <1>3, <2>1, InSeq, NewNameTyped DEF Patched, jobs, JobsIn
  <2>4. ASSUME Extends(E[i], B[i], Asking(B[i], jobs))
        PROVE  IsManaged(B[i], jobs) \/ Extends(O[i], B[i], Asking(B[i], jobs))
    <3>0. EffectiveName(E[i]) = EffectiveName(B[i]) /\ E[i].orbJob = B[i].orbJob
      <4>1. E[i] = [B[i] EXCEPT !.requires.items = E[i].requires.items]
        BY <2>3, <2>4, ExtendsIs
      <4> QED BY <2>3, <4>1 DEF EffectiveName, Entry
    <3>1. CASE i = p
      <4>1. i \in Candidates(j, E) /\ j \in Job /\ E \in Seq(Entry)
        BY <1>1, <2>1, <3>1, InSeq DEF Patched
      <4>2. Identifies(j, E[i])
        BY <4>1, CandidatesIs DEF Exact, Identifies
      <4> QED BY <2>3, <3>0, <4>2 DEF IsManaged, Identifies
    <3>2. CASE i # p
      <4>1. Gains(O[i], E[i], NewName(j), External(j, J))
        BY <1>1, <2>1, <3>2 DEF Patched
      <4>2. EffectiveName(B[i]) \in External(j, J) => NewName(j) \in Asking(B[i], jobs)
        <5>1. j.requiredBy \in Seq(Names)
          BY InSeq DEF Job
        <5> QED BY <2>3, <5>1, ContainsIs DEF External, Asking
      <4> HIDE DEF jobs
      <4> QED BY <2>3, <2>4, <4>1, <4>2, ExtendsMore
    <3> QED BY <3>1, <3>2
  <2> QED BY <2>1, <2>2, <2>4
<1> QED BY <1>2, <1>3, <1>4 DEF Preserves, B, jobs

\* Where each job's entry is, when there is no doubt about it.
Tracks(b, c, J) ==
  /\ DOMAIN b.workflows = DOMAIN c.workflows
  /\ \A j \in ToSet(J) : j.workflow \in DOMAIN b.workflows =>
       \A k \in DOMAIN Site(b, j) : IsOnly(j, k, Site(b, j), JobsIn(J, j.workflow)) =>
         /\ k \in DOMAIN Site(c, j) /\ Candidates(j, Site(c, j)) = {k}
         /\ j.jobName = NoName => Site(c, j)[k].name = Site(b, j)[k].name

\* Before anything is wired, a job's only entry is its only candidate.
LEMMA TracksItself ==
  ASSUME NEW W, NEW c \in Content(W), NEW J \in Seq(Job) PROVE Tracks(c, c, J)
<1> SUFFICES ASSUME NEW j \in ToSet(J), j.workflow \in DOMAIN c.workflows,
                    NEW k \in DOMAIN Site(c, j), IsOnly(j, k, Site(c, j), JobsIn(J, j.workflow))
             PROVE  Candidates(j, Site(c, j)) = {k}
  BY DEF Tracks
<1> DEFINE E == Site(c, j)
<1>1. E \in Seq(Entry) /\ j \in Job
  BY InSeq DEF Site, Content
<1>2. {n \in DOMAIN E : Identifies(j, E[n])} = {k}
  BY DEF IsOnly
<1> HIDE DEF E
<1>3. Exact(j, E) \subseteq {k} /\ {i \in DOMAIN E : E[i].orbJob = j.orbJob} \subseteq {k}
  BY <1>2 DEF Exact, Identifies
<1>4. Exact(j, E) = {} => k \in {i \in DOMAIN E : E[i].orbJob = j.orbJob}
  BY <1>2 DEF Exact, Identifies
<1>5. Candidates(j, E) = {k}
  BY <1>1, <1>3, <1>4, CandidatesIs
<1> QED BY <1>5 DEF E

\* Wiring one job moves no job's entry, and drops no name that is not declared.
LEMMA StepTracks ==
  ASSUME NEW W, NEW b \in Content(W), NEW c \in Content(W), NEW new \in Content(W),
         NEW J \in Seq(Job), NEW j \in ToSet(J), Apart(c, J), Step(c, new, j, J), Tracks(b, c, J)
  PROVE  Tracks(b, new, J)
<1> DEFINE E == Site(c, j)
           O == Site(new, j)
<1>1. PICK p : Patched(E, O, j, J, p)
  BY DEF Step
<1>2. /\ DOMAIN new.workflows = DOMAIN c.workflows /\ j.workflow \in DOMAIN c.workflows
      /\ \A v \in DOMAIN c.workflows : v # j.workflow => new.workflows[v] = c.workflows[v]
      /\ E = c.workflows[j.workflow] /\ O = new.workflows[j.workflow]
  BY DEF Step, Site, Content
<1>3. ApartIn(E, j.workflow, J)
  BY <1>2, ApartIs
<1> HIDE DEF E, O
<1>4. DOMAIN b.workflows = DOMAIN c.workflows
  BY DEF Tracks
<1>5. ASSUME NEW a \in ToSet(J), a.workflow \in DOMAIN b.workflows,
             NEW k \in DOMAIN Site(b, a), IsOnly(a, k, Site(b, a), JobsIn(J, a.workflow))
      PROVE  /\ k \in DOMAIN Site(new, a) /\ Candidates(a, Site(new, a)) = {k}
             /\ a.jobName = NoName => Site(new, a)[k].name = Site(b, a)[k].name
  <2>1. /\ k \in DOMAIN Site(c, a) /\ Candidates(a, Site(c, a)) = {k}
        /\ a.jobName = NoName => Site(c, a)[k].name = Site(b, a)[k].name
    BY <1>5 DEF Tracks
  <2>2. CASE a.workflow # j.workflow
    <3>1. Site(new, a) = Site(c, a)
      BY <1>2, <1>4, <1>5, <2>2 DEF Site
    <3> QED BY <2>1, <3>1
  <2>3. CASE a.workflow = j.workflow
    <3>1. Site(c, a) = E /\ Site(new, a) = O
      BY <1>2, <2>3 DEF Site
    <3>2. DOMAIN O = DOMAIN E \cup {p}
      BY <1>1 DEF Patched
    <3>3. CASE a = j
      <4>1. p = k /\ Candidates(j, O) = {p}
        <5>1. IF p \in DOMAIN E THEN Candidates(j, E) = {p} ELSE Candidates(j, E) = {}
          BY <1>1 DEF Patched
        <5>2. Candidates(j, E) = {k}
          BY <2>1, <3>1, <3>3
        <5> QED BY <1>1, <5>1, <5>2, OwnClaim
      <4>2. O[p].name = IF j.jobName = NoName THEN Kept(E, p) ELSE j.jobName
        BY <1>1, PatchedIs
      <4>3. Kept(E, p) = E[p].name
        BY <2>1, <3>1, <4>1 DEF Kept
      <4> QED BY <2>1, <3>1, <3>2, <3>3, <4>1, <4>2, <4>3
    <3>4. CASE a # j
      <4>1. ApartAt(E, j, a, J) /\ ApartAt(E, a, j, J)
        BY <1>3, <2>3 DEF ApartIn
      <4>2. Candidates(a, O) = {k} /\ O[k] = E[k]
        BY <1>1, <2>1, <2>3, <3>1, <3>4, <4>1, OtherClaim
      <4> QED BY <2>1, <3>1, <3>2, <4>2
    <3> QED BY <3>3, <3>4
  <2> QED BY <2>2, <2>3
<1> QED BY <1>2, <1>4, <1>5 DEF Tracks

\* A file that nothing happens to is preserved.
LEMMA PreservesItself ==
  ASSUME NEW W, NEW c \in Content(W), NEW J PROVE Preserves(c, c, J)
<1>1. ASSUME NEW w \in DOMAIN c.workflows, NEW i \in DOMAIN c.workflows[w]
      PROVE  c.workflows[w][i] \in Entry
  BY <1>1 DEF Content
<1> QED BY <1>1, ExtendsItself DEF Preserves

\* On every file and every list of jobs that are apart in it, of any length, one
\* wiring that refuses nothing applies every job, is complete (wiring the result
\* changes nothing), keeps every other entry but for what its siblings ask of it,
\* and leaves nothing more to discover than it found (wire_ci.rs:2039-2185).
THEOREM WiringIs ==
  ASSUME NEW W \in SUBSET Workflows, NEW c \in Content(W), NEW J \in Seq(Job), Apart(c, J),
         WireJobs(c, J) # Refused
  PROVE  LET new == WireJobs(c, J)
         IN  /\ new \in Content(W) /\ Apart(new, J)
             /\ \A j \in ToSet(J) : Applied(new, j, J)
             /\ WireJobs(new, J) = new
             /\ Covered(c, J) => Covered(new, J)
             /\ Preserves(c, new, J) /\ Tracks(c, new, J)
<1> DEFINE new == WireJobs(c, J)
<1>1. PICK f : Walk(f, c, J, W)
  BY Walked
<1>2. new \in Content(W) /\ Apart(new, J)
  <2>1. Len(J) \in 0..Len(J)
    OBVIOUS
  <2> QED BY <1>1, <2>1 DEF Walk
<1>3. \A j \in ToSet(J) : Applied(new, j, J)
  BY <1>1, AllApplied
<1>4. WireJobs(new, J) = new
  <2> HIDE DEF new
  <2> QED BY <1>2, <1>3, WireTwice
<1>5. ASSUME Covered(c, J) PROVE Covered(new, J)
  <2> DEFINE S == {x \in Content(W) : Covered(x, J)}
  <2>1. c \in S
    BY <1>5
  <2>2. \A x \in S \cap Content(W), y \in Content(W), j \in ToSet(J) :
          Apart(x, J) /\ Step(x, y, j, J) => y \in S
    BY StepCovers
  <2>3. new \in S
    <3> HIDE DEF S
    <3> QED BY <1>1, <2>1, <2>2, Invariantly
  <2> QED BY <2>3
<1>6. Preserves(c, new, J)
  <2> DEFINE S == {x \in Content(W) : Preserves(c, x, J)}
  <2>1. c \in S
    BY PreservesItself
  <2>2. \A x \in S \cap Content(W), y \in Content(W), j \in ToSet(J) :
          Apart(x, J) /\ Step(x, y, j, J) => y \in S
    BY StepPreserves
  <2>3. new \in S
    <3> HIDE DEF S
    <3> QED BY <1>1, <2>1, <2>2, Invariantly
  <2> QED BY <2>3
<1>7. Tracks(c, new, J)
  <2> DEFINE S == {x \in Content(W) : Tracks(c, x, J)}
  <2>1. c \in S
    BY TracksItself
  <2>2. \A x \in S \cap Content(W), y \in Content(W), j \in ToSet(J) :
          Apart(x, J) /\ Step(x, y, j, J) => y \in S
    BY StepTracks
  <2>3. new \in S
    <3> HIDE DEF S
    <3> QED BY <1>1, <2>1, <2>2, Invariantly
  <2> QED BY <2>3
<1> QED BY <1>2, <1>3, <1>4, <1>5, <1>6, <1>7

-----------------------------------------------------------------------------
(* Discovery *)

\* A finite set's elements, one by one.
LEMMA Listed ==
  ASSUME NEW S, IsFiniteSet(S)
  PROVE  /\ Cardinality(S) \in Nat /\ SetToSeq(S) \in [1..Cardinality(S) -> S]
         /\ \A x \in S : \E n \in 1..Cardinality(S) : SetToSeq(S)[n] = x
<1> DEFINE D == 1..Cardinality(S)
           f == SetToSeq(S)
<1>1. Cardinality(S) \in Nat /\ ExistsBijection(D, S)
  BY FS_CardinalityType
<1>2. \E g \in [D -> S] : IsInjective(g)
  BY <1>1 DEF ExistsBijection, Bijection, Injection
<1>3. f \in [D -> S] /\ IsInjective(f)
  BY <1>2 DEF SetToSeq
<1>4. IsFiniteSet(D) /\ Cardinality(D) = Cardinality(S)
  BY <1>1, FS_Interval
<1>5. f \in Injection(D, S)
  BY <1>3 DEF Injection
<1> HIDE DEF f, D
<1>6. f \in Surjection(D, S)
  BY <1>4, <1>5, FS_Injection
<1> QED BY <1>1, <1>3, <1>6 DEF Surjection, f, D

\* The entries of a list that discovery captures, and of a file.
Uncovered(c, J, w) ==
  {i \in DOMAIN c.workflows[w] : /\ IsUndeclared(w, c.workflows[w][i], J)
                                 /\ c.workflows[w][i].requires.form \in Readable}

Places(c, J) == UNION {{w} \X Uncovered(c, J, w) : w \in DOMAIN c.workflows}

\* They are finitely many, so that discovery comes to an end.
LEMMA PlacesAre ==
  ASSUME NEW W \in SUBSET Workflows, NEW c \in Content(W), NEW J
  PROVE  /\ IsFiniteSet(Places(c, J))
         /\ \A x \in Places(c, J) : x[1] \in W /\ x[2] \in Uncovered(c, J, x[1])
         /\ \A w \in W : \A i \in Uncovered(c, J, w) : <<w, i>> \in Places(c, J)
<1>1. DOMAIN c.workflows = W /\ \A w \in W : c.workflows[w] \in Seq(Entry)
  BY DEF Content
<1>2. IsFiniteSet(W)
  BY WireAssumption, FS_Subset DEF WireAssumption
<1> DEFINE At(w) == {w} \X Uncovered(c, J, w)
           F == [w \in W |-> At(w)]
           T == {At(w) : w \in W}
<1>3. ASSUME NEW w \in W PROVE IsFiniteSet(At(w))
  <2>1. Uncovered(c, J, w) \subseteq 1..Len(c.workflows[w]) /\ Len(c.workflows[w]) \in Int
    BY <1>1 DEF Uncovered
  <2>2. IsFiniteSet(1..Len(c.workflows[w]))
    BY <2>1, FS_Interval
  <2>3. IsFiniteSet(Uncovered(c, J, w))
    BY <2>1, <2>2, FS_Subset
  <2> QED BY <2>3, FS_Singleton, FS_Product
<1>4. F \in Surjection(W, T)
  BY DEF Surjection
<1>5. IsFiniteSet(T)
  <2> HIDE DEF F, T
  <2> QED BY <1>2, <1>4, FS_Surjection
<1>6. IsFiniteSet(UNION T)
  <2>1. \A X \in T : IsFiniteSet(X)
    BY <1>3
  <2> HIDE DEF T
  <2> QED BY <1>5, <2>1, FS_UNION
<1>7. Places(c, J) = UNION T
  BY <1>1 DEF Places
<1> QED BY <1>6, <1>7

\* A captured job stands for the entry it was captured from.
LEMMA CapturedIs ==
  ASSUME NEW w \in Workflows, NEW e \in Entry
  PROVE  /\ Captured(w, e) \in Job /\ Captured(w, e).workflow = w
         /\ Identifies(Captured(w, e), e)
<1>1. <<>> \in Seq(Names) /\ NoExtras \in Extras
  BY WireAssumption DEF WireAssumption
<1>2. e.requires.items \in Seq(Names)
  BY DEF Entry
<1> QED BY <1>1, <1>2 DEF Captured, Job, Entry, Identifies, EffectiveName, NewName, NameOr

\* A concatenation holds what its parts hold.
LEMMA ConcatSet ==
  ASSUME NEW T, NEW s \in Seq(T), NEW t \in Seq(T)
  PROVE  ToSet(s \o t) = ToSet(s) \cup ToSet(t) /\ s \o t \in Seq(T)
<1> DEFINE st == s \o t
           a == Len(s)
           b == Len(t)
<1>1. /\ st \in Seq(T) /\ DOMAIN st = 1..(a + b) /\ a \in Nat /\ b \in Nat
      /\ DOMAIN s = 1..a /\ DOMAIN t = 1..b
      /\ \A i \in 1..(a + b) : st[i] = IF i <= a THEN s[i] ELSE t[i - a]
  BY ConcatProperties
<1> HIDE DEF st, a, b
<1>2. \A i \in 1..a : i \in 1..(a + b) /\ st[i] = s[i]
  BY <1>1
<1>3. \A i \in 1..b : a + i \in 1..(a + b) /\ st[a + i] = t[i]
  BY <1>1
<1>4. \A i \in 1..(a + b) : i \in 1..a \/ (i - a \in 1..b /\ st[i] = t[i - a])
  BY <1>1
<1>5. ToSet(st) = ToSet(s) \cup ToSet(t)
  <2>1. ToSet(s) \cup ToSet(t) \subseteq ToSet(st)
    <3>1. \A i \in 1..a : s[i] \in ToSet(st)
      BY <1>1, <1>2 DEF ToSet
    <3>2. \A i \in 1..b : t[i] \in ToSet(st)
      BY <1>1, <1>3 DEF ToSet
    <3>3. ToSet(s) = {s[i] : i \in 1..a} /\ ToSet(t) = {t[i] : i \in 1..b}
      BY <1>1 DEF ToSet
    <3> QED BY <3>1, <3>2, <3>3
  <2>2. ASSUME NEW i \in 1..(a + b) PROVE st[i] \in ToSet(s) \cup ToSet(t)
    <3>1. CASE i \in 1..a
      BY <1>1, <1>2, <3>1 DEF ToSet
    <3>2. CASE i - a \in 1..b /\ st[i] = t[i - a]
      BY <1>1, <3>2 DEF ToSet
    <3> QED BY <1>4, <3>1, <3>2
  <2>3. ToSet(st) \subseteq ToSet(s) \cup ToSet(t)
    BY <1>1, <2>2 DEF ToSet
  <2> QED BY <2>1, <2>3
<1> QED BY <1>1, <1>5 DEF st

\* Discovery finds nothing exactly when everything is covered, and what it finds
\* covers the rest (discover_undeclared_jobs, wire_ci.rs:1943-2037).
LEMMA DiscoverIs ==
  ASSUME NEW W \in SUBSET Workflows, NEW c \in Content(W), NEW D \in Seq(Job)
  PROVE  /\ Discover(c, D) \in Seq(Job)
         /\ Discover(c, D) = <<>> <=> Covered(c, D)
         /\ Covered(c, D \o Discover(c, D))
<1> DEFINE P == Places(c, D)
           found == SetToSeq(P)
           m == Cardinality(P)
           d(n) == Captured(found[n][1], c.workflows[found[n][1]][found[n][2]])
<1>1. /\ IsFiniteSet(P) /\ \A x \in P : x[1] \in W /\ x[2] \in Uncovered(c, D, x[1])
      /\ \A w \in W : \A i \in Uncovered(c, D, w) : <<w, i>> \in P
  BY PlacesAre
<1>2. /\ m \in Nat /\ found \in [1..m -> P] /\ \A x \in P : \E n \in 1..m : found[n] = x
  <2> HIDE DEF P
  <2> QED BY <1>1, Listed
<1>3. Discover(c, D) = [n \in DOMAIN found |-> d(n)]
  BY DEF Discover, Places, Uncovered
<1>4. Discover(c, D) = [n \in 1..m |-> d(n)]
  BY <1>2, <1>3
<1> HIDE DEF P, found, m
<1>5. DOMAIN c.workflows = W /\ \A w \in W : c.workflows[w] \in Seq(Entry)
  BY DEF Content
<1>6. ASSUME NEW n \in 1..m
      PROVE  LET w == found[n][1]
                 e == c.workflows[w][found[n][2]]
             IN  /\ d(n) \in Job /\ d(n).workflow = w /\ Identifies(d(n), e)
  <2> DEFINE w == found[n][1]
             i == found[n][2]
  <2>1. found[n] \in P
    BY <1>2
  <2>2. w \in W /\ i \in Uncovered(c, D, w)
    BY <1>1, <2>1
  <2>3. w \in Workflows /\ c.workflows[w][i] \in Entry
    BY <1>5, <2>2 DEF Uncovered
  <2> QED BY <2>3, CapturedIs
<1>7. Discover(c, D) \in Seq(Job)
  BY <1>2, <1>4, <1>6
<1>8. Discover(c, D) = <<>> <=> Covered(c, D)
  <2>1. Covered(c, D) <=> \A w \in W : Uncovered(c, D, w) = {}
    BY <1>5 DEF Covered, Uncovered
  <2>2. P = {} <=> \A w \in W : Uncovered(c, D, w) = {}
    BY <1>1
  <2>3. P = {} <=> m = 0
    BY <1>1, FS_EmptySet DEF m
  <2>4. Discover(c, D) = <<>> <=> m = 0
    <3>1. Len(Discover(c, D)) = m
      BY <1>2, <1>4
    <3> QED BY <1>7, <3>1, EmptySeq
  <2> QED BY <2>1, <2>2, <2>3, <2>4
<1>9. Covered(c, D \o Discover(c, D))
  <2> DEFINE J == D \o Discover(c, D)
  <2>1. ToSet(J) = ToSet(D) \cup ToSet(Discover(c, D)) /\ J \in Seq(Job)
    BY <1>7, ConcatSet
  <2> HIDE DEF J
  <2> SUFFICES ASSUME NEW w \in W, NEW i \in DOMAIN c.workflows[w],
                      IsUndeclared(w, c.workflows[w][i], J),
                      c.workflows[w][i].requires.form \in Readable
               PROVE  FALSE
    BY <1>5 DEF Covered, J
  <2>2. IsUndeclared(w, c.workflows[w][i], D)
    BY <2>1 DEF IsUndeclared
  <2>3. <<w, i>> \in P
    BY <1>1, <2>2 DEF Uncovered
  <2>4. PICK n \in 1..m : found[n] = <<w, i>>
    BY <1>2, <2>3
  <2>5. d(n).workflow = w /\ Identifies(d(n), c.workflows[w][i])
    BY <1>6, <2>4
  <2>6. d(n) \in ToSet(Discover(c, D))
    <3>1. DOMAIN Discover(c, D) = 1..m /\ Discover(c, D)[n] = d(n)
      BY <1>4
    <3> QED BY <3>1 DEF ToSet
  <2> QED BY <2>1, <2>5, <2>6 DEF IsUndeclared
<1> QED BY <1>7, <1>8, <1>9

-----------------------------------------------------------------------------
(* What a run computes *)

\* What a CircleCI file may hold, and what the disk may.
Texts == {NoFile} \cup UNION {Content(W) : W \in SUBSET Workflows}
Disks == [spec : Declarations \cup {Unreadable}, files : [Files -> Texts]]

\* A refusal is none of them.
LEMMA TextsAre ==
  /\ \A c : c \in Texts <=> c = NoFile \/ IsContent(c)
  /\ Refused \notin Texts
  /\ \A c \in Texts : c = NoFile \/ \E W \in SUBSET Workflows : c \in Content(W)
<1>1. \A c : c \in Texts <=> c = NoFile \/ IsContent(c)
  BY DEF Texts, IsContent
<1> QED BY <1>1, WireAssumption DEF WireAssumption, IsContent

\* What a file is to be wired with: what is declared for it, then what is found in
\* it, and with both of these nothing in it is left uncovered.
LEMMA ListsAre ==
  ASSUME NEW d \in Disks, NEW f \in Files
  PROVE  /\ d.files[f] \in Texts
         /\ JobsOf(d, f) \in Seq(Job) /\ FoundIn(d, f) \in Seq(Job) /\ Wanted(d, f) \in Seq(Job)
         /\ Wanted(d, f) = <<>> <=> JobsOf(d, f) = <<>> /\ FoundIn(d, f) = <<>>
         /\ d.files[f] = NoFile => Wanted(d, f) = JobsOf(d, f)
         /\ d.files[f] # NoFile /\ InScope(d, f) => Covered(d.files[f], Wanted(d, f))
<1> DEFINE c == d.files[f]
           D == JobsOf(d, f)
<1>1. c \in Texts /\ D \in Seq(Job)
  <2>1. d.files \in [Files -> Texts] /\ d.spec \in Declarations \cup {Unreadable}
    BY DEF Disks
  <2>2. <<>> \in Seq(Job)
    OBVIOUS
  <2> QED BY <2>1, <2>2 DEF JobsOf, Malformed, Declarations
<1> HIDE DEF c, D
<1>2. CASE InScope(d, f) /\ c # NoFile
  <2>1. FoundIn(d, f) = Discover(c, D)
    BY <1>2 DEF FoundIn, c, D
  <2>2. PICK W \in SUBSET Workflows : c \in Content(W)
    BY <1>1, <1>2, TextsAre
  <2>3. Discover(c, D) \in Seq(Job) /\ Covered(c, D \o Discover(c, D))
    BY <1>1, <2>2, DiscoverIs
  <2> QED BY <1>1, <1>2, <2>1, <2>3, ConcatSet, ConcatEqualIffEmpty DEF Wanted, c, D
<1>3. CASE ~(InScope(d, f) /\ c # NoFile)
  <2>1. FoundIn(d, f) = <<>> /\ <<>> \in Seq(Job)
    BY <1>3 DEF FoundIn, c
  <2>2. Wanted(d, f) = D
    BY <1>1, <2>1, ConcatEmptySeq DEF Wanted, D
  <2> QED BY <1>1, <1>3, <2>1, <2>2 DEF c, D
<1> QED BY <1>2, <1>3

\* What a run makes of one file, when it is not refused.
LEMMA DesiredIs ==
  ASSUME NEW d \in Disks, ~Refuses(d), Clear(d), NEW f \in Files
  PROVE  LET c == d.files[f]
             J == Wanted(d, f)
             new == Desired(d, f)
         IN  /\ new \in Texts /\ new # Refused
             /\ J = <<>> => new = c
             /\ c = NoFile => J = <<>>
             /\ new = NoFile => c = NoFile
             /\ J # <<>> => /\ Apart(c, J) /\ new = WireJobs(c, J)
                            /\ \E W \in SUBSET Workflows : c \in Content(W) /\ new \in Content(W)
<1> DEFINE c == d.files[f]
           J == Wanted(d, f)
           new == Desired(d, f)
<1>1. c \in Texts /\ J \in Seq(Job)
  BY ListsAre
<1>2. new # Refused
  BY DEF Refuses
<1>3. new = IF J = <<>> THEN c ELSE IF c = NoFile THEN Refused ELSE WireJobs(c, J)
  BY DEF Desired
<1>4. c # NoFile => Apart(c, J)
  BY DEF Clear
<1> HIDE DEF c, J, new
<1>5. CASE J = <<>>
  BY <1>1, <1>2, <1>3, <1>5 DEF c, J, new
<1>6. CASE J # <<>>
  <2>1. c # NoFile /\ new = WireJobs(c, J)
    BY <1>2, <1>3, <1>6
  <2>2. PICK W \in SUBSET Workflows : c \in Content(W)
    BY <1>1, <2>1, TextsAre
  <2>3. new \in Content(W)
    BY <1>1, <1>2, <1>4, <2>1, <2>2, WiringIs
  <2>4. new \in Texts /\ new # NoFile
    BY <2>2, <2>3, NotRefused DEF Texts
  <2> QED BY <1>2, <1>4, <1>6, <2>1, <2>2, <2>3, <2>4 DEF c, J, new
<1> QED BY <1>5, <1>6

\* What a run computes is a disk again, with nothing unreadable in it.
LEMMA ComputedIs ==
  ASSUME NEW d \in Disks, ~Refuses(d), Clear(d)
  PROVE  /\ Computed(d) \in Disks /\ Computed(d).spec \in Declarations
         /\ Computed(d).spec = [f \in Files |-> Wanted(d, f)]
         /\ Computed(d).files = [f \in Files |-> Desired(d, f)]
         /\ Computed(d) # Nothing
<1>1. \A f \in Files : Wanted(d, f) \in Seq(Job) /\ Desired(d, f) \in Texts
  BY ListsAre, DesiredIs
<1>2. [f \in Files |-> Wanted(d, f)] \in Declarations /\ [f \in Files |-> Desired(d, f)] \in [Files -> Texts]
  BY <1>1 DEF Declarations
<1>3. DOMAIN Computed(d) = {"spec", "files"} /\ DOMAIN Nothing = {}
  BY DEF Computed, Nothing
<1> QED BY <1>2, <1>3 DEF Computed, Disks

\* A file for which its jobs have been declared wants no more of them, and is
\* completed as it would have been, whether or not it has been written.
LEMMA Again ==
  ASSUME NEW d \in Disks, ~Refuses(d), Clear(d), NEW f \in Files,
         NEW e \in Disks, JobsOf(e, f) = Wanted(d, f),
         e.files[f] \in {d.files[f], Desired(d, f)}
  PROVE  Wanted(e, f) = Wanted(d, f) /\ Desired(e, f) = Desired(d, f)
<1> DEFINE c == d.files[f]
           J == Wanted(d, f)
           new == Desired(d, f)
           x == e.files[f]
<1>1. /\ J \in Seq(Job) /\ c \in Texts /\ x \in {c, new}
      /\ c # NoFile /\ InScope(d, f) => Covered(c, J)
      /\ J = <<>> <=> JobsOf(d, f) = <<>> /\ FoundIn(d, f) = <<>>
  BY ListsAre
<1>2. /\ new \in Texts /\ new # Refused
      /\ J = <<>> => new = c
      /\ c = NoFile => J = <<>>
      /\ new = NoFile => c = NoFile
      /\ J # <<>> => /\ Apart(c, J) /\ new = WireJobs(c, J)
                     /\ \E W \in SUBSET Workflows : c \in Content(W) /\ new \in Content(W)
  BY DesiredIs
<1>3. InScope(e, f) => InScope(d, f)
  <2>1. J # <<>> => InScope(d, f)
    BY <1>1 DEF FoundIn, InScope
  <2> QED BY <2>1 DEF InScope
<1> HIDE DEF c, J, new, x
<1>4. J # <<>> =>
        /\ Covered(c, J) => Covered(new, J)
        /\ WireJobs(new, J) = new
  BY <1>1, <1>2, WiringIs
<1>5. InScope(e, f) /\ x # NoFile => Covered(x, J)
  BY <1>1, <1>2, <1>3, <1>4
<1>6. x \in Texts
  BY <1>1, <1>2
<1>7. FoundIn(e, f) = <<>>
  <2>1. CASE InScope(e, f) /\ x # NoFile
    <3>1. PICK W \in SUBSET Workflows : x \in Content(W)
      BY <1>6, <2>1, TextsAre
    <3>2. Discover(x, J) = <<>>
      BY <1>1, <1>5, <2>1, <3>1, DiscoverIs
    <3> QED BY <2>1, <3>2 DEF FoundIn, x, J
  <2>2. CASE ~(InScope(e, f) /\ x # NoFile)
    BY <2>2 DEF FoundIn, x
  <2> QED BY <2>1, <2>2
<1>8. Wanted(e, f) = J
  BY <1>1, <1>7, ConcatEmptySeq DEF Wanted, J
<1>9. Desired(e, f) = IF J = <<>> THEN x ELSE IF x = NoFile THEN Refused ELSE WireJobs(x, J)
  BY <1>8 DEF Desired, x
<1>10. Desired(e, f) = new
  <2>1. CASE J = <<>>
    BY <1>1, <1>2, <1>9, <2>1
  <2>2. CASE J # <<>>
    BY <1>1, <1>2, <1>4, <1>9, <2>2
  <2> QED BY <2>1, <2>2
<1> QED BY <1>8, <1>10 DEF J, new

-----------------------------------------------------------------------------
(* A run that is repeated *)

\* A run over d has been cut short at e: nothing was written, or jci-audit.toml
\* was and some of the files.
CutShort(d, e) ==
  \/ e = d
  \/ /\ e.spec = Computed(d).spec
     /\ \A f \in Files : e.files[f] \in {d.files[f], Computed(d).files[f]}

\* A run after one that was cut short computes what that one did.
LEMMA Rerun ==
  ASSUME NEW d \in Disks, ~Refuses(d), Clear(d), NEW e \in Disks, CutShort(d, e)
  PROVE  ~Refuses(e) /\ Computed(e) = Computed(d) /\ (Blank(e) <=> Blank(d))
<1>1. CASE e = d
  BY <1>1
<1>2. CASE /\ e.spec = Computed(d).spec
           /\ \A f \in Files : e.files[f] \in {d.files[f], Computed(d).files[f]}
  <2>1. /\ Computed(d).spec \in Declarations
        /\ Computed(d).spec = [f \in Files |-> Wanted(d, f)]
        /\ Computed(d).files = [f \in Files |-> Desired(d, f)]
    BY ComputedIs
  <2>2. ~Malformed(e) /\ e.spec = [f \in Files |-> Wanted(d, f)]
    BY <1>2, <2>1, WireAssumption DEF Malformed, WireAssumption
  <2>3. ASSUME NEW f \in Files
        PROVE  /\ Wanted(e, f) = Wanted(d, f) /\ Desired(e, f) = Desired(d, f)
               /\ e.files[f] \in {d.files[f], Desired(d, f)}
    <3>1. JobsOf(e, f) = Wanted(d, f)
      BY <2>2 DEF JobsOf
    <3>2. e.files[f] \in {d.files[f], Desired(d, f)}
      BY <1>2, <2>1
    <3> QED BY <3>1, <3>2, Again
  <2>4. ~Refuses(e)
    <3>1. \A f \in Files : Desired(e, f) # Refused
      BY <2>3 DEF Refuses
    <3>2. ASSUME NEW f \in DiscoverFiles PROVE e.files[f] # NoFile
      <4>1. f \in Files /\ d.files[f] # NoFile
        BY WireAssumption DEF WireAssumption, Refuses
      <4>2. Desired(d, f) # NoFile
        BY <4>1, DesiredIs
      <4> QED BY <2>3, <4>1, <4>2
    <3> QED BY <2>2, <3>1, <3>2 DEF Refuses
  <2>5. Computed(e) = Computed(d)
    BY <2>3 DEF Computed
  <2> QED BY <2>3, <2>4, <2>5 DEF Blank
<1> QED BY <1>1, <1>2 DEF CutShort

\* What a run has computed and written in full is in sync.
LEMMA GoalInSync ==
  ASSUME NEW d \in Disks, ~Refuses(d), ~Blank(d), Clear(d) PROVE InSync(Computed(d))
<1>1. Computed(d) \in Disks
  BY ComputedIs
<1>2. CutShort(d, Computed(d))
  BY DEF CutShort
<1> QED BY <1>1, <1>2, Rerun DEF InSync

\* Without jobs there is no doubt about any.
LEMMA ApartFromNothing ==
  ASSUME NEW c PROVE Apart(c, <<>>)
<1>1. ToSet(<<>>) = {}
  BY DEF ToSet
<1> QED BY <1>1 DEF Apart

\* One job that asks nothing of the others is in doubt about none.
LEMMA ApartAlone ==
  ASSUME NEW c, NEW ex \in Job, ex.requiredBy = <<>> PROVE Apart(c, <<ex>>)
<1>1. ToSet(<<ex>>) = {ex} /\ ToSet(<<>>) = {}
  BY DEF ToSet
<1>2. External(ex, <<ex>>) = {}
  BY <1>1 DEF External
<1> QED BY <1>1, <1>2 DEF Apart

\* What a first run scaffolds leaves no doubt either.
LEMMA ScaffoldClear ==
  ASSUME NEW d \in Disks, Blank(d), NEW ex \in Job, ex.requiredBy = <<>>
  PROVE  LET e == [d EXCEPT !.spec = [d.spec EXCEPT ![Default] = <<ex>>]]
         IN  e \in Disks /\ e.files = d.files /\ e.spec \in Declarations /\ Clear(e)
<1> DEFINE s == [d.spec EXCEPT ![Default] = <<ex>>]
           e == [d EXCEPT !.spec = s]
<1>1. Default \in Files
  BY WireAssumption, EmptySeq DEF WireAssumption, Default, Files, ToSet
<1>2. ~Malformed(d) /\ d.spec \in Declarations
  BY DEF Blank, Refuses, Malformed, Disks
<1>3. s \in Declarations /\ <<ex>> \in Seq(Job) /\ <<>> \in Seq(Job)
  <2>1. <<ex>> \in Seq(Job) /\ <<>> \in Seq(Job)
    OBVIOUS
  <2>2. s \in [Files -> Seq(Job)]
    <3> DEFINE S == Seq(Job)
               x == <<ex>>
    <3>1. d.spec \in [Files -> S] /\ x \in S
      BY <1>2, <2>1 DEF Declarations
    <3> HIDE DEF S, x
    <3>2. [d.spec EXCEPT ![Default] = x] \in [Files -> S]
      BY <3>1
    <3> QED BY <3>2 DEF S, x
  <2> QED BY <2>1, <2>2 DEF Declarations
<1>4. e \in Disks /\ e.files = d.files /\ e.spec = s
  BY <1>3 DEF Disks
<1>5. ~Malformed(e)
  BY <1>3, <1>4, WireAssumption DEF Malformed, WireAssumption
<1>6. ASSUME NEW f \in Files, d.files[f] # NoFile
      PROVE  Wanted(e, f) = IF f = Default THEN <<ex>> ELSE <<>>
  <2>1. Wanted(d, f) = <<>> /\ JobsOf(d, f) = <<>> /\ FoundIn(d, f) = <<>>
    BY ListsAre DEF Blank
  <2>2. CASE f # Default
    <3>1. JobsOf(e, f) = JobsOf(d, f)
      BY <1>2, <1>4, <1>5, <2>2 DEF JobsOf, Declarations
    <3>2. Wanted(e, f) = Wanted(d, f)
      BY <1>4, <3>1 DEF Wanted, FoundIn, InScope
    <3> QED BY <2>1, <2>2, <3>2
  <2>3. CASE f = Default
    <3>1. JobsOf(e, f) = <<ex>>
      BY <1>2, <1>4, <1>5, <2>3 DEF JobsOf, Declarations
    <3>2. InScope(d, f) /\ InScope(e, f)
      BY <2>3 DEF InScope
    <3>3. PICK W \in SUBSET Workflows : d.files[f] \in Content(W)
      <4>1. d.files[f] \in Texts
        BY ListsAre
      <4> QED BY <1>6, <4>1, TextsAre
    <3>4. Discover(d.files[f], <<>>) = <<>>
      BY <1>6, <2>1, <3>2 DEF FoundIn
    <3>5. Covered(d.files[f], <<>>)
      BY <1>3, <3>3, <3>4, DiscoverIs
    <3>6. Covered(d.files[f], <<ex>>)
      <4>1. ToSet(<<>>) \subseteq ToSet(<<ex>>)
        BY DEF ToSet
      <4> QED BY <3>5, <4>1 DEF Covered, IsUndeclared
    <3>7. Discover(d.files[f], <<ex>>) = <<>>
      BY <1>3, <3>3, <3>6, DiscoverIs
    <3>8. FoundIn(e, f) = <<>>
      BY <1>4, <3>1, <3>7 DEF FoundIn
    <3> QED BY <1>3, <2>3, <3>1, <3>8, ConcatEmptySeq DEF Wanted
  <2> QED BY <2>2, <2>3
<1>7. Clear(e)
  BY <1>4, <1>6, ApartFromNothing, ApartAlone DEF Clear
<1> QED BY <1>3, <1>4, <1>7

-----------------------------------------------------------------------------
(* The invariant *)

\* Before a run has computed what it wants, the disk is as it was edited.
Untouched == goal = Nothing => disk = written /\ pc = "idle" /\ outcome # "wired"

\* After, every run wants that, and the disk is on its way there.
OnTheWay ==
  goal # Nothing => /\ ~Refuses(written) /\ ~Blank(written)
                    /\ goal = Computed(written) /\ CutShort(written, disk)

\* What a run has written is as it wants it.
Writes ==
  IF pc = "writing"
  THEN /\ goal # Nothing /\ plan = goal
       /\ next > 0 => spec = goal.spec
       /\ \A m \in 1..Len(FileOrder) : m < next => files[FileOrder[m]] = goal.files[FileOrder[m]]
  ELSE /\ plan = Nothing /\ next = 0
       /\ outcome = "wired" => goal # Nothing /\ disk = goal

\* The plain types of the run's state.
Kinds == /\ pc \in {"idle", "writing"} /\ next \in 0..Len(FileOrder) + 1
         /\ outcome \in {"none", "inSync", "drift", "refused", "scaffolded", "wired", "failed"}
         /\ runs \in 0..MaxRuns /\ edits \in 0..MaxEdits

\* The invariant: none of the properties is inductive without the history of how
\* the disk came to be, and Clear(written) is what makes a repeated run agree.
IInv == /\ Kinds /\ disk \in Disks /\ written \in Disks /\ Clear(written)
        /\ Untouched /\ OnTheWay /\ Writes

\* The disk is its two variables.
LEMMA DiskIs ==
  /\ disk \in Disks <=> spec \in Declarations \cup {Unreadable} /\ files \in [Files -> Texts]
  /\ disk.spec = spec /\ disk.files = files
<1>1. disk.spec = spec /\ disk.files = files
  BY DEF disk
<1> QED BY <1>1 DEF disk, Disks

\* Every file has its turn.
LEMMA OrderIs ==
  /\ Len(FileOrder) \in Nat /\ Len(FileOrder) > 0
  /\ \A m \in 1..Len(FileOrder) : FileOrder[m] \in Files
  /\ \A f \in Files : \E m \in 1..Len(FileOrder) : FileOrder[m] = f
<1>1. FileOrder \in Seq(Files) /\ FileOrder # <<>>
  BY WireAssumption DEF WireAssumption
<1>2. Len(FileOrder) \in Nat /\ DOMAIN FileOrder = 1..Len(FileOrder) /\ Len(FileOrder) > 0
  BY <1>1, EmptySeq
<1>3. Files = {FileOrder[m] : m \in DOMAIN FileOrder}
  BY DEF Files, ToSet
<1> QED BY <1>2, <1>3

\* What a developer writes into a file is what files may hold.
LEMMA ContentsTyped == \A f \in Files : Contents[f] \subseteq Texts
BY TextsAre, WireAssumption DEF WireAssumption

\* A scaffolded job is a job, and asks nothing of others.
LEMMA ChoicesAre ==
  ASSUME disk \in Disks, NEW ex \in ScaffoldChoices, ex.workflow # NoName
  PROVE  ex \in Job /\ ex.requiredBy = <<>>
<1> DEFINE open == {g \in Files : InScope(disk, g) /\ files[g] # NoFile}
           known == UNION {DOMAIN files[f].workflows : f \in open}
<1>1. ASSUME NEW w \in known PROVE w \in Workflows
  <2>1. PICK f \in open : w \in DOMAIN files[f].workflows
    OBVIOUS
  <2>2. files[f] \in Texts
    BY DiskIs
  <2>3. PICK W \in SUBSET Workflows : files[f] \in Content(W)
    BY <2>2, TextsAre
  <2>4. DOMAIN files[f].workflows = W
    BY <2>3 DEF Content
  <2> QED BY <2>1, <2>4
<1>2. ex = Example \/ \E w \in known \cup Typed, p \in Params :
                        ex = ExampleFor(w, p)
  BY DEF ScaffoldChoices
<1> HIDE DEF known
<1>3. Example \in Job /\ Example.requiredBy = <<>>
  BY WireAssumption DEF WireAssumption
<1>4. CASE ex = Example
  BY <1>3, <1>4
<1>5. ASSUME NEW w \in known \cup Typed, NEW p \in Params,
             ex = ExampleFor(w, p)
      PROVE  ex \in Job /\ ex.requiredBy = <<>>
  <2>1. ex.workflow = w
    BY <1>3, <1>5 DEF Job, ExampleFor
  <2>2. w \in Workflows /\ p \in Settings
    BY <1>1, <2>1, WireAssumption DEF WireAssumption
  <2> QED BY <1>3, <1>5, <2>2 DEF Job, ExampleFor
<1> QED BY <1>2, <1>4, <1>5

-----------------------------------------------------------------------------
(* Every step keeps it *)

\* The invariant holds of what a developer wrote.
LEMMA Initially == Init => IInv
<1> SUFFICES ASSUME Init PROVE IInv
  OBVIOUS
<1>1. spec \in Declarations
  BY WireAssumption DEF Init, WireAssumption
<1>2. files \in [Files -> Texts]
  <2>1. DOMAIN files = Files /\ files = [f \in Files |-> files[f]]
    BY DEF Init
  <2>2. \A f \in Files : files[f] \in Texts
    BY ContentsTyped DEF Init
  <2> QED BY <2>1, <2>2
<1>3. disk \in Disks
  BY <1>1, <1>2, DiskIs
<1>4. Kinds
  BY OrderIs, WireAssumption DEF Init, Kinds, WireAssumption
<1>5. written \in Disks /\ Clear(written) /\ disk = written /\ goal = Nothing
  BY <1>3 DEF Init
<1>6. pc = "idle" /\ plan = Nothing /\ next = 0 /\ outcome = "none"
  BY DEF Init
<1>7. Untouched /\ OnTheWay
  BY <1>5, <1>6 DEF Untouched, OnTheWay
<1>8. Writes
  BY <1>6 DEF Writes
<1> QED BY <1>3, <1>4, <1>5, <1>7, <1>8 DEF IInv

\* What a run finds while another has been cut short, or none has begun.
LEMMA Resumed ==
  ASSUME IInv, ~Refuses(disk), ~Blank(disk)
  PROVE  LET g == IF goal = Nothing THEN Computed(disk) ELSE goal
         IN  /\ g = Computed(disk) /\ g # Nothing
             /\ g = Computed(written) /\ ~Refuses(written) /\ ~Blank(written)
             /\ CutShort(written, disk)
<1>1. written \in Disks /\ Clear(written) /\ disk \in Disks
  BY DEF IInv
<1>2. CASE goal = Nothing
  <2>1. disk = written
    BY <1>2 DEF IInv, Untouched
  <2>2. ~Refuses(written) /\ ~Blank(written)
    BY <2>1
  <2>3. Computed(written) # Nothing
    BY <1>1, <2>2, ComputedIs
  <2> QED BY <1>2, <2>1, <2>2, <2>3 DEF CutShort
<1>3. CASE goal # Nothing
  <2>1. /\ ~Refuses(written) /\ ~Blank(written) /\ goal = Computed(written)
        /\ CutShort(written, disk)
    BY <1>3 DEF IInv, OnTheWay
  <2>2. Computed(disk) = Computed(written)
    BY <1>1, <2>1, Rerun
  <2> QED BY <1>3, <2>1, <2>2
<1> QED BY <1>2, <1>3

\* Compute: the plan is the goal, also of a run that repeats another.
LEMMA ComputeKeeps == IInv /\ Compute => IInv'
<1> SUFFICES ASSUME IInv, Compute PROVE IInv'
  OBVIOUS
<1> DEFINE g == IF goal = Nothing THEN Computed(disk) ELSE goal
<1>1. /\ ~Refuses(disk) /\ ~Blank(disk)
      /\ pc' = "writing" /\ plan' = Computed(disk) /\ next' = 0 /\ goal' = g /\ outcome' = "none"
      /\ spec' = spec /\ files' = files /\ written' = written /\ edits' = edits
      /\ runs < MaxRuns /\ runs' = runs + 1
  BY DEF Compute, Starts
<1>2. /\ g = Computed(disk) /\ g # Nothing /\ g = Computed(written) /\ ~Refuses(written)
      /\ ~Blank(written) /\ CutShort(written, disk)
  BY <1>1, Resumed
<1>3. disk' = disk
  BY <1>1 DEF disk
<1> HIDE DEF g
<1>4. Kinds'
  BY <1>1, OrderIs, WireAssumption DEF IInv, Kinds, WireAssumption
<1>5. Untouched' /\ OnTheWay'
  <2>1. Refuses(written)' = Refuses(written) /\ Blank(written)' = Blank(written)
        /\ Computed(written)' = Computed(written) /\ CutShort(written, disk)' = CutShort(written, disk)
    BY <1>1, <1>3
  <2> QED BY <1>1, <1>2, <2>1 DEF Untouched, OnTheWay
<1>6. Writes'
  BY <1>1, <1>2, OrderIs DEF Writes
<1> QED BY <1>1, <1>3, <1>4, <1>5, <1>6 DEF IInv

\* A step that leaves the disk, its history and the run's plan alone.
LEMMA ReportKeeps ==
  ASSUME IInv, pc = "idle", Kinds', outcome' # "wired" \/ outcome' = outcome,
         UNCHANGED <<spec, files, pc, plan, next, written, goal>>
  PROVE  IInv'
<1>1. /\ spec' = spec /\ files' = files /\ pc' = pc /\ plan' = plan /\ next' = next
      /\ written' = written /\ goal' = goal
  OBVIOUS
<1>2. disk' = disk
  BY <1>1 DEF disk
<1>3. Untouched'
  BY <1>1, <1>2 DEF IInv, Untouched
<1>4. OnTheWay'
  <2>1. Refuses(written)' = Refuses(written) /\ Blank(written)' = Blank(written)
        /\ Computed(written)' = Computed(written) /\ CutShort(written, disk)' = CutShort(written, disk)
    BY <1>1, <1>2
  <2> QED BY <1>1, <2>1 DEF IInv, OnTheWay
<1>5. Writes'
  BY <1>1, <1>2 DEF IInv, Writes
<1> QED BY <1>1, <1>2, <1>3, <1>4, <1>5 DEF IInv

\* check-ci-wiring, and a run that refuses, change nothing that matters.
LEMMA CheckKeeps == IInv /\ (Check \/ Refuse) => IInv'
<1> SUFFICES ASSUME IInv, Check \/ Refuse PROVE IInv'
  OBVIOUS
<1>1. /\ pc = "idle" /\ runs < MaxRuns /\ runs' = runs + 1 /\ edits' = edits
      /\ UNCHANGED <<spec, files, pc, plan, next, written, goal>>
      /\ outcome' \in {"refused", "inSync", "drift"}
  BY DEF Check, Refuse, Starts
<1>2. Kinds'
  BY <1>1, WireAssumption DEF IInv, Kinds, WireAssumption
<1> QED BY <1>1, <1>2, ReportKeeps

\* Scaffold: the scaffolded declaration starts a new history.
LEMMA ScaffoldKeeps == IInv /\ Scaffold => IInv'
<1> SUFFICES ASSUME IInv, Scaffold PROVE IInv'
  OBVIOUS
<1>1. /\ pc = "idle" /\ runs < MaxRuns /\ runs' = runs + 1 /\ edits' = edits /\ Blank(disk)
      /\ UNCHANGED <<files, pc, plan, next>>
  BY DEF Scaffold, Starts
<1>2. PICK ex \in ScaffoldChoices :
        IF ex.workflow = NoName
        THEN outcome' = "refused" /\ UNCHANGED <<spec, written, goal>>
        ELSE /\ spec' = [spec EXCEPT ![Default] = <<ex>>] /\ outcome' = "scaffolded"
             /\ written' = [disk EXCEPT !.spec = spec'] /\ goal' = Nothing
  BY DEF Scaffold
<1>3. outcome' \in {"refused", "scaffolded"}
  BY <1>2
<1>4. Kinds'
  BY <1>1, <1>3, WireAssumption DEF IInv, Kinds, WireAssumption
<1>5. CASE ex.workflow = NoName
  BY <1>1, <1>2, <1>4, <1>5, ReportKeeps
<1>6. CASE ex.workflow # NoName
  <2> DEFINE e == [disk EXCEPT !.spec = [disk.spec EXCEPT ![Default] = <<ex>>]]
  <2>1. disk \in Disks /\ disk.spec = spec /\ disk.files = files
    BY DiskIs DEF IInv
  <2>2. ex \in Job /\ ex.requiredBy = <<>>
    BY <1>6, <2>1, ChoicesAre
  <2>3. e \in Disks /\ e.files = files /\ e.spec \in Declarations /\ Clear(e)
    BY <1>1, <2>1, <2>2, ScaffoldClear
  <2>4. written' = e
    BY <1>2, <1>6, <2>1
  <2>5. e.spec = spec'
    BY <1>2, <1>6, <2>1 DEF disk
  <2> HIDE DEF e
  <2>6. disk' = e
    <3>1. disk' = [spec |-> spec', files |-> files]
      BY <1>1 DEF disk
    <3>2. e = [spec |-> e.spec, files |-> e.files]
      BY <2>3 DEF Disks
    <3> QED BY <2>3, <2>5, <3>1, <3>2
  <2>7. Clear(written)'
    BY <2>3, <2>4
  <2>8. pc' = "idle" /\ plan' = Nothing /\ next' = 0 /\ outcome' = "scaffolded" /\ goal' = Nothing
    BY <1>1, <1>2, <1>6 DEF IInv, Writes, Nothing
  <2>9. Untouched' /\ OnTheWay' /\ Writes'
    BY <2>4, <2>6, <2>8 DEF Untouched, OnTheWay, Writes, Nothing
  <2> QED BY <1>4, <2>3, <2>4, <2>6, <2>7, <2>9 DEF IInv
<1> QED BY <1>5, <1>6

\* The disk, once jci-audit.toml or one more file is as the run wants it, is
\* still one that a run over `written` may have been cut short at.
LEMMA WriteKeeps == IInv /\ Write => IInv'
<1> SUFFICES ASSUME IInv, Write PROVE IInv'
  OBVIOUS
<1>1. /\ pc = "writing" /\ next <= Len(FileOrder) /\ next' = next + 1
      /\ pc' = pc /\ plan' = plan /\ outcome' = outcome /\ written' = written /\ goal' = goal
      /\ runs' = runs /\ edits' = edits
  BY DEF Write
<1>2. goal # Nothing /\ plan = goal
  BY <1>1 DEF IInv, Writes
<1>3. /\ ~Refuses(written) /\ ~Blank(written) /\ goal = Computed(written)
      /\ CutShort(written, disk) /\ written \in Disks /\ Clear(written) /\ disk \in Disks
  BY <1>2 DEF IInv, OnTheWay
<1>4. goal \in Disks /\ goal.spec \in Declarations /\ goal.files \in [Files -> Texts]
  BY <1>3, ComputedIs DEF Disks
<1>5. spec \in Declarations \cup {Unreadable} /\ files \in [Files -> Texts]
  BY <1>3, DiskIs
<1>6. IF next = 0
      THEN spec' = goal.spec /\ files' = files
      ELSE files' = [files EXCEPT ![FileOrder[next]] = goal.files[FileOrder[next]]] /\ spec' = spec
  BY <1>2 DEF Write
<1>7. next \in Nat
  BY OrderIs DEF IInv, Kinds
<1>8. next # 0 => FileOrder[next] \in Files
  BY <1>1, <1>7, OrderIs
<1>9. /\ spec' \in Declarations \cup {Unreadable} /\ files' \in [Files -> Texts]
      /\ spec' = goal.spec
      /\ \A f \in Files : files'[f] \in {files[f], goal.files[f]}
  <2>1. CASE next = 0
    BY <1>4, <1>5, <1>6, <2>1
  <2>2. CASE next # 0
    <3>1. spec = goal.spec
      BY <1>1, <1>7, <2>2 DEF IInv, Writes
    <3> QED BY <1>4, <1>5, <1>6, <1>8, <2>2, <3>1
  <2> QED BY <2>1, <2>2
<1>10. disk' \in Disks
  <2>1. disk' = [spec |-> spec', files |-> files']
    BY DEF disk
  <2> QED BY <1>9, <2>1 DEF Disks
<1>11. CutShort(written, disk)'
  <2>1. \A f \in Files : files[f] \in {written.files[f], goal.files[f]}
    BY <1>3, DiskIs DEF CutShort
  <2>2. disk'.spec = spec' /\ disk'.files = files'
    BY DEF disk
  <2>3. \A f \in Files : files'[f] \in {written.files[f], goal.files[f]}
    BY <1>9, <2>1
  <2>4. CutShort(written, disk')
    BY <1>3, <1>9, <2>2, <2>3 DEF CutShort
  <2> QED BY <1>1, <2>4
<1>12. Kinds'
  BY <1>1, <1>7, OrderIs DEF IInv, Kinds
<1>13. Untouched' /\ OnTheWay'
  <2>1. Refuses(written)' = Refuses(written) /\ Blank(written)' = Blank(written)
        /\ Computed(written)' = Computed(written)
    BY <1>1
  <2> QED BY <1>1, <1>2, <1>3, <1>11, <2>1 DEF Untouched, OnTheWay
<1>14. Writes'
  <2>1. pc' = "writing" /\ goal' = goal /\ goal # Nothing /\ plan' = goal
    BY <1>1, <1>2
  <2>2. ASSUME NEW m \in 1..Len(FileOrder), m < next'
        PROVE  files'[FileOrder[m]] = goal.files[FileOrder[m]]
    <3>1. FileOrder[m] \in Files
      BY OrderIs
    <3>2. CASE m = next
      BY <1>5, <1>6, <3>1, <3>2
    <3>3. CASE m < next
      <4>1. files[FileOrder[m]] = goal.files[FileOrder[m]]
        BY <1>1, <3>3 DEF IInv, Writes
      <4> QED BY <1>9, <3>1, <4>1
    <3> QED BY <1>1, <1>7, <2>2, <3>2, <3>3
  <2>3. spec' = goal.spec
    BY <1>9
  <2> QED BY <2>1, <2>2, <2>3 DEF Writes
<1>15. Clear(written)'
  BY <1>1, <1>3
<1> QED BY <1>1, <1>3, <1>10, <1>12, <1>13, <1>14, <1>15 DEF IInv

\* Finish and Abort: a run that has come to its end has written everything, and
\* one that has not leaves a disk it may have been cut short at.
LEMMA EndKeeps == IInv /\ (Finish \/ Abort) => IInv'
<1> SUFFICES ASSUME IInv, Finish \/ Abort PROVE IInv'
  OBVIOUS
<1>1. /\ pc = "writing" /\ pc' = "idle" /\ plan' = Nothing /\ next' = 0
      /\ spec' = spec /\ files' = files /\ written' = written /\ goal' = goal
      /\ runs' = runs /\ edits' = edits
      /\ outcome' = "failed" \/ (outcome' = "wired" /\ next = Len(FileOrder) + 1)
  BY DEF Finish, Abort
<1>2. disk' = disk
  BY <1>1 DEF disk
<1>3. goal # Nothing
  BY <1>1 DEF IInv, Writes
<1>4. /\ ~Refuses(written) /\ goal = Computed(written) /\ written \in Disks /\ Clear(written)
      /\ disk \in Disks
  BY <1>3 DEF IInv, OnTheWay
<1>5. ASSUME next = Len(FileOrder) + 1 PROVE disk = goal
  <2>1. goal \in Disks /\ goal = [spec |-> goal.spec, files |-> goal.files]
        /\ goal.files \in [Files -> Texts]
    BY <1>4, ComputedIs DEF Disks
  <2>2. spec = goal.spec
    BY <1>1, <1>5, OrderIs DEF IInv, Writes
  <2>3. ASSUME NEW f \in Files PROVE files[f] = goal.files[f]
    <3>1. PICK m \in 1..Len(FileOrder) : FileOrder[m] = f
      BY OrderIs
    <3>2. m < next
      BY <1>5, OrderIs
    <3> QED BY <1>1, <3>1, <3>2 DEF IInv, Writes
  <2>4. files \in [Files -> Texts]
    BY <1>4, DiskIs
  <2>5. files = goal.files
    BY <2>1, <2>3, <2>4
  <2> QED BY <2>1, <2>2, <2>5 DEF disk
<1>6. Kinds'
  BY <1>1, OrderIs DEF IInv, Kinds
<1>7. Untouched' /\ OnTheWay'
  <2>1. Refuses(written)' = Refuses(written) /\ Blank(written)' = Blank(written)
        /\ Computed(written)' = Computed(written) /\ CutShort(written, disk)' = CutShort(written, disk)
    BY <1>1, <1>2
  <2> QED BY <1>1, <1>3, <2>1 DEF IInv, Untouched, OnTheWay
<1>8. Writes'
  BY <1>1, <1>2, <1>3, <1>5 DEF Writes
<1>9. Clear(written)'
  BY <1>1, <1>4
<1> QED BY <1>1, <1>2, <1>4, <1>6, <1>7, <1>8, <1>9 DEF IInv

\* Edit: a new history.
LEMMA EditKeeps == IInv /\ Edit => IInv'
<1> SUFFICES ASSUME IInv, Edit PROVE IInv'
  OBVIOUS
<1>1. /\ pc = "idle" /\ edits < MaxEdits /\ edits' = edits + 1 /\ runs' = runs
      /\ written' = disk' /\ goal' = Nothing /\ outcome' = "none"
      /\ pc' = pc /\ plan' = plan /\ next' = next
  BY DEF Edit
<1>2. spec \in Declarations \cup {Unreadable} /\ files \in [Files -> Texts]
  BY DiskIs DEF IInv
<1>3. spec' \in Declarations \cup {Unreadable} /\ files' \in [Files -> Texts]
  <2>1. CASE spec' \in Specs \cup {Unreadable} /\ files' = files
    BY <1>2, <2>1, WireAssumption DEF WireAssumption
  <2>2. CASE /\ \E f \in Files : \E c \in Contents[f] : files' = [files EXCEPT ![f] = c]
             /\ spec' = spec
    BY <1>2, <2>2, ContentsTyped
  <2> QED BY <2>1, <2>2 DEF Edit
<1>4. disk' \in Disks
  <2>1. disk' = [spec |-> spec', files |-> files']
    BY DEF disk
  <2> QED BY <1>3, <2>1 DEF Disks
<1>5. Clear(written)'
  BY DEF Edit
<1>6. Kinds'
  BY <1>1, WireAssumption DEF IInv, Kinds, WireAssumption
<1>7. plan' = Nothing /\ next' = 0
  BY <1>1 DEF IInv, Writes
<1>8. Untouched' /\ OnTheWay' /\ Writes'
  BY <1>1, <1>7 DEF Untouched, OnTheWay, Writes
<1> QED BY <1>1, <1>4, <1>5, <1>6, <1>8 DEF IInv

\* The invariant is inductive.
LEMMA StepKeepsIInv == IInv /\ [Next]_vars => IInv'
<1> SUFFICES ASSUME IInv, [Next]_vars PROVE IInv'
  OBVIOUS
<1>1. CASE Check \/ Refuse
  BY <1>1, CheckKeeps
<1>2. CASE Scaffold
  BY <1>2, ScaffoldKeeps
<1>3. CASE Compute
  BY <1>3, ComputeKeeps
<1>4. CASE Write
  BY <1>4, WriteKeeps
<1>5. CASE Finish \/ Abort
  BY <1>5, EndKeeps
<1>6. CASE Edit
  BY <1>6, EditKeeps
<1>7. CASE UNCHANGED vars
  <2>1. IInv' <=> IInv
    BY <1>7 DEF vars, run, IInv, Kinds, Untouched, OnTheWay, Writes, disk, CutShort
  <2> QED BY <2>1
<1> QED BY <1>1, <1>2, <1>3, <1>4, <1>5, <1>6, <1>7 DEF Next

\* It holds throughout.
LEMMA Inductive == Spec => []IInv
<1>1. Init => IInv
  BY Initially
<1>2. IInv /\ [Next]_vars => IInv'
  BY StepKeepsIInv
<1> QED BY <1>1, <1>2, PTL DEF Spec

-----------------------------------------------------------------------------
(* Theorems *)

\* Whatever is edited, wired, interrupted and repeated, every file holds what
\* wire-ci may be given, no refusal among it.
THEOREM TypeCorrect == Spec => []TypeOK
<1>1. ASSUME IInv PROVE TypeOK
  <2>1. Kinds /\ disk \in Disks
    BY <1>1 DEF IInv
  <2>2. spec \in Declarations \cup {Unreadable} /\ files \in [Files -> Texts]
    BY <2>1, DiskIs
  <2>3. AreFiles(files)
    BY <2>2, TextsAre DEF AreFiles
  <2>4. CASE pc = "writing"
    <3>1. goal # Nothing /\ plan = goal
      BY <1>1, <2>4 DEF IInv, Writes
    <3>2. goal \in Disks /\ goal.spec \in Declarations
      BY <1>1, <3>1, ComputedIs DEF IInv, OnTheWay
    <3>3. AreFiles(goal.files)
      BY <3>2, TextsAre DEF Disks, AreFiles
    <3> QED BY <2>1, <2>2, <2>3, <2>4, <3>1, <3>2, <3>3 DEF TypeOK, Kinds
  <2>5. CASE pc # "writing"
    BY <1>1, <2>1, <2>2, <2>3, <2>5 DEF TypeOK, Kinds, IInv, Writes
  <2> QED BY <2>4, <2>5
<1> QED BY <1>1, Inductive, PTL

\* What a finished run leaves.
LEMMA Finished ==
  ASSUME IInv, Settled
  PROVE  /\ written \in Disks /\ ~Refuses(written) /\ ~Blank(written) /\ Clear(written)
         /\ disk = goal /\ goal = Computed(written)
         /\ spec = goal.spec /\ files = goal.files
<1>1. goal # Nothing /\ disk = goal
  BY DEF IInv, Writes, Settled
<1>2. disk.spec = spec /\ disk.files = files
  BY DiskIs
<1> QED BY <1>1, <1>2 DEF IInv, OnTheWay

\* A run cut short any number of times, by failed writes or kills, and repeated
\* ends with every file as one undisturbed run would have left it, for any number
\* of files, jobs and entries (wire_ci.rs:2380-2431).
THEOREM Convergence == Spec => []RepeatConverges
<1>1. IInv => RepeatConverges
  BY Finished DEF RepeatConverges
<1> QED BY <1>1, Inductive, PTL

\* After a run of wire-ci that ended, check-ci-wiring finds nothing to change
\* (wire_ci.rs:4994-5011).
THEOREM WiringIsInSync == Spec => []WiredIsInSync
<1>1. IInv => WiredIsInSync
  BY Finished, GoalInSync DEF WiredIsInSync
<1> QED BY <1>1, Inductive, PTL

\* At every moment each file is as edited or as it will be, and nothing is
\* touched unless all of it can be computed (wire_ci.rs:2380-2383).
THEOREM NoMixture == Spec => []NeverMixed
<1>1. ASSUME IInv PROVE NeverMixed
  <2>1. disk.spec = spec /\ disk.files = files
    BY DiskIs
  <2>2. CASE goal = Nothing
    <3>1. disk = written
      BY <1>1, <2>2 DEF IInv, Untouched
    <3> QED BY <2>1, <3>1 DEF NeverMixed
  <2>3. CASE goal # Nothing
    <3>1. /\ written \in Disks /\ Clear(written) /\ ~Refuses(written)
          /\ goal = Computed(written) /\ CutShort(written, disk)
      BY <1>1, <2>3 DEF IInv, OnTheWay
    <3>2. /\ spec \in {written.spec, goal.spec}
          /\ \A f \in Files : files[f] \in {written.files[f], goal.files[f]}
      BY <2>1, <3>1 DEF CutShort
    <3>3. \A f \in Files : goal.files[f] # Refused
      BY <3>1, ComputedIs DEF Refuses
    <3> QED BY <2>3, <3>2, <3>3 DEF NeverMixed
  <2> QED BY <2>2, <2>3
<1> QED BY <1>1, Inductive, PTL

\* What a run makes of one file, by what WiringIs says of it.
LEMMA FileIs ==
  ASSUME NEW d \in Disks, ~Refuses(d), Clear(d), NEW f \in Files, Wanted(d, f) # <<>>
  PROVE  LET c == d.files[f]
             J == Wanted(d, f)
             new == Desired(d, f)
         IN  /\ J \in Seq(Job)
             /\ \E W \in SUBSET Workflows : c \in Content(W) /\ new \in Content(W)
             /\ \A j \in ToSet(J) : Applied(new, j, J)
             /\ Preserves(c, new, J) /\ Tracks(c, new, J)
<1>1. Wanted(d, f) \in Seq(Job)
  BY ListsAre
<1>2. /\ Desired(d, f) # Refused /\ Apart(d.files[f], Wanted(d, f))
      /\ Desired(d, f) = WireJobs(d.files[f], Wanted(d, f))
      /\ \E W \in SUBSET Workflows : d.files[f] \in Content(W) /\ Desired(d, f) \in Content(W)
  BY DesiredIs
<1> QED BY <1>1, <1>2, WiringIs

\* An entry that is nobody's, of another orb, keeps its place and everything in
\* it, and gains in its requires only those that ask for it (wire_ci.rs:82-84).
THEOREM OthersAreKept == Spec => []OthersKept
<1>1. ASSUME IInv PROVE OthersKept
  <2> SUFFICES ASSUME NEW f \in Files, files[f] # NoFile,
                      NEW w \in DOMAIN files[f].workflows, NEW i \in DOMAIN Before(f, w)
               PROVE  \/ IsManaged(Before(f, w)[i], JobsAt(f, w))
                      \/ Extends(Entries(f, w)[i], Before(f, w)[i],
                                 Asking(Before(f, w)[i], JobsAt(f, w)))
    BY DEF OthersKept
  <2>1. disk.spec = spec /\ disk.files = files /\ disk \in Disks /\ written \in Disks
    BY <1>1, DiskIs DEF IInv
  <2>2. files[f] \in Texts
    BY <2>1, DiskIs
  <2>3. CASE files[f] = written.files[f]
    <3>1. PICK W \in SUBSET Workflows : files[f] \in Content(W)
      BY <2>2, TextsAre
    <3>2. Before(f, w) = Entries(f, w) /\ Before(f, w)[i] \in Entry
      BY <2>3, <3>1 DEF Before, Entries, Content
    <3> QED BY <3>2, ExtendsItself
  <2>4. CASE files[f] # written.files[f]
    <3>1. goal # Nothing
      BY <1>1, <2>1, <2>4 DEF IInv, Untouched
    <3>2. /\ Clear(written) /\ ~Refuses(written) /\ goal = Computed(written)
          /\ CutShort(written, disk)
      BY <1>1, <3>1 DEF IInv, OnTheWay
    <3>3. /\ Computed(written).spec \in Declarations
          /\ Computed(written).spec = [g \in Files |-> Wanted(written, g)]
          /\ Computed(written).files = [g \in Files |-> Desired(written, g)]
      BY <2>1, <3>2, ComputedIs
    <3>4. disk.spec = Computed(written).spec /\ files[f] = Desired(written, f)
      BY <2>1, <2>4, <3>2, <3>3 DEF CutShort
    <3>5. JobsOf(disk, f) = Wanted(written, f)
      BY <3>3, <3>4, WireAssumption DEF JobsOf, Malformed, WireAssumption
    <3>6. Wanted(written, f) # <<>>
      BY <2>1, <2>4, <3>2, <3>4, DesiredIs
    <3>7. Preserves(written.files[f], files[f], Wanted(written, f))
      BY <2>1, <3>2, <3>4, <3>6, FileIs
    <3>8. JobsAt(f, w) = JobsIn(Wanted(written, f), w)
      BY <3>5 DEF JobsAt, JobsIn
    <3> QED BY <3>7, <3>8 DEF Preserves, Before, Entries
  <2> QED BY <2>3, <2>4
<1> QED BY <1>1, Inductive, PTL

\* The entry of an applied job is what the property asks of it.
LEMMA AppliedShows ==
  ASSUME NEW J \in Seq(Job), NEW j \in ToSet(J), NEW E \in Seq(Entry), NEW q \in DOMAIN E,
         E[q] = Render(Merged(j, J), E[q].name)
  PROVE  IsApplied(j, E[q], JobsIn(J, j.workflow))
<1>1. j \in Job
  BY InSeq
<1>2. /\ Merged(j, J) \in Job /\ Merged(j, J) = [j EXCEPT !.requires = Merged(j, J).requires]
      /\ ToSet(Merged(j, J).requires) = ToSet(j.requires) \cup Askers(j, J)
  BY <1>1, MergedIs
<1>3. E[q].name \in Names \cup {NoName}
  <2>1. E[q] \in Entry
    OBVIOUS
  <2> QED BY <2>1 DEF Entry
<1> DEFINE e == E[q]
           m == Merged(j, J)
<1>4. m.params = j.params /\ m.extras = j.extras /\ m.jobName = j.jobName /\ m.orbJob = j.orbJob
  BY <1>1, <1>2 DEF Job
<1>5. /\ e.orbJob = m.orbJob /\ e.params = m.params /\ e.extras = m.extras
      /\ e.requires.items = m.requires
      /\ m.jobName # NoName => e.name = m.jobName
  <2>1. e = Render(m, e.name)
    OBVIOUS
  <2> HIDE DEF e, m
  <2> QED BY <2>1 DEF Render
<1>6. {NewName(k) : k \in {s \in JobsIn(J, j.workflow) : Contains(s.requiredBy, NewName(j))}}
        = Askers(j, J)
  BY DEF Askers, Asks, JobsIn
<1> HIDE DEF e, m
<1>7. IsApplied(j, e, JobsIn(J, j.workflow))
  BY <1>2, <1>4, <1>5, <1>6 DEF IsApplied, m
<1> QED BY <1>7 DEF e

\* After a run every declared job has its entry, the one it had before where there
\* was no doubt about it, and what its required_by names requires it
\* (wire_ci.rs:2132-2135).
THEOREM AllAreApplied == Spec => []EveryJobApplied
<1>1. ASSUME IInv PROVE EveryJobApplied
  <2> SUFFICES ASSUME Settled, NEW f \in Files, NEW j \in ToSet(spec[f])
               PROVE  LET entries == Entries(f, j.workflow)
                          before == Before(f, j.workflow)
                          siblings == JobsAt(f, j.workflow)
                      IN /\ \E i \in DOMAIN entries :
                              /\ IsApplied(j, entries[i], siblings)
                              /\ \A k \in DOMAIN before : IsOnly(j, k, before, siblings) =>
                                   i = k /\ (j.jobName = NoName => entries[i].name = before[i].name)
                         /\ \A t \in External(j, JobsOf(disk, f)) :
                              Contains(entries[Named(entries, t)].requires.items, NewName(j))
    BY DEF EveryJobApplied
  <2> DEFINE c == written.files[f]
             J == Wanted(written, f)
             new == files[f]
             E == Entries(f, j.workflow)
             B == Before(f, j.workflow)
  <2>1. /\ written \in Disks /\ ~Refuses(written) /\ Clear(written)
        /\ disk = Computed(written)
        /\ spec = Computed(written).spec /\ files = Computed(written).files
    BY <1>1, Finished
  <2>2. /\ spec \in Declarations /\ spec = [g \in Files |-> Wanted(written, g)]
        /\ files = [g \in Files |-> Desired(written, g)]
    BY <2>1, ComputedIs
  <2>3. j \in ToSet(J) /\ J # <<>> /\ new = Desired(written, f)
    BY <2>2 DEF ToSet
  <2>4. /\ J \in Seq(Job)
        /\ \E W \in SUBSET Workflows : c \in Content(W) /\ new \in Content(W)
        /\ Applied(new, j, J) /\ Tracks(c, new, J)
    BY <2>1, <2>3, FileIs
  <2>5. JobsOf(disk, f) = J
    <3>1. disk.spec = spec
      BY DiskIs
    <3>2. ~Malformed(disk)
      BY <2>2, <3>1, WireAssumption DEF Malformed, WireAssumption
    <3> QED BY <2>2, <3>1, <3>2 DEF JobsOf
  <2>6. JobsAt(f, j.workflow) = JobsIn(J, j.workflow)
    BY <2>5 DEF JobsAt, JobsIn
  <2>7. /\ Site(new, j) = E /\ Site(c, j) = B
        /\ j.workflow \in DOMAIN new.workflows /\ j.workflow \in DOMAIN c.workflows
    BY <2>4 DEF Site, Entries, Before, Applied, Tracks
  <2> HIDE DEF c, J, new, E, B
  <2>8. AppliedIn(E, j, J)
    BY <2>4, <2>7 DEF Applied
  <2>9. PICK q : Candidates(j, E) = {q} /\ q \in DOMAIN E /\ E[q] = Render(Merged(j, J), E[q].name)
    BY <2>8 DEF AppliedIn
  <2>10. IsApplied(j, E[q], JobsIn(J, j.workflow))
    BY <2>3, <2>4, <2>8, <2>9, AppliedShows DEF AppliedIn
  <2>11. ASSUME NEW k \in DOMAIN B, IsOnly(j, k, B, JobsIn(J, j.workflow))
         PROVE  q = k /\ (j.jobName = NoName => E[q].name = B[q].name)
    <3>1. /\ Candidates(j, E) = {k}
          /\ j.jobName = NoName => E[k].name = B[k].name
      BY <2>3, <2>4, <2>7, <2>11 DEF Tracks
    <3> QED BY <2>9, <3>1
  <2>12. \A t \in External(j, J) : Contains(E[Named(E, t)].requires.items, NewName(j))
    BY <2>8 DEF AppliedIn, Answered
  <2> QED BY <2>5, <2>6, <2>9, <2>10, <2>11, <2>12 DEF E, B
<1> QED BY <1>1, Inductive, PTL
=============================================================================
