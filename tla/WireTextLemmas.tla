---------------------------- MODULE WireTextLemmas ----------------------------
(***************************************************************************)
(* What the scans of WireText find in a text and what its splices make of  *)
(* one, whatever blank lines, markers and comments without a colon stand   *)
(* between the lines that say something, those of its nested lists apart.  *)
(* A text is told apart from what it says: Fits relates a text to a        *)
(* content, and holds of every text whose lines that say something are the *)
(* content's, none of the others hiding any of them.                       *)
(* From the bottom up: sequences and maps over them; the rank of a line    *)
(* among those that say something; scans by indentation; the lines of one  *)
(* entry, and what is read of it; the entries of a workflow, and where     *)
(* each of them stands; and what a splice leaves as it was.                *)
(***************************************************************************)
EXTENDS WireText, FiniteSetTheorems, SequenceTheorems, TLAPS

\* A set of numbers that has any has a least one.
LEMMA LeastOf ==
  ASSUME NEW T, T \subseteq Nat, T # {}
  PROVE  Min(T) \in T /\ \A y \in T : Min(T) <= y
<1>1. PICK x \in T : \A y \in T : ~ (<<y, x>> \in OpToRel(<, Nat))
  BY NatLessThanWellFounded, WFMin
<1>2. \A y \in T : x <= y
  <2> TAKE y \in T
  <2>1. <<y, x>> \in Nat \X Nat
    OBVIOUS
  <2>2. ~ (y < x)
    BY <1>1, <2>1 DEF OpToRel
  <2> QED BY <2>2
<1>3. \E z \in T : \A y \in T : z <= y
  BY <1>2
<1> QED BY <1>3 DEF Min

\* Induction over the jobs of a list: wiring takes them one after another.
LEMMA Counting ==
  ASSUME NEW S, NEW m \in Nat, 0 \in S, \A n \in 0..m : n \in S /\ n < m => n + 1 \in S
  PROVE  0..m \subseteq S
<1> DEFINE T == {n \in 0..m : n \notin S}
<1> SUFFICES ASSUME T # {} PROVE FALSE
  OBVIOUS
<1>1. PICK x \in T : \A y \in T : x <= y
  <2> HIDE DEF T
  <2>1. T \subseteq Nat
    BY DEF T
  <2> QED BY <2>1, LeastOf
<1>2. x # 0 /\ x - 1 \in 0..m /\ x - 1 \in S
  BY <1>1
<1> QED BY <1>1, <1>2

\* One round of a loop over 1..m stays within V, where G[<<n, x>>] is what the
\* n-th round makes of x.
Steps(G, V, m) == \A n \in 1..m : \A x \in V : G[<<n, x>>] \in V

\* f is the history of that loop.
Iterates(f, G, V, v, m) ==
  f \in [0..m -> V] /\ f[0] = v /\ \A n \in 1..m : f[n] = G[<<n, f[n - 1]>>]

\* Such a loop has a history: the recursive functions of WireJobs are that.
LEMMA Iteration ==
  ASSUME NEW V, NEW v \in V, NEW m \in Nat, NEW G, Steps(G, V, m)
  PROVE  \E f : Iterates(f, G, V, v, m)
<1> USE DEF Steps
<1> DEFINE Good(f, k) == f \in [0..k -> V] /\ f[0] = v /\ \A n \in 1..k : f[n] = G[<<n, f[n - 1]>>]
           S == {k \in 0..m : \E f : Good(f, k)}
<1>1. 0 \in S
  <2>1. Good([n \in 0..0 |-> v], 0)
    OBVIOUS
  <2>2. \E f : Good(f, 0)
    <3> HIDE DEF Good
    <3> QED BY <2>1
  <2> QED BY <2>2
<1>2. ASSUME NEW k \in 0..m, k \in S, k < m PROVE k + 1 \in S
  <2>1. PICK f : Good(f, k)
    BY <1>2
  <2> DEFINE g == [n \in 0..k+1 |-> IF n = k+1 THEN G[<<n, f[k]>>] ELSE f[n]]
  <2>2. g \in [0..k+1 -> V]
    BY <2>1, <1>2
  <2>3. g[0] = v
    BY <2>1
  <2>4. ASSUME NEW n \in 1..k+1 PROVE g[n] = G[<<n, g[n-1]>>]
    <3>1. CASE n = k + 1
      <4>1. g[n] = G[<<n, f[k]>>] /\ n - 1 = k /\ g[k] = f[k]
        BY <3>1
      <4> QED BY <4>1
    <3>2. CASE n # k + 1
      <4>1. n \in 1..k /\ n - 1 \in 0..k+1 /\ n - 1 # k + 1
        BY <3>2
      <4>2. g[n] = f[n] /\ g[n - 1] = f[n - 1]
        BY <4>1
      <4> QED BY <2>1, <4>1, <4>2
    <3> QED BY <3>1, <3>2
  <2>5. Good(g, k + 1)
    BY <2>2, <2>3, <2>4
  <2>6. \E h : Good(h, k + 1)
    <3> HIDE DEF g, Good
    <3> QED BY <2>5
  <2> QED BY <2>6, <1>2
<1>3. m \in S
  <2> HIDE DEF S
  <2> QED BY <1>1, <1>2, Counting
<1>4. PICK f : Good(f, m)
  BY <1>3
<1>5. Iterates(f, G, V, v, m)
  BY <1>4 DEF Iterates
<1> QED BY <1>5


-----------------------------------------------------------------------------
(* Sequences of sequences *)

\* f runs through the flattening of ss.
Flattens(f, ss) ==
  \A i \in DOMAIN ss : f[i] = IF i = 1 THEN ss[i] ELSE f[i - 1] \o ss[i]

\* FlattenSeq has such a history, and ends with its last.
LEMMA FlatHas ==
  ASSUME NEW T, NEW ss \in Seq(Seq(T)), ss # <<>>
  PROVE  \E f : /\ f \in [DOMAIN ss -> Seq(T)] /\ Flattens(f, ss)
               /\ FlattenSeq(ss) = f[Len(ss)]
<1> DEFINE m == Len(ss)
           V == Seq(T)
           G == [p \in (1..m) \X V |-> p[2] \o ss[p[1]]]
           IsIt(f) == f = [i \in 1..m |-> IF i = 1 THEN ss[i] ELSE f[i - 1] \o ss[i]]
<1>1. m \in Nat /\ m # 0 /\ <<>> \in V /\ DOMAIN ss = 1..m
  OBVIOUS
<1>2. \A n \in 1..m : \A x \in V : G[<<n, x>>] = x \o ss[n] /\ G[<<n, x>>] \in V
  <2> TAKE n \in 1..m
  <2> TAKE x \in V
  <2>1. ss[n] \in V
    BY <1>1, ElementOfSeq
  <2>2. x \o ss[n] \in V
    BY <2>1, ConcatProperties
  <2>3. G[<<n, x>>] = x \o ss[n]
    <3> HIDE DEF V, m
    <3> QED OBVIOUS
  <2> QED BY <2>2, <2>3
<1>3. PICK h : Iterates(h, G, V, <<>>, m)
  <2>1. Steps(G, V, m)
    BY <1>2 DEF Steps
  <2> HIDE DEF V, G, m
  <2> QED BY <1>1, <2>1, Iteration
<1> DEFINE f == [i \in 1..m |-> h[i]]
<1>4. f \in [1..m -> V]
  BY <1>3 DEF Iterates
<1>5. \A i \in 1..m : i - 1 \in 0..m /\ h[i - 1] \in V /\ h[i] = h[i - 1] \o ss[i]
  <2> TAKE i \in 1..m
  <2>1. i - 1 \in 0..m
    BY <1>1
  <2>2. h[i - 1] \in V /\ h[i] = G[<<i, h[i - 1]>>]
    <3> HIDE DEF V, G, m
    <3> QED BY <1>3, <2>1 DEF Iterates
  <2> HIDE DEF V, G, m
  <2> QED BY <1>2, <2>1, <2>2
<1>6. h[0] = <<>>
  BY <1>3 DEF Iterates
<1>7. \A i \in 1..m : f[i] = IF i = 1 THEN ss[i] ELSE f[i - 1] \o ss[i]
  <2> TAKE i \in 1..m
  <2>1. CASE i = 1
    <3>1. <<>> \o ss[1] = ss[1]
      BY <1>1
    <3>2. h[1] = <<>> \o ss[1] /\ f[i] = h[1]
      <4>1. 1 \in 1..m /\ 1 - 1 = 0
        BY <1>1
      <4> HIDE DEF m, V
      <4> QED BY <2>1, <4>1, <1>5, <1>6
    <3> QED BY <3>1, <3>2, <2>1
  <2>2. CASE i # 1
    <3>1. i - 1 \in 1..m
      BY <2>2
    <3> QED BY <3>1, <2>2, <1>5
  <2> QED BY <2>1, <2>2
<1>8. IsIt(f)
  BY <1>4, <1>7
<1> DEFINE flatten == CHOOSE g : IsIt(g)
<1>9. IsIt(flatten)
  <2> HIDE DEF IsIt, f
  <2> QED BY <1>8
<1>10. FlattenSeq(ss) = flatten[m]
  BY <1>1 DEF FlattenSeq
<1>11. \A i \in 1..m : flatten[i] = IF i = 1 THEN ss[i] ELSE flatten[i - 1] \o ss[i]
  <2> HIDE DEF flatten
  <2> QED BY <1>9
<1>12. DOMAIN flatten = 1..m /\ flatten = [i \in 1..m |-> flatten[i]]
  <2> HIDE DEF flatten
  <2> QED BY <1>9
<1> DEFINE S == {n \in 0..m : n = 0 \/ flatten[n] \in V}
<1>13. m \in S /\ 0..m \subseteq S
  <2>1. 0 \in S
    BY <1>1
  <2>2. ASSUME NEW n \in 0..m, n \in S, n < m PROVE n + 1 \in S
    <3>1. n + 1 \in 1..m /\ (n + 1) - 1 = n
      BY <1>1, <2>2
    <3> HIDE DEF flatten
    <3>2. ss[n + 1] \in V
      BY <3>1, <1>1
    <3>3. CASE n = 0
      <4>1. flatten[n + 1] = ss[n + 1]
        <5> HIDE DEF m
        <5> QED BY <3>1, <3>3, <1>11
      <4> QED BY <4>1, <3>1, <3>2
    <3>4. CASE n # 0
      <4>1. flatten[n + 1] = flatten[n] \o ss[n + 1]
        <5>1. n + 1 # 1
          BY <3>4, <2>2
        <5> HIDE DEF m
        <5> QED BY <3>1, <5>1, <1>11
      <4>2. flatten[n] \in V
        BY <3>4, <2>2
      <4>3. flatten[n] \o ss[n + 1] \in V
        BY <4>2, <3>2, ConcatProperties
      <4>4. n + 1 \in 0..m
        BY <3>1
      <4> HIDE DEF m, V
      <4> QED BY <4>1, <4>3, <4>4
    <3> QED BY <3>3, <3>4
  <2> HIDE DEF S, m, flatten
  <2>3. 0..m \subseteq S
    BY <1>1, <2>1, <2>2, Counting
  <2> QED BY <1>1, <2>3
<1>14. flatten \in [1..m -> V]
  <2> HIDE DEF flatten, V
  <2>1. \A i \in 1..m : i \in 0..m /\ i # 0
    BY <1>1
  <2> QED BY <1>12, <1>13, <2>1
<1>15. Flattens(flatten, ss)
  <2> HIDE DEF flatten
  <2> QED BY <1>1, <1>11 DEF Flattens
<1> QED
  <2> HIDE DEF flatten
  <2> QED BY <1>1, <1>10, <1>14, <1>15

LEMMA FlatEmpty == FlattenSeq(<<>>) = <<>>
BY DEF FlattenSeq

LEMMA FlatType ==
  ASSUME NEW T, NEW ss \in Seq(Seq(T)) PROVE FlattenSeq(ss) \in Seq(T)
<1>1. CASE ss = <<>>
  <2>1. <<>> \in Seq(T)
    OBVIOUS
  <2> QED BY <1>1, <2>1, FlatEmpty
<1>2. CASE ss # <<>>
  <2>1. PICK f : f \in [DOMAIN ss -> Seq(T)] /\ FlattenSeq(ss) = f[Len(ss)]
    BY <1>2, FlatHas
  <2>2. Len(ss) \in DOMAIN ss
    BY <1>2
  <2> QED BY <2>1, <2>2
<1> QED BY <1>1, <1>2

\* One more sequence goes to the end.
LEMMA FlatAppend ==
  ASSUME NEW T, NEW ss \in Seq(Seq(T)), NEW s \in Seq(T)
  PROVE  FlattenSeq(Append(ss, s)) = FlattenSeq(ss) \o s
<1> DEFINE more == Append(ss, s)
           m == Len(ss)
           V == Seq(T)
<1>0. ss \in Seq(V) /\ s \in V
  OBVIOUS
<1> HIDE DEF V
<1>1. /\ more \in Seq(V) /\ more # <<>> /\ Len(more) = m + 1 /\ m \in Nat
      /\ \A i \in 1..m : more[i] = ss[i]
      /\ more[m + 1] = s /\ DOMAIN more = 1..m + 1 /\ DOMAIN ss = 1..m
  <2>1. /\ more \in Seq(V) /\ Len(more) = m + 1 /\ m \in Nat
        /\ \A i \in 1..m : more[i] = ss[i]
        /\ more[m + 1] = s
    BY <1>0
  <2>2. more # <<>> /\ DOMAIN more = 1..m + 1 /\ DOMAIN ss = 1..m
    <3> HIDE DEF more
    <3> QED BY <2>1, <1>0
  <2> QED
    <3> HIDE DEF more, m
    <3> QED BY <2>1, <2>2
<1> HIDE DEF more
<1>2. PICK g : g \in [DOMAIN more -> Seq(T)] /\ Flattens(g, more) /\ FlattenSeq(more) = g[m + 1]
  BY <1>1, FlatHas DEF V
<1>3. CASE ss = <<>>
  <2>1. m = 0 /\ <<>> \o s = s
    BY <1>3
  <2> QED BY <1>1, <1>2, <1>3, <2>1, FlatEmpty DEF Flattens, more
<1>4. CASE ss # <<>>
  <2>1. PICK f : f \in [DOMAIN ss -> Seq(T)] /\ Flattens(f, ss) /\ FlattenSeq(ss) = f[m]
    BY <1>4, FlatHas
  <2> DEFINE S == {n \in 0..m : n = 0 \/ g[n] = f[n]}
  <2>2. m # 0
    BY <1>4
  <2>3. ASSUME NEW n \in 0..m, n \in S, n < m PROVE n + 1 \in S
    <3>1. n + 1 \in 1..m /\ n + 1 \in 1..m + 1 /\ (n + 1) - 1 = n
      BY <1>1, <2>3
    <3>2. g[n + 1] = IF n + 1 = 1 THEN more[n + 1] ELSE g[n] \o more[n + 1]
      BY <1>1, <1>2, <3>1 DEF Flattens
    <3>3. f[n + 1] = IF n + 1 = 1 THEN ss[n + 1] ELSE f[n] \o ss[n + 1]
      BY <1>1, <2>1, <3>1 DEF Flattens
    <3> QED BY <1>1, <2>3, <3>1, <3>2, <3>3
  <2>4. 0 \in S
    BY <1>1
  <2>5. g[m] = f[m]
    <3>1. 0..m \subseteq S
      <4> HIDE DEF S, m
      <4> QED BY <1>1, <2>3, <2>4, Counting
    <3>2. m \in S
      <4> HIDE DEF S
      <4> QED BY <1>1, <3>1
    <3> QED BY <2>2, <3>2
  <2>6. g[m + 1] = g[m] \o s
    <3>1. m + 1 \in 1..m + 1 /\ m + 1 # 1 /\ (m + 1) - 1 = m
      BY <1>1, <2>2
    <3> QED BY <1>1, <1>2, <3>1 DEF Flattens
  <2> QED BY <1>2, <2>1, <2>5, <2>6 DEF more
<1> QED BY <1>3, <1>4

\* The first n of a sequence, one by one.
LEMMA FirstOnes ==
  ASSUME NEW T, NEW b \in Seq(T), NEW n \in 0..Len(b)
  PROVE  /\ SubSeq(b, 1, n) \in Seq(T) /\ Len(SubSeq(b, 1, n)) = n
         /\ SubSeq(b, 1, Len(b)) = b
         /\ SubSeq(b, 1, 0) = <<>>
         /\ n < Len(b) => SubSeq(b, 1, n + 1) = Append(SubSeq(b, 1, n), b[n + 1])
<1>1. SubSeq(b, 1, n) \in Seq(T) /\ Len(SubSeq(b, 1, n)) = n
  OBVIOUS
<1>2. SubSeq(b, 1, Len(b)) = b
  BY SubSeqFull
<1>3. SubSeq(b, 1, 0) = <<>>
  OBVIOUS
<1>4. ASSUME n < Len(b) PROVE SubSeq(b, 1, n + 1) = Append(SubSeq(b, 1, n), b[n + 1])
  <2> DEFINE x == SubSeq(b, 1, n + 1)
             y == Append(SubSeq(b, 1, n), b[n + 1])
  <2>1. x \in Seq(T) /\ y \in Seq(T) /\ Len(x) = n + 1 /\ Len(y) = n + 1
    BY <1>1, <1>4
  <2>2. \A i \in 1..n + 1 : x[i] = y[i]
    BY <1>1, <1>4
  <2> HIDE DEF x, y
  <2> QED BY <2>1, <2>2, SeqEqual DEF x, y
<1> QED BY <1>1, <1>2, <1>3, <1>4

LEMMA Associates ==
  ASSUME NEW T, NEW a \in Seq(T), NEW b \in Seq(T), NEW c \in Seq(T)
  PROVE  a \o (b \o c) = (a \o b) \o c
OBVIOUS

LEMMA AppendLast ==
  ASSUME NEW T, NEW a \in Seq(T), NEW b \in Seq(T), NEW x \in T
  PROVE  /\ a \o Append(b, x) = Append(a \o b, x)
         /\ Append(a, x) = a \o <<x>>
<1>2. \A d \in Seq(T) : Append(d, x) = d \o <<x>>
  BY AppendIsConcat
<1>3. <<x>> \in Seq(T) /\ a \o b \in Seq(T)
  OBVIOUS
<1>4. a \o (b \o <<x>>) = (a \o b) \o <<x>>
  BY <1>3, ConcatAssociative
<1> QED BY <1>2, <1>3, <1>4

LEMMA FlatConcat ==
  ASSUME NEW T, NEW a \in Seq(Seq(T)), NEW b \in Seq(Seq(T))
  PROVE  FlattenSeq(a \o b) = FlattenSeq(a) \o FlattenSeq(b)
<1> DEFINE B(n) == SubSeq(b, 1, n)
           S == {n \in 0..Len(b) : FlattenSeq(a \o B(n)) = FlattenSeq(a) \o FlattenSeq(B(n))}
<1>1. FlattenSeq(a) \in Seq(T)
  BY FlatType
<1>2. Len(b) \in Nat /\ 0 \in S
  <2>1. B(0) = <<>> /\ a \o <<>> = a /\ FlattenSeq(a) \o <<>> = FlattenSeq(a)
    BY <1>1, ConcatEmptySeq
  <2>2. Len(b) \in Nat /\ 0 \in 0..Len(b)
    OBVIOUS
  <2> HIDE DEF B
  <2> QED BY <2>1, <2>2, FlatEmpty
<1>3. ASSUME NEW n \in 0..Len(b), n \in S, n < Len(b) PROVE n + 1 \in S
  <2>1. B(n) \in Seq(Seq(T)) /\ B(n + 1) = Append(B(n), b[n + 1]) /\ b[n + 1] \in Seq(T)
    BY <1>3, FirstOnes
  <2> HIDE DEF B
  <2>2. a \o B(n + 1) = Append(a \o B(n), b[n + 1])
    <3> DEFINE V == Seq(T)
    <3>1. a \in Seq(V) /\ B(n) \in Seq(V) /\ b[n + 1] \in V
      BY <2>1
    <3> DEFINE c == B(n)
               x == b[n + 1]
    <3> HIDE DEF V, c, x
    <3>2. a \o Append(c, x) = Append(a \o c, x)
      BY SMTT(40), <3>1, AppendLast DEF c, x
    <3> QED BY <2>1, <3>2 DEF c, x
  <2>3. FlattenSeq(B(n)) \in Seq(T) /\ a \o B(n) \in Seq(Seq(T))
    BY <2>1, FlatType
  <2>4. FlattenSeq(a \o B(n + 1)) = FlattenSeq(a \o B(n)) \o b[n + 1]
    BY <2>1, <2>2, <2>3, FlatAppend
  <2>5. FlattenSeq(B(n + 1)) = FlattenSeq(B(n)) \o b[n + 1]
    BY <2>1, FlatAppend
  <2>6. (FlattenSeq(a) \o FlattenSeq(B(n))) \o b[n + 1] = FlattenSeq(a) \o (FlattenSeq(B(n)) \o b[n + 1])
    <3> DEFINE p == FlattenSeq(a)
               q == FlattenSeq(B(n))
               r == b[n + 1]
    <3>1. p \in Seq(T) /\ q \in Seq(T) /\ r \in Seq(T)
      BY <1>1, <2>1, <2>3
    <3> HIDE DEF p, q, r
    <3>2. (p \o q) \o r = p \o (q \o r)
      BY SMTT(40), <3>1, Associates
    <3> QED BY <3>2 DEF p, q, r
  <2>7. n + 1 \in 0..Len(b)
    BY <1>3
  <2> QED BY <1>3, <2>4, <2>5, <2>6, <2>7
<1>4. Len(b) \in S
  <2> HIDE DEF S
  <2>1. 0..Len(b) \subseteq S
    BY <1>2, <1>3, Counting
  <2> QED BY <1>2, <2>1
<1>5. B(Len(b)) = b
  BY SubSeqFull
<1> QED
  <2> HIDE DEF B
  <2> QED BY <1>4, <1>5

(* Maps that make any number of lines of each *)

\* m makes elements of U of each of T.
Maps(m, T, U) == m \in [T -> Seq(U)]

\* What m makes of the elements of t, in order.
Through(m, t) == FlattenSeq([i \in DOMAIN t |-> m[t[i]]])

LEMMA ThroughMaps ==
  ASSUME NEW T, NEW U, NEW m, Maps(m, T, U), NEW t \in Seq(T)
  PROVE  [i \in DOMAIN t |-> m[t[i]]] \in Seq(Seq(U))
<1>1. DOMAIN t = 1..Len(t) /\ Len(t) \in Nat
  OBVIOUS
<1>2. \A i \in 1..Len(t) : m[t[i]] \in Seq(U)
  <2> TAKE i \in 1..Len(t)
  <2>1. t[i] \in T
    OBVIOUS
  <2> QED BY <2>1 DEF Maps
<1> DEFINE V == Seq(U)
<1> HIDE DEF V
<1>3. \A i \in 1..Len(t) : m[t[i]] \in V
  BY <1>2 DEF V
<1>4. [i \in DOMAIN t |-> m[t[i]]] \in Seq(V)
  BY <1>1, <1>3, IsASeq
<1> QED BY <1>4 DEF V

LEMMA ThroughType ==
  ASSUME NEW T, NEW U, NEW m, Maps(m, T, U), NEW t \in Seq(T)
  PROVE  Through(m, t) \in Seq(U)
<1> DEFINE M == [i \in DOMAIN t |-> m[t[i]]]
<1>1. M \in Seq(Seq(U))
  BY ThroughMaps
<1> HIDE DEF M
<1>2. FlattenSeq(M) \in Seq(U)
  BY <1>1, FlatType
<1> QED BY <1>2 DEF Through, M

LEMMA ThroughEmpty ==
  ASSUME NEW m PROVE Through(m, <<>>) = <<>>
<1>1. [i \in DOMAIN <<>> |-> m[<<>>[i]]] = <<>>
  OBVIOUS
<1> QED BY <1>1, FlatEmpty DEF Through

LEMMA ThroughOne ==
  ASSUME NEW T, NEW U, NEW m, Maps(m, T, U), NEW x \in T
  PROVE  Through(m, <<x>>) = m[x]
<1> DEFINE s == m[x]
<1>1. [i \in DOMAIN <<x>> |-> m[<<x>>[i]]] = Append(<<>>, s)
  OBVIOUS
<1>2. s \in Seq(U) /\ <<>> \in Seq(Seq(U)) /\ <<>> \o s = s
  <2>1. s \in Seq(U)
    BY DEF Maps
  <2> HIDE DEF s
  <2> QED BY <2>1, ConcatEmptySeq
<1> HIDE DEF s
<1>3. FlattenSeq(Append(<<>>, s)) = FlattenSeq(<<>>) \o s
  BY <1>2, FlatAppend
<1>4. Through(m, <<x>>) = s
  BY <1>1, <1>2, <1>3, FlatEmpty DEF Through
<1> QED BY <1>4 DEF s

LEMMA ThroughConcat ==
  ASSUME NEW T, NEW U, NEW m, Maps(m, T, U), NEW a \in Seq(T), NEW b \in Seq(T)
  PROVE  Through(m, a \o b) = Through(m, a) \o Through(m, b)
<1> DEFINE M(t) == [i \in DOMAIN t |-> m[t[i]]]
           V == Seq(U)
<1>1. M(a) \in Seq(V) /\ M(b) \in Seq(V) /\ a \o b \in Seq(T)
  <2>1. a \o b \in Seq(T)
    BY ConcatProperties
  <2>2. M(a) \in Seq(V)
    BY ThroughMaps
  <2>3. M(b) \in Seq(V)
    BY ThroughMaps
  <2> QED BY <2>1, <2>2, <2>3
<1>2. M(a \o b) \in Seq(V)
  BY <1>1, ThroughMaps
<1>3. Len(M(a)) = Len(a) /\ Len(M(b)) = Len(b) /\ Len(M(a \o b)) = Len(a \o b)
  OBVIOUS
<1>4. \A i \in 1..Len(a) + Len(b) : M(a \o b)[i] = (M(a) \o M(b))[i]
  <2> TAKE i \in 1..Len(a) + Len(b)
  <2>1. M(a \o b)[i] = m[(a \o b)[i]]
    OBVIOUS
  <2>2. CASE i <= Len(a)
    <3>1. (a \o b)[i] = a[i] /\ i \in DOMAIN a
      BY <2>2
    <3>2. (M(a) \o M(b))[i] = M(a)[i]
      <4> HIDE DEF M, V
      <4> QED BY <1>1, <1>3, <2>2
    <3> QED BY <2>1, <3>1, <3>2
  <2>3. CASE i > Len(a)
    <3>1. (a \o b)[i] = b[i - Len(a)] /\ i - Len(a) \in DOMAIN b
      BY <2>3
    <3>2. (M(a) \o M(b))[i] = M(b)[i - Len(a)]
      <4> HIDE DEF M, V
      <4> QED BY <1>1, <1>3, <2>3
    <3>3. M(b)[i - Len(a)] = m[b[i - Len(a)]]
      BY <3>1
    <3> QED BY <2>1, <3>1, <3>2, <3>3
  <2> QED BY <2>2, <2>3
<1>5. M(a \o b) = M(a) \o M(b)
  <2> HIDE DEF M, V
  <2>1. Len(a \o b) = Len(a) + Len(b)
    BY ConcatProperties
  <2>2. M(a) \o M(b) \in Seq(V) /\ Len(M(a) \o M(b)) = Len(a) + Len(b)
    <3> DEFINE p == M(a)
               q == M(b)
    <3>1. p \in Seq(V) /\ q \in Seq(V) /\ Len(p) = Len(a) /\ Len(q) = Len(b)
      BY <1>1, <1>3
    <3> HIDE DEF p, q
    <3>2. p \o q \in Seq(V) /\ Len(p \o q) = Len(p) + Len(q)
      BY <3>1, ConcatProperties
    <3> QED BY <3>1, <3>2 DEF p, q
  <2> QED BY <1>1, <1>2, <1>3, <1>4, <2>1, <2>2, SeqEqual
<1>6. FlattenSeq(M(a) \o M(b)) = FlattenSeq(M(a)) \o FlattenSeq(M(b))
  <2>1. M(a) \in Seq(Seq(U)) /\ M(b) \in Seq(Seq(U))
    BY <1>1
  <2> HIDE DEF M, V
  <2> QED BY <2>1, FlatConcat
<1> QED BY <1>5, <1>6 DEF Through

LEMMA ThroughAppend ==
  ASSUME NEW T, NEW U, NEW m, Maps(m, T, U), NEW a \in Seq(T), NEW x \in T
  PROVE  Through(m, Append(a, x)) = Through(m, a) \o m[x]
<1>1. Append(a, x) = a \o <<x>> /\ <<x>> \in Seq(T)
  BY AppendIsConcat
<1>2. Through(m, a \o <<x>>) = Through(m, a) \o Through(m, <<x>>)
  <2> DEFINE b == <<x>>
  <2>1. b \in Seq(T)
    BY <1>1
  <2> HIDE DEF b
  <2>2. Through(m, a \o b) = Through(m, a) \o Through(m, b)
    BY <2>1, ThroughConcat
  <2> QED BY <2>2 DEF b
<1> QED BY <1>1, <1>2, ThroughOne

\* What m keeps nothing of leaves nothing.
LEMMA ThroughNone ==
  ASSUME NEW T, NEW U, NEW m, Maps(m, T, U), NEW t \in Seq(T),
         \A i \in DOMAIN t : m[t[i]] = <<>>
  PROVE  Through(m, t) = <<>>
<1> DEFINE B(n) == SubSeq(t, 1, n)
           S == {n \in 0..Len(t) : Through(m, B(n)) = <<>>}
<1>1. Len(t) \in Nat /\ 0 \in S
  <2>1. B(0) = <<>> /\ 0 \in 0..Len(t)
    OBVIOUS
  <2> HIDE DEF B
  <2> QED BY <2>1, ThroughEmpty
<1>2. ASSUME NEW n \in 0..Len(t), n \in S, n < Len(t) PROVE n + 1 \in S
  <2>1. B(n) \in Seq(T) /\ B(n + 1) = Append(B(n), t[n + 1]) /\ t[n + 1] \in T
    BY <1>2, FirstOnes
  <2>2. m[t[n + 1]] = <<>> /\ n + 1 \in 0..Len(t)
    BY <1>2
  <2> HIDE DEF B
  <2>3. Through(m, B(n + 1)) = Through(m, B(n)) \o m[t[n + 1]]
    <3> DEFINE b == B(n)
               x == t[n + 1]
    <3>1. b \in Seq(T) /\ B(n + 1) = Append(b, x) /\ x \in T
      BY <2>1
    <3> HIDE DEF b, x
    <3>2. Through(m, Append(b, x)) = Through(m, b) \o m[x]
      BY <3>1, ThroughAppend
    <3> QED BY <3>1, <3>2 DEF b, x
  <2> QED BY <1>2, <2>2, <2>3
<1>3. Len(t) \in S
  <2> HIDE DEF S
  <2>1. 0..Len(t) \subseteq S
    BY <1>1, <1>2, Counting
  <2> QED BY <1>1, <2>1
<1>4. B(Len(t)) = t
  BY SubSeqFull
<1> QED
  <2> HIDE DEF B
  <2> QED BY <1>3, <1>4

\* What m makes one element of each of.
LEMMA ThroughEach ==
  ASSUME NEW T, NEW U, NEW m, Maps(m, T, U), NEW t \in Seq(T), NEW s \in Seq(U),
         Len(s) = Len(t), \A i \in DOMAIN t : m[t[i]] = <<s[i]>>
  PROVE  Through(m, t) = s
<1> DEFINE B(n) == SubSeq(t, 1, n)
           C(n) == SubSeq(s, 1, n)
           S == {n \in 0..Len(t) : Through(m, B(n)) = C(n)}
<1>1. Len(t) \in Nat /\ 0 \in S
  <2>1. B(0) = <<>> /\ C(0) = <<>> /\ 0 \in 0..Len(t)
    OBVIOUS
  <2> HIDE DEF B, C
  <2> QED BY <2>1, ThroughEmpty
<1>2. ASSUME NEW n \in 0..Len(t), n \in S, n < Len(t) PROVE n + 1 \in S
  <2>1. B(n) \in Seq(T) /\ B(n + 1) = Append(B(n), t[n + 1]) /\ t[n + 1] \in T
    BY <1>2, FirstOnes
  <2>2. C(n) \in Seq(U) /\ C(n + 1) = Append(C(n), s[n + 1]) /\ s[n + 1] \in U
    BY <1>2, FirstOnes
  <2>3. m[t[n + 1]] = <<s[n + 1]>> /\ n + 1 \in 0..Len(t)
    <3>1. n + 1 \in DOMAIN t
      BY <1>2
    <3> QED BY <3>1
  <2> HIDE DEF B, C
  <2>4. Through(m, B(n + 1)) = Through(m, B(n)) \o m[t[n + 1]]
    <3> DEFINE b == B(n)
               x == t[n + 1]
    <3>1. b \in Seq(T) /\ B(n + 1) = Append(b, x) /\ x \in T
      BY <2>1
    <3> HIDE DEF b, x
    <3>2. Through(m, Append(b, x)) = Through(m, b) \o m[x]
      BY <3>1, ThroughAppend
    <3> QED BY <3>1, <3>2 DEF b, x
  <2>5. Append(C(n), s[n + 1]) = C(n) \o <<s[n + 1]>>
    BY <2>2, AppendIsConcat
  <2> QED BY <1>2, <2>2, <2>3, <2>4, <2>5
<1>3. Len(t) \in S
  <2> HIDE DEF S
  <2>1. 0..Len(t) \subseteq S
    BY <1>1, <1>2, Counting
  <2> QED BY <1>1, <2>1
<1>4. B(Len(t)) = t /\ C(Len(s)) = s
  BY SubSeqFull
<1> QED
  <2> HIDE DEF B, C
  <2> QED BY <1>3, <1>4

\* What k keeps is all that m needs.
LEMMA ThroughTwo ==
  ASSUME NEW T, NEW U, NEW m, NEW k, NEW t \in Seq(T), Maps(m, T, U), Maps(k, T, T),
         \A x \in T : k[x] = <<x>> \/ (k[x] = <<>> /\ m[x] = <<>>)
  PROVE  Through(m, Through(k, t)) = Through(m, t)
<1> DEFINE B(n) == SubSeq(t, 1, n)
           S == {n \in 0..Len(t) : Through(m, Through(k, B(n))) = Through(m, B(n))}
<1>1. Len(t) \in Nat /\ 0 \in S
  <2>1. B(0) = <<>> /\ 0 \in 0..Len(t)
    OBVIOUS
  <2> HIDE DEF B
  <2> QED BY <2>1, ThroughEmpty
<1>2. ASSUME NEW n \in 0..Len(t), n \in S, n < Len(t) PROVE n + 1 \in S
  <2>1. B(n) \in Seq(T) /\ B(n + 1) = Append(B(n), t[n + 1]) /\ t[n + 1] \in T
    BY <1>2, FirstOnes
  <2> DEFINE x == t[n + 1]
             b == B(n)
             c == Through(k, b)
  <2>2. n + 1 \in 0..Len(t) /\ x \in T
    BY <1>2, <2>1
  <2>0. b \in Seq(T) /\ B(n + 1) = Append(b, x)
    BY <2>1
  <2> HIDE DEF B, x, b
  <2>3. Through(m, B(n + 1)) = Through(m, B(n)) \o m[x]
    <3>1. Through(m, Append(b, x)) = Through(m, b) \o m[x]
      BY <2>0, <2>2, ThroughAppend
    <3> QED BY <3>1, <2>0 DEF b
  <2>4. Through(k, B(n + 1)) = Through(k, B(n)) \o k[x]
    <3>1. Through(k, Append(b, x)) = Through(k, b) \o k[x]
      BY <2>0, <2>2, ThroughAppend
    <3> QED BY <3>1, <2>0 DEF b
  <2>5. Through(k, B(n)) \in Seq(T) /\ Through(m, B(n)) \in Seq(U)
    <3>1. Through(k, b) \in Seq(T)
      BY <2>0, ThroughType
    <3>2. Through(m, b) \in Seq(U)
      BY <2>0, ThroughType
    <3> QED BY <3>1, <3>2 DEF b
  <2>6. CASE k[x] = <<x>>
    <3>1. Through(k, B(n + 1)) = Append(Through(k, B(n)), x)
      BY <2>2, <2>4, <2>5, <2>6, AppendIsConcat
    <3>2. Through(m, Append(Through(k, B(n)), x)) = Through(m, Through(k, B(n))) \o m[x]
      <4>1. c \in Seq(T)
        BY <2>5 DEF b
      <4> HIDE DEF c
      <4>2. Through(m, Append(c, x)) = Through(m, c) \o m[x]
        BY <2>2, <4>1, ThroughAppend
      <4> QED BY <4>2 DEF b, c
    <3> QED BY <1>2, <2>2, <2>3, <3>1, <3>2
  <2>7. CASE k[x] = <<>> /\ m[x] = <<>>
    <3>1. Through(k, B(n + 1)) = Through(k, B(n)) /\ Through(m, B(n + 1)) = Through(m, B(n))
      BY <2>3, <2>4, <2>5, <2>7, ConcatEmptySeq
    <3> QED BY <1>2, <2>2, <3>1
  <2> QED BY <2>2, <2>6, <2>7
<1>3. Len(t) \in S
  <2> HIDE DEF S, B
  <2>1. 0..Len(t) \subseteq S
    BY <1>1, <1>2, Counting
  <2>2. Len(t) \in 0..Len(t)
    BY <1>1
  <2> QED BY <2>1, <2>2
<1>4. B(Len(t)) = t
  BY SubSeqFull
<1> QED
  <2> HIDE DEF B
  <2> QED BY <1>3, <1>4

-----------------------------------------------------------------------------
(* What a text says, and where *)

Sayings == {l \in Lines : Significant(l)}
Keep == [l \in Lines |-> If(Significant(l), <<l>>)]

LEMMA KeepMaps == Maps(Keep, Lines, Lines) /\ Maps(Keep, Lines, Sayings)
<1>1. \A l \in Lines : If(Significant(l), <<l>>) \in Seq(Lines)
  BY DEF If
<1>2. \A l \in Lines : If(Significant(l), <<l>>) \in Seq(Sayings)
  <2> TAKE l \in Lines
  <2>1. CASE Significant(l)
    <3>1. l \in Sayings
      BY <2>1 DEF Sayings
    <3> HIDE DEF Sayings
    <3> QED BY <2>1, <3>1 DEF If
  <2>2. CASE ~Significant(l)
    BY <2>2 DEF If
  <2> QED BY <2>1, <2>2
<1> QED BY <1>1, <1>2 DEF Maps, Keep

LEMMA SaidThrough ==
  ASSUME NEW t \in Seq(Lines) PROVE Said(t) = Through(Keep, t)
<1>1. \A i \in DOMAIN t : Keep[t[i]] = If(Significant(t[i]), <<t[i]>>)
  <2> TAKE i \in DOMAIN t
  <2>1. t[i] \in Lines
    OBVIOUS
  <2> QED BY <2>1 DEF Keep
<1>2. [i \in DOMAIN t |-> Keep[t[i]]] = [i \in DOMAIN t |-> If(Significant(t[i]), <<t[i]>>)]
  BY <1>1
<1> QED BY <1>2 DEF Said, Through

LEMMA SaidType ==
  ASSUME NEW t \in Seq(Lines)
  PROVE  Said(t) \in Seq(Lines) /\ Said(t) \in Seq(Sayings)
<1>1. Through(Keep, t) \in Seq(Lines)
  BY KeepMaps, ThroughType
<1>2. Through(Keep, t) \in Seq(Sayings)
  BY KeepMaps, ThroughType
<1> QED BY <1>1, <1>2, SaidThrough

LEMMA SaidNothing == Said(<<>>) = <<>>
<1>1. <<>> \in Seq(Lines)
  OBVIOUS
<1> QED BY <1>1, SaidThrough, ThroughEmpty

LEMMA SaidConcat ==
  ASSUME NEW a \in Seq(Lines), NEW b \in Seq(Lines)
  PROVE  Said(a \o b) = Said(a) \o Said(b)
<1>1. Through(Keep, a \o b) = Through(Keep, a) \o Through(Keep, b)
  BY KeepMaps, ThroughConcat
<1>2. a \o b \in Seq(Lines)
  BY ConcatProperties
<1> QED BY <1>1, <1>2, SaidThrough

LEMMA SaidOne ==
  ASSUME NEW l \in Lines
  PROVE  Said(<<l>>) = IF Significant(l) THEN <<l>> ELSE <<>>
<1>1. Through(Keep, <<l>>) = Keep[l]
  BY KeepMaps, ThroughOne
<1>2. <<l>> \in Seq(Lines)
  OBVIOUS
<1> QED BY <1>1, <1>2, SaidThrough DEF Keep, If

LEMMA SaidSelf ==
  ASSUME NEW t \in Seq(Sayings) PROVE Said(t) = t /\ t \in Seq(Lines)
<1>1. Sayings \subseteq Lines
  BY DEF Sayings
<1>2. t \in Seq(Lines)
  BY <1>1, SeqMonotonic
<1>3. \A i \in DOMAIN t : Keep[t[i]] = <<t[i]>>
  <2> TAKE i \in DOMAIN t
  <2>1. t[i] \in Sayings
    <3> HIDE DEF Sayings
    <3> QED OBVIOUS
  <2>2. t[i] \in Lines /\ Significant(t[i])
    BY <2>1 DEF Sayings
  <2> QED BY <2>2 DEF Keep, If
<1>4. Through(Keep, t) = t
  BY <1>2, <1>3, KeepMaps, ThroughEach
<1> QED BY <1>2, <1>4, SaidThrough

\* Where a line stands among the lines that say something.
Rank(t, b) == Len(Said(SubSeq(t, 1, b - 1))) + 1

\* A text in three.
LEMMA InThree ==
  ASSUME NEW T, NEW t \in Seq(T), NEW a \in 1..Len(t) + 1, NEW b \in 1..Len(t) + 1, a <= b
  PROVE  /\ SubSeq(t, 1, a - 1) \in Seq(T) /\ SubSeq(t, a, b - 1) \in Seq(T)
         /\ SubSeq(t, b, Len(t)) \in Seq(T)
         /\ SubSeq(t, 1, b - 1) = SubSeq(t, 1, a - 1) \o SubSeq(t, a, b - 1)
         /\ t = SubSeq(t, 1, b - 1) \o SubSeq(t, b, Len(t))
         /\ Len(SubSeq(t, 1, a - 1)) = a - 1 /\ Len(SubSeq(t, a, b - 1)) = b - a
         /\ Len(SubSeq(t, b, Len(t))) = Len(t) + 1 - b
<1> DEFINE x == SubSeq(t, 1, a - 1)
           y == SubSeq(t, a, b - 1)
           z == SubSeq(t, b, Len(t))
           w == SubSeq(t, 1, b - 1)
<1>1. /\ x \in Seq(T) /\ y \in Seq(T) /\ z \in Seq(T) /\ w \in Seq(T) /\ Len(t) \in Nat
      /\ Len(x) = a - 1 /\ Len(y) = b - a /\ Len(z) = Len(t) + 1 - b /\ Len(w) = b - 1
  OBVIOUS
<1>2. /\ \A i \in 1..a - 1 : x[i] = t[i]
      /\ \A i \in 1..b - a : y[i] = t[a - 1 + i]
      /\ \A i \in 1..Len(t) + 1 - b : z[i] = t[b - 1 + i]
      /\ \A i \in 1..b - 1 : w[i] = t[i]
  OBVIOUS
<1> HIDE DEF x, y, z, w
<1>3. w = x \o y
  <2>1. x \o y \in Seq(T) /\ Len(x \o y) = b - 1
    <3>1. x \o y \in Seq(T) /\ Len(x \o y) = Len(x) + Len(y)
      BY <1>1, ConcatProperties
    <3> QED BY <1>1, <3>1
  <2>2. \A i \in 1..b - 1 : w[i] = (x \o y)[i]
    BY SMTT(40), <1>1, <1>2
  <2> QED BY <1>1, <2>1, <2>2, SeqEqual
<1>4. t = w \o z
  <2>1. w \o z \in Seq(T) /\ Len(w \o z) = Len(t)
    <3>1. w \o z \in Seq(T) /\ Len(w \o z) = Len(w) + Len(z)
      BY <1>1, ConcatProperties
    <3> QED BY <1>1, <3>1
  <2>2. \A i \in 1..Len(t) : t[i] = (w \o z)[i]
    <3> TAKE i \in 1..Len(t)
    <3>0. i <= b - 1 \/ i > b - 1
      BY <1>1
    <3>1. CASE i <= b - 1
      <4>1. (w \o z)[i] = w[i] /\ i \in 1..b - 1
        BY <1>1, <3>1
      <4> QED BY <4>1, <1>2
    <3>2. CASE i > b - 1
      <4> DEFINE c == i - (b - 1)
      <4>1. (w \o z)[i] = z[c] /\ c \in 1..Len(t) + 1 - b /\ b - 1 + c = i
        BY <1>1, <3>2
      <4> QED BY <4>1, <1>2
    <3> QED BY <3>0, <3>1, <3>2
  <2> QED BY <1>1, <2>1, <2>2, SeqEqual
<1> QED BY <1>1, <1>3, <1>4 DEF x, y, z, w

LEMMA Middle ==
  ASSUME NEW T, NEW x \in Seq(T), NEW y \in Seq(T), NEW z \in Seq(T)
  PROVE  /\ SubSeq((x \o y) \o z, Len(x) + 1, Len(x) + Len(y)) = y
         /\ SubSeq((x \o y) \o z, 1, Len(x)) = x
         /\ SubSeq((x \o y) \o z, Len(x) + Len(y) + 1, Len(x) + Len(y) + Len(z)) = z
         /\ Len((x \o y) \o z) = Len(x) + Len(y) + Len(z)
         /\ (x \o y) \o z \in Seq(T)
OBVIOUS

\* Ranks only grow, and what stands between two lines says what stands between
\* their ranks.
LEMMA Cuts ==
  ASSUME NEW t \in Seq(Lines), NEW a \in 1..Len(t) + 1, NEW b \in 1..Len(t) + 1, a <= b
  PROVE  /\ Rank(t, a) \in Nat /\ Rank(t, b) \in Nat
         /\ 1 <= Rank(t, a) /\ Rank(t, a) <= Rank(t, b) /\ Rank(t, b) <= Len(Said(t)) + 1
         /\ Said(SubSeq(t, a, b - 1)) = SubSeq(Said(t), Rank(t, a), Rank(t, b) - 1)
         /\ Said(SubSeq(t, 1, a - 1)) = SubSeq(Said(t), 1, Rank(t, a) - 1)
         /\ Said(SubSeq(t, b, Len(t))) = SubSeq(Said(t), Rank(t, b), Len(Said(t)))
<1> DEFINE x == SubSeq(t, 1, a - 1)
           y == SubSeq(t, a, b - 1)
           z == SubSeq(t, b, Len(t))
           w == SubSeq(t, 1, b - 1)
<1>1. x \in Seq(Lines) /\ y \in Seq(Lines) /\ z \in Seq(Lines)
      /\ w = x \o y /\ t = w \o z /\ w \in Seq(Lines)
  <2>1. x \in Seq(Lines) /\ y \in Seq(Lines) /\ z \in Seq(Lines) /\ w = x \o y /\ t = w \o z
    BY InThree
  <2> HIDE DEF x, y, z, w
  <2>2. x \o y \in Seq(Lines)
    BY <2>1, ConcatProperties
  <2> QED BY <2>1, <2>2
<1> HIDE DEF x, y, z, w
<1>2. Said(w) = Said(x) \o Said(y) /\ Said(t) = Said(w) \o Said(z)
  BY <1>1, SaidConcat
<1> DEFINE p == Said(x)
           q == Said(y)
           r == Said(z)
<1>3. p \in Seq(Lines) /\ q \in Seq(Lines) /\ r \in Seq(Lines)
  BY <1>1, SaidType
<1>4. Said(t) = (p \o q) \o r /\ Rank(t, a) = Len(p) + 1 /\ Rank(t, b) = Len(p \o q) + 1
  BY <1>2 DEF Rank, x, w
<1> HIDE DEF p, q, r
<1>5. Len(p) \in Nat /\ Len(q) \in Nat /\ Len(r) \in Nat /\ Len(p \o q) = Len(p) + Len(q)
  BY <1>3
<1> DEFINE s == Said(t)
<1>6. /\ SubSeq(s, Len(p) + 1, Len(p) + Len(q)) = q
      /\ SubSeq(s, 1, Len(p)) = p
      /\ SubSeq(s, Len(p) + Len(q) + 1, Len(p) + Len(q) + Len(r)) = r
      /\ Len(s) = Len(p) + Len(q) + Len(r)
  <2>1. s = (p \o q) \o r
    BY <1>4
  <2> HIDE DEF s
  <2>2. /\ SubSeq((p \o q) \o r, Len(p) + 1, Len(p) + Len(q)) = q
        /\ SubSeq((p \o q) \o r, 1, Len(p)) = p
        /\ SubSeq((p \o q) \o r, Len(p) + Len(q) + 1, Len(p) + Len(q) + Len(r)) = r
        /\ Len((p \o q) \o r) = Len(p) + Len(q) + Len(r)
    <3>1. SubSeq((p \o q) \o r, Len(p) + 1, Len(p) + Len(q)) = q
      BY <1>3, Middle
    <3>2. SubSeq((p \o q) \o r, 1, Len(p)) = p
      BY <1>3, Middle
    <3>3. SubSeq((p \o q) \o r, Len(p) + Len(q) + 1, Len(p) + Len(q) + Len(r)) = r
      BY <1>3, Middle
    <3>4. Len((p \o q) \o r) = Len(p) + Len(q) + Len(r)
      BY <1>3, Middle
    <3> QED BY <3>1, <3>2, <3>3, <3>4
  <2> QED BY <2>1, <2>2
<1> HIDE DEF s
<1>7. Rank(t, b) = Len(p) + Len(q) + 1 /\ Rank(t, a) = Len(p) + 1
  BY <1>4, <1>5
<1>8. Rank(t, b) - 1 = Len(p) + Len(q) /\ Rank(t, a) - 1 = Len(p)
  BY <1>5, <1>7
<1>9. /\ SubSeq(s, Rank(t, a), Rank(t, b) - 1) = q
      /\ SubSeq(s, 1, Rank(t, a) - 1) = p
      /\ SubSeq(s, Rank(t, b), Len(s)) = r
  BY <1>6, <1>7, <1>8
<1>10. /\ Rank(t, a) \in Nat /\ Rank(t, b) \in Nat
       /\ 1 <= Rank(t, a) /\ Rank(t, a) <= Rank(t, b) /\ Rank(t, b) <= Len(s) + 1
  BY <1>5, <1>6, <1>7
<1> QED BY <1>9, <1>10 DEF s, p, q, r, x, y, z

LEMMA RankEnds ==
  ASSUME NEW t \in Seq(Lines)
  PROVE  Rank(t, 1) = 1 /\ Rank(t, Len(t) + 1) = Len(Said(t)) + 1
<1>1. SubSeq(t, 1, 1 - 1) = <<>> /\ Len(t) \in Nat
  OBVIOUS
<1>2. (Len(t) + 1) - 1 = Len(t) /\ SubSeq(t, 1, Len(t)) = t
  BY <1>1, SubSeqFull
<1>3. Rank(t, 1) = 1
  <2>1. Len(<<>>) = 0
    OBVIOUS
  <2>2. Len(Said(SubSeq(t, 1, 1 - 1))) = 0
    BY <2>1, <1>1, SaidNothing
  <2> QED BY <2>2 DEF Rank
<1>4. Rank(t, Len(t) + 1) = Len(Said(t)) + 1
  BY <1>2 DEF Rank
<1> QED BY <1>3, <1>4

\* The next line's rank.
LEMMA RankNext ==
  ASSUME NEW t \in Seq(Lines), NEW b \in DOMAIN t
  PROVE  /\ Rank(t, b + 1) = Rank(t, b) + (IF Significant(t[b]) THEN 1 ELSE 0)
         /\ Significant(t[b]) => /\ Rank(t, b) \in DOMAIN Said(t)
                                 /\ Said(t)[Rank(t, b)] = t[b]
<1>1. b \in 1..Len(t) + 1 /\ b + 1 \in 1..Len(t) + 1 /\ (b + 1) - 1 = b /\ b <= b + 1 /\ Len(t) \in Nat
  OBVIOUS
<1> DEFINE x == SubSeq(t, 1, b - 1)
           l == t[b]
           s == Said(t)
           n == Rank(t, b)
           m == Rank(t, b + 1)
<1>2. l \in Lines /\ SubSeq(t, b, b) = <<l>>
  <2>1. l \in Lines
    OBVIOUS
  <2>2. SubSeq(t, b, b) \in Seq(Lines) /\ Len(SubSeq(t, b, b)) = 1 /\ SubSeq(t, b, b)[1] = l
    BY <1>1
  <2>3. <<l>> \in Seq(Lines) /\ Len(<<l>>) = 1 /\ <<l>>[1] = l
    BY <2>1
  <2>4. \A i \in 1..1 : i = 1
    OBVIOUS
  <2> DEFINE u == SubSeq(t, b, b)
             v == <<l>>
  <2>5. u \in Seq(Lines) /\ v \in Seq(Lines) /\ Len(u) = 1 /\ Len(v) = 1 /\ u[1] = v[1]
    BY <2>2, <2>3
  <2> HIDE DEF l, u, v
  <2>6. u = v
    BY <2>4, <2>5, SeqEqual
  <2> QED BY <2>1, <2>6 DEF u, v
<1>3. /\ n \in Nat /\ m \in Nat /\ 1 <= n /\ n <= m /\ m <= Len(s) + 1
      /\ Said(<<l>>) = SubSeq(s, n, m - 1)
  <2> DEFINE c == b + 1
  <2>1. c \in 1..Len(t) + 1 /\ b <= c /\ c - 1 = b
    BY <1>1
  <2> HIDE DEF c
  <2>2. /\ Rank(t, b) \in Nat /\ Rank(t, c) \in Nat
        /\ 1 <= Rank(t, b) /\ Rank(t, b) <= Rank(t, c) /\ Rank(t, c) <= Len(Said(t)) + 1
        /\ Said(SubSeq(t, b, c - 1)) = SubSeq(Said(t), Rank(t, b), Rank(t, c) - 1)
    BY <1>1, <2>1, Cuts
  <2> QED BY <1>2, <2>1, <2>2 DEF c
<1>4. s \in Seq(Lines)
  BY SaidType
<1>5. Said(<<l>>) = IF Significant(l) THEN <<l>> ELSE <<>>
  BY <1>2, SaidOne
<1> HIDE DEF s, n, m, l
<1>6. Len(SubSeq(s, n, m - 1)) = m - n /\ (n < m => SubSeq(s, n, m - 1)[1] = s[n])
  BY <1>3, <1>4
<1>7. CASE Significant(l)
  <2>1. SubSeq(s, n, m - 1) = <<l>>
    BY <1>3, <1>5, <1>7
  <2>2. m - n = 1
    BY <2>1, <1>6
  <2>3. s[n] = l /\ m = n + 1 /\ n \in DOMAIN s
    <3>1. n < m /\ m = n + 1
      BY <2>2, <1>3
    <3>2. SubSeq(s, n, m - 1)[1] = l
      <4>1. <<l>>[1] = l
        OBVIOUS
      <4> QED BY <4>1, <2>1
    <3>3. n \in 1..Len(s)
      BY <3>1, <1>3, <1>4
    <3> QED BY <3>1, <3>2, <3>3, <1>4, <1>6
  <2> QED BY <2>3, <1>7 DEF s, n, m, l
<1>8. CASE ~Significant(l)
  <2>1. m - n = 0
    BY <1>3, <1>5, <1>6, <1>8
  <2> QED BY <2>1, <1>3, <1>8 DEF s, n, m, l
<1> QED BY <1>7, <1>8

\* A line that says something is before whatever comes after it.
LEMMA RankLess ==
  ASSUME NEW t \in Seq(Lines), NEW a \in DOMAIN t, NEW b \in 1..Len(t) + 1, a < b,
         Significant(t[a])
  PROVE  Rank(t, a) < Rank(t, b)
<1> DEFINE c == a + 1
<1>1. c \in 1..Len(t) + 1 /\ a \in 1..Len(t) + 1 /\ c <= b
  OBVIOUS
<1>2. Rank(t, c) = Rank(t, a) + 1
  BY RankNext
<1> HIDE DEF c
<1>3. Rank(t, c) <= Rank(t, b) /\ Rank(t, a) \in Nat /\ Rank(t, b) \in Nat
  BY <1>1, Cuts
<1>4. Rank(t, a) \in Nat
  BY <1>1, Cuts
<1> QED BY <1>2, <1>3, <1>4

\* Every line of what is said stands somewhere.
LEMMA Spots ==
  ASSUME NEW t \in Seq(Lines), NEW k \in DOMAIN Said(t)
  PROVE  \E b \in DOMAIN t : Significant(t[b]) /\ Rank(t, b) = k
<1> DEFINE B == {b \in 1..Len(t) + 1 : Rank(t, b) > k}
<1>1. Said(t) \in Seq(Lines) /\ Len(t) \in Nat
  BY SaidType
<1>2. k \in 1..Len(Said(t)) /\ Len(Said(t)) \in Nat
  BY <1>1
<1>3. Len(t) + 1 \in B
  BY <1>1, <1>2, RankEnds
<1>4. PICK b \in B : \A y \in B : b <= y
  <2> HIDE DEF B
  <2>1. B \subseteq Nat
    BY <1>1 DEF B
  <2> QED BY <2>1, <1>3, LeastOf
<1>5. b # 1
  BY <1>2, <1>4, RankEnds
<1> DEFINE a == b - 1
<1>6. a \in DOMAIN t /\ a \in 1..Len(t) + 1 /\ a + 1 = b /\ a \notin B
  BY <1>1, <1>4, <1>5
<1> HIDE DEF a
<1>7. Rank(t, b) = Rank(t, a) + (IF Significant(t[a]) THEN 1 ELSE 0)
  BY <1>6, RankNext
<1>8. Rank(t, a) \in Nat /\ Rank(t, a) <= k /\ Rank(t, b) > k
  <2>1. Rank(t, a) \in Nat
    BY <1>6, Cuts
  <2> QED BY <2>1, <1>2, <1>4, <1>6
<1>9. Significant(t[a]) /\ Rank(t, a) = k
  BY <1>2, <1>7, <1>8
<1> QED BY <1>6, <1>9

-----------------------------------------------------------------------------
(* Scans by indentation *)

\* A comment or a marker.
Remark(l) == ~Significant(l) /\ l.key # ""

\* What a text says first is no deeper than d.
Leads(t, d) == Said(t) # <<>> => Said(t)[1].depth <= d

\* No remark is shallower than what follows it.
Tidy(t) == \A j \in DOMAIN t : Remark(t[j]) => Leads(SubSeq(t, j, Len(t)), t[j].depth)

\* A line that a scan for indentation d ends at.
Bars(l, d) == l.key # "" /\ l.depth <= d

\* A scan for indentation d ends at line b.
EndsAt(t, b, d) == b = Len(t) + 1 \/ Bars(t[b], d)

LEMMA LineDepth ==
  ASSUME NEW l \in Lines PROVE l.depth \in Nat /\ l.depth \in Int /\ l.depth \in Depths
<1>1. l.depth \in Depths
  BY DEF Lines
<1>2. \A d \in Depths : d \in Nat
  BY DEF Depths
<1> QED BY <1>1, <1>2

LEMMA RankOrder ==
  ASSUME NEW t \in Seq(Lines), NEW a \in 1..Len(t) + 1, NEW b \in 1..Len(t) + 1,
         Rank(t, a) < Rank(t, b)
  PROVE  a < b
<1> SUFFICES ASSUME b <= a PROVE FALSE
  OBVIOUS
<1>1. Rank(t, b) <= Rank(t, a) /\ Rank(t, a) \in Nat /\ Rank(t, b) \in Nat
  BY Cuts
<1> QED BY <1>1

LEMMA RankOne ==
  ASSUME NEW t \in Seq(Lines), NEW a \in DOMAIN t, NEW b \in DOMAIN t,
         Significant(t[a]), Significant(t[b]), Rank(t, a) = Rank(t, b)
  PROVE  a = b
<1>1. a \in 1..Len(t) + 1 /\ b \in 1..Len(t) + 1 /\ a \in Nat /\ b \in Nat
  OBVIOUS
<1>2. Rank(t, a) \in Nat
  BY <1>1, Cuts
<1>3. CASE a < b
  <2>1. Rank(t, a) < Rank(t, b)
    BY <1>1, <1>3, RankLess
  <2> QED BY <2>1, <1>2
<1>4. CASE b < a
  <2>1. Rank(t, b) < Rank(t, a)
    BY <1>1, <1>4, RankLess
  <2> QED BY <2>1, <1>2
<1> QED BY <1>1, <1>3, <1>4

\* What is said from line b on begins with the line of its rank.
LEMMA SaidFrom ==
  ASSUME NEW t \in Seq(Lines), NEW b \in 1..Len(t) + 1
  PROVE  /\ Said(SubSeq(t, b, Len(t))) = <<>> <=> Rank(t, b) = Len(Said(t)) + 1
         /\ Rank(t, b) # Len(Said(t)) + 1 =>
              /\ Rank(t, b) \in DOMAIN Said(t)
              /\ Said(SubSeq(t, b, Len(t)))[1] = Said(t)[Rank(t, b)]
<1> DEFINE s == Said(t)
           n == Rank(t, b)
<1>1. n \in Nat /\ 1 <= n /\ n <= Len(s) + 1
      /\ Said(SubSeq(t, b, Len(t))) = SubSeq(s, n, Len(s))
  BY Cuts
<1>2. s \in Seq(Lines) /\ Len(s) \in Nat
  BY SaidType
<1> HIDE DEF s, n
<1>3. Len(SubSeq(s, n, Len(s))) = Len(s) + 1 - n
  BY <1>1, <1>2
<1>4. CASE n = Len(s) + 1
  <2>1. SubSeq(s, n, Len(s)) = <<>>
    BY <1>1, <1>2, <1>4
  <2> QED BY <2>1, <1>1, <1>4 DEF s, n
<1>5. CASE n # Len(s) + 1
  <2>1. Len(SubSeq(s, n, Len(s))) # 0 /\ SubSeq(s, n, Len(s))[1] = s[n] /\ n \in DOMAIN s
    BY <1>1, <1>2, <1>3, <1>5
  <2>2. SubSeq(s, n, Len(s)) # <<>>
    BY <2>1
  <2> QED BY <2>1, <2>2, <1>1, <1>5 DEF s, n
<1> QED BY <1>4, <1>5

\* Where a scan ends: nothing it passes is as shallow as d.
LEMMA BlockEndIs ==
  ASSUME NEW t \in Seq(Lines), NEW s \in DOMAIN t, NEW lim \in s + 1..Len(t) + 1, NEW d \in Nat,
         EndsAt(t, lim, d)
  PROVE  /\ BlockEnd(t, s, lim, d) \in s + 1..lim
         /\ EndsAt(t, BlockEnd(t, s, lim, d), d)
         /\ \A j \in s + 1..BlockEnd(t, s, lim, d) - 1 : ~Bars(t[j], d)
<1> DEFINE T == {lim} \cup {j \in s + 1..lim - 1 : Bars(t[j], d)}
<1>1. BlockEnd(t, s, lim, d) = Min(T)
  BY DEF BlockEnd, Bars
<1>2. s \in Nat /\ lim \in Nat /\ s + 1 <= lim /\ lim <= Len(t) + 1 /\ Len(t) \in Nat
  <2>1. Len(t) \in Nat /\ s \in 1..Len(t)
    OBVIOUS
  <2> QED BY <2>1
<1>3. T \subseteq s + 1..lim
  BY <1>2
<1>4. Min(T) \in T /\ \A y \in T : Min(T) <= y
  <2>1. s + 1..lim \subseteq Nat
    BY <1>2
  <2>2. T # {}
    OBVIOUS
  <2> HIDE DEF T
  <2> QED BY <2>1, <2>2, <1>3, LeastOf
<1>5. PICK b \in s + 1..lim : b = Min(T)
  <2> HIDE DEF T
  <2> QED BY <1>3, <1>4
<1>6. b \in T /\ \A y \in T : b <= y
  BY <1>4, <1>5
<1>7. EndsAt(t, b, d)
  <2>1. CASE b = lim
    BY <2>1
  <2>2. CASE b # lim
    BY <1>6, <2>2 DEF EndsAt
  <2> QED BY <2>1, <2>2
<1>8. \A j \in s + 1..b - 1 : ~Bars(t[j], d)
  <2> SUFFICES ASSUME NEW j \in s + 1..b - 1, Bars(t[j], d) PROVE FALSE
    OBVIOUS
  <2>1. j \in s + 1..lim - 1 /\ ~(b <= j)
    BY <1>2
  <2>2. j \in T
    BY <2>1
  <2> HIDE DEF T
  <2> QED BY <1>6, <2>1, <2>2
<1> QED BY <1>1, <1>5, <1>7, <1>8

\* What follows the end of a scan is shallow.
LEMMA StopRank ==
  ASSUME NEW t \in Seq(Lines), Tidy(t), NEW b \in 1..Len(t) + 1, NEW d \in Nat, EndsAt(t, b, d)
  PROVE  \/ Rank(t, b) = Len(Said(t)) + 1
         \/ Rank(t, b) \in DOMAIN Said(t) /\ Said(t)[Rank(t, b)].depth <= d
<1>1. CASE b = Len(t) + 1
  BY <1>1, RankEnds
<1>2. CASE b # Len(t) + 1 /\ Significant(t[b])
  <2>1. b \in DOMAIN t /\ t[b].depth <= d
    <3>1. Len(t) \in Nat /\ DOMAIN t = 1..Len(t)
      OBVIOUS
    <3>2. b \in DOMAIN t
      BY <1>2, <3>1
    <3> QED BY <1>2, <3>2 DEF EndsAt, Bars
  <2> QED BY <1>2, <2>1, RankNext
<1>3. CASE b # Len(t) + 1 /\ ~Significant(t[b])
  <2>1. b \in DOMAIN t /\ t[b].depth <= d /\ Remark(t[b]) /\ t[b] \in Lines
    <3>1. Len(t) \in Nat /\ DOMAIN t = 1..Len(t)
      OBVIOUS
    <3>3. b \in DOMAIN t
      BY <1>3, <3>1
    <3>2. b \in DOMAIN t /\ t[b].depth <= d /\ Remark(t[b])
      BY <1>3, <3>3 DEF EndsAt, Remark, Bars
    <3> QED BY <3>2
  <2>2. Leads(SubSeq(t, b, Len(t)), t[b].depth)
    BY <2>1 DEF Tidy
  <2>3. CASE Rank(t, b) # Len(Said(t)) + 1
    <3>1. /\ Said(SubSeq(t, b, Len(t))) # <<>>
          /\ Rank(t, b) \in DOMAIN Said(t)
          /\ Said(SubSeq(t, b, Len(t)))[1] = Said(t)[Rank(t, b)]
      BY <2>3, SaidFrom
    <3>2. Said(t)[Rank(t, b)].depth <= t[b].depth
      BY <2>2, <3>1 DEF Leads
    <3>3. Said(t)[Rank(t, b)] \in Lines
      BY <3>1, SaidType
    <3>4. Said(t)[Rank(t, b)].depth \in Int /\ t[b].depth \in Int
      BY SMTT(40), <2>1, <3>3 DEF Lines, Depths
    <3> QED BY <2>1, <3>1, <3>2, <3>4
  <2> QED BY <2>3
<1> QED BY <1>1, <1>2, <1>3

\* A scan from a line that says something ends at the first line of what is said
\* that is no deeper than d, whatever remarks and blank lines there are.
LEMMA ScanIs ==
  ASSUME NEW t \in Seq(Lines), Tidy(t), NEW s \in DOMAIN t, Significant(t[s]),
         NEW lim \in s + 1..Len(t) + 1, NEW d \in Nat, EndsAt(t, lim, d),
         NEW k \in Rank(t, s) + 1..Len(Said(t)) + 1,
         \A n \in Rank(t, s) + 1..k - 1 : Said(t)[n].depth > d,
         k # Len(Said(t)) + 1 => Said(t)[k].depth <= d
  PROVE  /\ BlockEnd(t, s, lim, d) \in s + 1..lim
         /\ Rank(t, BlockEnd(t, s, lim, d)) = k
         /\ EndsAt(t, BlockEnd(t, s, lim, d), d)
         /\ \A j \in s + 1..BlockEnd(t, s, lim, d) - 1 : ~Bars(t[j], d)
<1>1. PICK b \in s + 1..lim : /\ b = BlockEnd(t, s, lim, d) /\ EndsAt(t, b, d)
                              /\ \A j \in s + 1..b - 1 : ~Bars(t[j], d)
  BY BlockEndIs
<1>2. b \in 1..Len(t) + 1 /\ s \in 1..Len(t) + 1 /\ s < b /\ Len(t) \in Nat
  <2>1. Len(t) \in Nat /\ s \in 1..Len(t)
    OBVIOUS
  <2> QED BY <2>1
<1>3. PICK S \in Seq(Lines) : S = Said(t)
  BY SaidType
<1>4. PICK r \in Nat, n \in Nat : r = Rank(t, s) /\ n = Rank(t, b) /\ r < n /\ n <= Len(S) + 1
  <2>1. Rank(t, s) < Rank(t, b)
    BY <1>2, RankLess
  <2>2. Rank(t, s) \in Nat /\ Rank(t, b) \in Nat /\ Rank(t, b) <= Len(Said(t)) + 1
    BY <1>2, Cuts
  <2> QED BY <1>3, <2>1, <2>2
<1>5. \/ n = Len(S) + 1
      \/ n \in DOMAIN S /\ S[n].depth <= d
  BY <1>1, <1>2, <1>3, <1>4, StopRank
<1>0. Len(S) \in Nat /\ k \in r + 1..Len(S) + 1
  BY <1>3, <1>4
<1>6. ASSUME n > k PROVE FALSE
  <2>1. k \in DOMAIN S /\ S[k].depth <= d
    BY <1>0, <1>3, <1>4, <1>6
  <2>2. PICK j \in DOMAIN t : Significant(t[j]) /\ Rank(t, j) = k
    BY <1>3, <2>1, Spots
  <2>3. j \in 1..Len(t) + 1
    BY <1>2
  <2>4. s < j /\ j < b
    <3>1. r < k /\ k < n
      BY <1>0, <1>4, <1>6
    <3> QED BY <3>1, <1>2, <1>4, <2>2, <2>3, RankOrder
  <2>5. S[k] = t[j]
    BY <1>3, <2>2, RankNext
  <2>6. Bars(t[j], d)
    BY <2>1, <2>2, <2>5 DEF Significant, Bars
  <2>7. j \in s + 1..b - 1
    BY <1>2, <2>3, <2>4
  <2> QED BY <1>1, <2>6, <2>7
<1>7. ASSUME n < k PROVE FALSE
  <2>1. n \in r + 1..k - 1 /\ n # Len(S) + 1
    BY SMTT(40), <1>0, <1>4, <1>7
  <2>2. S[n].depth > d /\ n \in DOMAIN S /\ S[n].depth <= d
    BY <1>3, <1>4, <1>5, <2>1
  <2>3. S[n] \in Lines
    BY <2>2
  <2>4. S[n].depth \in Int
    BY <2>3, LineDepth
  <2> QED BY <2>2, <2>4
<1>8. n = k
  BY <1>0, <1>6, <1>7
<1> QED BY <1>1, <1>4, <1>8

\* The first line of t that is one of L.
FirstIn(t, L) == LET I == {i \in 1..Len(t) : t[i] \in L} IN IF I # {} THEN Min(I) ELSE 0

LEMMA FirstInIs ==
  ASSUME NEW T, NEW t \in Seq(T), NEW L
  PROVE  \/ FirstIn(t, L) = 0 /\ \A i \in DOMAIN t : t[i] \notin L
         \/ /\ FirstIn(t, L) \in DOMAIN t /\ t[FirstIn(t, L)] \in L
            /\ \A i \in DOMAIN t : t[i] \in L => FirstIn(t, L) <= i
<1> DEFINE I == {i \in 1..Len(t) : t[i] \in L}
<1>1. FirstIn(t, L) = IF I # {} THEN Min(I) ELSE 0
  BY DEF FirstIn
<1>2. I \subseteq Nat /\ DOMAIN t = 1..Len(t)
  OBVIOUS
<1>3. CASE I = {}
  BY <1>1, <1>2, <1>3
<1>4. CASE I # {}
  <2>1. FirstIn(t, L) \in I /\ \A i \in I : FirstIn(t, L) <= i
    <3> HIDE DEF I
    <3> QED BY <1>1, <1>2, <1>4, LeastOf
  <2> QED BY <2>1, <1>2
<1> QED BY <1>3, <1>4

\* A line that is the only one of L in what a text says is found in the text.
LEMMA FirstSaid ==
  ASSUME NEW t \in Seq(Lines), NEW L, \A l \in Lines : l \in L => Significant(l)
  PROVE  \/ FirstIn(t, L) = 0 /\ FirstIn(Said(t), L) = 0
         \/ /\ FirstIn(t, L) \in DOMAIN t /\ FirstIn(Said(t), L) \in DOMAIN Said(t)
            /\ t[FirstIn(t, L)] \in L /\ Significant(t[FirstIn(t, L)])
            /\ Rank(t, FirstIn(t, L)) = FirstIn(Said(t), L)
            /\ Said(t)[FirstIn(Said(t), L)] = t[FirstIn(t, L)]
<1> DEFINE S == Said(t)
           i == FirstIn(t, L)
           k == FirstIn(S, L)
<1>1. S \in Seq(Lines) /\ DOMAIN S = 1..Len(S) /\ Len(S) \in Nat /\ DOMAIN t = 1..Len(t)
      /\ Len(t) \in Nat
  BY SaidType
<1>2. \/ i = 0 /\ \A j \in DOMAIN t : t[j] \notin L
      \/ i \in DOMAIN t /\ t[i] \in L /\ \A j \in DOMAIN t : t[j] \in L => i <= j
  BY FirstInIs
<1>3. \/ k = 0 /\ \A j \in DOMAIN S : S[j] \notin L
      \/ k \in DOMAIN S /\ S[k] \in L /\ \A j \in DOMAIN S : S[j] \in L => k <= j
  BY <1>1, FirstInIs
<1> HIDE DEF i, k
<1>4. ASSUME i # 0
      PROVE  i \in DOMAIN t /\ t[i] \in L /\ Significant(t[i]) /\ Rank(t, i) \in DOMAIN S /\ S[Rank(t, i)] = t[i]
  <2>1. i \in DOMAIN t /\ t[i] \in L /\ t[i] \in Lines
    BY <1>2, <1>4
  <2> QED BY <2>1, RankNext
<1>5. ASSUME k # 0
      PROVE  \E j \in DOMAIN t : t[j] \in L /\ Rank(t, j) = k /\ Significant(t[j]) /\ S[k] = t[j]
  <2>1. k \in DOMAIN S /\ S[k] \in L
    BY <1>3, <1>5
  <2>2. PICK j \in DOMAIN t : Significant(t[j]) /\ Rank(t, j) = k
    BY <2>1, Spots
  <2> QED BY <2>1, <2>2, RankNext
<1>6. CASE i = 0
  BY <1>2, <1>5, <1>6 DEF i, k
<1>7. CASE i # 0
  <2>1. k # 0 /\ k \in DOMAIN S /\ k <= Rank(t, i)
    BY <1>3, <1>4, <1>7, <1>1
  <2>2. PICK j \in DOMAIN t : t[j] \in L /\ Rank(t, j) = k /\ Significant(t[j]) /\ S[k] = t[j]
    BY <1>5, <2>1
  <2>3. i <= j
    BY <1>2, <1>4, <1>7, <2>2
  <2>4. Rank(t, i) <= Rank(t, j)
    <3>1. i \in 1..Len(t) + 1 /\ j \in 1..Len(t) + 1
      BY <1>1, <1>4, <1>7
    <3> QED BY <2>3, <3>1, Cuts
  <2>5. Rank(t, i) = k
    BY <2>1, <2>2, <2>4, <1>1, <1>4, <1>7
  <2> QED BY <1>4, <1>7, <2>1, <2>5 DEF i, k
<1> QED BY <1>6, <1>7

-----------------------------------------------------------------------------
(* Nested lists *)

\* A line that is deeper than an entry's own keys says something, and so does the
\* line before it: no remark and no blank line stands in a nested list, and none
\* with a colon anywhere.
Deep(l) == l.depth > 10 \/ l.key = "#:"
Nested(t) ==
  \A j \in DOMAIN t : Deep(t[j]) => j > 1 /\ Significant(t[j]) /\ Significant(t[j - 1])

LEMMA NotDeep ==
  ASSUME NEW l, l.depth \in {0, 2, 4, 6, 10}, Significant(l)
  PROVE  ~Deep(l)
<1>1. ~(l.depth > 10)
  OBVIOUS
<1>2. l.key # "#:"
  BY DEF Significant
<1> QED BY <1>1, <1>2 DEF Deep

\* Where what is said is deep, the lines of the text are those of what is said.
LEMMA RunIs ==
  ASSUME NEW t \in Seq(Lines), Nested(t), NEW i \in DOMAIN t, Significant(t[i]),
         NEW n \in Nat, Rank(t, i) + n <= Len(Said(t)),
         \A x \in 1..n : Deep(Said(t)[Rank(t, i) + x])
  PROVE  \A x \in 0..n : /\ i + x \in DOMAIN t /\ Significant(t[i + x])
                         /\ Rank(t, i + x) = Rank(t, i) + x
                         /\ t[i + x] = Said(t)[Rank(t, i) + x]
<1>1. PICK S \in Seq(Lines) : S = Said(t)
  BY SaidType
<1>2. i \in 1..Len(t) + 1 /\ Len(t) \in Nat /\ DOMAIN t = 1..Len(t)
  OBVIOUS
<1>3. PICK k \in Nat : k = Rank(t, i)
  BY <1>2, Cuts
<1> DEFINE Good(x) == i + x \in DOMAIN t /\ Significant(t[i + x]) /\ Rank(t, i + x) = k + x
                      /\ t[i + x] = S[k + x]
           G == {x \in 0..n : Good(x)}
<1>4. 0 \in G
  <2>1. i + 0 = i /\ k + 0 = k
    BY <1>2, <1>3
  <2>2. t[i] = S[k]
    BY <1>1, <1>3, RankNext
  <2> QED BY <2>1, <2>2, <1>3
<1>5. ASSUME NEW x \in 0..n, x \in G, x < n PROVE x + 1 \in G
  <2> DEFINE y == x + 1
             p == i + x
             r == k + x
  <2>1. y \in 1..n /\ y \in 0..n /\ k + y \in 1..Len(S) /\ Len(S) \in Nat
    BY <1>1, <1>3, <1>5
  <2>2. k + y \in DOMAIN S /\ Deep(S[k + y])
    BY <1>1, <1>3, <2>1
  <2>3. PICK j \in DOMAIN t : Significant(t[j]) /\ Rank(t, j) = k + y
    BY <1>1, <2>2, Spots
  <2>4. t[j] = S[k + y]
    BY <1>1, <2>3, RankNext
  <2>5. j > 1 /\ Significant(t[j - 1])
    BY <2>2, <2>3, <2>4 DEF Nested
  <2>6. PICK h \in DOMAIN t : h + 1 = j /\ Significant(t[h])
    <3>1. j - 1 \in DOMAIN t /\ (j - 1) + 1 = j
      BY <1>2, <2>5
    <3> QED BY <3>1, <2>5
  <2>7. Rank(t, h) \in Nat /\ Rank(t, h + 1) = Rank(t, h) + 1
    <3>1. h \in 1..Len(t) + 1
      BY <1>2
    <3> QED BY <3>1, <2>6, Cuts, RankNext
  <2>8. Rank(t, h) = r
    <3>1. PICK c \in Nat : c = Rank(t, h)
      BY <2>7
    <3>2. c + 1 = k + (x + 1)
      BY <2>3, <2>6, <2>7, <3>1
    <3> QED BY SMTT(40), <3>1, <3>2
  <2>9. p \in DOMAIN t /\ Significant(t[p]) /\ Rank(t, p) = r
    BY <1>5
  <2>10. h = p
    <3> HIDE DEF p, r
    <3> QED BY <2>6, <2>8, <2>9, RankOne
  <2>11. j = i + y
    BY <2>6, <2>10, <1>2
  <2> HIDE DEF y
  <2>12. Good(y)
    BY <2>3, <2>4, <2>11
  <2>13. y \in G
    BY <2>1, <2>12
  <2> QED BY <2>13 DEF y
<1> HIDE DEF G
<1>6. 0..n \subseteq G
  BY <1>4, <1>5, Counting
<1>7. \A x \in 0..n : Good(x)
  BY <1>6 DEF G
<1> QED BY <1>1, <1>3, <1>7

\* Of a line that says something the text has what follows it, too.
LEMMA UnderIs ==
  ASSUME NEW t \in Seq(Lines), NEW at \in DOMAIN t, NEW ends, NEW n \in Nat,
         at + n <= Len(t), \A x \in 1..n : at + x \notin ends,
         at + n = Len(t) \/ at + n + 1 \in ends, ends \subseteq DOMAIN t
  PROVE  Under(t, at, ends) = SubSeq(t, at + 1, at + n)
<1> DEFINE T == {Len(t) + 1} \cup {j \in ends : j > at}
<1>1. Len(t) \in Nat /\ at \in 1..Len(t) /\ DOMAIN t = 1..Len(t)
  OBVIOUS
<1>2. T \subseteq Nat /\ T # {}
  BY <1>1
<1>3. Min(T) \in T /\ \A y \in T : Min(T) <= y
  <2> HIDE DEF T
  <2> QED BY <1>2, LeastOf
<1>4. PICK m \in Nat : m = Min(T)
  <2> HIDE DEF T
  <2> QED BY <1>2, <1>3
<1>5. m \in T /\ \A y \in T : m <= y
  BY <1>3, <1>4
<1>6. m <= at + n + 1
  <2>1. CASE at + n = Len(t)
    <3>1. Len(t) + 1 \in T
      OBVIOUS
    <3> QED BY <3>1, <2>1, <1>5, <1>1
  <2>2. CASE at + n + 1 \in ends
    <3>1. at + n + 1 > at
      BY <1>1
    <3>2. at + n + 1 \in T
      BY <3>1, <2>2
    <3> QED BY <3>2, <1>5
  <2> QED BY <2>1, <2>2
<1>7. m > at + n
  <2>1. CASE m = Len(t) + 1
    BY <2>1, <1>1
  <2>2. CASE m \in ends /\ m > at
    <3>1. ASSUME m <= at + n PROVE FALSE
      <4>1. m - at \in 1..n /\ at + (m - at) = m
        BY <3>1, <2>2, <1>1
      <4> QED BY <4>1, <2>2
    <3> QED BY <3>1, <1>1
  <2> QED BY <2>1, <2>2, <1>5
<1>8. m - 1 = at + n
  BY <1>1, <1>6, <1>7
<1>9. Under(t, at, ends) = SubSeq(t, at + 1, m - 1)
  BY <1>4 DEF Under
<1> QED BY <1>8, <1>9

-----------------------------------------------------------------------------
(* The text of an entry *)

LEMMA LineTyped ==
  ASSUME NEW d \in Depths, NEW k \in KeyNames, NEW v \in Seq(Words)
  PROVE  Line(d, k, v) \in Lines
BY DEF Line, Lines

LEMMA LineHas ==
  ASSUME NEW d, NEW k, NEW v
  PROVE  Line(d, k, v).depth = d /\ Line(d, k, v).key = k /\ Line(d, k, v).value = v
BY DEF Line


LEMMA EachIs ==
  ASSUME NEW d \in Depths, NEW k \in KeyNames, NEW v \in Seq(Words)
  PROVE  /\ Each(d, k, v) \in Seq(Lines) /\ Len(Each(d, k, v)) = Len(v)
         /\ \A i \in DOMAIN v : Each(d, k, v)[i] = Line(d, k, <<v[i]>>)
         /\ DOMAIN Each(d, k, v) = DOMAIN v
<1>1. DOMAIN v = 1..Len(v) /\ Len(v) \in Nat
  OBVIOUS
<1>2. \A i \in 1..Len(v) : Line(d, k, <<v[i]>>) \in Lines
  <2> TAKE i \in 1..Len(v)
  <2> DEFINE w == <<v[i]>>
  <2>1. w \in Seq(Words)
    OBVIOUS
  <2> HIDE DEF w
  <2>2. Line(d, k, w) \in Lines
    BY <2>1, LineTyped
  <2> QED BY <2>2 DEF w
<1>3. Each(d, k, v) = [i \in 1..Len(v) |-> Line(d, k, <<v[i]>>)]
  BY <1>1 DEF Each
<1> DEFINE t == Each(d, k, v)
<1> HIDE DEF t
<1>4. t \in [1..Len(v) -> Lines] /\ \A i \in 1..Len(v) : t[i] = Line(d, k, <<v[i]>>)
  BY <1>2, <1>3 DEF t
<1>5. t \in Seq(Lines) /\ Len(t) = Len(v) /\ DOMAIN t = 1..Len(v)
  BY <1>1, <1>4
<1> QED BY <1>1, <1>4, <1>5 DEF t

\* One line or none, as a test decides.
LEMMA IfIs ==
  ASSUME NEW T, NEW b, NEW t \in Seq(T)
  PROVE  If(b, t) \in Seq(T) /\ (b => If(b, t) = t) /\ (~b => If(b, t) = <<>>)
BY DEF If

\* The first lines of an entry, its own keys after the requires, and what stands
\* under its post-steps.
Opening(e) == <<Line(6, "- job", <<e.orbJob>>)>>
             \o If(e.name # NoName, <<Line(10, "name:", <<e.name>>)>>)
Keys(e) == If(e.extras.context # <<>>, <<Line(10, "context: []", e.extras.context)>>)
             \o If(e.extras.attach, <<Line(10, "attach_workspace: true", <<>>)>>)
Stepped(e) == e.extras.store # <<>> \/ e.extras.persist # <<>> \/ e.extras.steps # <<>>
Opens(e) == If(Stepped(e), <<Line(10, "post-steps:", <<>>)>>)
StoreText(v) == <<Line(12, "- store_artifacts:", <<>>), Line(16, "path:", v),
                  Line(16, "destination:", v)>>
PersistText(v) == <<Line(12, "- persist_to_workspace:", <<>>), Line(16, "root:", <<>>),
                    Line(16, "paths:", <<>>)>> \o Each(18, "- item", v)
Stored(e) == If(e.extras.store # <<>>, StoreText(e.extras.store))
Persisted(e) == If(e.extras.persist # <<>>, PersistText(e.extras.persist))
Ours(e) == Stored(e) \o Persisted(e)
Foreign(e) == Each(12, "- step", e.extras.steps)
StepsText(e) == Ours(e) \o Foreign(e)
Given(e) == Each(10, "param", e.params)
Nestings(e) == Each(12, "nested", e.extras.nested)
Params(e) == Given(e) \o Nestings(e)

LEMMA EntryTyped ==
  ASSUME NEW e \in Entry
  PROVE  /\ e.orbJob \in Words /\ e.name \in Words \cup {NoName} /\ e.params \in Seq(Words)
         /\ e.requires.form \in {"inline", "block", "absent", "odd"}
         /\ e.requires.items \in Seq(Words)
         /\ e.extras.context \in Seq(Words) /\ e.extras.attach \in BOOLEAN
         /\ e.extras.store \in Seq(Words) /\ e.extras.persist \in Seq(Words)
         /\ e.extras.nested \in Seq(Words) /\ e.extras.steps \in Seq(Words)
<1>1. /\ e.orbJob \in DOMAIN Orb /\ e.name \in Words \cup {NoName} /\ e.params \in Seq(Words)
      /\ e.requires \in [form : Readable \cup {"odd"}, items : Seq(Words)]
      /\ e.extras \in Extras
  BY DEF Entry
<1>2. e.orbJob \in Words
  BY <1>1, TextAssumption DEF TextAssumption
<1>3. e.requires.form \in {"inline", "block", "absent", "odd"} /\ e.requires.items \in Seq(Words)
  BY <1>1 DEF Readable, Appendable
<1>4. /\ e.extras.context \in Seq(Words) /\ e.extras.attach \in BOOLEAN
      /\ e.extras.store \in Seq(Words) /\ e.extras.persist \in Seq(Words)
      /\ e.extras.nested \in Seq(Words) /\ e.extras.steps \in Seq(Words)
  BY <1>1 DEF Extras
<1> QED BY <1>1, <1>2, <1>3, <1>4

LEMMA DepthsAre == /\ 0 \in Depths /\ 2 \in Depths /\ 4 \in Depths /\ 6 \in Depths /\ 10 \in Depths
                   /\ 12 \in Depths /\ 16 \in Depths /\ 18 \in Depths
BY DEF Depths

LEMMA PartsTyped ==
  ASSUME NEW e \in Entry
  PROVE  /\ Opening(e) \in Seq(Lines) /\ Params(e) \in Seq(Lines)
         /\ RequiresText(e.requires) \in Seq(Lines) /\ Keys(e) \in Seq(Lines)
         /\ Opens(e) \in Seq(Lines) /\ Stored(e) \in Seq(Lines) /\ Persisted(e) \in Seq(Lines)
         /\ Foreign(e) \in Seq(Lines) /\ Given(e) \in Seq(Lines) /\ Nestings(e) \in Seq(Lines)
         /\ Ours(e) \in Seq(Lines)
<1>1. /\ e.orbJob \in Words /\ e.name \in Words \cup {NoName} /\ e.params \in Seq(Words)
      /\ e.requires.items \in Seq(Words)
      /\ e.extras.context \in Seq(Words)
      /\ e.extras.store \in Seq(Words) /\ e.extras.persist \in Seq(Words)
      /\ e.extras.nested \in Seq(Words) /\ e.extras.steps \in Seq(Words)
  BY EntryTyped
<1>0. <<>> \in Seq(Words) /\ <<>> \in Seq(Lines)
  OBVIOUS
<1>2. Opening(e) \in Seq(Lines)
  <2>1. <<e.orbJob>> \in Seq(Words)
    BY <1>1
  <2>2. Line(6, "- job", <<e.orbJob>>) \in Lines
    <3> DEFINE v == <<e.orbJob>>
    <3> HIDE DEF v
    <3>1. v \in Seq(Words)
      BY <2>1 DEF v
    <3>2. Line(6, "- job", v) \in Lines
      BY <3>1, DepthsAre, LineTyped DEF KeyNames
    <3> QED BY <3>2 DEF v
  <2>3. If(e.name # NoName, <<Line(10, "name:", <<e.name>>)>>) \in Seq(Lines)
    <3>1. CASE e.name # NoName
      <4> DEFINE v == <<e.name>>
      <4>1. v \in Seq(Words)
        BY <1>1, <3>1
      <4> HIDE DEF v
      <4>2. Line(10, "name:", v) \in Lines
        BY <4>1, DepthsAre, LineTyped DEF KeyNames
      <4> QED BY <4>2, <3>1 DEF If, v
    <3>2. CASE e.name = NoName
      BY <3>2, <1>0 DEF If
    <3> QED BY <3>1, <3>2
  <2> DEFINE a == Line(6, "- job", <<e.orbJob>>)
             b == If(e.name # NoName, <<Line(10, "name:", <<e.name>>)>>)
  <2>4. Opening(e) = <<a>> \o b
    BY DEF Opening
  <2> HIDE DEF a, b
  <2>5. a \in Lines /\ b \in Seq(Lines)
    BY <2>2, <2>3 DEF a, b
  <2>6. <<a>> \o b \in Seq(Lines)
    BY <2>5
  <2> QED BY <2>4, <2>6
<1>3. Given(e) \in Seq(Lines) /\ Nestings(e) \in Seq(Lines) /\ Foreign(e) \in Seq(Lines)
  <2> DEFINE n == "nested"
             s == "- step"
  <2>1. n \in KeyNames /\ s \in KeyNames
    BY DEF KeyNames
  <2>2. Given(e) \in Seq(Lines)
    BY <1>1, DepthsAre, EachIs DEF Given, KeyNames
  <2>3. Nestings(e) = Each(12, n, e.extras.nested) /\ Foreign(e) = Each(12, s, e.extras.steps)
    BY DEF Nestings, Foreign
  <2> HIDE DEF n, s
  <2>4. Each(12, n, e.extras.nested) \in Seq(Lines)
    BY <1>1, <2>1, DepthsAre, EachIs
  <2>5. Each(12, s, e.extras.steps) \in Seq(Lines)
    BY <1>1, <2>1, DepthsAre, EachIs
  <2> QED BY <2>2, <2>3, <2>4, <2>5
<1>11. Params(e) \in Seq(Lines)
  BY <1>3, ConcatProperties DEF Params
<1>4. RequiresText(e.requires) \in Seq(Lines)
  <2> DEFINE v == e.requires.items
             a == Line(10, "requires: []", v)
             b == Line(10, "requires:", <<>>)
             c == Each(12, "- item", v)
             d == Line(10, "requires: *", <<>>)
  <2>1. v \in Seq(Words)
    BY <1>1
  <2>2. RequiresText(e.requires) \in {<<a>>, <<b>> \o c, <<d>>, <<>>}
    BY DEF RequiresText
  <2> HIDE DEF v
  <2>3. a \in Lines
    BY <2>1, DepthsAre, LineTyped DEF KeyNames
  <2>4. b \in Lines /\ d \in Lines
    BY <1>0, DepthsAre, LineTyped DEF KeyNames
  <2>5. c \in Seq(Lines)
    BY ZenonT(60), <2>1, DepthsAre, EachIs DEF KeyNames
  <2> HIDE DEF a, b, c, d
  <2>6. <<b>> \o c \in Seq(Lines) /\ <<a>> \in Seq(Lines) /\ <<d>> \in Seq(Lines)
    BY <2>3, <2>4, <2>5
  <2> QED BY <2>2, <2>6, <1>0
<1>5. Keys(e) \in Seq(Lines)
  <2> DEFINE v == e.extras.context
             a == Line(10, "context: []", v)
             b == Line(10, "attach_workspace: true", <<>>)
             c == If(v # <<>>, <<a>>)
             d == If(e.extras.attach, <<b>>)
  <2>1. v \in Seq(Words)
    BY <1>1
  <2>2. Keys(e) = c \o d
    BY DEF Keys
  <2> HIDE DEF v
  <2>3. a \in Lines /\ b \in Lines
    BY <2>1, <1>0, DepthsAre, LineTyped DEF KeyNames
  <2> HIDE DEF a, b
  <2>4. c \in Seq(Lines) /\ d \in Seq(Lines)
    BY <2>3, <1>0 DEF If
  <2> HIDE DEF c, d
  <2>5. c \o d \in Seq(Lines)
    BY <2>4
  <2> QED BY <2>2, <2>5
<1>6. Opens(e) \in Seq(Lines)
  <2>1. Line(10, "post-steps:", <<>>) \in Lines
    BY <1>0, DepthsAre, LineTyped DEF KeyNames
  <2> QED BY <2>1, <1>0 DEF Opens, If
<1>7. \A v \in Seq(Words) : StoreText(v) \in Seq(Lines)
  <2> TAKE v \in Seq(Words)
  <2> DEFINE a == Line(12, "- store_artifacts:", <<>>)
             b == Line(16, "path:", v)
             c == Line(16, "destination:", v)
  <2>1. a \in Lines
    BY <1>0, DepthsAre, LineTyped DEF KeyNames
  <2>2. b \in Lines
    BY <1>0, DepthsAre, LineTyped DEF KeyNames
  <2>3. c \in Lines
    BY <1>0, DepthsAre, LineTyped DEF KeyNames
  <2>4. StoreText(v) = <<a, b, c>>
    BY DEF StoreText
  <2> HIDE DEF a, b, c
  <2>5. <<a, b, c>> \in Seq(Lines)
    BY <2>1, <2>2, <2>3
  <2> QED BY <2>4, <2>5
<1>8. \A v \in Seq(Words) : PersistText(v) \in Seq(Lines)
  <2> TAKE v \in Seq(Words)
  <2> DEFINE a == Line(12, "- persist_to_workspace:", <<>>)
             b == Line(16, "root:", <<>>)
             c == Line(16, "paths:", <<>>)
             d == Each(18, "- item", v)
  <2>1. a \in Lines /\ b \in Lines /\ c \in Lines
    BY <1>0, DepthsAre, LineTyped DEF KeyNames
  <2>2. d \in Seq(Lines)
    BY DepthsAre, EachIs DEF KeyNames
  <2>3. PersistText(v) = <<a, b, c>> \o d
    BY DEF PersistText
  <2> HIDE DEF a, b, c, d
  <2>4. <<a, b, c>> \in Seq(Lines)
    BY <2>1
  <2>5. <<a, b, c>> \o d \in Seq(Lines)
    BY <2>2, <2>4, ConcatProperties
  <2> QED BY <2>3, <2>5
<1>9. Stored(e) \in Seq(Lines)
  <2> DEFINE s == StoreText(e.extras.store)
  <2>1. s \in Seq(Lines)
    BY <1>1, <1>7
  <2> HIDE DEF s
  <2>2. If(e.extras.store # <<>>, s) \in Seq(Lines)
    BY <2>1, IfIs
  <2> QED BY <2>2 DEF Stored, s
<1>10. Persisted(e) \in Seq(Lines)
  <2> DEFINE s == PersistText(e.extras.persist)
  <2>1. s \in Seq(Lines)
    BY <1>1, <1>8
  <2> HIDE DEF s
  <2>2. If(e.extras.persist # <<>>, s) \in Seq(Lines)
    BY <2>1, IfIs
  <2> QED BY <2>2 DEF Persisted, s
<1>12. Ours(e) \in Seq(Lines)
  BY <1>9, <1>10, ConcatProperties DEF Ours
<1> QED BY <1>2, <1>3, <1>4, <1>5, <1>6, <1>9, <1>10, <1>11, <1>12

LEMMA EntryIs ==
  ASSUME NEW e \in Entry
  PROVE  /\ EntryText(e) = ((((Opening(e) \o Params(e)) \o RequiresText(e.requires)) \o Keys(e))
                              \o Opens(e)) \o StepsText(e)
         /\ EntryText(e) \in Seq(Lines) /\ StepsText(e) \in Seq(Lines)
<1>1. /\ Opening(e) \in Seq(Lines) /\ Given(e) \in Seq(Lines) /\ Nestings(e) \in Seq(Lines)
      /\ RequiresText(e.requires) \in Seq(Lines) /\ Keys(e) \in Seq(Lines)
      /\ Opens(e) \in Seq(Lines) /\ Stored(e) \in Seq(Lines) /\ Persisted(e) \in Seq(Lines)
      /\ Foreign(e) \in Seq(Lines)
  BY PartsTyped
<1> DEFINE h == Opening(e)
           p == Given(e)
           n == Nestings(e)
           r == RequiresText(e.requires)
           c == If(e.extras.context # <<>>, <<Line(10, "context: []", e.extras.context)>>)
           a == If(e.extras.attach, <<Line(10, "attach_workspace: true", <<>>)>>)
           o == Opens(e)
           s == Stored(e)
           q == Persisted(e)
           f == Foreign(e)
<1>2. EntryText(e) = ((((((((h \o p) \o n) \o r) \o c) \o a) \o o) \o s) \o q) \o f
  BY DEF EntryText, Opening, Given, Nestings, Opens, Stepped, Stored, Persisted, StoreText,
         PersistText, Foreign
<1>3. Keys(e) = c \o a /\ StepsText(e) = (s \o q) \o f /\ Params(e) = p \o n
  BY DEF Keys, StepsText, Params, Ours
<1>4. c \in Seq(Lines) /\ a \in Seq(Lines)
  <2> DEFINE v == e.extras.context
             x == Line(10, "context: []", v)
             y == Line(10, "attach_workspace: true", <<>>)
  <2>1. v \in Seq(Words) /\ <<>> \in Seq(Words) /\ <<>> \in Seq(Lines)
    BY EntryTyped
  <2> HIDE DEF v
  <2>2. x \in Lines /\ y \in Lines
    BY <2>1, DepthsAre, LineTyped DEF KeyNames
  <2> HIDE DEF x, y
  <2>3. <<x>> \in Seq(Lines) /\ <<y>> \in Seq(Lines)
    BY <2>2
  <2>4. c = If(e.extras.context # <<>>, <<x>>) /\ a = If(e.extras.attach, <<y>>)
    BY DEF x, y, v
  <2> HIDE DEF c, a
  <2> QED BY <2>3, <2>4, IfIs
<1>5. /\ h \in Seq(Lines) /\ p \in Seq(Lines) /\ n \in Seq(Lines) /\ r \in Seq(Lines)
      /\ o \in Seq(Lines) /\ s \in Seq(Lines) /\ q \in Seq(Lines) /\ f \in Seq(Lines)
  BY <1>1
<1> HIDE DEF h, p, n, r, c, a, o, s, q, f
<1>0. \A x \in Seq(Lines), y \in Seq(Lines) : x \o y \in Seq(Lines)
  BY ConcatProperties
<1>6. ASSUME NEW x \in Seq(Lines), NEW y \in Seq(Lines), NEW z \in Seq(Lines)
      PROVE  (x \o y) \o z = x \o (y \o z)
  BY ConcatAssociative
<1> DEFINE x == (h \o (p \o n)) \o r
           z == (x \o (c \o a)) \o o
           y == (x \o c) \o a
<1>7. (h \o p) \o n = h \o (p \o n)
  <2>1. h \in Seq(Lines) /\ p \in Seq(Lines) /\ n \in Seq(Lines)
    BY <1>5
  <2> QED BY <2>1, ConcatAssociative
<1>8. p \o n \in Seq(Lines) /\ c \o a \in Seq(Lines) /\ s \o q \in Seq(Lines)
  BY <1>0, <1>4, <1>5
<1>9. h \o (p \o n) \in Seq(Lines)
  BY <1>0, <1>5, <1>8
<1>10. x \in Seq(Lines)
  BY <1>0, <1>5, <1>9
<1>11. y = x \o (c \o a)
  <2> HIDE DEF x
  <2> QED BY <1>4, <1>6, <1>10
<1>12. x \o (c \o a) \in Seq(Lines)
  <2> HIDE DEF x
  <2> QED BY <1>0, <1>8, <1>10
<1>13. z \in Seq(Lines)
  <2> HIDE DEF x
  <2> QED BY <1>0, <1>5, <1>12
<1>14. (s \o q) \o f \in Seq(Lines)
  BY <1>0, <1>5, <1>8
<1>15. EntryText(e) = ((z \o s) \o q) \o f
  BY <1>2, <1>7, <1>11
<1> HIDE DEF z, x, y
<1>16. (z \o s) \o q = z \o (s \o q)
  <2>1. z \in Seq(Lines) /\ s \in Seq(Lines) /\ q \in Seq(Lines)
    BY <1>5, <1>13
  <2> QED BY <2>1, ConcatAssociative
<1>17. (z \o (s \o q)) \o f = z \o ((s \o q) \o f)
  <2> DEFINE u == s \o q
  <2>1. z \in Seq(Lines) /\ u \in Seq(Lines) /\ f \in Seq(Lines)
    BY <1>5, <1>8, <1>13
  <2> HIDE DEF u
  <2>2. (z \o u) \o f = z \o (u \o f)
    BY <2>1, ConcatAssociative
  <2> QED BY <2>2 DEF u
<1>18. EntryText(e) = z \o StepsText(e) /\ z \o StepsText(e) \in Seq(Lines)
  BY <1>0, <1>3, <1>13, <1>14, <1>15, <1>16, <1>17
<1> QED BY <1>3, <1>14, <1>18 DEF h, p, n, r, o, z, x

\* The ranges of short texts.
LEMMA RangeShort ==
  ASSUME NEW T
  PROVE  /\ Range(<<>>) = {}
         /\ \A a \in T : Range(<<a>>) = {a}
         /\ \A a \in T, b \in T, c \in T : Range(<<a, b, c>>) = {a, b, c}
<1>1. Range(<<>>) = {}
  BY DEF Range
<1>2. \A a \in T : Range(<<a>>) = {a}
  <2> TAKE a \in T
  <2>1. DOMAIN <<a>> = {1} /\ <<a>>[1] = a
    OBVIOUS
  <2> QED BY <2>1 DEF Range
<1>3. \A a \in T, b \in T, c \in T : Range(<<a, b, c>>) = {a, b, c}
  <2> SUFFICES ASSUME NEW a \in T, NEW b \in T, NEW c \in T
               PROVE  Range(<<a, b, c>>) = {a, b, c}
    OBVIOUS
  <2> DEFINE t == <<a, b, c>>
  <2>1. DOMAIN t = {1, 2, 3} /\ t[1] = a /\ t[2] = b /\ t[3] = c
    OBVIOUS
  <2> HIDE DEF t
  <2>2. Range(t) = {a, b, c}
    BY <2>1 DEF Range
  <2> QED BY <2>2 DEF t
<1> QED BY <1>1, <1>2, <1>3

LEMMA RangeEach ==
  ASSUME NEW d \in Depths, NEW k \in KeyNames, NEW v \in Seq(Words)
  PROVE  \A l \in Range(Each(d, k, v)) : l.depth = d /\ l.key = k /\ Len(l.value) = 1
<1>1. \A i \in DOMAIN v : Each(d, k, v)[i] = Line(d, k, <<v[i]>>)
  BY EachIs
<1>2. DOMAIN Each(d, k, v) = DOMAIN v
  BY EachIs
<1> SUFFICES ASSUME NEW i \in DOMAIN v
             PROVE  LET l == Each(d, k, v)[i] IN l.depth = d /\ l.key = k /\ Len(l.value) = 1
  BY <1>2 DEF Range
<1> DEFINE w == <<v[i]>>
           l == Each(d, k, v)[i]
<1>3. Len(w) = 1
  OBVIOUS
<1>4. l = Line(d, k, w)
  BY <1>1
<1> HIDE DEF w, l
<1>5. l.depth = d /\ l.key = k /\ l.value = w
  BY <1>4, LineHas
<1> QED BY <1>3, <1>5 DEF l

\* Which lines each part of an entry has.
LEMMA HeadHas ==
  ASSUME NEW e \in Entry
  PROVE  /\ Opening(e)[1] = Line(6, "- job", <<e.orbJob>>) /\ 1 \in DOMAIN Opening(e)
         /\ Range(Opening(e)) = {Line(6, "- job", <<e.orbJob>>)}
              \cup (IF e.name # NoName THEN {Line(10, "name:", <<e.name>>)} ELSE {})
<1> DEFINE a == Line(6, "- job", <<e.orbJob>>)
           b == Line(10, "name:", <<e.name>>)
           c == If(e.name # NoName, <<b>>)
<1>1. Opening(e) = <<a>> \o c /\ Opening(e) \in Seq(Lines)
  BY PartsTyped DEF Opening
<1>2. ASSUME NEW x \in Lines, NEW y \in Lines
      PROVE  /\ Range(<<x>> \o <<y>>) = {x, y} /\ (<<x>> \o <<y>>)[1] = x
             /\ 1 \in DOMAIN (<<x>> \o <<y>>)
  <2> DEFINE t == <<x>> \o <<y>>
  <2>1. DOMAIN t = {1, 2} /\ t[1] = x /\ t[2] = y
    OBVIOUS
  <2> HIDE DEF t
  <2>2. Range(t) = {x, y} /\ t[1] = x /\ 1 \in DOMAIN t
    BY <2>1 DEF Range
  <2> QED BY <2>2 DEF t
<1>3. ASSUME NEW x \in Lines
      PROVE  Range(<<x>>) = {x} /\ <<x>>[1] = x /\ 1 \in DOMAIN <<x>> /\ <<x>> \o <<>> = <<x>>
  <2>1. Range(<<x>>) = {x}
    BY RangeShort
  <2>2. <<x>>[1] = x /\ 1 \in DOMAIN <<x>> /\ <<x>> \o <<>> = <<x>>
    OBVIOUS
  <2> QED BY <2>1, <2>2
<1>6. a \in Lines
  <2> DEFINE v == <<e.orbJob>>
  <2>1. v \in Seq(Words)
    <3>1. e.orbJob \in Words
      BY EntryTyped
    <3> QED BY <3>1
  <2> HIDE DEF v
  <2>2. Line(6, "- job", v) \in Lines
    BY <2>1, DepthsAre, LineTyped DEF KeyNames
  <2> QED BY <2>2 DEF v
<1>7. ASSUME e.name # NoName PROVE b \in Lines
  <2> DEFINE v == <<e.name>>
  <2>1. v \in Seq(Words)
    <3>1. e.name \in Words
      BY <1>7, EntryTyped
    <3> QED BY <3>1
  <2> HIDE DEF v
  <2>2. Line(10, "name:", v) \in Lines
    BY <2>1, DepthsAre, LineTyped DEF KeyNames
  <2> QED BY <2>2 DEF v
<1>4. CASE e.name # NoName
  <2>1. Opening(e) = <<a>> \o <<b>>
    BY <1>1, <1>4 DEF If
  <2> HIDE DEF a, b
  <2>2. Range(Opening(e)) = {a, b} /\ Opening(e)[1] = a /\ 1 \in DOMAIN Opening(e)
    BY <2>1, <1>2, <1>4, <1>6, <1>7
  <2> QED BY <2>2, <1>4 DEF a, b
<1>5. CASE e.name = NoName
  <2>1. Opening(e) = <<a>> \o <<>>
    BY <1>1, <1>5 DEF If
  <2> HIDE DEF a, b
  <2>2. Opening(e) = <<a>>
    BY <2>1, <1>3, <1>6
  <2>3. Range(Opening(e)) = {a} /\ Opening(e)[1] = a /\ 1 \in DOMAIN Opening(e)
    BY <2>2, <1>3, <1>6
  <2> QED BY <2>3, <1>5 DEF a
<1> QED BY <1>4, <1>5

LEMMA Nil == <<>> \in Seq(Words) /\ <<>> \in Seq(Lines)
OBVIOUS

LEMMA LineOne ==
  ASSUME NEW d \in Depths, NEW k \in KeyNames, NEW w \in Words
  PROVE  Line(d, k, <<w>>) \in Lines
<1> DEFINE v == <<w>>
<1>1. v \in Seq(Words)
  OBVIOUS
<1> HIDE DEF v
<1>2. Line(d, k, v) \in Lines
  BY <1>1, LineTyped
<1> QED BY <1>2 DEF v

\* A line before a text.
LEMMA ConsIs ==
  ASSUME NEW T, NEW a \in T, NEW b \in Seq(T)
  PROVE  /\ <<a>> \o b \in Seq(T) /\ Len(<<a>> \o b) = 1 + Len(b) /\ (<<a>> \o b)[1] = a
         /\ \A i \in 1..Len(b) : (<<a>> \o b)[1 + i] = b[i]
         /\ Range(<<a>> \o b) = {a} \cup Range(b)
<1>1. <<a>> \in Seq(T) /\ Len(<<a>>) = 1 /\ <<a>>[1] = a
  OBVIOUS
<1>2. Range(<<a>>) = {a}
  BY RangeShort
<1> DEFINE c == <<a>>
<1>3. c \in Seq(T) /\ Len(c) = 1 /\ c[1] = a /\ Range(c) = {a} /\ Len(b) \in Nat
  BY <1>1, <1>2
<1> HIDE DEF c
<1>4. c \o b \in Seq(T) /\ Len(c \o b) = 1 + Len(b)
  BY <1>3, ConcatProperties
<1>5. (c \o b)[1] = a
  BY <1>3, <1>4
<1>6. \A i \in 1..Len(b) : (c \o b)[1 + i] = b[i]
  <2> TAKE i \in 1..Len(b)
  <2> DEFINE j == 1 + i
  <2>1. j \in 1..Len(c) + Len(b) /\ ~(j <= Len(c)) /\ j - Len(c) = i
    BY <1>3
  <2> HIDE DEF j
  <2>2. (c \o b)[j] = b[j - Len(c)]
    BY <1>3, <2>1, ConcatProperties
  <2> QED BY <2>1, <2>2 DEF j
<1>7. Range(c \o b) = {a} \cup Range(b)
  BY <1>3, RangeConcatenation
<1> QED BY <1>4, <1>5, <1>6, <1>7 DEF c

LEMMA ItemsAre ==
  ASSUME NEW d \in {12, 18}, NEW v \in Seq(Words)
  PROVE  /\ Each(d, "- item", v) \in Seq(Lines) /\ Len(Each(d, "- item", v)) = Len(v)
         /\ \A i \in 1..Len(v) : Each(d, "- item", v)[i] = Line(d, "- item", <<v[i]>>)
         /\ \A l \in Range(Each(d, "- item", v)) : l.depth = d /\ l.key = "- item"
<1> DEFINE k == "- item"
<1>1. k \in KeyNames
  BY DEF KeyNames
<1>2. d \in Depths
  BY DEF Depths
<1>3. DOMAIN v = 1..Len(v)
  OBVIOUS
<1> HIDE DEF k
<1>4. /\ Each(d, k, v) \in Seq(Lines) /\ Len(Each(d, k, v)) = Len(v)
      /\ \A i \in DOMAIN v : Each(d, k, v)[i] = Line(d, k, <<v[i]>>)
  BY <1>1, <1>2, EachIs
<1>5. \A l \in Range(Each(d, k, v)) : l.depth = d /\ l.key = k
  BY <1>1, <1>2, RangeEach
<1> QED BY <1>3, <1>4, <1>5 DEF k

LEMMA BlockHas ==
  ASSUME NEW v \in Seq(Words)
  PROVE  LET t == <<Line(10, "requires:", <<>>)>> \o Each(12, "- item", v)
         IN /\ t \in Seq(Lines) /\ Len(t) = 1 + Len(v) /\ t[1] = Line(10, "requires:", <<>>)
            /\ \A i \in 1..Len(v) : t[1 + i] = Line(12, "- item", <<v[i]>>)
            /\ \A l \in Range(t) : \/ l = Line(10, "requires:", <<>>)
                                   \/ l.depth = 12 /\ l.key = "- item"
<1> DEFINE a == Line(10, "requires:", <<>>)
           b == Each(12, "- item", v)
<1>1. a \in Lines
  BY Nil, DepthsAre, LineTyped DEF KeyNames
<1>2. b \in Seq(Lines) /\ Len(b) = Len(v)
  BY ItemsAre
<1>3. \A i \in 1..Len(v) : b[i] = Line(12, "- item", <<v[i]>>)
  BY ItemsAre
<1>4. \A l \in Range(b) : l.depth = 12 /\ l.key = "- item"
  BY ItemsAre
<1> HIDE DEF a, b
<1>5. /\ <<a>> \o b \in Seq(Lines) /\ Len(<<a>> \o b) = 1 + Len(b) /\ (<<a>> \o b)[1] = a
      /\ \A i \in 1..Len(b) : (<<a>> \o b)[1 + i] = b[i]
      /\ Range(<<a>> \o b) = {a} \cup Range(b)
  BY <1>1, <1>2, ConsIs
<1> QED BY <1>2, <1>3, <1>4, <1>5 DEF a, b

Listed == {"requires:", "requires: []", "requires: *"}

LEMMA RequiresHas ==
  ASSUME NEW e \in Entry
  PROVE  LET r == RequiresText(e.requires)
             v == e.requires.items
         IN /\ e.requires.form = "absent" => r = <<>>
            /\ e.requires.form = "inline" => r = <<Line(10, "requires: []", v)>>
            /\ e.requires.form = "odd" => r = <<Line(10, "requires: *", <<>>)>>
            /\ e.requires.form = "block" =>
                 r = <<Line(10, "requires:", <<>>)>> \o Each(12, "- item", v)
            /\ \A l \in Range(r) : \/ l.depth = 10 /\ l.key \in Listed
                                   \/ l.depth = 12 /\ l.key = "- item"
<1> DEFINE r == RequiresText(e.requires)
           v == e.requires.items
           f == e.requires.form
<1>1. /\ f = "absent" => r = <<>>
      /\ f = "inline" => r = <<Line(10, "requires: []", v)>>
      /\ f = "odd" => r = <<Line(10, "requires: *", <<>>)>>
      /\ f = "block" => r = <<Line(10, "requires:", <<>>)>> \o Each(12, "- item", v)
  BY DEF RequiresText
<1>2. f \in {"inline", "block", "absent", "odd"} /\ v \in Seq(Words)
  BY EntryTyped
<1> HIDE DEF r, v, f
<1>3. ASSUME NEW l \in Range(r)
      PROVE  \/ l.depth = 10 /\ l.key \in Listed
             \/ l.depth = 12 /\ l.key = "- item"
  <2>1. CASE f = "absent"
    BY <1>1, <1>3, <2>1, RangeShort
  <2>2. CASE f = "inline"
    <3> DEFINE x == Line(10, "requires: []", v)
    <3>1. x \in Lines
      BY <1>2, DepthsAre, LineTyped DEF KeyNames
    <3>2. x.depth = 10 /\ x.key = "requires: []"
      BY DEF Line
    <3> HIDE DEF x
    <3>3. Range(<<x>>) = {x}
      BY <3>1, RangeShort
    <3>4. l = x
      BY <1>1, <1>3, <2>2, <3>3 DEF x
    <3> QED BY <3>2, <3>4 DEF Listed
  <2>3. CASE f = "odd"
    <3> DEFINE x == Line(10, "requires: *", <<>>)
    <3>1. x \in Lines
      BY Nil, DepthsAre, LineTyped DEF KeyNames
    <3>2. x.depth = 10 /\ x.key = "requires: *"
      BY DEF Line
    <3> HIDE DEF x
    <3>3. Range(<<x>>) = {x}
      BY <3>1, RangeShort
    <3>4. l = x
      BY <1>1, <1>3, <2>3, <3>3 DEF x
    <3> QED BY <3>2, <3>4 DEF Listed
  <2>4. CASE f = "block"
    <3>1. l = Line(10, "requires:", <<>>) \/ (l.depth = 12 /\ l.key = "- item")
      BY <1>1, <1>2, <1>3, <2>4, BlockHas
    <3>2. CASE l = Line(10, "requires:", <<>>)
      <4>1. l.depth = 10 /\ l.key = "requires:"
        BY <3>2 DEF Line
      <4> QED BY <4>1 DEF Listed
    <3> QED BY <3>1, <3>2
  <2> QED BY <1>2, <2>1, <2>2, <2>3, <2>4
<1> QED BY <1>1, <1>3 DEF r, v, f

LEMMA KeysHave ==
  ASSUME NEW e \in Entry
  PROVE  /\ Range(Keys(e)) = (IF e.extras.context # <<>>
                              THEN {Line(10, "context: []", e.extras.context)} ELSE {})
                             \cup (IF e.extras.attach
                                   THEN {Line(10, "attach_workspace: true", <<>>)} ELSE {})
         /\ Range(Opens(e)) = IF Stepped(e) THEN {Line(10, "post-steps:", <<>>)} ELSE {}
<1> DEFINE v == e.extras.context
           x == Line(10, "context: []", v)
           y == Line(10, "attach_workspace: true", <<>>)
           z == Line(10, "post-steps:", <<>>)
           c == If(v # <<>>, <<x>>)
           d == If(e.extras.attach, <<y>>)
<1>1. v \in Seq(Words)
  BY EntryTyped
<1>2. Keys(e) = c \o d /\ Opens(e) = If(Stepped(e), <<z>>)
  BY DEF Keys, Opens
<1> HIDE DEF v
<1>3. x \in Lines /\ y \in Lines /\ z \in Lines
  BY <1>1, Nil, DepthsAre, LineTyped DEF KeyNames
<1> HIDE DEF x, y, z
<1>4. <<x>> \in Seq(Lines) /\ <<y>> \in Seq(Lines)
  BY <1>3
<1>5. Range(<<x>>) = {x} /\ Range(<<y>>) = {y} /\ Range(<<z>>) = {z} /\ Range(<<>>) = {}
  BY <1>3, RangeShort
<1>6. c \in Seq(Lines) /\ Range(c) = IF v # <<>> THEN {x} ELSE {}
  BY <1>4, <1>5, Nil DEF If
<1>7. d \in Seq(Lines) /\ Range(d) = IF e.extras.attach THEN {y} ELSE {}
  BY <1>4, <1>5, Nil DEF If
<1>8. Range(Opens(e)) = IF Stepped(e) THEN {z} ELSE {}
  BY <1>2, <1>5 DEF If
<1> HIDE DEF c, d
<1>9. Range(Keys(e)) = Range(c) \cup Range(d)
  BY <1>2, <1>6, <1>7, RangeConcatenation
<1> QED BY <1>6, <1>7, <1>8, <1>9 DEF v, x, y, z

StepKeys == {"- store_artifacts:", "path:", "destination:", "- persist_to_workspace:", "root:",
             "paths:", "- item", "- step"}

\* A parameter, or a line of what stands below one.
LEMMA ParamsHave ==
  ASSUME NEW e \in Entry, NEW l \in Range(Params(e))
  PROVE  (l.depth = 10 /\ l.key = "param") \/ (l.depth = 12 /\ l.key = "nested")
<1> DEFINE k == "param"
           m == "nested"
           v == e.params
           w == e.extras.nested
<1>1. k \in KeyNames /\ m \in KeyNames
  BY DEF KeyNames
<1>2. 10 \in Depths /\ 12 \in Depths /\ v \in Seq(Words) /\ w \in Seq(Words)
  BY EntryTyped, DepthsAre
<1>3. Given(e) = Each(10, k, v) /\ Nestings(e) = Each(12, m, w)
  BY DEF Given, Nestings
<1>4. l \in Range(Given(e)) \/ l \in Range(Nestings(e))
  <2>1. Given(e) \in Seq(Lines) /\ Nestings(e) \in Seq(Lines)
    BY PartsTyped
  <2>2. Range(Params(e)) = Range(Given(e)) \cup Range(Nestings(e))
    BY <2>1, RangeConcatenation DEF Params
  <2> QED BY <2>2
<1> HIDE DEF k, m, v, w
<1>5. \A x \in Range(Each(10, k, v)) : x.depth = 10 /\ x.key = k
  BY <1>1, <1>2, RangeEach
<1>6. \A x \in Range(Each(12, m, w)) : x.depth = 12 /\ x.key = m
  BY <1>1, <1>2, RangeEach
<1> QED BY <1>3, <1>4, <1>5, <1>6 DEF k, m

\* The lines of the other post-steps.
LEMMA ForeignHas ==
  ASSUME NEW e \in Entry
  PROVE  /\ Foreign(e) \in Seq(Lines)
         /\ \A l \in Range(Foreign(e)) : l.depth = 12 /\ l.key = "- step"
<1> DEFINE k == "- step"
           v == e.extras.steps
<1>1. k \in KeyNames
  BY DEF KeyNames
<1>2. 12 \in Depths /\ v \in Seq(Words)
  BY EntryTyped, DepthsAre
<1>3. Foreign(e) = Each(12, k, v)
  BY DEF Foreign
<1> HIDE DEF k, v
<1>4. \A x \in Range(Each(12, k, v)) : x.depth = 12 /\ x.key = k
  BY <1>1, <1>2, RangeEach
<1>5. Each(12, k, v) \in Seq(Lines)
  BY <1>1, <1>2, EachIs
<1> QED BY <1>3, <1>4, <1>5 DEF k

LEMMA StoreHas ==
  ASSUME NEW v \in Seq(Words)
  PROVE  /\ StoreText(v) \in Seq(Lines)
         /\ \A l \in Range(StoreText(v)) : l.depth \in {12, 16} /\ l.key \in StepKeys
<1> DEFINE a == Line(12, "- store_artifacts:", <<>>)
           b == Line(16, "path:", v)
           c == Line(16, "destination:", v)
<1>1. a \in Lines /\ b \in Lines /\ c \in Lines
  BY Nil, DepthsAre, LineTyped DEF KeyNames
<1>2. StoreText(v) = <<a, b, c>>
  BY DEF StoreText
<1>3. /\ a.depth = 12 /\ b.depth = 16 /\ c.depth = 16
      /\ a.key \in StepKeys /\ b.key \in StepKeys /\ c.key \in StepKeys
  BY DEF StepKeys, Line
<1> HIDE DEF a, b, c
<1>4. Range(<<a, b, c>>) = {a, b, c} /\ <<a, b, c>> \in Seq(Lines)
  BY <1>1, RangeShort
<1> QED BY <1>2, <1>3, <1>4

LEMMA PersistHas ==
  ASSUME NEW v \in Seq(Words)
  PROVE  /\ PersistText(v) \in Seq(Lines)
         /\ \A l \in Range(PersistText(v)) : l.depth \in {12, 16, 18} /\ l.key \in StepKeys
<1> DEFINE a == Line(12, "- persist_to_workspace:", <<>>)
           b == Line(16, "root:", <<>>)
           c == Line(16, "paths:", <<>>)
           d == Each(18, "- item", v)
<1>1. a \in Lines /\ b \in Lines /\ c \in Lines
  BY Nil, DepthsAre, LineTyped DEF KeyNames
<1>2. PersistText(v) = <<a, b, c>> \o d
  BY DEF PersistText
<1>3. /\ a.depth = 12 /\ b.depth = 16 /\ c.depth = 16
      /\ a.key \in StepKeys /\ b.key \in StepKeys /\ c.key \in StepKeys
  BY DEF StepKeys, Line
<1>4. d \in Seq(Lines)
  BY ItemsAre
<1>5. \A l \in Range(d) : l.depth = 18 /\ l.key \in StepKeys
  <2>1. \A l \in Range(d) : l.depth = 18 /\ l.key = "- item"
    BY ItemsAre
  <2> QED BY <2>1 DEF StepKeys
<1> HIDE DEF a, b, c, d
<1>6. Range(<<a, b, c>>) = {a, b, c} /\ <<a, b, c>> \in Seq(Lines)
  BY <1>1, RangeShort
<1>7. Range(<<a, b, c>> \o d) = {a, b, c} \cup Range(d) /\ <<a, b, c>> \o d \in Seq(Lines)
  <2> DEFINE x == <<a, b, c>>
  <2>1. x \in Seq(Lines) /\ Range(x) = {a, b, c}
    BY <1>6
  <2> HIDE DEF x
  <2>2. Range(x \o d) = Range(x) \cup Range(d)
    BY <2>1, <1>4, RangeConcatenation
  <2>3. x \o d \in Seq(Lines)
    BY <2>1, <1>4, ConcatProperties
  <2> QED BY <2>1, <2>2, <2>3 DEF x
<1> QED BY <1>2, <1>3, <1>5, <1>7

LEMMA StepsHave ==
  ASSUME NEW e \in Entry
  PROVE  \A l \in Range(StepsText(e)) : Deep(l) /\ l.depth > 10 /\ l.key \in StepKeys
<1> DEFINE s == StoreText(e.extras.store)
           p == PersistText(e.extras.persist)
           a == Stored(e)
           b == Persisted(e)
           f == Foreign(e)
<1>1. e.extras.store \in Seq(Words) /\ e.extras.persist \in Seq(Words)
  BY EntryTyped
<1>2. s \in Seq(Lines) /\ \A l \in Range(s) : l.depth \in {12, 16} /\ l.key \in StepKeys
  BY <1>1, StoreHas
<1>3. p \in Seq(Lines) /\ \A l \in Range(p) : l.depth \in {12, 16, 18} /\ l.key \in StepKeys
  BY <1>1, PersistHas
<1>4. a = If(e.extras.store # <<>>, s) /\ b = If(e.extras.persist # <<>>, p)
  BY DEF Stored, Persisted
<1>5. StepsText(e) = (a \o b) \o f
  BY DEF StepsText, Ours
<1>9. f \in Seq(Lines) /\ \A l \in Range(f) : l.depth = 12 /\ l.key \in StepKeys
  BY ForeignHas DEF StepKeys
<1> HIDE DEF s, p, a, b, f
<1>6. a \in Seq(Lines) /\ Range(a) \subseteq Range(s) /\ b \in Seq(Lines) /\ Range(b) \subseteq Range(p)
  BY <1>2, <1>3, <1>4, Nil, RangeShort DEF If
<1>7. Range(StepsText(e)) = (Range(a) \cup Range(b)) \cup Range(f)
  <2> DEFINE c == a \o b
  <2>1. c \in Seq(Lines) /\ Range(c) = Range(a) \cup Range(b)
    BY <1>6, RangeConcatenation, ConcatProperties
  <2> HIDE DEF c
  <2>2. Range(c \o f) = Range(c) \cup Range(f)
    BY <2>1, <1>9, RangeConcatenation
  <2> QED BY <2>1, <2>2, <1>5 DEF c
<1>8. \A d \in {12, 16, 18} : d > 10
  OBVIOUS
<1> QED BY <1>2, <1>3, <1>6, <1>7, <1>8, <1>9 DEF Deep

\* An entry without post-steps has no line under them.
LEMMA NoSteps ==
  ASSUME NEW e \in Entry
  PROVE  /\ ~Stepped(e) => StepsText(e) = <<>> /\ Opens(e) = <<>>
         /\ Stepped(e) => Opens(e) = <<Line(10, "post-steps:", <<>>)>>
<1>1. ASSUME ~Stepped(e) PROVE StepsText(e) = <<>>
  <2>1. e.extras.store = <<>> /\ e.extras.persist = <<>> /\ e.extras.steps = <<>>
    BY <1>1 DEF Stepped
  <2>2. Stored(e) = <<>> /\ Persisted(e) = <<>>
    BY <2>1 DEF Stored, Persisted, If
  <2>3. Foreign(e) = <<>>
    BY <2>1 DEF Foreign, Each
  <2> QED BY <2>2, <2>3 DEF StepsText, Ours
<1>2. ASSUME ~Stepped(e) PROVE Opens(e) = <<>>
  BY <1>2 DEF Opens, If
<1>3. ASSUME Stepped(e) PROVE Opens(e) = <<Line(10, "post-steps:", <<>>)>>
  BY <1>3 DEF Opens, If
<1> QED BY <1>1, <1>2, <1>3

\* Which lines an entry has.
LEMMA EntryRange ==
  ASSUME NEW e \in Entry
  PROVE  Range(EntryText(e)) = Range(Opening(e)) \cup Range(Params(e)) \cup Range(RequiresText(e.requires))
                                 \cup Range(Keys(e)) \cup Range(Opens(e)) \cup Range(StepsText(e))
<1> DEFINE h == Opening(e)
           p == Params(e)
           r == RequiresText(e.requires)
           c == Keys(e)
           o == Opens(e)
           s == StepsText(e)
<1>1. /\ h \in Seq(Lines) /\ p \in Seq(Lines) /\ r \in Seq(Lines) /\ c \in Seq(Lines)
      /\ o \in Seq(Lines) /\ s \in Seq(Lines)
  BY PartsTyped, EntryIs
<1>2. EntryText(e) = ((((h \o p) \o r) \o c) \o o) \o s
  BY EntryIs
<1> HIDE DEF h, p, r, c, o, s
<1>3. \A x \in Seq(Lines), y \in Seq(Lines) :
        x \o y \in Seq(Lines) /\ Range(x \o y) = Range(x) \cup Range(y)
  BY RangeConcatenation, ConcatProperties
<1> DEFINE x == h \o p
           y == x \o r
           z == y \o c
           w == z \o o
<1>4. x \in Seq(Lines) /\ Range(x) = Range(h) \cup Range(p)
  BY <1>1, <1>3
<1>5. y \in Seq(Lines) /\ Range(y) = Range(x) \cup Range(r)
  <2> HIDE DEF x
  <2> QED BY <1>1, <1>3, <1>4
<1>6. z \in Seq(Lines) /\ Range(z) = Range(y) \cup Range(c)
  <2> HIDE DEF y
  <2> QED BY <1>1, <1>3, <1>5
<1>7. w \in Seq(Lines) /\ Range(w) = Range(z) \cup Range(o)
  <2> HIDE DEF z
  <2> QED BY <1>1, <1>3, <1>6
<1>8. Range(w \o s) = Range(w) \cup Range(s)
  <2> HIDE DEF w
  <2> QED BY <1>1, <1>3, <1>7
<1>9. EntryText(e) = w \o s
  BY <1>2
<1> HIDE DEF x, y, z, w
<1>10. Range(EntryText(e)) = Range(h) \cup Range(p) \cup Range(r) \cup Range(c) \cup Range(o)
                               \cup Range(s)
  BY <1>4, <1>5, <1>6, <1>7, <1>8, <1>9
<1> QED BY <1>10 DEF h, p, r, c, o, s

-----------------------------------------------------------------------------
(* Reading an entry *)

LEMMA Places ==
  ASSUME NEW T, NEW t \in Seq(T)
  PROVE  /\ Len(t) \in Nat /\ DOMAIN t = 1..Len(t)
         /\ \A i \in DOMAIN t : i \in Nat /\ i # 0 /\ t[i] \in T
<1>1. Len(t) \in Nat /\ DOMAIN t = 1..Len(t)
  OBVIOUS
<1>2. \A i \in DOMAIN t : t[i] \in T
  OBVIOUS
<1> QED BY <1>1, <1>2

\* The lines of one depth and key.
Of(d, k) == {l \in Lines : l.depth = d /\ l.key = k}

LEMMA AtIs ==
  ASSUME NEW t \in Seq(Lines), NEW d, NEW k
  PROVE  At(t, d, k) = FirstIn(t, Of(d, k))
<1>1. \A i \in 1..Len(t) : t[i] \in Lines
  OBVIOUS
<1>2. {i \in 1..Len(t) : t[i].depth = d /\ t[i].key = k} = {i \in 1..Len(t) : t[i] \in Of(d, k)}
  BY <1>1 DEF Of
<1> QED BY <1>2 DEF At, SelectInSeq, FirstIn

\* A key is found in a text when the text says it.
LEMMA FieldIs ==
  ASSUME NEW t \in Seq(Lines), NEW d, NEW k, k \notin {"", "#", "#:", "# >>>", "# <<<"}
  PROVE  \/ At(t, d, k) = 0 /\ Of(d, k) \cap Range(Said(t)) = {}
         \/ /\ At(t, d, k) \in DOMAIN t /\ Significant(t[At(t, d, k)])
            /\ t[At(t, d, k)] \in Of(d, k) \cap Range(Said(t))
<1>1. PICK L : L = Of(d, k)
  OBVIOUS
<1>2. PICK s \in Seq(Lines) : s = Said(t)
  BY SaidType
<1>3. \A l \in Lines : l \in L => Significant(l)
  BY <1>1 DEF Significant, Of
<1>4. PICK i : i = FirstIn(t, L)
  OBVIOUS
<1>5. PICK n : n = FirstIn(s, L)
  OBVIOUS
<1>6. At(t, d, k) = i
  BY <1>1, <1>4, AtIs
<1>7. \/ i = 0 /\ n = 0
      \/ /\ i \in DOMAIN t /\ n \in DOMAIN s
         /\ t[i] \in L /\ Significant(t[i]) /\ s[n] = t[i]
  BY <1>2, <1>3, <1>4, <1>5, FirstSaid
<1>8. \/ n = 0 /\ \A m \in DOMAIN s : s[m] \notin L
      \/ n \in DOMAIN s
  BY <1>5, FirstInIs
<1>9. 0 \notin DOMAIN s
  BY Places
<1>10. CASE i = 0 /\ n = 0
  <2>1. \A m \in DOMAIN s : s[m] \notin L
    BY <1>8, <1>9, <1>10
  <2>2. L \cap Range(s) = {}
    BY <2>1 DEF Range
  <2> QED BY <2>2, <1>1, <1>2, <1>6, <1>10
<1>11. CASE i \in DOMAIN t /\ n \in DOMAIN s /\ t[i] \in L /\ Significant(t[i]) /\ s[n] = t[i]
  <2>1. t[i] \in Range(s)
    BY <1>11 DEF Range
  <2> QED BY <2>1, <1>1, <1>2, <1>6, <1>11
<1> QED BY <1>7, <1>10, <1>11

\* Which lines of an entry have a key.
LEMMA Keyed ==
  ASSUME NEW e \in Entry, NEW l \in Range(EntryText(e))
  PROVE  /\ l.key = "- job" => l = Line(6, "- job", <<e.orbJob>>)
         /\ l.key = "name:" => e.name # NoName /\ l = Line(10, "name:", <<e.name>>)
         /\ l.key = "context: []" => /\ e.extras.context # <<>>
                                     /\ l = Line(10, "context: []", e.extras.context)
         /\ l.key = "attach_workspace: true" => e.extras.attach
         /\ l.key = "post-steps:" => Stepped(e)
         /\ l.key \in Listed => l \in Range(RequiresText(e.requires))
<1>1. ASSUME l \in Range(Opening(e))
      PROVE  \/ l = Line(6, "- job", <<e.orbJob>>)
             \/ e.name # NoName /\ l = Line(10, "name:", <<e.name>>)
  BY <1>1, HeadHas
<1>2. ASSUME l \in Range(Params(e)) PROVE l.key \in {"param", "nested"}
  BY <1>2, ParamsHave
<1>3. ASSUME l \in Range(RequiresText(e.requires)) PROVE l.key \in Listed \cup {"- item"}
  BY <1>3, RequiresHas
<1>4. ASSUME l \in Range(Keys(e))
      PROVE  \/ e.extras.context # <<>> /\ l = Line(10, "context: []", e.extras.context)
             \/ e.extras.attach /\ l = Line(10, "attach_workspace: true", <<>>)
  BY <1>4, KeysHave
<1>5. ASSUME l \in Range(Opens(e))
      PROVE  /\ Stepped(e)
             /\ l = Line(10, "post-steps:", <<>>)
  <2> DEFINE x == Line(10, "post-steps:", <<>>)
  <2>1. Range(Opens(e)) = IF Stepped(e) THEN {x} ELSE {}
    BY KeysHave
  <2> HIDE DEF x
  <2>2. CASE Stepped(e)
    BY <1>5, <2>1, <2>2 DEF x
  <2>3. CASE ~Stepped(e)
    BY <1>5, <2>1, <2>3
  <2> QED BY <2>2, <2>3
<1>6. ASSUME l \in Range(StepsText(e)) PROVE l.key \in StepKeys
  BY <1>6, StepsHave
<1>7. \/ l \in Range(Opening(e)) \/ l \in Range(Params(e)) \/ l \in Range(RequiresText(e.requires))
      \/ l \in Range(Keys(e)) \/ l \in Range(Opens(e)) \/ l \in Range(StepsText(e))
  BY EntryRange
<1>10. /\ Line(6, "- job", <<e.orbJob>>).key = "- job"
       /\ Line(10, "name:", <<e.name>>).key = "name:"
       /\ Line(10, "context: []", e.extras.context).key = "context: []"
       /\ Line(10, "attach_workspace: true", <<>>).key = "attach_workspace: true"
       /\ Line(10, "post-steps:", <<>>).key = "post-steps:"
  BY DEF Line
<1>11. CASE l \in Range(Opening(e))
  <2>1. CASE l = Line(6, "- job", <<e.orbJob>>)
    BY <2>1, <1>10 DEF Listed
  <2>2. CASE e.name # NoName /\ l = Line(10, "name:", <<e.name>>)
    BY <2>2, <1>10 DEF Listed
  <2> QED BY <1>1, <1>11, <2>1, <2>2
<1>12. CASE l \in Range(Params(e))
  BY <1>2, <1>12 DEF Listed
<1>13. CASE l \in Range(RequiresText(e.requires))
  BY <1>3, <1>13 DEF Listed
<1>14. CASE l \in Range(Keys(e))
  <2>1. CASE e.extras.context # <<>> /\ l = Line(10, "context: []", e.extras.context)
    BY <2>1, <1>10 DEF Listed
  <2>2. CASE e.extras.attach /\ l = Line(10, "attach_workspace: true", <<>>)
    BY <2>2, <1>10 DEF Listed
  <2> QED BY <1>4, <1>14, <2>1, <2>2
<1>15. CASE l \in Range(Opens(e))
  BY <1>5, <1>10, <1>15 DEF Listed
<1>16. CASE l \in Range(StepsText(e))
  BY <1>6, <1>16 DEF Listed, StepKeys
<1> QED BY <1>7, <1>11, <1>12, <1>13, <1>14, <1>15, <1>16

\* A text that says the entry e.
Writes(t, e) == t \in Seq(Lines) /\ Said(t) = EntryText(e)

LEMMA FieldRead ==
  ASSUME NEW e \in Entry, NEW t, Writes(t, e), NEW k, k \notin {"", "#", "#:", "# >>>", "# <<<"}
  PROVE  \/ Field(t, k) = 0 /\ Of(10, k) \cap Range(EntryText(e)) = {}
         \/ /\ Field(t, k) \in DOMAIN t /\ Field(t, k) # 0 /\ Significant(t[Field(t, k)])
            /\ t[Field(t, k)] \in Of(10, k) \cap Range(EntryText(e))
<1>1. t \in Seq(Lines) /\ Said(t) = EntryText(e)
  BY DEF Writes
<1>2. 0 \notin DOMAIN t
  BY <1>1, Places
<1>3. PICK i : i = Field(t, k)
  OBVIOUS
<1>4. i = At(t, 10, k)
  BY <1>3 DEF Field
<1>5. \/ i = 0 /\ Of(10, k) \cap Range(Said(t)) = {}
      \/ i \in DOMAIN t /\ Significant(t[i]) /\ t[i] \in Of(10, k) \cap Range(Said(t))
  BY <1>1, <1>4, FieldIs
<1> QED BY <1>1, <1>2, <1>3, <1>5

LEMMA EntryLines ==
  ASSUME NEW e \in Entry PROVE Range(EntryText(e)) \subseteq Lines
<1>1. EntryText(e) \in Seq(Lines)
  BY EntryIs
<1> QED BY <1>1, RangeOfSeq

LEMMA NameRead ==
  ASSUME NEW e \in Entry, NEW t, Writes(t, e) PROVE ExplicitName(t) = e.name
<1>1. PICK i : i = Field(t, "name:")
  OBVIOUS
<1>2. PICK n : n = Line(10, "name:", <<e.name>>)
  OBVIOUS
<1>3. \/ i = 0 /\ Of(10, "name:") \cap Range(EntryText(e)) = {}
      \/ i # 0 /\ t[i] \in Of(10, "name:") \cap Range(EntryText(e))
  BY <1>1, FieldRead
<1>4. n.depth = 10 /\ n.key = "name:" /\ n.value = <<e.name>>
  BY <1>2 DEF Line
<1>5. e.name # NoName => n \in Of(10, "name:") \cap Range(EntryText(e))
  <2>1. e.name # NoName => n \in Range(EntryText(e))
    BY <1>2, EntryRange, HeadHas
  <2> QED BY <2>1, <1>4, EntryLines DEF Of
<1>6. ASSUME t[i] \in Of(10, "name:") \cap Range(EntryText(e))
      PROVE  e.name # NoName /\ t[i] = n
  <2>1. t[i].key = "name:" /\ t[i] \in Range(EntryText(e))
    BY <1>6 DEF Of
  <2> QED BY <2>1, <1>2, Keyed
<1>7. ExplicitName(t) = IF i = 0 THEN NoName ELSE t[i].value[1]
  BY <1>1 DEF ExplicitName
<1>8. CASE i = 0
  <2>1. ASSUME e.name # NoName PROVE FALSE
    BY <2>1, <1>3, <1>5, <1>8
  <2> QED BY <2>1, <1>7, <1>8
<1>9. CASE i # 0
  <2>1. t[i] = n
    BY <1>3, <1>6, <1>9
  <2> QED BY <2>1, <1>4, <1>7, <1>9
<1> QED BY <1>8, <1>9

LEMMA ContextRead ==
  ASSUME NEW e \in Entry, NEW t, Writes(t, e) PROVE Scalar(t, "context: []") = e.extras.context
<1>1. PICK i : i = Field(t, "context: []")
  OBVIOUS
<1>2. PICK n : n = Line(10, "context: []", e.extras.context)
  OBVIOUS
<1>3. \/ i = 0 /\ Of(10, "context: []") \cap Range(EntryText(e)) = {}
      \/ i # 0 /\ t[i] \in Of(10, "context: []") \cap Range(EntryText(e))
  BY <1>1, FieldRead
<1>4. n.depth = 10 /\ n.key = "context: []" /\ n.value = e.extras.context
  BY <1>2 DEF Line
<1>5. e.extras.context # <<>> => n \in Of(10, "context: []") \cap Range(EntryText(e))
  <2>1. e.extras.context # <<>> => n \in Range(EntryText(e))
    BY <1>2, EntryRange, KeysHave
  <2> QED BY <2>1, <1>4, EntryLines DEF Of
<1>6. ASSUME t[i] \in Of(10, "context: []") \cap Range(EntryText(e))
      PROVE  e.extras.context # <<>> /\ t[i] = n
  <2>1. t[i].key = "context: []" /\ t[i] \in Range(EntryText(e))
    BY <1>6 DEF Of
  <2> QED BY <2>1, <1>2, Keyed
<1>7. Scalar(t, "context: []") = IF i = 0 THEN <<>> ELSE t[i].value
  BY <1>1 DEF Scalar
<1>8. CASE i = 0
  <2>1. ASSUME e.extras.context # <<>> PROVE FALSE
    BY <2>1, <1>3, <1>5, <1>8
  <2> QED BY <2>1, <1>7, <1>8
<1>9. CASE i # 0
  <2>1. t[i] = n
    BY <1>3, <1>6, <1>9
  <2> QED BY <2>1, <1>4, <1>7, <1>9
<1> QED BY <1>8, <1>9

LEMMA AttachRead ==
  ASSUME NEW e \in Entry, NEW t, Writes(t, e) PROVE (Field(t, "attach_workspace: true") # 0) = e.extras.attach
<1>1. PICK i : i = Field(t, "attach_workspace: true")
  OBVIOUS
<1>2. PICK n : n = Line(10, "attach_workspace: true", <<>>)
  OBVIOUS
<1>3. \/ i = 0 /\ Of(10, "attach_workspace: true") \cap Range(EntryText(e)) = {}
      \/ i # 0 /\ t[i] \in Of(10, "attach_workspace: true") \cap Range(EntryText(e))
  BY <1>1, FieldRead
<1>4. n.depth = 10 /\ n.key = "attach_workspace: true" /\ n.value = <<>>
  BY <1>2 DEF Line
<1>5. e.extras.attach => n \in Of(10, "attach_workspace: true") \cap Range(EntryText(e))
  <2>1. e.extras.attach => n \in Range(EntryText(e))
    BY <1>2, EntryRange, KeysHave
  <2> QED BY <2>1, <1>4, EntryLines DEF Of
<1>6. ASSUME t[i] \in Of(10, "attach_workspace: true") \cap Range(EntryText(e))
      PROVE  e.extras.attach
  <2>1. t[i].key = "attach_workspace: true" /\ t[i] \in Range(EntryText(e))
    BY <1>6 DEF Of
  <2> QED BY <2>1, <1>2, Keyed
<1>7. e.extras.attach \in BOOLEAN
  BY EntryTyped
<1>8. CASE i = 0
  <2>1. ASSUME e.extras.attach PROVE FALSE
    BY <2>1, <1>3, <1>5, <1>8
  <2> QED BY <2>1, <1>1, <1>7, <1>8
<1>9. CASE i # 0
  <2>1. e.extras.attach
    BY <1>3, <1>6, <1>9
  <2> QED BY <2>1, <1>1, <1>7, <1>9
<1> QED BY <1>8, <1>9

\* What a line of one depth and key holds.
Firsts == {l.value[1] : l \in Lines}
PickOf(d, k) == [l \in Lines |-> If(l.depth = d /\ l.key = k, <<l.value[1]>>)]

LEMMA PickMaps ==
  ASSUME NEW d, NEW k PROVE Maps(PickOf(d, k), Lines, Firsts)
<1>1. \A l \in Lines : If(l.depth = d /\ l.key = k, <<l.value[1]>>) \in Seq(Firsts)
  <2> TAKE l \in Lines
  <2> DEFINE w == l.value[1]
  <2>1. w \in Firsts
    BY DEF Firsts
  <2> HIDE DEF w
  <2>2. <<w>> \in Seq(Firsts) /\ <<>> \in Seq(Firsts)
    BY <2>1
  <2>3. If(l.depth = d /\ l.key = k, <<w>>) \in Seq(Firsts)
    BY <2>2 DEF If
  <2> QED BY <2>3 DEF w
<1> QED BY <1>1 DEF Maps, PickOf

LEMMA ValuesIs ==
  ASSUME NEW t \in Seq(Lines), NEW d, NEW k
  PROVE  Values(t, d, k) = Through(PickOf(d, k), t) /\ Values(t, d, k) \in Seq(Firsts)
<1>1. \A i \in DOMAIN t : PickOf(d, k)[t[i]] = If(t[i].depth = d /\ t[i].key = k, <<t[i].value[1]>>)
  <2> TAKE i \in DOMAIN t
  <2>1. t[i] \in Lines
    OBVIOUS
  <2> QED BY <2>1 DEF PickOf
<1>2. [i \in DOMAIN t |-> PickOf(d, k)[t[i]]]
        = [i \in DOMAIN t |-> If(t[i].depth = d /\ t[i].key = k, <<t[i].value[1]>>)]
  BY <1>1
<1>3. Values(t, d, k) = Through(PickOf(d, k), t)
  BY <1>2 DEF Values, Through
<1>4. Through(PickOf(d, k), t) \in Seq(Firsts)
  BY PickMaps, ThroughType
<1> QED BY <1>3, <1>4

LEMMA KeepTwo ==
  ASSUME NEW U, NEW m, NEW t \in Seq(Lines), Maps(m, Lines, U),
         \A x \in Lines : ~Significant(x) => m[x] = <<>>
  PROVE  Through(m, Said(t)) = Through(m, t)
<1>1. \A x \in Lines : Keep[x] = <<x>> \/ (Keep[x] = <<>> /\ m[x] = <<>>)
  BY DEF Keep, If
<1>2. Maps(Keep, Lines, Lines)
  BY KeepMaps
<1>3. Through(m, Through(Keep, t)) = Through(m, t)
  BY <1>1, <1>2, ThroughTwo
<1> QED BY <1>3, SaidThrough

\* Remarks and blank lines hold no values.
LEMMA ValuesSaid ==
  ASSUME NEW t \in Seq(Lines), NEW d, NEW k, k \notin {"", "#", "#:", "# >>>", "# <<<"}
  PROVE  Values(t, d, k) = Values(Said(t), d, k)
<1> DEFINE m == PickOf(d, k)
<1>1. Maps(m, Lines, Firsts)
  BY PickMaps
<1>3. Values(t, d, k) = Through(m, t)
  BY ValuesIs
<1>4. Said(t) \in Seq(Lines)
  BY SaidType
<1>5. Values(Said(t), d, k) = Through(m, Said(t))
  BY <1>4, ValuesIs
<1>6. \A x \in Lines : ~Significant(x) => m[x] = <<>>
  <2> TAKE x \in Lines
  <2> HAVE ~Significant(x)
  <2>1. x.key # k
    BY DEF Significant
  <2> QED BY <2>1 DEF PickOf, If, m
<1> HIDE DEF m
<1>7. Through(m, Said(t)) = Through(m, t)
  BY <1>1, <1>6, KeepTwo
<1> QED BY <1>3, <1>5, <1>7

LEMMA ValuesConcat ==
  ASSUME NEW a \in Seq(Lines), NEW b \in Seq(Lines), NEW d, NEW k
  PROVE  Values(a \o b, d, k) = Values(a, d, k) \o Values(b, d, k)
<1>1. PICK m : m = PickOf(d, k) /\ Maps(m, Lines, Firsts)
  BY PickMaps
<1>0. Maps(m, Lines, Firsts)
  BY <1>1
<1>2. Through(m, a \o b) = Through(m, a) \o Through(m, b)
  BY <1>0, ThroughConcat
<1>3. a \o b \in Seq(Lines)
  BY ConcatProperties
<1>4. Values(a \o b, d, k) = Through(m, a \o b)
  BY <1>1, <1>3, ValuesIs
<1>5. Values(a, d, k) = Through(m, a) /\ Values(b, d, k) = Through(m, b)
  BY <1>1, ValuesIs
<1> QED BY <1>2, <1>4, <1>5

LEMMA ValuesNone ==
  ASSUME NEW t \in Seq(Lines), NEW d, NEW k, Of(d, k) \cap Range(t) = {}
  PROVE  Values(t, d, k) = <<>>
<1>1. PICK m : m = PickOf(d, k) /\ Maps(m, Lines, Firsts)
  BY PickMaps
<1>2. \A l \in Lines : l \notin Of(d, k) => m[l] = <<>>
  BY <1>1 DEF PickOf, Of, If
<1>3. \A i \in DOMAIN t : m[t[i]] = <<>>
  <2> TAKE i \in DOMAIN t
  <2>1. t[i] \in Lines /\ t[i] \in Range(t)
    BY DEF Range
  <2> QED BY <1>2, <2>1
<1>4. Through(m, t) = <<>>
  BY <1>1, <1>3, ThroughNone
<1> QED BY <1>1, <1>4, ValuesIs

LEMMA ValuesEach ==
  ASSUME NEW v \in Seq(Words), NEW d \in Depths, NEW k \in KeyNames
  PROVE  Values(Each(d, k, v), d, k) = v
<1>1. PICK m : m = PickOf(d, k) /\ Maps(m, Lines, Firsts)
  BY PickMaps
<1>2. PICK t \in Seq(Lines) : t = Each(d, k, v) /\ Len(t) = Len(v) /\ DOMAIN t = DOMAIN v
                              /\ \A i \in DOMAIN v : t[i] = Line(d, k, <<v[i]>>)
  BY EachIs
<1>3. \A i \in DOMAIN t : m[t[i]] = <<v[i]>>
  <2> TAKE i \in DOMAIN t
  <2>1. t[i] \in Lines /\ t[i] = Line(d, k, <<v[i]>>)
    BY <1>2
  <2>2. t[i].depth = d /\ t[i].key = k /\ t[i].value[1] = v[i]
    BY <2>1 DEF Line
  <2> QED BY <1>1, <2>1, <2>2 DEF PickOf, If
<1>4. v \in Seq(Firsts)
  <2>1. \A w \in Words : w \in Firsts
    <3> TAKE w \in Words
    <3>1. PICK l \in Lines : l = Line(d, k, <<w>>)
      BY LineOne
    <3>2. l.value[1] = w
      BY <3>1 DEF Line
    <3> QED BY <3>2 DEF Firsts
  <2>2. Words \subseteq Firsts
    BY <2>1
  <2> QED BY <2>2, SeqMonotonic
<1>5. Through(m, t) = v
  BY <1>1, <1>2, <1>3, <1>4, ThroughEach
<1> QED BY <1>1, <1>2, <1>5, ValuesIs

LEMMA NotParam ==
  \A v : /\ Line(6, "- job", v).key # "param" /\ Line(10, "name:", v).key # "param"
         /\ Line(10, "context: []", v).key # "param"
         /\ Line(10, "attach_workspace: true", v).key # "param"
         /\ Line(10, "post-steps:", v).key # "param"
BY DEF Line

\* A comment with a colon would be read as a parameter: there is none.
LEMMA NoRemark ==
  ASSUME NEW t \in Seq(Lines), Nested(t)
  PROVE  CurrentParams(t) = Values(t, 10, "param")
<1>1. \A i \in DOMAIN t : t[i].key # "#:"
  <2> SUFFICES ASSUME NEW i \in DOMAIN t, t[i].key = "#:" PROVE FALSE
    OBVIOUS
  <2>1. Deep(t[i]) /\ ~Significant(t[i])
    BY DEF Deep, Significant
  <2> QED BY <2>1 DEF Nested
<1>2. \A i \in DOMAIN t : (t[i].key \in {"param", "#:"}) <=> t[i].key = "param"
  BY <1>1
<1>3. \A i \in DOMAIN t :
        If(t[i].depth = 10 /\ t[i].key \in {"param", "#:"}, <<t[i].value[1]>>)
          = If(t[i].depth = 10 /\ t[i].key = "param", <<t[i].value[1]>>)
  BY <1>2 DEF If
<1>4. [i \in DOMAIN t |->
         If(t[i].depth = 10 /\ t[i].key \in {"param", "#:"}, <<t[i].value[1]>>)]
        = [i \in DOMAIN t |-> If(t[i].depth = 10 /\ t[i].key = "param", <<t[i].value[1]>>)]
  BY <1>3
<1> QED BY <1>4 DEF CurrentParams, Values

LEMMA ParamsRead ==
  ASSUME NEW e \in Entry, NEW t, Writes(t, e), Nested(t) PROVE CurrentParams(t) = e.params
<1> DEFINE V(s) == Values(s, 10, "param")
<1>1. CurrentParams(t) = V(EntryText(e))
  <2> DEFINE k == "param"
  <2>1. k \notin {"", "#", "#:", "# >>>", "# <<<"}
    OBVIOUS
  <2> HIDE DEF k
  <2>2. Values(t, 10, k) = Values(Said(t), 10, k)
    BY <2>1, ValuesSaid DEF Writes
  <2>3. CurrentParams(t) = Values(t, 10, "param")
    BY NoRemark DEF Writes
  <2> QED BY <2>2, <2>3 DEF k, Writes
<1>2. /\ Opening(e) \in Seq(Lines) /\ Params(e) \in Seq(Lines)
      /\ RequiresText(e.requires) \in Seq(Lines) /\ Keys(e) \in Seq(Lines)
      /\ Opens(e) \in Seq(Lines) /\ StepsText(e) \in Seq(Lines)
  BY PartsTyped, EntryIs
<1>3. V(Params(e)) = e.params /\ e.params \in Seq(Words)
  <2> DEFINE k == "param"
             v == e.params
             g == Given(e)
             n == Nestings(e)
  <2>1. k \in KeyNames /\ v \in Seq(Words) /\ 10 \in Depths
    BY EntryTyped DEF KeyNames, Depths
  <2>2. g = Each(10, k, v) /\ g \in Seq(Lines) /\ n \in Seq(Lines) /\ Params(e) = g \o n
    BY PartsTyped DEF Given, Params
  <2>3. \A l \in Range(n) : l.key = "nested"
    <3> DEFINE j == "nested"
               w == e.extras.nested
    <3>1. j \in KeyNames /\ w \in Seq(Words) /\ 12 \in Depths
      BY EntryTyped DEF KeyNames, Depths
    <3>2. n = Each(12, j, w)
      BY DEF Nestings
    <3> HIDE DEF j, w, n
    <3>3. \A l \in Range(n) : l.key = j
      BY <3>1, <3>2, RangeEach
    <3> QED BY <3>3 DEF j
  <2>4. Of(10, k) \cap Range(n) = {}
    BY <2>3 DEF Of
  <2> HIDE DEF k, v, g, n
  <2>5. Values(Each(10, k, v), 10, k) = v
    BY <2>1, ValuesEach
  <2>6. Values(g \o n, 10, k) = Values(g, 10, k) \o Values(n, 10, k)
    <3>1. g \in Seq(Lines) /\ n \in Seq(Lines)
      BY <2>2
    <3> QED BY ONLY <3>1, ValuesConcat
  <2>7. Values(n, 10, k) = <<>>
    BY <2>2, <2>4, ValuesNone
  <2>8. v \o <<>> = v
    BY <2>1, ConcatEmptySeq
  <2>9. Values(Params(e), 10, k) = v
    BY <2>2, <2>5, <2>6, <2>7, <2>8
  <2> QED BY <2>1, <2>9 DEF k, v
<1>4. \A s \in Seq(Lines) : (\A l \in Range(s) : l.key # "param") => V(s) = <<>>
  <2> SUFFICES ASSUME NEW s \in Seq(Lines), \A l \in Range(s) : l.key # "param"
               PROVE  V(s) = <<>>
    OBVIOUS
  <2>1. Of(10, "param") \cap Range(s) = {}
    BY DEF Of
  <2> QED BY <2>1, ValuesNone
<1>5. V(Opening(e)) = <<>>
  <2>1. \A l \in Range(Opening(e)) : l.key # "param"
    BY HeadHas, NotParam
  <2> QED BY <1>2, <1>4, <2>1
<1>6. V(RequiresText(e.requires)) = <<>>
  <2>1. \A l \in Range(RequiresText(e.requires)) : l.key # "param"
    BY RequiresHas DEF Listed
  <2> QED BY <1>2, <1>4, <2>1
<1>7. V(Keys(e)) = <<>> /\ V(Opens(e)) = <<>>
  <2>1. \A l \in Range(Keys(e)) : l.key # "param"
    BY KeysHave, NotParam
  <2>2. \A l \in Range(Opens(e)) : l.key # "param"
    BY KeysHave, NotParam
  <2> QED BY <1>2, <1>4, <2>1, <2>2
<1>8. V(StepsText(e)) = <<>>
  <2>1. \A l \in Range(StepsText(e)) : l.key # "param"
    BY StepsHave DEF StepKeys
  <2> QED BY <1>2, <1>4, <2>1
<1> DEFINE h == Opening(e)
           p == Params(e)
           r == RequiresText(e.requires)
           c == Keys(e)
           o == Opens(e)
           s == StepsText(e)
<1>9. EntryText(e) = ((((h \o p) \o r) \o c) \o o) \o s
  BY EntryIs
<1>10. \A a \in Seq(Lines), b \in Seq(Lines) : a \o b \in Seq(Lines) /\ V(a \o b) = V(a) \o V(b)
  BY ValuesConcat, ConcatProperties
<1>11. /\ h \in Seq(Lines) /\ p \in Seq(Lines) /\ r \in Seq(Lines) /\ c \in Seq(Lines)
       /\ o \in Seq(Lines) /\ s \in Seq(Lines)
       /\ V(h) = <<>> /\ V(p) = e.params /\ V(r) = <<>> /\ V(c) = <<>> /\ V(o) = <<>> /\ V(s) = <<>>
  BY <1>2, <1>3, <1>5, <1>6, <1>7, <1>8
<1> HIDE DEF V, h, p, r, c, o, s
<1>12. <<>> \o e.params = e.params /\ e.params \o <<>> = e.params
  BY <1>3, ConcatEmptySeq
<1>13. h \o p \in Seq(Lines) /\ V(h \o p) = e.params
  <2>1. h \o p \in Seq(Lines) /\ V(h \o p) = V(h) \o V(p)
    BY <1>10, <1>11
  <2> QED BY <2>1, <1>11, <1>12
<1>14. (h \o p) \o r \in Seq(Lines) /\ V((h \o p) \o r) = e.params
  BY <1>10, <1>11, <1>12, <1>13
<1>15. ((h \o p) \o r) \o c \in Seq(Lines) /\ V(((h \o p) \o r) \o c) = e.params
  BY <1>10, <1>11, <1>12, <1>14
<1>16. (((h \o p) \o r) \o c) \o o \in Seq(Lines) /\ V((((h \o p) \o r) \o c) \o o) = e.params
  BY ZenonT(60), <1>10, <1>11, <1>12, <1>15
<1>17. V(((((h \o p) \o r) \o c) \o o) \o s) = e.params
  BY ZenonT(60), <1>10, <1>11, <1>12, <1>16
<1> QED BY <1>1, <1>9, <1>17

\* The lines of the middle of a text in three parts.
LEMMA MiddleAt ==
  ASSUME NEW T, NEW a \in Seq(T), NEW b \in Seq(T), NEW c \in Seq(T)
  PROVE  /\ (a \o b) \o c \in Seq(T) /\ Len((a \o b) \o c) = Len(a) + Len(b) + Len(c)
         /\ Len(a) \in Nat /\ Len(b) \in Nat /\ Len(c) \in Nat
         /\ \A x \in 1..Len(a) : ((a \o b) \o c)[x] = a[x]
         /\ \A x \in 1..Len(b) : ((a \o b) \o c)[Len(a) + x] = b[x]
         /\ \A x \in 1..Len(c) : ((a \o b) \o c)[Len(a) + Len(b) + x] = c[x]
<1>1. PICK d : d = a \o b
  OBVIOUS
<1>2. /\ d \in Seq(T) /\ Len(d) = Len(a) + Len(b)
      /\ \A i \in 1..Len(a) + Len(b) : d[i] = IF i <= Len(a) THEN a[i] ELSE b[i - Len(a)]
  BY <1>1, ConcatProperties
<1>3. PICK s : s = d \o c
  OBVIOUS
<1>4. /\ s \in Seq(T) /\ Len(s) = Len(d) + Len(c)
      /\ \A i \in 1..Len(d) + Len(c) : s[i] = IF i <= Len(d) THEN d[i] ELSE c[i - Len(d)]
  <2>1. d \in Seq(T) /\ c \in Seq(T)
    BY <1>2
  <2>2. /\ d \o c \in Seq(T) /\ Len(d \o c) = Len(d) + Len(c)
        /\ \A i \in 1..Len(d) + Len(c) : (d \o c)[i] = IF i <= Len(d) THEN d[i] ELSE c[i - Len(d)]
    BY <2>1, ConcatProperties
  <2> QED BY <2>2, <1>3
<1>5. PICK m \in Nat, n \in Nat, p \in Nat : m = Len(a) /\ n = Len(b) /\ p = Len(c)
  OBVIOUS
<1>6. \A x \in 1..m : s[x] = a[x]
  <2> TAKE x \in 1..m
  <2>1. x \in 1..(m + n) + p /\ x <= m + n /\ x <= m /\ x \in 1..m + n
    BY <1>5
  <2> QED BY <2>1, <1>2, <1>4, <1>5
<1>7. \A x \in 1..n : s[m + x] = b[x]
  <2> TAKE x \in 1..n
  <2>1. PICK y \in Nat : y = m + x
    BY <1>5
  <2>2. y \in 1..(m + n) + p /\ y <= m + n /\ ~(y <= m) /\ y \in 1..m + n /\ y - m = x
    BY <2>1, <1>5
  <2>3. s[y] = d[y] /\ d[y] = b[x]
    BY <2>2, <1>2, <1>4, <1>5
  <2> QED BY <2>1, <2>3
<1>8. \A x \in 1..p : s[m + n + x] = c[x]
  <2> TAKE x \in 1..p
  <2>1. PICK y \in Nat : y = m + n + x
    BY <1>5
  <2>2. y \in 1..(m + n) + p /\ ~(y <= m + n) /\ y - (m + n) = x
    BY <2>1, <1>5
  <2>3. s[y] = c[x]
    BY <2>2, <1>2, <1>4, <1>5
  <2> QED BY <2>1, <2>3
<1> QED BY <1>1, <1>2, <1>3, <1>4, <1>5, <1>6, <1>7, <1>8

\* The first line of L in a text whose first part has none.
LEMMA FirstAfter ==
  ASSUME NEW T, NEW a \in Seq(T), NEW b \in Seq(T), NEW c \in Seq(T), NEW L,
         \A x \in 1..Len(a) : a[x] \notin L
  PROVE  /\ Len(b) # 0 /\ b[1] \in L => FirstIn((a \o b) \o c, L) = Len(a) + 1
         /\ (\A x \in 1..Len(b) : b[x] \notin L) /\ (\A x \in 1..Len(c) : c[x] \notin L)
              => FirstIn((a \o b) \o c, L) = 0
<1>1. PICK s : s = (a \o b) \o c
  OBVIOUS
<1>2. /\ s \in Seq(T) /\ Len(s) = Len(a) + Len(b) + Len(c)
      /\ Len(a) \in Nat /\ Len(b) \in Nat /\ Len(c) \in Nat
      /\ \A x \in 1..Len(a) : s[x] = a[x]
      /\ \A x \in 1..Len(b) : s[Len(a) + x] = b[x]
      /\ \A x \in 1..Len(c) : s[Len(a) + Len(b) + x] = c[x]
  BY <1>1, MiddleAt
<1>3. PICK m \in Nat, n \in Nat, p \in Nat : m = Len(a) /\ n = Len(b) /\ p = Len(c)
  BY <1>2
<1>4. PICK i : i = FirstIn(s, L)
  OBVIOUS
<1>5. \/ i = 0 /\ \A x \in DOMAIN s : s[x] \notin L
      \/ /\ i \in DOMAIN s /\ s[i] \in L
         /\ \A x \in DOMAIN s : s[x] \in L => i <= x
  BY <1>2, <1>4, FirstInIs
<1>6. DOMAIN s = 1..m + n + p
  BY <1>2, <1>3
<1>7. ASSUME n # 0, b[1] \in L PROVE i = m + 1
  <2>1. m + 1 \in DOMAIN s /\ 1 \in 1..n
    BY <1>6, <1>7
  <2>2. s[m + 1] \in L
    BY <1>2, <1>3, <1>7, <2>1
  <2>3. i \in DOMAIN s /\ s[i] \in L /\ i <= m + 1
    BY <1>5, <2>1, <2>2
  <2>4. ASSUME i <= m PROVE FALSE
    <3>1. i \in 1..m
      BY <2>3, <2>4, <1>6
    <3> QED BY <3>1, <2>3, <1>2, <1>3
  <2> QED BY <2>3, <2>4, <1>6
<1>8. ASSUME \A x \in 1..n : b[x] \notin L, \A x \in 1..p : c[x] \notin L PROVE i = 0
  <2> SUFFICES ASSUME i \in DOMAIN s, s[i] \in L PROVE FALSE
    BY <1>5
  <2>1. i \in Nat /\ 1 <= i /\ i <= m + n + p
    BY <1>6
  <2>2. CASE i <= m
    <3>1. i \in 1..m
      BY <2>1, <2>2
    <3> QED BY <3>1, <1>2, <1>3
  <2>3. CASE i > m /\ i <= m + n
    <3>1. PICK x \in 1..n : i = m + x
      <4>1. i - m \in 1..n /\ i = m + (i - m)
        BY <2>1, <2>3
      <4> QED BY <4>1
    <3> QED BY <3>1, <1>2, <1>3, <1>8
  <2>4. CASE i > m + n
    <3>1. PICK x \in 1..p : i = m + n + x
      <4>1. i - (m + n) \in 1..p /\ i = m + n + (i - (m + n))
        BY <2>1, <2>4
      <4> QED BY <4>1
    <3> QED BY <3>1, <1>2, <1>3, <1>8
  <2> QED BY <2>1, <2>2, <2>3, <2>4
<1> QED BY <1>1, <1>3, <1>4, <1>7, <1>8

\* An entry up to its requirements, and after them.
Before(e) == Opening(e) \o Params(e)
After(e) == (Keys(e) \o Opens(e)) \o StepsText(e)

LEMMA EntrySplit ==
  ASSUME NEW e \in Entry
  PROVE  /\ Before(e) \in Seq(Lines) /\ After(e) \in Seq(Lines)
         /\ RequiresText(e.requires) \in Seq(Lines)
         /\ EntryText(e) = (Before(e) \o RequiresText(e.requires)) \o After(e)
         /\ Range(Before(e)) = Range(Opening(e)) \cup Range(Params(e))
         /\ Range(After(e)) = Range(Keys(e)) \cup Range(Opens(e)) \cup Range(StepsText(e))
<1> DEFINE h == Opening(e)
           p == Params(e)
           r == RequiresText(e.requires)
           c == Keys(e)
           o == Opens(e)
           s == StepsText(e)
<1>1. /\ h \in Seq(Lines) /\ p \in Seq(Lines) /\ r \in Seq(Lines) /\ c \in Seq(Lines)
      /\ o \in Seq(Lines) /\ s \in Seq(Lines)
  BY PartsTyped, EntryIs
<1>2. EntryText(e) = ((((h \o p) \o r) \o c) \o o) \o s
  BY EntryIs
<1>3. Before(e) = h \o p /\ After(e) = (c \o o) \o s
  BY DEF Before, After
<1> HIDE DEF h, p, r, c, o, s
<1>4. \A x \in Seq(Lines), y \in Seq(Lines) :
        x \o y \in Seq(Lines) /\ Range(x \o y) = Range(x) \cup Range(y)
  BY RangeConcatenation, ConcatProperties
<1>5. h \o p \in Seq(Lines) /\ Range(h \o p) = Range(h) \cup Range(p)
  BY <1>1, <1>4
<1>6. c \o o \in Seq(Lines) /\ Range(c \o o) = Range(c) \cup Range(o)
  BY <1>1, <1>4
<1>7. (c \o o) \o s \in Seq(Lines) /\ Range((c \o o) \o s) = Range(c) \cup Range(o) \cup Range(s)
  BY <1>1, <1>4, <1>6
<1>11. \A x \in Seq(Lines), y \in Seq(Lines), w \in Seq(Lines) : (x \o y) \o w = x \o (y \o w)
  BY ConcatAssociative
<1>8. PICK z \in Seq(Lines) : z = (h \o p) \o r
  BY <1>1, <1>4, <1>5
<1>9. ((z \o c) \o o) \o s = z \o ((c \o o) \o s)
  <2>1. (z \o c) \o o = z \o (c \o o)
    BY ZenonT(60), <1>1, <1>8, <1>11
  <2>2. (z \o (c \o o)) \o s = z \o ((c \o o) \o s)
    <3>1. PICK y \in Seq(Lines) : y = c \o o
      BY <1>6
    <3>2. \A w \in Seq(Lines) : (z \o y) \o w = z \o (y \o w)
      BY <1>11
    <3>3. s \in Seq(Lines)
      BY <1>1
    <3>4. (z \o y) \o s = z \o (y \o s)
      BY <3>2, <3>3
    <3> QED BY <3>1, <3>4
  <2> QED BY <2>1, <2>2
<1>10. EntryText(e) = ((h \o p) \o r) \o ((c \o o) \o s)
  BY <1>2, <1>8, <1>9
<1> QED BY <1>1, <1>3, <1>5, <1>7, <1>10 DEF h, p, r, c, o, s

Reqs == {l \in Lines : l.key \in Listed}

LEMMA NotListed ==
  \A v : /\ Line(6, "- job", v) \notin Reqs /\ Line(10, "name:", v) \notin Reqs
         /\ Line(10, "context: []", v) \notin Reqs
         /\ Line(10, "attach_workspace: true", v) \notin Reqs
         /\ Line(10, "post-steps:", v) \notin Reqs
BY DEF Line, Reqs, Listed

LEMMA OutsideRequires ==
  ASSUME NEW e \in Entry
  PROVE  /\ \A x \in 1..Len(Before(e)) : Before(e)[x] \notin Reqs
         /\ \A x \in 1..Len(After(e)) : After(e)[x] \notin Reqs
<1>1. /\ Before(e) \in Seq(Lines) /\ After(e) \in Seq(Lines)
      /\ Range(Before(e)) = Range(Opening(e)) \cup Range(Params(e))
      /\ Range(After(e)) = Range(Keys(e)) \cup Range(Opens(e)) \cup Range(StepsText(e))
  BY EntrySplit
<1>2. \A l \in Range(Opening(e)) : l \notin Reqs
  BY HeadHas, NotListed
<1>3. \A l \in Range(Params(e)) : l \notin Reqs
  <2>1. \A l \in Range(Params(e)) : l.key \in {"param", "nested"}
    BY ParamsHave
  <2>2. "param" \notin Listed /\ "nested" \notin Listed
    BY DEF Listed
  <2> QED BY <2>1, <2>2 DEF Reqs
<1>4. \A l \in Range(Keys(e)) : l \notin Reqs
  BY KeysHave, NotListed
<1>5. \A l \in Range(Opens(e)) : l \notin Reqs
  BY KeysHave, NotListed
<1>6. \A l \in Range(StepsText(e)) : l \notin Reqs
  <2>1. StepKeys \cap Listed = {}
    BY DEF StepKeys, Listed
  <2> QED BY <2>1, StepsHave DEF Reqs
<1>7. \A x \in 1..Len(Before(e)) : Before(e)[x] \in Range(Before(e))
  BY <1>1 DEF Range
<1>8. \A x \in 1..Len(After(e)) : After(e)[x] \in Range(After(e))
  BY <1>1 DEF Range
<1> QED BY <1>1, <1>2, <1>3, <1>4, <1>5, <1>6, <1>7, <1>8

\* The n elements after the first `at`.
LEMMA Slice ==
  ASSUME NEW T, NEW t \in Seq(T), NEW at \in Nat, NEW n \in Nat, at + n <= Len(t)
  PROVE  /\ SubSeq(t, at + 1, at + n) \in Seq(T) /\ Len(SubSeq(t, at + 1, at + n)) = n
         /\ \A i \in 1..n : SubSeq(t, at + 1, at + n)[i] = t[at + i]
<1> DEFINE f == at + 1
           q == at + n
<1>1. Len(t) \in Nat /\ f \in Int /\ q \in Int
  OBVIOUS
<1>2. \A i \in f..q : t[i] \in T
  <2> TAKE i \in f..q
  <2>1. i \in 1..Len(t)
    BY <1>1
  <2> QED BY <2>1
<1>3. IF f <= q THEN q - f + 1 = n ELSE n = 0
  OBVIOUS
<1>4. q - f + 1 = n /\ \A i \in 1..n : f + i - 1 = at + i
  OBVIOUS
<1> HIDE DEF f, q
<1>5. /\ SubSeq(t, f, q) \in Seq(T)
      /\ Len(SubSeq(t, f, q)) = IF f <= q THEN q - f + 1 ELSE 0
      /\ \A i \in 1..q - f + 1 : SubSeq(t, f, q)[i] = t[f + i - 1]
  BY <1>1, <1>2, SubSeqProperties
<1>6. /\ SubSeq(t, f, q) \in Seq(T) /\ Len(SubSeq(t, f, q)) = n
      /\ \A i \in 1..n : SubSeq(t, f, q)[i] = t[at + i]
  BY <1>3, <1>4, <1>5
<1> QED BY <1>6 DEF f, q

LEMMA TenDeep ==
  \A v : /\ Line(10, "context: []", v).depth = 10 /\ Line(10, "attach_workspace: true", v).depth = 10
         /\ Line(10, "post-steps:", v).depth = 10 /\ Line(10, "requires:", v).depth = 10
BY DEF Line

LEMMA AfterFirst ==
  ASSUME NEW e \in Entry, Len(After(e)) # 0
  PROVE  After(e)[1].depth = 10
<1>1. Keys(e) \in Seq(Lines) /\ Opens(e) \in Seq(Lines) /\ StepsText(e) \in Seq(Lines)
  BY PartsTyped, EntryIs
<1>2. PICK x \in Seq(Lines) : x = Keys(e) \o Opens(e) /\ Range(x) = Range(Keys(e)) \cup Range(Opens(e))
  BY ZenonT(60), <1>1, RangeConcatenation, ConcatProperties
<1>3. After(e) = x \o StepsText(e)
  BY <1>2 DEF After
<1>4. \A l \in Range(x) : l.depth = 10
  <2>1. \A l \in Range(Keys(e)) : l.depth = 10
    BY ZenonT(60), KeysHave, TenDeep
  <2>2. \A l \in Range(Opens(e)) : l.depth = 10
    BY KeysHave, TenDeep
  <2> QED BY <1>2, <2>1, <2>2
<1>5. CASE Len(x) # 0
  <2>1. 1 \in DOMAIN x /\ x[1] \in Range(x)
    <3>1. 1 \in DOMAIN x
      BY <1>2, <1>5
    <3> QED BY <3>1 DEF Range
  <2>2. (x \o StepsText(e))[1] = x[1]
    <3>1. PICK y \in Seq(Lines) : y = StepsText(e)
      BY <1>1
    <3>2. (x \o y)[1] = x[1]
      BY <1>5, <2>1
    <3> QED BY <3>1, <3>2
  <2> QED BY <1>3, <1>4, <2>1, <2>2
<1>6. CASE Len(x) = 0
  <2>1. x = <<>>
    BY <1>2, <1>6
  <2>2. Range(Opens(e)) = {}
    BY <1>2, <2>1, RangeShort
  <2>3. ASSUME Stepped(e) PROVE FALSE
    <3>1. Range(Opens(e)) = IF Stepped(e) THEN {Line(10, "post-steps:", <<>>)} ELSE {}
      BY KeysHave
    <3> QED BY <2>2, <2>3, <3>1
  <2>5. StepsText(e) = <<>>
    BY <2>3, NoSteps
  <2>6. After(e) = <<>>
    BY <1>3, <2>1, <2>5
  <2> QED BY <2>6
<1> QED BY <1>5, <1>6

\* A list of requirements is kept in the form that can be written, and a body
\* stands below a parameter.
Sound(e) == /\ e.requires.form = "block" => e.requires.items # <<>>
            /\ e.requires.form \in {"absent", "odd"} => e.requires.items = <<>>
            /\ e.extras.nested # <<>> => e.params # <<>>

LEMMA ReqAt ==
  ASSUME NEW t \in Seq(Lines)
  PROVE  RequiresShape(t) = ShapeAt(t, FirstIn(t, Reqs))
<1>1. \A i \in 1..Len(t) : t[i] \in Lines
  OBVIOUS
<1>2. {i \in 1..Len(t) : t[i].key \in {"requires:", "requires: []", "requires: *"}}
        = {i \in 1..Len(t) : t[i] \in Reqs}
  BY <1>1 DEF Reqs, Listed
<1> QED BY <1>2 DEF RequiresShape, SelectInSeq, FirstIn

\* Where the requirements of an entry are found.
LEMMA ReqFound ==
  ASSUME NEW e \in Entry, NEW t, Writes(t, e)
  PROVE  /\ e.requires.form = "absent" => FirstIn(t, Reqs) = 0
         /\ e.requires.form # "absent" =>
              LET at == FirstIn(t, Reqs)
              IN /\ at \in DOMAIN t /\ Significant(t[at]) /\ Rank(t, at) = Len(Before(e)) + 1
                 /\ t[at] = RequiresText(e.requires)[1]
<1>1. PICK a \in Seq(Lines), r \in Seq(Lines), c \in Seq(Lines) :
        /\ a = Before(e) /\ r = RequiresText(e.requires) /\ c = After(e)
        /\ EntryText(e) = (a \o r) \o c
  BY EntrySplit
<1>2. /\ \A x \in 1..Len(a) : a[x] \notin Reqs
      /\ \A x \in 1..Len(c) : c[x] \notin Reqs
  BY <1>1, OutsideRequires
<1>3. t \in Seq(Lines) /\ Said(t) = (a \o r) \o c
  BY <1>1 DEF Writes
<1>4. \A l \in Lines : l \in Reqs => Significant(l)
  BY DEF Reqs, Listed, Significant
<1>5. PICK at : at = FirstIn(t, Reqs)
  OBVIOUS
<1>6. PICK n : n = FirstIn((a \o r) \o c, Reqs)
  OBVIOUS
<1>7. \/ at = 0 /\ n = 0
      \/ /\ at \in DOMAIN t /\ n \in DOMAIN Said(t)
         /\ Significant(t[at]) /\ Rank(t, at) = n /\ Said(t)[n] = t[at]
  BY <1>3, <1>4, <1>5, <1>6, FirstSaid
<1>8. 0 \notin DOMAIN Said(t) /\ 0 \notin DOMAIN t
  <2>1. Said(t) \in Seq(Lines)
    BY <1>3, SaidType
  <2> QED BY <2>1, <1>3, Places
<1>9. CASE e.requires.form = "absent"
  <2>1. r = <<>>
    BY <1>1, <1>9, RequiresHas
  <2>2. \A x \in 1..Len(r) : r[x] \notin Reqs
    BY <2>1
  <2>3. n = 0
    BY <1>2, <1>6, <2>2, FirstAfter
  <2> QED BY <1>5, <1>7, <1>8, <1>9, <2>3
<1>10. CASE e.requires.form # "absent"
  <2>1. Len(r) # 0 /\ r[1] \in Reqs
    <3>1. PICK v \in Seq(Words) : v = e.requires.items
      BY EntryTyped
    <3>2. PICK x \in Lines, y \in Lines, z \in Lines :
            /\ x = Line(10, "requires: []", v) /\ y = Line(10, "requires:", <<>>)
            /\ z = Line(10, "requires: *", <<>>)
      BY Nil, DepthsAre, LineTyped DEF KeyNames
    <3>3. x \in Reqs /\ y \in Reqs /\ z \in Reqs
      BY <3>2 DEF Reqs, Listed, Line
    <3>4. e.requires.form \in {"inline", "block", "odd"}
      BY <1>10, EntryTyped
    <3>5. CASE e.requires.form = "inline"
      <4>1. r = <<x>>
        BY <1>1, <3>1, <3>2, <3>5, RequiresHas
      <4> QED BY <4>1, <3>3
    <3>6. CASE e.requires.form = "odd"
      <4>1. r = <<z>>
        BY <1>1, <3>1, <3>2, <3>6, RequiresHas
      <4> QED BY <4>1, <3>3
    <3>7. CASE e.requires.form = "block"
      <4>1. r = <<Line(10, "requires:", <<>>)>> \o Each(12, "- item", v)
        BY <1>1, <3>1, <3>7, RequiresHas
      <4>2. Len(r) = 1 + Len(v) /\ r[1] = y
        BY <4>1, <3>1, <3>2, BlockHas
      <4>3. Len(v) \in Nat
        BY <3>1
      <4> QED BY <4>2, <4>3, <3>3
    <3> QED BY <3>4, <3>5, <3>6, <3>7
  <2>2. n = Len(a) + 1
    BY <1>2, <1>6, <2>1, FirstAfter
  <2>3. /\ n # 0 /\ ((a \o r) \o c)[n] = r[1]
    <3>1. Len(a) \in Nat /\ 1 \in 1..Len(r)
      BY <1>1, <2>1
    <3>2. ((a \o r) \o c)[Len(a) + 1] = r[1]
      BY <1>1, <3>1, MiddleAt
    <3> QED BY <3>1, <3>2, <2>2
  <2>4. at \in DOMAIN t /\ Significant(t[at]) /\ Rank(t, at) = n /\ Said(t)[n] = t[at]
    BY <1>7, <2>3
  <2> QED BY <1>1, <1>3, <1>5, <1>10, <2>2, <2>3, <2>4
<1> QED BY <1>9, <1>10

\* A list of requirements is read as it was written, whatever form it has, and
\* what is appended to it comes right after its last line.
LEMMA BlockRead ==
  ASSUME NEW e \in Entry, NEW t, Writes(t, e), Nested(t), Sound(e), e.requires.form = "block"
  PROVE  LET s == RequiresShape(t)
             n == Len(e.requires.items)
         IN /\ s.form = "block" /\ s.items = e.requires.items
            /\ s.last \in DOMAIN t /\ Significant(t[s.last]) /\ n \in Nat
            /\ Rank(t, s.last) = Len(Before(e)) + 1 + n
<1>1. PICK a \in Seq(Lines), r \in Seq(Lines), c \in Seq(Lines) :
        /\ a = Before(e) /\ r = RequiresText(e.requires) /\ c = After(e)
        /\ EntryText(e) = (a \o r) \o c
  BY EntrySplit
<1>2. PICK v \in Seq(Words) : v = e.requires.items
  BY EntryTyped
<1>3. r = <<Line(10, "requires:", <<>>)>> \o Each(12, "- item", v)
  BY <1>1, <1>2, RequiresHas
<1>4. /\ Len(r) = 1 + Len(v) /\ r[1] = Line(10, "requires:", <<>>)
      /\ \A i \in 1..Len(v) : r[1 + i] = Line(12, "- item", <<v[i]>>)
  BY <1>3, BlockHas
<1>5. PICK n \in Nat : n = Len(v) /\ n # 0
  BY <1>2 DEF Sound
<1>6. PICK S \in Seq(Lines) : /\ S = Said(t) /\ Len(S) = Len(a) + Len(r) + Len(c)
                              /\ \A x \in 1..Len(r) : S[Len(a) + x] = r[x]
                              /\ \A x \in 1..Len(c) : S[Len(a) + Len(r) + x] = c[x]
  <2>1. Said(t) = (a \o r) \o c
    BY <1>1 DEF Writes
  <2>2. Said(t) \in Seq(Lines)
    BY <2>1, MiddleAt
  <2>3. PICK S \in Seq(Lines) : S = Said(t) /\ S = (a \o r) \o c
    BY <2>1, <2>2
  <2>4. /\ Len(S) = Len(a) + Len(r) + Len(c)
        /\ \A x \in 1..Len(r) : S[Len(a) + x] = r[x]
        /\ \A x \in 1..Len(c) : S[Len(a) + Len(r) + x] = c[x]
    BY <2>3, MiddleAt
  <2> QED BY <2>3, <2>4
<1>7. PICK m \in Nat : m = Len(a)
  BY <1>1
<1>8. t \in Seq(Lines)
  BY DEF Writes
<1>9. PICK at \in DOMAIN t : /\ at = FirstIn(t, Reqs) /\ Significant(t[at]) /\ Rank(t, at) = m + 1
                             /\ t[at] = r[1]
  <2>1. e.requires.form # "absent"
    OBVIOUS
  <2> QED BY <2>1, <1>1, <1>7, ReqFound
<1>10. PICK p \in Nat : p = Len(c)
  BY <1>1
<1>0. Len(r) = 1 + n
  <2>1. Len(r) = 1 + Len(v)
    BY <1>4
  <2> QED BY <2>1, <1>5
<1>11. Len(S) = m + 1 + n + p
  <2>1. Len(S) = Len(a) + Len(r) + Len(c)
    BY <1>6
  <2>2. Len(S) = m + (1 + n) + p
    BY <2>1, <1>0, <1>7, <1>10
  <2> QED BY <2>2
<1>12. \A x \in 1..n : S[m + 1 + x] = Line(12, "- item", <<v[x]>>)
  <2> TAKE x \in 1..n
  <2>1. 1 + x \in 1..Len(r)
    <3>1. 1 + x \in 1..1 + n
      OBVIOUS
    <3> QED BY <3>1, <1>0
  <2>2. PICK y \in 1..Len(r) : y = 1 + x
    BY <2>1
  <2>3. S[m + y] = r[y]
    BY <1>6, <1>7
  <2>4. m + y = m + 1 + x
    BY <2>2
  <2>5. r[1 + x] = Line(12, "- item", <<v[x]>>)
    BY <1>4, <1>5
  <2> QED BY <2>2, <2>3, <2>4, <2>5
<1>13. \A w : Line(12, "- item", w).depth = 12 /\ Line(12, "- item", w).key = "- item"
              /\ Line(12, "- item", w).value = w /\ Deep(Line(12, "- item", w))
  BY DEF Line, Deep
<1>14. \A x \in 0..n : /\ at + x \in DOMAIN t /\ Significant(t[at + x])
                       /\ Rank(t, at + x) = m + 1 + x
                       /\ t[at + x] = S[m + 1 + x]
  <2>1. \A x \in 1..n : Deep(S[m + 1 + x])
    BY <1>12, <1>13
  <2>2. (m + 1) + n <= Len(S)
    BY <1>11
  <2>3. PICK k \in Nat : k = m + 1
    OBVIOUS
  <2>4. Rank(t, at) = k
    BY <1>9, <2>3
  <2>5. Rank(t, at) + n <= Len(Said(t)) /\ \A x \in 1..n : Deep(Said(t)[Rank(t, at) + x])
    <3>1. k + n <= Len(S) /\ \A x \in 1..n : Deep(S[k + x])
      BY <2>1, <2>2, <2>3
    <3> QED BY <3>1, <2>4, <1>6
  <2>6. \A x \in 0..n : /\ at + x \in DOMAIN t /\ Significant(t[at + x])
                        /\ Rank(t, at + x) = Rank(t, at) + x
                        /\ t[at + x] = Said(t)[Rank(t, at) + x]
    BY <1>8, <1>9, <2>5, RunIs
  <2> QED BY <1>6, <2>3, <2>4, <2>6
<1>15. PICK ends : ends = {j \in DOMAIN t : \/ t[j].depth # t[at].depth + 2
                                            \/ t[j].key # "- item"}
  OBVIOUS
<1>16. t[at].depth + 2 = 12 /\ t[at].key = "requires:"
  <2>1. \A w : Line(10, "requires:", w).depth + 2 = 12 /\ Line(10, "requires:", w).key = "requires:"
    BY DEF Line
  <2>2. t[at] = Line(10, "requires:", <<>>)
    BY <1>4, <1>9
  <2> QED BY <2>1, <2>2
<1>17. \A x \in 1..n : at + x \notin ends
  <2> TAKE x \in 1..n
  <2>1. x \in 0..n
    OBVIOUS
  <2>2. t[at + x] = Line(12, "- item", <<v[x]>>)
    BY <2>1, <1>12, <1>14
  <2>3. t[at + x].depth = 12 /\ t[at + x].key = "- item"
    BY <2>2, <1>13
  <2> QED BY <2>3, <1>15, <1>16
<1>18. at \in Nat /\ Len(t) \in Nat /\ DOMAIN t = 1..Len(t)
  BY <1>8
<1>19. PICK q \in DOMAIN t : q = at + n /\ Significant(t[q]) /\ Rank(t, q) = m + 1 + n
  <2>1. n \in 0..n
    OBVIOUS
  <2> QED BY <2>1, <1>14
<1>20. q = Len(t) \/ q + 1 \in ends
  <2> SUFFICES ASSUME q # Len(t), q + 1 \notin ends PROVE FALSE
    OBVIOUS
  <2>1. PICK j \in DOMAIN t : j = q + 1
    BY <1>18
  <2>2. t[j].depth = 12 /\ t[j].key = "- item"
    BY <2>1, <1>15, <1>16
  <2>3. Significant(t[j])
    BY <2>2 DEF Significant
  <2>4. Rank(t, j) = (m + 1 + n) + 1
    BY <1>8, <1>19, <2>1, RankNext
  <2>5. Rank(t, j) \in DOMAIN S /\ S[Rank(t, j)] = t[j]
    BY <1>6, <1>8, <2>3, RankNext
  <2>6. p # 0
    <3>1. (m + 1 + n) + 1 <= Len(S)
      BY <2>4, <2>5, <1>6
    <3> QED BY <3>1, <1>11
  <2>7. Len(a) + Len(r) + 1 = (m + 1 + n) + 1 /\ 1 \in 1..Len(c)
    <3>1. Len(a) + Len(r) + 1 = m + (1 + n) + 1
      BY <1>0, <1>7
    <3> QED BY <3>1, <2>6, <1>10
  <2>8. S[(m + 1 + n) + 1] = c[1]
    BY <2>7, <1>6
  <2>9. c[1].depth = 10
    BY <2>6, <1>1, <1>10, AfterFirst
  <2>10. c[1] = t[j]
    BY <2>4, <2>5, <2>8
  <2>11. 10 = 12
    BY <2>2, <2>9, <2>10
  <2> QED BY <2>11
<1>21. Under(t, at, ends) = SubSeq(t, at + 1, at + n)
  <2>1. ends \subseteq DOMAIN t
    BY <1>15
  <2>2. at + n <= Len(t)
    BY <1>18, <1>19
  <2>3. at + n = Len(t) \/ at + n + 1 \in ends
    BY <1>19, <1>20
  <2>4. at \in DOMAIN t /\ n \in Nat
    OBVIOUS
  <2> QED BY SMTT(40), <2>1, <2>2, <2>3, <2>4, <1>8, <1>17, UnderIs
<1>22. PICK u : u = SubSeq(t, at + 1, at + n)
  OBVIOUS
<1>23. u \in Seq(Lines) /\ Len(u) = n /\ \A i \in 1..n : u[i] = t[at + i]
  <2>1. at \in Nat /\ n \in Nat /\ at + n <= Len(t)
    BY <1>18, <1>19
  <2>2. /\ SubSeq(t, at + 1, at + n) \in Seq(Lines) /\ Len(SubSeq(t, at + 1, at + n)) = n
        /\ \A i \in 1..n : SubSeq(t, at + 1, at + n)[i] = t[at + i]
    BY ZenonT(60), <2>1, <1>8, Slice
  <2> QED BY <2>2, <1>22
<1>24. u # <<>> /\ [i \in DOMAIN u |-> u[i].value[1]] = v
  <2>1. \A i \in 1..n : u[i].value[1] = v[i]
    <3> TAKE i \in 1..n
    <3>1. i \in 0..n
      OBVIOUS
    <3>2. u[i] = Line(12, "- item", <<v[i]>>)
      BY <3>1, <1>12, <1>14, <1>23
    <3>3. u[i].value = <<v[i]>>
      BY <3>2, <1>13
    <3> QED BY <3>3
  <2>2. DOMAIN u = 1..n /\ DOMAIN v = 1..n
    BY <1>2, <1>5, <1>23
  <2>3. [i \in DOMAIN u |-> u[i].value[1]] = [i \in 1..n |-> v[i]]
    BY <2>1, <2>2
  <2>4. [i \in 1..n |-> v[i]] = v
    BY <2>2, <1>2
  <2> QED BY <2>3, <2>4, <1>5, <1>23
<1>25. RequiresShape(t) = Shape("block", v, at, at + n)
  <2>1. RequiresShape(t) = ShapeAt(t, at)
    BY <1>8, <1>9, ReqAt
  <2>2. at # 0
    BY <1>18
  <2>3. ShapeAt(t, at) = BlockShape(Under(t, at, ends), at)
    BY <1>15, <1>16, <2>2 DEF ShapeAt
  <2>4. BlockShape(u, at) = Shape("block", v, at, at + n)
    BY <1>23, <1>24 DEF BlockShape
  <2> QED BY <2>1, <2>3, <2>4, <1>21, <1>22
<1>26. Len(v) = n /\ Len(Before(e)) = m
  BY <1>1, <1>5, <1>7
<1> QED BY <1>2, <1>19, <1>25, <1>26 DEF Shape

LEMMA InRange ==
  ASSUME NEW T, NEW s \in Seq(T)
  PROVE  \A x \in 1..Len(s) : s[x] \in Range(s)
BY DEF Range

-----------------------------------------------------------------------------
(* The other forms of a list of requirements *)

LEMMA InlineRead ==
  ASSUME NEW e \in Entry, NEW t, Writes(t, e), e.requires.form = "inline"
  PROVE  LET s == RequiresShape(t)
         IN /\ s = Shape("inline", e.requires.items, s.at, s.at)
            /\ s.at \in DOMAIN t /\ Significant(t[s.at]) /\ Rank(t, s.at) = Len(Before(e)) + 1
            /\ t[s.at] = Line(10, "requires: []", e.requires.items)
<1>1. PICK v \in Seq(Words) : v = e.requires.items
  BY EntryTyped
<1>2. RequiresText(e.requires) = <<Line(10, "requires: []", v)>>
  BY <1>1, RequiresHas
<1>3. PICK at \in DOMAIN t : /\ at = FirstIn(t, Reqs) /\ Significant(t[at])
                             /\ Rank(t, at) = Len(Before(e)) + 1
                             /\ t[at] = RequiresText(e.requires)[1]
  BY ReqFound
<1>4. t[at] = Line(10, "requires: []", v)
  <2>1. PICK x : x = Line(10, "requires: []", v)
    OBVIOUS
  <2>3. RequiresText(e.requires) = <<x>>
    BY <1>2, <2>1
  <2>2. RequiresText(e.requires)[1] = x
    BY <2>3
  <2> QED BY <1>3, <2>1, <2>2
<1>5. \A w : Line(10, "requires: []", w).key = "requires: []" /\ Line(10, "requires: []", w).value = w
  BY DEF Line
<1>6. t \in Seq(Lines) /\ at # 0
  BY <1>3, Places DEF Writes
<1>7. RequiresShape(t) = Shape("inline", v, at, at)
  BY <1>3, <1>4, <1>5, <1>6, ReqAt DEF ShapeAt
<1>8. Shape("inline", v, at, at).at = at
  BY DEF Shape
<1> QED BY <1>1, <1>3, <1>4, <1>7, <1>8

LEMMA OddRead ==
  ASSUME NEW e \in Entry, NEW t, Writes(t, e), Sound(e)
  PROVE  /\ e.requires.form = "odd" =>
              RequiresShape(t).form = "odd" /\ RequiresShape(t).items = e.requires.items
         /\ e.requires.form = "absent" =>
              RequiresShape(t).form = "absent" /\ RequiresShape(t).items = e.requires.items
<1>1. t \in Seq(Lines)
  BY DEF Writes
<1>2. CASE e.requires.form = "odd"
  <2>1. PICK at \in DOMAIN t : at = FirstIn(t, Reqs) /\ t[at] = RequiresText(e.requires)[1]
    BY <1>2, ReqFound
  <2>0. PICK x : x = Line(10, "requires: *", <<>>)
    OBVIOUS
  <2>2. RequiresText(e.requires) = <<x>>
    BY <2>0, <1>2, RequiresHas
  <2>6. t[at] = x
    BY <2>1, <2>2
  <2>7. x.key = "requires: *"
    BY <2>0 DEF Line
  <2>3. t[at].key = "requires: *"
    BY <2>6, <2>7
  <2>4. at # 0
    BY <1>1, Places
  <2>5. RequiresShape(t) = Shape("odd", <<>>, at, at)
    BY <1>1, <2>1, <2>3, <2>4, ReqAt DEF ShapeAt
  <2> QED BY <2>5, <1>2 DEF Shape, Sound
<1>3. CASE e.requires.form = "absent"
  <2>1. FirstIn(t, Reqs) = 0
    BY <1>3, ReqFound
  <2>2. RequiresShape(t) = Shape("absent", <<>>, 0, 0)
    BY <1>1, <2>1, ReqAt DEF ShapeAt
  <2> QED BY <2>2, <1>3 DEF Shape, Sound
<1> QED BY <1>2, <1>3

LEMMA ShapeRead ==
  ASSUME NEW e \in Entry, NEW t, Writes(t, e), Nested(t), Sound(e)
  PROVE  RequiresShape(t).form = e.requires.form /\ RequiresShape(t).items = e.requires.items
<1>1. e.requires.form \in {"inline", "block", "absent", "odd"}
  BY EntryTyped
<1>2. CASE e.requires.form = "inline"
  <2>1. PICK at : RequiresShape(t) = Shape("inline", e.requires.items, at, at)
    BY <1>2, InlineRead
  <2> QED BY <2>1, <1>2 DEF Shape
<1>3. CASE e.requires.form = "block"
  BY <1>3, BlockRead
<1>4. CASE e.requires.form = "absent"
  BY <1>4, OddRead
<1>5. CASE e.requires.form = "odd"
  BY <1>5, OddRead
<1> QED BY <1>1, <1>2, <1>3, <1>4, <1>5

-----------------------------------------------------------------------------
(* Post-steps *)

Stem(e) == ((Opening(e) \o Params(e)) \o RequiresText(e.requires)) \o Keys(e)
Afters == {l \in Lines : l.depth = 10 /\ l.key = "post-steps:"}

LEMMA NotAfters ==
  \A v : /\ Line(6, "- job", v) \notin Afters /\ Line(10, "name:", v) \notin Afters
         /\ Line(10, "context: []", v) \notin Afters
         /\ Line(10, "attach_workspace: true", v) \notin Afters
         /\ Line(10, "post-steps:", v).depth = 10 /\ Line(10, "post-steps:", v).key = "post-steps:"
BY DEF Line, Afters

LEMMA StemHas ==
  ASSUME NEW e \in Entry
  PROVE  /\ Stem(e) \in Seq(Lines) /\ EntryText(e) = (Stem(e) \o Opens(e)) \o StepsText(e)
         /\ Opens(e) \in Seq(Lines) /\ StepsText(e) \in Seq(Lines)
         /\ \A x \in 1..Len(Stem(e)) : Stem(e)[x] \notin Afters
<1> DEFINE h == Opening(e)
           p == Params(e)
           r == RequiresText(e.requires)
           c == Keys(e)
<1>1. h \in Seq(Lines) /\ p \in Seq(Lines) /\ r \in Seq(Lines) /\ c \in Seq(Lines)
      /\ Opens(e) \in Seq(Lines) /\ StepsText(e) \in Seq(Lines)
  BY PartsTyped, EntryIs
<1>2. EntryText(e) = (Stem(e) \o Opens(e)) \o StepsText(e)
  BY EntryIs DEF Stem
<1>3. \A l \in Range(h) : l \notin Afters
  BY HeadHas, NotAfters
<1>4. \A l \in Range(p) : l \notin Afters
  <2>1. \A l \in Range(Params(e)) : l.key \in {"param", "nested"}
    BY ParamsHave
  <2> QED BY <2>1 DEF Afters
<1>5. \A l \in Range(r) : l \notin Afters
  BY RequiresHas DEF Afters, Listed
<1>6. \A l \in Range(c) : l \notin Afters
  BY KeysHave, NotAfters
<1>7. Stem(e) = ((h \o p) \o r) \o c
  BY DEF Stem
<1> HIDE DEF h, p, r, c
<1>8. \A x \in Seq(Lines), y \in Seq(Lines) :
        x \o y \in Seq(Lines) /\ Range(x \o y) = Range(x) \cup Range(y)
  BY RangeConcatenation, ConcatProperties
<1>9. PICK a \in Seq(Lines) : a = h \o p /\ Range(a) = Range(h) \cup Range(p)
  BY <1>1, <1>8
<1>10. PICK b \in Seq(Lines) : b = a \o r /\ Range(b) = Range(a) \cup Range(r)
  BY <1>1, <1>8
<1>11. PICK s \in Seq(Lines) : s = b \o c /\ Range(s) = Range(b) \cup Range(c)
  BY <1>1, <1>8
<1>12. s = Stem(e)
  BY <1>7, <1>9, <1>10, <1>11
<1>13. \A x \in 1..Len(s) : s[x] \in Range(s)
  BY <1>11, InRange
<1>14. \A x \in 1..Len(s) : s[x] \notin Afters
  BY <1>3, <1>4, <1>5, <1>6, <1>9, <1>10, <1>11, <1>13
<1> QED BY <1>1, <1>2, <1>11, <1>12, <1>14

\* What stands under the post-steps of an entry is read as it was written.
LEMMA PostRead ==
  ASSUME NEW e \in Entry, NEW t, Writes(t, e), Nested(t)
  PROVE  PostSteps(t) = StepsText(e)
<1>1. PICK a \in Seq(Lines), r \in Seq(Lines), c \in Seq(Lines) :
        /\ a = Stem(e) /\ r = Opens(e) /\ c = StepsText(e)
        /\ EntryText(e) = (a \o r) \o c
        /\ \A x \in 1..Len(a) : a[x] \notin Afters
  BY StemHas
<1>2. t \in Seq(Lines) /\ Said(t) = (a \o r) \o c
  BY <1>1 DEF Writes
<1>3. PICK S \in Seq(Lines) : S = Said(t) /\ S = (a \o r) \o c
  BY <1>2, MiddleAt
<1>4. \A l \in Range(c) : Deep(l) /\ l.depth > 10
  BY <1>1, StepsHave
<1>5. \A l \in Lines : l \in Afters => Significant(l)
  BY DEF Afters, Significant
<1>6. Of(10, "post-steps:") = Afters
  BY DEF Of, Afters
<1>7. PICK at : at = FirstIn(t, Afters)
  OBVIOUS
<1>8. Field(t, "post-steps:") = at
  BY <1>2, <1>6, <1>7, AtIs DEF Field
<1>9. \A x \in 1..Len(c) : c[x] \notin Afters
  <2>1. \A l \in Range(c) : l \notin Afters
    BY <1>1, StepsHave DEF Afters, StepKeys
  <2> QED BY <2>1, <1>1 DEF Range
<1>10. PICK n : n = FirstIn(S, Afters)
  OBVIOUS
<1>11. \/ at = 0 /\ n = 0
       \/ /\ at \in DOMAIN t /\ n \in DOMAIN S
          /\ Significant(t[at]) /\ Rank(t, at) = n /\ S[n] = t[at]
  BY <1>2, <1>3, <1>5, <1>7, <1>10, FirstSaid
<1>12. 0 \notin DOMAIN S
  BY <1>3, Places
<1>13. CASE ~Stepped(e)
  <2>1. r = <<>>
    BY <1>1, <1>13, NoSteps
  <2>2. \A x \in 1..Len(r) : r[x] \notin Afters
    BY <2>1
  <2>7. FirstIn((a \o r) \o c, Afters) = 0
    BY ZenonT(60), <1>1, <1>9, <2>2, FirstAfter
  <2>3. n = 0
    BY <1>3, <1>10, <2>7
  <2>4. at = 0
    BY <1>11, <1>12, <2>3
  <2>6. StepsText(e) = <<>>
    BY <1>13, NoSteps
  <2> QED BY <1>8, <2>4, <2>6 DEF PostSteps
<1>14. CASE Stepped(e)
  <2>1. r = <<Line(10, "post-steps:", <<>>)>>
    BY <1>1, <1>14, NoSteps
  <2>2. Len(r) = 1 /\ r[1] = Line(10, "post-steps:", <<>>)
    BY <2>1
  <2>3. r[1] \in Afters
    <3>1. 1 \in DOMAIN r
      BY <2>2, <1>1
    <3>2. r[1] \in Lines
      BY <3>1, <1>1
    <3>3. r[1].depth = 10 /\ r[1].key = "post-steps:"
      BY <2>2, NotAfters
    <3> QED BY <3>2, <3>3 DEF Afters
  <2>4. PICK m \in Nat, p \in Nat : m = Len(a) /\ p = Len(c)
    BY <1>1
  <2>5. n = m + 1 /\ n # 0
    <3>2. Len(r) # 0
      BY <2>2
    <3>4. \A x \in 1..Len(a) : a[x] \notin Afters
      BY <1>1
    <3>3. FirstIn((a \o r) \o c, Afters) = Len(a) + 1
      BY <2>3, <3>2, <3>4, FirstAfter
    <3>1. n = Len(a) + 1
      BY <1>3, <1>10, <3>3
    <3> QED BY <3>1, <2>4
  <2>6. at \in DOMAIN t /\ Significant(t[at]) /\ Rank(t, at) = n
    BY <1>11, <2>5
  <2>7. Len(S) = n + p /\ \A x \in 1..p : S[n + x] = c[x]
    <3>1. Len(S) = Len(a) + Len(r) + Len(c)
          /\ \A x \in 1..Len(c) : S[Len(a) + Len(r) + x] = c[x]
      BY <1>1, <1>3, MiddleAt
    <3>2. Len(a) + Len(r) = n
      BY <2>2, <2>4, <2>5
    <3> QED BY <3>1, <3>2, <2>4
  <2>8. n \in Nat /\ at \in Nat /\ at # 0 /\ Len(t) \in Nat /\ DOMAIN t = 1..Len(t) /\ DOMAIN c = 1..p
    BY <2>4, <2>5, <2>6, <1>1, <1>2, Places
  <2>9. \A x \in 1..p : Deep(S[n + x])
    <3> TAKE x \in 1..p
    <3>1. x \in DOMAIN c
      BY <2>8
    <3>2. c[x] \in Range(c)
      BY <3>1 DEF Range
    <3> QED BY <3>2, <1>4, <2>7
  <2>10. \A x \in 0..p : /\ at + x \in DOMAIN t /\ Significant(t[at + x])
                         /\ Rank(t, at + x) = n + x /\ t[at + x] = S[n + x]
    <3>1. Rank(t, at) + p <= Len(Said(t)) /\ \A x \in 1..p : Deep(Said(t)[Rank(t, at) + x])
      <4>1. n + p <= Len(S)
        BY <2>4, <2>7, <2>8
      <4> QED BY <4>1, <2>6, <2>9, <1>3
    <3>2. \A x \in 0..p : /\ at + x \in DOMAIN t /\ Significant(t[at + x])
                          /\ Rank(t, at + x) = Rank(t, at) + x
                          /\ t[at + x] = Said(t)[Rank(t, at) + x]
      BY <1>2, <2>6, <3>1, <2>4, RunIs
    <3> QED BY <3>2, <2>6, <1>3
  <2>11. PICK q \in DOMAIN t : q = at + p /\ Significant(t[q]) /\ Rank(t, q) = n + p
    <3>1. p \in 0..p
      BY <2>4
    <3> QED BY <3>1, <2>10
  <2>12. PICK ends : ends = {j \in DOMAIN t : t[j].depth < 12}
    OBVIOUS
  <2>13. \A x \in 1..p : at + x \notin ends
    <3> TAKE x \in 1..p
    <3>1. x \in 0..p
      OBVIOUS
    <3>2. t[at + x] = c[x]
      BY <3>1, <2>7, <2>10
    <3>3. c[x].depth \in {12, 16, 18}
      <4>1. c[x] \in Range(c)
        BY <2>8 DEF Range
      <4>2. c[x] \in Lines /\ c[x].depth > 10
        BY <4>1, <1>1, <1>4, <2>8
      <4> QED BY <4>2 DEF Lines, Depths
    <3>4. ~(t[at + x].depth < 12)
      BY <3>2, <3>3
    <3> QED BY <3>4, <2>12
  <2>14. q = Len(t) \/ q + 1 \in ends
    <3> SUFFICES ASSUME q # Len(t), q + 1 \notin ends PROVE FALSE
      OBVIOUS
    <3>1. PICK j \in DOMAIN t : j = q + 1
      BY <2>8
    <3>2. ~(t[j].depth < 12) /\ t[j] \in Lines
      BY <3>1, <2>12, <1>2
    <3>3. Deep(t[j])
      BY <3>2, LineDepth DEF Deep
    <3>4. Significant(t[j])
      BY <3>3 DEF Nested
    <3>5. Rank(t, j) \in DOMAIN S
      BY <3>4, <1>2, <1>3, RankNext
    <3>6. Rank(t, j) = (n + p) + 1
      BY <1>2, <2>11, <3>1, RankNext
    <3>7. Rank(t, j) <= Len(S)
      BY <3>5, <1>3
    <3> QED BY <3>6, <3>7, <2>4, <2>7, <2>8
  <2>15. Under(t, at, ends) = SubSeq(t, at + 1, at + p)
    <3>1. ends \subseteq DOMAIN t
      BY <2>12
    <3>2. at + p <= Len(t)
      BY <2>8, <2>11
    <3>3. at + p = Len(t) \/ at + p + 1 \in ends
      BY <2>11, <2>14
    <3>4. at \in DOMAIN t /\ p \in Nat
      BY <2>4, <2>6
    <3> QED BY ZenonT(60), <3>1, <3>2, <3>3, <3>4, <1>2, <2>13, UnderIs
  <2>16. SubSeq(t, at + 1, at + p) = c
    <3>1. at + p <= Len(t)
      BY <2>8, <2>11
    <3>2. /\ SubSeq(t, at + 1, at + p) \in Seq(Lines) /\ Len(SubSeq(t, at + 1, at + p)) = p
          /\ \A i \in 1..p : SubSeq(t, at + 1, at + p)[i] = t[at + i]
      <4>1. at \in Nat /\ p \in Nat /\ at + p <= Len(t)
        BY <2>4, <2>8, <3>1
      <4>2. t \in Seq(Lines)
        BY <1>2
      <4> QED BY ZenonT(60), <4>1, <4>2, Slice
    <3>3. PICK u \in Seq(Lines) : /\ u = SubSeq(t, at + 1, at + p) /\ Len(u) = p
                                  /\ \A i \in 1..p : u[i] = t[at + i]
      BY <3>2
    <3>4. \A i \in 1..p : u[i] = c[i]
      <4> TAKE i \in 1..p
      <4>1. i \in 0..p
        OBVIOUS
      <4> QED BY <4>1, <2>7, <2>10, <3>3
    <3>5. u = c
      BY <1>1, <2>4, <3>3, <3>4, SeqEqual
    <3> QED BY <3>3, <3>5
  <2>17. PostSteps(t) = Under(t, at, ends)
    BY <1>8, <2>8, <2>12 DEF PostSteps
  <2> QED BY <1>1, <2>15, <2>16, <2>17
<1> QED BY <1>13, <1>14

\* A list with three lines before it.
LEMMA ThreeThen ==
  ASSUME NEW T, NEW a \in T, NEW b \in T, NEW c \in T, NEW t \in Seq(T)
  PROVE  /\ <<a, b, c>> \o t \in Seq(T) /\ Len(<<a, b, c>> \o t) = 3 + Len(t) /\ Len(t) \in Nat
         /\ (<<a, b, c>> \o t)[1] = a /\ (<<a, b, c>> \o t)[2] = b /\ (<<a, b, c>> \o t)[3] = c
         /\ \A i \in 1..Len(t) : (<<a, b, c>> \o t)[3 + i] = t[i]
OBVIOUS

Marks == {"- store_artifacts:", "- persist_to_workspace:"}

LEMMA StepLines ==
  \A v : /\ Line(12, "- store_artifacts:", v).depth = 12
         /\ Line(12, "- store_artifacts:", v).key = "- store_artifacts:"
         /\ Line(12, "- persist_to_workspace:", v).depth = 12
         /\ Line(12, "- persist_to_workspace:", v).key = "- persist_to_workspace:"
         /\ Line(16, "path:", v).depth = 16 /\ Line(16, "path:", v).key = "path:"
         /\ Line(16, "path:", v).value = v
         /\ Line(16, "destination:", v).depth = 16 /\ Line(16, "destination:", v).key = "destination:"
         /\ Line(16, "root:", v).depth = 16 /\ Line(16, "root:", v).key = "root:"
         /\ Line(16, "paths:", v).depth = 16 /\ Line(16, "paths:", v).key = "paths:"
         /\ Line(18, "- item", v).depth = 18 /\ Line(18, "- item", v).key = "- item"
BY DEF Line

\* The lines of the two steps, one by one.
LEMMA StoredIs ==
  ASSUME NEW v \in Seq(Words)
  PROVE  \E s \in Seq(Lines) :
           /\ s = StoreText(v) /\ Len(s) = 3
           /\ s[1].depth = 12 /\ s[1].key = "- store_artifacts:"
           /\ s[2].depth = 16 /\ s[2].key = "path:" /\ s[2].value = v
           /\ s[3].depth = 16 /\ s[3].key = "destination:"
<1>1. PICK a \in Lines, b \in Lines, c \in Lines :
        /\ a = Line(12, "- store_artifacts:", <<>>) /\ b = Line(16, "path:", v)
        /\ c = Line(16, "destination:", v)
  BY Nil, DepthsAre, LineTyped DEF KeyNames
<1>2. /\ a.depth = 12 /\ a.key = "- store_artifacts:"
      /\ b.depth = 16 /\ b.key = "path:" /\ b.value = v
      /\ c.depth = 16 /\ c.key = "destination:"
  BY <1>1, StepLines
<1>3. StoreText(v) = <<a, b, c>>
  BY <1>1 DEF StoreText
<1> DEFINE s == <<a, b, c>>
<1>4. s \in Seq(Lines) /\ Len(s) = 3 /\ s[1] = a /\ s[2] = b /\ s[3] = c
  OBVIOUS
<1>5. s = StoreText(v)
  BY <1>3
<1> HIDE DEF s
<1>6. /\ s = StoreText(v) /\ Len(s) = 3
      /\ s[1].depth = 12 /\ s[1].key = "- store_artifacts:"
      /\ s[2].depth = 16 /\ s[2].key = "path:" /\ s[2].value = v
      /\ s[3].depth = 16 /\ s[3].key = "destination:"
  BY <1>2, <1>4, <1>5
<1> QED BY <1>4, <1>6

LEMMA PersistedIs ==
  ASSUME NEW v \in Seq(Words)
  PROVE  \E s \in Seq(Lines) :
           /\ s = PersistText(v) /\ Len(s) = 3 + Len(v) /\ Len(v) \in Nat
           /\ s[1].depth = 12 /\ s[1].key = "- persist_to_workspace:"
           /\ s[2].depth = 16 /\ s[2].key = "root:" /\ s[3].depth = 16 /\ s[3].key = "paths:"
           /\ \A i \in 1..Len(v) : s[3 + i] = Each(18, "- item", v)[i]
           /\ \A i \in 1..Len(v) : s[3 + i].depth = 18 /\ s[3 + i].key = "- item"
<1>1. PICK a \in Lines, b \in Lines, c \in Lines :
        /\ a = Line(12, "- persist_to_workspace:", <<>>) /\ b = Line(16, "root:", <<>>)
        /\ c = Line(16, "paths:", <<>>)
  BY Nil, DepthsAre, LineTyped DEF KeyNames
<1>2. /\ a.depth = 12 /\ a.key = "- persist_to_workspace:"
      /\ b.depth = 16 /\ b.key = "root:" /\ c.depth = 16 /\ c.key = "paths:"
  BY ZenonT(60), <1>1, StepLines
<1>3. PICK d \in Seq(Lines) : /\ d = Each(18, "- item", v) /\ Len(d) = Len(v)
                              /\ \A i \in 1..Len(v) : d[i] = Line(18, "- item", <<v[i]>>)
  BY ItemsAre
<1>4. PersistText(v) = <<a, b, c>> \o d
  BY <1>1, <1>3 DEF PersistText
<1> DEFINE s == <<a, b, c>> \o d
<1>5. /\ s \in Seq(Lines) /\ Len(s) = 3 + Len(d) /\ Len(d) \in Nat
      /\ s[1] = a /\ s[2] = b /\ s[3] = c
      /\ \A i \in 1..Len(d) : s[3 + i] = d[i]
  BY ThreeThen
<1>11. s = PersistText(v)
  BY <1>4
<1> HIDE DEF s
<1>6. Len(s) = 3 + Len(v) /\ Len(v) \in Nat /\ \A i \in 1..Len(v) : s[3 + i] = d[i]
  BY <1>3, <1>5
<1>7. \A i \in 1..Len(v) : s[3 + i].depth = 18 /\ s[3 + i].key = "- item"
  <2> TAKE i \in 1..Len(v)
  <2>1. s[3 + i] = Line(18, "- item", <<v[i]>>)
    BY <1>3, <1>6
  <2>2. \A w : Line(18, "- item", w).depth = 18 /\ Line(18, "- item", w).key = "- item"
    BY DEF Line
  <2> QED BY <2>1, <2>2
<1>8. s[1].depth = 12 /\ s[1].key = "- persist_to_workspace:"
  BY <1>2, <1>5
<1>9. s[2].depth = 16 /\ s[2].key = "root:" /\ s[3].depth = 16 /\ s[3].key = "paths:"
  BY <1>2, <1>5
<1>10. s = PersistText(v) /\ \A i \in 1..Len(v) : s[3 + i] = Each(18, "- item", v)[i]
  BY <1>3, <1>11, <1>5, <1>6
<1> QED BY <1>5, <1>6, <1>7, <1>8, <1>9, <1>10

LEMMA StepsParts ==
  ASSUME NEW e \in Entry
  PROVE  \E a \in Seq(Lines), b \in Seq(Lines) :
           /\ a = Stored(e) /\ b = Persisted(e) /\ Ours(e) = a \o b /\ a \o b \in Seq(Lines)
           /\ e.extras.store # <<>> => a = StoreText(e.extras.store)
           /\ e.extras.store = <<>> => a = <<>>
           /\ e.extras.persist # <<>> => b = PersistText(e.extras.persist)
           /\ e.extras.persist = <<>> => b = <<>>
<1>1. PICK a \in Seq(Lines), b \in Seq(Lines) : a = Stored(e) /\ b = Persisted(e)
  BY PartsTyped
<1>2. Ours(e) = a \o b /\ a \o b \in Seq(Lines)
  BY <1>1 DEF Ours
<1> QED BY <1>1, <1>2 DEF Stored, Persisted, If

\* A step is found by what it begins with, and is read up to the next.
LEMMA StepFound ==
  ASSUME NEW t \in Seq(Lines), NEW k, NEW at \in DOMAIN t, NEW n \in Nat, at + n <= Len(t),
         FirstIn(t, Of(12, k)) = at, \A x \in 1..n : t[at + x].depth # 12,
         at + n = Len(t) \/ t[at + n + 1].depth = 12
  PROVE  StepItem(t, k) = SubSeq(t, at + 1, at + n)
<1>1. PICK ends : ends = {j \in DOMAIN t : t[j].depth = 12}
  OBVIOUS
<1>2. Len(t) \in Nat /\ at \in Nat /\ at # 0 /\ DOMAIN t = 1..Len(t)
  BY Places
<1>3. ends \subseteq DOMAIN t
  BY <1>1
<1>4. \A x \in 1..n : at + x \notin ends
  BY <1>1
<1>5. at + n = Len(t) \/ at + n + 1 \in ends
  <2> SUFFICES ASSUME at + n # Len(t) PROVE at + n + 1 \in ends
    OBVIOUS
  <2>1. at + n + 1 \in DOMAIN t
    BY <1>2
  <2> QED BY <2>1, <1>1
<1>6. Under(t, at, ends) = SubSeq(t, at + 1, at + n)
  BY <1>2, <1>3, <1>4, <1>5, UnderIs
<1>7. At(t, 12, k) = at
  BY AtIs
<1> QED BY <1>1, <1>2, <1>6, <1>7 DEF StepItem

LEMMA StepMissed ==
  ASSUME NEW t \in Seq(Lines), NEW k, \A l \in Range(t) : l.key # k
  PROVE  StepItem(t, k) = <<>>
<1>1. \A i \in DOMAIN t : t[i] \notin Of(12, k)
  BY DEF Of, Range
<1>2. 0 \notin DOMAIN t
  BY Places
<1>3. FirstIn(t, Of(12, k)) = 0
  BY <1>1, <1>2, FirstInIs
<1>4. At(t, 12, k) = 0
  BY <1>3, AtIs
<1> QED BY <1>4 DEF StepItem

LEMMA FirstAt ==
  ASSUME NEW T, NEW a \in Seq(T), NEW b \in Seq(T), NEW L
  PROVE  /\ (\A x \in 1..Len(a) : a[x] \notin L) /\ Len(b) # 0 /\ b[1] \in L
              => FirstIn(a \o b, L) = Len(a) + 1
         /\ Len(a) # 0 /\ a[1] \in L => FirstIn(a \o b, L) = 1
<1> DEFINE z == <<>>
<1>1. z \in Seq(T) /\ Len(z) = 0 /\ \A x \in 1..Len(z) : z[x] \notin L
  OBVIOUS
<1>2. a \o b \in Seq(T)
  BY ConcatProperties
<1>3. (a \o b) \o z = a \o b /\ z \o a = a
  BY <1>2, ConcatEmptySeq
<1>6. z \in Seq(T)
  BY <1>1
<1>7. Len(z) = 0
  BY <1>1
<1> HIDE DEF z
<1>4. ASSUME \A x \in 1..Len(a) : a[x] \notin L, Len(b) # 0, b[1] \in L
      PROVE  FirstIn(a \o b, L) = Len(a) + 1
  <2>1. FirstIn((a \o b) \o z, L) = Len(a) + 1
    BY <1>6, <1>4, FirstAfter
  <2> QED BY <2>1, <1>3
<1>5. ASSUME Len(a) # 0, a[1] \in L PROVE FirstIn(a \o b, L) = 1
  <2>3. \A x \in 1..Len(z) : z[x] \notin L
    BY <1>1
  <2>1. FirstIn((z \o a) \o b, L) = Len(z) + 1
    BY SMTT(40), <1>6, <2>3, <1>5, FirstAfter
  <2>2. Len(z) + 1 = 1
    BY <1>7
  <2> QED BY <2>1, <2>2, <1>3
<1> QED BY <1>4, <1>5

LEMMA ConcatAt ==
  ASSUME NEW T, NEW a \in Seq(T), NEW b \in Seq(T)
  PROVE  /\ a \o b \in Seq(T) /\ Len(a \o b) = Len(a) + Len(b) /\ Len(a) \in Nat /\ Len(b) \in Nat
         /\ \A x \in 1..Len(a) : (a \o b)[x] = a[x]
         /\ \A x \in 1..Len(b) : (a \o b)[Len(a) + x] = b[x]
BY ConcatProperties

LEMMA AtNil ==
  ASSUME NEW d, NEW k PROVE At(<<>>, d, k) = 0
<1>1. Len(<<>>) = 0 /\ 1..0 = {}
  OBVIOUS
<1> QED BY <1>1 DEF At, SelectInSeq

\* A step is read the same whatever steps of other kinds come after it.
LEMMA StepBefore ==
  ASSUME NEW c \in Seq(Lines), NEW o \in Seq(Lines), NEW k,
         \A l \in Range(o) : l.depth = 12 /\ l.key # k
  PROVE  StepItem(c \o o, k) = StepItem(c, k)
<1>1. CASE Len(o) = 0
  <2>1. o = <<>>
    BY <1>1
  <2>2. c \o <<>> = c
    BY ConcatEmptySeq
  <2> QED BY <2>1, <2>2
<1>2. CASE Len(o) # 0
  <2>1. PICK d \in Seq(Lines) : /\ d = c \o o /\ Len(d) = Len(c) + Len(o)
                                /\ (\A x \in 1..Len(c) : d[x] = c[x])
                                /\ \A x \in 1..Len(o) : d[Len(c) + x] = o[x]
    <3>1. /\ c \o o \in Seq(Lines) /\ Len(c \o o) = Len(c) + Len(o)
          /\ \A x \in 1..Len(c) : (c \o o)[x] = c[x]
          /\ \A x \in 1..Len(o) : (c \o o)[Len(c) + x] = o[x]
      BY ConcatAt
    <3> QED BY <3>1
  <2>2. Len(c) \in Nat /\ Len(o) \in Nat /\ DOMAIN c = 1..Len(c) /\ DOMAIN d = 1..Len(d)
    BY <2>1, Places
  <2>3. \A x \in 1..Len(o) : o[x].depth = 12 /\ o[x].key # k
    BY InRange
  <2>4. PICK L : L = Of(12, k)
    OBVIOUS
  <2>5. \A l : l \in L => l \in Lines /\ l.depth = 12 /\ l.key = k
    BY <2>4 DEF Of
  <2>6. \A x \in 1..Len(o) : o[x] \notin L
    BY <2>3, <2>5
  <2>7. PICK at : at = FirstIn(c, L)
    OBVIOUS
  <2>8. At(c, 12, k) = at /\ At(d, 12, k) = FirstIn(d, L)
    <3>1. At(c, 12, k) = FirstIn(c, Of(12, k)) /\ At(d, 12, k) = FirstIn(d, Of(12, k))
      <4>1. d \in Seq(Lines)
        BY <2>1
      <4> QED BY ONLY c \in Seq(Lines), <4>1, AtIs
    <3> QED BY <3>1, <2>4, <2>7
  <2>9. CASE at = 0
    <3>1. \A i \in DOMAIN c : c[i] \notin L
      <4>1. 0 \notin DOMAIN c
        BY Places
      <4> QED BY <4>1, <2>7, <2>9, FirstInIs
    <3>2. \A i \in DOMAIN d : d[i] \notin L
      <4> TAKE i \in DOMAIN d
      <4>1. PICK m \in Nat, n \in Nat : m = Len(c) /\ n = Len(o)
        BY <2>2
      <4>2. i \in 1..m + n
        BY <2>1, <2>2, <4>1
      <4>3. i \in 1..m \/ (i - m \in 1..n /\ m + (i - m) = i)
        BY <4>2
      <4>4. CASE i \in 1..m
        BY <4>1, <4>4, <2>1, <2>2, <3>1
      <4>5. CASE i - m \in 1..n /\ m + (i - m) = i
        <5>1. PICK x \in 1..n : m + x = i
          BY <4>5
        <5> QED BY <5>1, <4>1, <2>1, <2>6
      <4> QED BY <4>3, <4>4, <4>5
    <3>3. FirstIn(d, L) = 0
      BY <2>1, <3>2, FirstInIs
    <3> QED BY <2>1, <2>8, <2>9, <3>3 DEF StepItem
  <2>10. CASE at # 0
    <3>1. at \in DOMAIN c /\ c[at] \in L /\ \A i \in DOMAIN c : c[i] \in L => at <= i
      BY <2>7, <2>10, FirstInIs
    <3>2. PICK m \in Nat : m = Len(c)
      BY <2>2
    <3>3. at \in Nat /\ at # 0 /\ at <= m /\ m <= Len(d) /\ Len(d) \in Nat
      BY <3>1, <3>2, <2>1, <2>2
    <3>4. at \in DOMAIN d /\ d[at] = c[at]
      BY <3>2, <3>3, <2>1, <2>2
    <3>5. FirstIn(d, L) = at
      <4>1. PICK n : n = FirstIn(d, L)
        OBVIOUS
      <4>2. n \in DOMAIN d /\ d[n] \in L /\ n <= at
        BY <4>1, <3>1, <3>4, <2>1, FirstInIs
      <4>3. n \in DOMAIN c
        BY <4>2, <3>2, <3>3, <2>2
      <4>4. d[n] = c[n]
        BY <4>3, <2>1, <2>2
      <4>5. at <= n /\ n \in Nat
        BY <4>2, <4>3, <4>4, <3>1, <2>2
      <4> QED BY <4>1, <4>2, <4>5, <3>3
    <3>6. PICK n \in Nat : /\ at + n <= m /\ \A x \in 1..n : c[at + x].depth # 12
                           /\ at + n = m \/ c[at + n + 1].depth = 12
      <4> DEFINE E == {j \in Nat : at + j + 1 = m + 1 \/ (at + j + 1 <= m /\ c[at + j + 1].depth = 12)}
      <4>1. PICK z \in Nat : at + z = m
        <5>1. m - at \in Nat /\ at + (m - at) = m
          BY <3>3
        <5> QED BY <5>1
      <4>2. z \in E
        BY <4>1
      <4>3. E \subseteq Nat /\ E # {}
        BY <4>2
      <4>4. PICK n \in E : \A y \in E : n <= y
        <5> HIDE DEF E
        <5> QED BY <4>3, LeastOf
      <4>5. n \in Nat /\ at + n <= m /\ (at + n = m \/ c[at + n + 1].depth = 12)
        BY SMTT(40), <3>3
      <4>6. \A x \in 1..n : c[at + x].depth # 12
        <5> SUFFICES ASSUME NEW x \in 1..n, c[at + x].depth = 12 PROVE FALSE
          OBVIOUS
        <5>1. PICK y \in Nat : y + 1 = x /\ y < n
          <6>1. x - 1 \in Nat /\ (x - 1) + 1 = x /\ x - 1 < n
            BY <4>5
          <6> QED BY <6>1
        <5>2. at + y + 1 = at + x /\ at + y + 1 <= m
          BY <5>1, <4>5, <3>3
        <5>3. y \in E
          BY <5>2
        <5> HIDE DEF E
        <5> QED BY <5>1, <5>3, <4>4, <4>5
      <4> QED BY <4>5, <4>6
    <3>7. StepItem(c, k) = SubSeq(c, at + 1, at + n)
      <4>1. at + n <= Len(c) /\ (at + n = Len(c) \/ c[at + n + 1].depth = 12)
        BY <3>2, <3>6
      <4>2. FirstIn(c, Of(12, k)) = at
        BY <2>4, <2>7
      <4>3. at \in DOMAIN c /\ n \in Nat /\ \A x \in 1..n : c[at + x].depth # 12
        BY <3>1, <3>6
      <4> QED BY ONLY c \in Seq(Lines), <4>1, <4>2, <4>3, StepFound
    <3>8. \A x \in 1..n : d[at + x] = c[at + x]
      <4> TAKE x \in 1..n
      <4>1. at + x \in 1..m
        BY <3>3, <3>6
      <4> QED BY <4>1, <3>2, <2>1
    <3>9. at + n = Len(d) \/ d[at + n + 1].depth = 12
      <4>1. CASE at + n = m
        <5>1. 1 \in 1..Len(o)
          BY <1>2, <2>2
        <5>2. d[m + 1] = o[1] /\ o[1].depth = 12
          BY <5>1, <3>2, <2>1, <2>3
        <5>3. at + n + 1 = m + 1
          BY <4>1
        <5> QED BY <5>2, <5>3
      <4>2. CASE at + n # m
        <5>1. at + n + 1 \in 1..m
          BY <4>2, <3>3, <3>6
        <5>2. d[at + n + 1] = c[at + n + 1]
          BY <5>1, <3>2, <2>1
        <5> QED BY <5>2, <4>2, <3>6
      <4> QED BY <4>1, <4>2
    <3>10. StepItem(d, k) = SubSeq(d, at + 1, at + n)
      <4>1. at + n <= Len(d)
        BY <3>3, <3>6
      <4>2. FirstIn(d, Of(12, k)) = at
        BY <2>4, <3>5
      <4>3. at \in DOMAIN d /\ n \in Nat /\ \A x \in 1..n : d[at + x].depth # 12
        BY <3>4, <3>6, <3>8
      <4>4. d \in Seq(Lines)
        BY <2>1
      <4> QED BY ONLY <4>1, <4>2, <4>3, <4>4, <3>9, StepFound
    <3>11. SubSeq(d, at + 1, at + n) = SubSeq(c, at + 1, at + n)
      <4>1. at + n <= Len(d) /\ at + n <= Len(c)
        BY <3>2, <3>3, <3>6
      <4>2. PICK u \in Seq(Lines) : /\ u = SubSeq(d, at + 1, at + n) /\ Len(u) = n
                                    /\ \A i \in 1..n : u[i] = d[at + i]
        <5>1. d \in Seq(Lines)
          BY <2>1
        <5>2. /\ SubSeq(d, at + 1, at + n) \in Seq(Lines) /\ Len(SubSeq(d, at + 1, at + n)) = n
              /\ \A i \in 1..n : SubSeq(d, at + 1, at + n)[i] = d[at + i]
          BY ZenonT(60), <4>1, <3>3, <5>1, Slice
        <5> QED BY <5>2
      <4>3. PICK v \in Seq(Lines) : /\ v = SubSeq(c, at + 1, at + n) /\ Len(v) = n
                                    /\ \A i \in 1..n : v[i] = c[at + i]
        <5>1. /\ SubSeq(c, at + 1, at + n) \in Seq(Lines) /\ Len(SubSeq(c, at + 1, at + n)) = n
              /\ \A i \in 1..n : SubSeq(c, at + 1, at + n)[i] = c[at + i]
          BY ZenonT(60), <4>1, <3>3, Slice
        <5> QED BY <5>1
      <4>4. \A i \in 1..n : u[i] = v[i]
        BY <4>2, <4>3, <3>8
      <4>5. u = v
        BY ZenonT(60), <4>2, <4>3, <4>4, SeqEqual
      <4> QED BY <4>2, <4>3, <4>5
    <3> QED BY <2>1, <3>7, <3>10, <3>11
  <2> QED BY <2>9, <2>10
<1> QED BY <1>1, <1>2

\* The post-steps that are read are those this tool writes.
LEMMA OursRead ==
  ASSUME NEW e \in Entry, NEW t, Writes(t, e), Nested(t)
  PROVE  \A k \in Marks : StepItem(PostSteps(t), k) = StepItem(Ours(e), k)
<1> TAKE k \in Marks
<1>1. PostSteps(t) = Ours(e) \o Foreign(e)
  BY PostRead DEF StepsText
<1>2. Ours(e) \in Seq(Lines) /\ Foreign(e) \in Seq(Lines)
  BY PartsTyped
<1>3. \A l \in Range(Foreign(e)) : l.depth = 12 /\ l.key # k
  BY ForeignHas DEF Marks
<1> QED BY <1>1, <1>2, <1>3, StepBefore

\* The artifacts of an entry are read as they were written.
LEMMA StoreRead ==
  ASSUME NEW e \in Entry, NEW t, Writes(t, e), Nested(t)
  PROVE  StorePath(t) = e.extras.store
<1>1. PICK a \in Seq(Lines), b \in Seq(Lines) :
        /\ Ours(e) = a \o b /\ a \o b \in Seq(Lines)
        /\ e.extras.store # <<>> => a = StoreText(e.extras.store)
        /\ e.extras.store = <<>> => a = <<>>
        /\ e.extras.persist # <<>> => b = PersistText(e.extras.persist)
        /\ e.extras.persist = <<>> => b = <<>>
  BY StepsParts
<1>2. PICK v \in Seq(Words), w \in Seq(Words) : v = e.extras.store /\ w = e.extras.persist
  BY EntryTyped
<1> DEFINE k == "- store_artifacts:"
           item == StepItem(a \o b, k)
<1>3. StepItem(PostSteps(t), k) = item
  <2>1. k \in Marks
    BY DEF Marks
  <2> QED BY <2>1, <1>1, OursRead
<1>4. StorePath(t) = IF At(item, 16, "path:") = 0 THEN <<>> ELSE item[At(item, 16, "path:")].value
  BY <1>3 DEF StorePath, k
<1>5. CASE v = <<>>
  <2>1. a \o b = b
    BY <1>1, <1>2, <1>5, ConcatEmptySeq
  <2>2. \A l \in Range(b) : l.key # k
    <3>1. CASE w = <<>>
      BY <3>1, <1>1, <1>2, RangeShort
    <3>2. CASE w # <<>>
      <4>1. PICK s \in Seq(Lines) :
              /\ s = PersistText(w) /\ Len(s) = 3 + Len(w) /\ Len(w) \in Nat
              /\ s[1].key = "- persist_to_workspace:" /\ s[2].key = "root:" /\ s[3].key = "paths:"
              /\ \A i \in 1..Len(w) : s[3 + i].key = "- item"
        BY PersistedIs
      <4>2. \A i \in DOMAIN s : s[i].key # k
        <5> TAKE i \in DOMAIN s
        <5>4. PICK n \in Nat : n = Len(w) /\ Len(s) = 3 + n
          BY <4>1
        <5>1. i \in 1..3 + n
          BY <5>4, Places
        <5>2. i = 1 \/ i = 2 \/ i = 3 \/ (i - 3 \in 1..Len(w) /\ 3 + (i - 3) = i)
          <6>1. i = 1 \/ i = 2 \/ i = 3 \/ (i - 3 \in 1..n /\ 3 + (i - 3) = i)
            BY <5>1
          <6> QED BY <6>1, <5>4
        <5>3. CASE i - 3 \in 1..Len(w) /\ 3 + (i - 3) = i
          <6>1. PICK j \in 1..Len(w) : 3 + j = i
            BY <5>3
          <6>2. s[3 + j].key = "- item"
            BY <4>1
          <6> QED BY <6>1, <6>2
        <5> QED BY <5>2, <5>3, <4>1
      <4>3. b = s
        BY <3>2, <4>1, <1>1, <1>2
      <4> QED BY <4>2, <4>3 DEF Range
    <3> QED BY <3>1, <3>2
  <2>3. item = <<>>
    <3> HIDE DEF k
    <3> QED BY <1>1, <2>1, <2>2, StepMissed
  <2>4. At(item, 16, "path:") = 0
    <3>1. At(<<>>, 16, "path:") = 0
      BY AtNil
    <3> QED BY <3>1, <2>3
  <2> QED BY <1>2, <1>4, <1>5, <2>4
<1>6. CASE v # <<>>
  <2>1. /\ Len(a) = 3 /\ a[1].depth = 12 /\ a[1].key = k
        /\ a[2].depth = 16 /\ a[2].key = "path:" /\ a[2].value = v
        /\ a[3].depth = 16
    <3>1. PICK s \in Seq(Lines) :
           /\ s = StoreText(v) /\ Len(s) = 3 /\ s[1].depth = 12 /\ s[1].key = k
           /\ s[2].depth = 16 /\ s[2].key = "path:" /\ s[2].value = v /\ s[3].depth = 16
      BY ZenonT(60), StoredIs
    <3>2. a = s
      BY <3>1, <1>1, <1>2, <1>6
    <3> QED BY <3>1, <3>2
  <2>15. Len(a) = 3
    BY <2>1
  <2>16. a[2].depth = 16 /\ a[3].depth = 16
    BY <2>1
  <2>2. PICK c \in Seq(Lines) : c = a \o b /\ Len(c) = 3 + Len(b) /\ Len(b) \in Nat
                                /\ (\A x \in 1..3 : c[x] = a[x])
                                /\ \A x \in 1..Len(b) : c[3 + x] = b[x]
    <3>1. Len(a) = 3
      BY <2>1
    <3>2. /\ a \o b \in Seq(Lines) /\ Len(a \o b) = Len(a) + Len(b) /\ Len(b) \in Nat
          /\ \A x \in 1..Len(a) : (a \o b)[x] = a[x]
          /\ \A x \in 1..Len(b) : (a \o b)[Len(a) + x] = b[x]
      BY ConcatAt
    <3> QED BY <3>1, <3>2
  <2>3. c[1] = a[1] /\ c[2] = a[2] /\ c[3] = a[3]
    BY <2>2
  <2>4. a[1] \in Of(12, k)
    <3>1. 1 \in DOMAIN a
      BY <2>15, Places
    <3>2. a[1] \in Lines
      BY <3>1
    <3> QED BY <2>1, <3>2 DEF Of
  <2>5. FirstIn(c, Of(12, k)) = 1
    <3>1. Len(a) # 0
      BY <2>15
    <3> HIDE DEF k
    <3> QED BY <2>2, <2>4, <3>1, FirstAt
  <2>6. \A x \in 1..2 : c[1 + x].depth # 12
    <3>1. c[2].depth # 12 /\ c[3].depth # 12
      BY <2>16, <2>3
    <3>2. \A x \in 1..2 : 1 + x = 2 \/ 1 + x = 3
      OBVIOUS
    <3> QED BY <3>1, <3>2
  <2>7. 3 = Len(c) \/ c[4].depth = 12
    <3>1. CASE w = <<>>
      <4>1. Len(b) = 0
        BY <3>1, <1>1, <1>2
      <4> QED BY <4>1, <2>2
    <3>2. CASE w # <<>>
      <4>1. PICK s \in Seq(Lines) : s = PersistText(w) /\ Len(s) = 3 + Len(w) /\ Len(w) \in Nat
                                    /\ s[1].depth = 12
        BY PersistedIs
      <4>2. b = s
        BY <3>2, <4>1, <1>1, <1>2
      <4>3. 1 \in 1..Len(b)
        BY <4>1, <4>2
      <4>4. c[3 + 1] = b[1]
        BY <4>3, <2>2
      <4>5. 3 + 1 = 4
        OBVIOUS
      <4> QED BY <4>1, <4>2, <4>4, <4>5
    <3> QED BY <3>1, <3>2
  <2>8. 1 \in DOMAIN c /\ 3 <= Len(c) /\ Len(c) \in Nat
    BY <2>2, Places
  <2>9. StepItem(c, k) = SubSeq(c, 2, 3)
    <3>1. 1 + 2 <= Len(c) /\ (1 + 2 = Len(c) \/ c[1 + 2 + 1].depth = 12) /\ 1 + 1 = 2 /\ 1 + 2 = 3
      BY <2>7, <2>8
    <3> HIDE DEF k
    <3>2. StepItem(c, k) = SubSeq(c, 1 + 1, 1 + 2)
      BY ZenonT(60), <2>5, <2>6, <2>8, <3>1, StepFound
    <3> QED BY <3>1, <3>2
  <2>10. /\ SubSeq(c, 2, 3) \in Seq(Lines) /\ Len(SubSeq(c, 2, 3)) = 2
         /\ SubSeq(c, 2, 3)[1] = c[2]
    <3>1. /\ SubSeq(c, 1 + 1, 1 + 2) \in Seq(Lines) /\ Len(SubSeq(c, 1 + 1, 1 + 2)) = 2
          /\ \A i \in 1..2 : SubSeq(c, 1 + 1, 1 + 2)[i] = c[1 + i]
      BY <2>8, Slice
    <3>2. 1 + 1 = 2 /\ 1 + 2 = 3 /\ 1 \in 1..2
      OBVIOUS
    <3> QED BY <3>1, <3>2
  <2>11. PICK u \in Seq(Lines) : u = item /\ Len(u) = 2 /\ u[1] = a[2]
    BY <2>2, <2>3, <2>9, <2>10
  <2>12. u[1] \in Of(16, "path:") /\ 1 \in DOMAIN u
    <3>0. Len(u) = 2
      BY <2>11
    <3>1. 1 \in DOMAIN u
      BY <3>0, Places
    <3>2. u[1] \in Lines
      BY <3>1
    <3> QED BY <2>1, <2>11, <3>1, <3>2 DEF Of
  <2>13. FirstIn(u, Of(16, "path:")) = 1
    <3> DEFINE L == Of(16, "path:")
    <3> HIDE DEF L
    <3>1. u[1] \in L /\ 1 \in DOMAIN u
      BY <2>12 DEF L
    <3>2. FirstIn(u, L) \in DOMAIN u /\ FirstIn(u, L) <= 1
      BY <3>1, FirstInIs
    <3>3. FirstIn(u, L) \in Nat /\ FirstIn(u, L) # 0
      BY <3>2, Places
    <3> QED BY <3>2, <3>3 DEF L
  <2>14. At(u, 16, "path:") = 1
    BY <2>13, AtIs
  <2> QED BY <1>2, <1>4, <2>1, <2>11, <2>14
<1> QED BY <1>5, <1>6

LEMMA ItemsJoin ==
  ASSUME NEW d, NEW k
  PROVE  \A p \in Seq(Lines), q \in Seq(Lines) :
           Values(p \o q, d, k) = Values(p, d, k) \o Values(q, d, k)
BY ValuesConcat

\* What is persisted is read as it was written.
LEMMA PersistRead ==
  ASSUME NEW e \in Entry, NEW t, Writes(t, e), Nested(t)
  PROVE  PersistPaths(t) = e.extras.persist
<1>1. PICK a \in Seq(Lines), b \in Seq(Lines) :
        /\ Ours(e) = a \o b /\ a \o b \in Seq(Lines)
        /\ e.extras.store # <<>> => a = StoreText(e.extras.store)
        /\ e.extras.store = <<>> => a = <<>>
        /\ e.extras.persist # <<>> => b = PersistText(e.extras.persist)
        /\ e.extras.persist = <<>> => b = <<>>
  BY StepsParts
<1>2. PICK v \in Seq(Words), w \in Seq(Words) : v = e.extras.store /\ w = e.extras.persist
  BY EntryTyped
<1> DEFINE k == "- persist_to_workspace:"
<1>3. StepItem(PostSteps(t), k) = StepItem(a \o b, k)
  <2>1. k \in Marks
    BY DEF Marks
  <2> QED BY <2>1, <1>1, OursRead
<1>4. PersistPaths(t) = Values(StepItem(a \o b, k), 18, "- item")
  BY <1>3 DEF PersistPaths, k
<1>5. \A i \in DOMAIN a : a[i].key # k
  <2>1. CASE v = <<>>
    <3>1. a = <<>>
      BY <2>1, <1>1, <1>2
    <3>2. Len(a) = 0
      BY <3>1
    <3>3. DOMAIN a = {}
      BY <3>2, Places
    <3> QED BY <3>3
  <2>2. CASE v # <<>>
    <3>1. PICK s \in Seq(Lines) : /\ s = StoreText(v) /\ Len(s) = 3
                                  /\ s[1].key # k /\ s[2].key # k /\ s[3].key # k
      <4>1. PICK s \in Seq(Lines) :
              /\ s = StoreText(v) /\ Len(s) = 3 /\ s[1].key = "- store_artifacts:"
              /\ s[2].key = "path:" /\ s[3].key = "destination:"
        BY ZenonT(60), StoredIs
      <4> QED BY <4>1
    <3>2. a = s /\ Len(s) = 3
      BY <2>2, <3>1, <1>1, <1>2
    <3>3. \A i \in DOMAIN s : i = 1 \/ i = 2 \/ i = 3
      BY <3>2, Places
    <3> QED BY <3>1, <3>2, <3>3
  <2> QED BY <2>1, <2>2
<1>6. CASE w = <<>>
  <2>1. a \o b = a
    BY <1>1, <1>2, <1>6, ConcatEmptySeq
  <2>2. StepItem(a, k) = <<>>
    <3>1. \A l \in Range(a) : l.key # k
      BY <1>5 DEF Range
    <3> HIDE DEF k
    <3> QED BY <3>1, StepMissed
  <2>3. Values(<<>>, 18, "- item") = <<>>
    <3>1. Of(18, "- item") \cap Range(<<>>) = {} /\ <<>> \in Seq(Lines)
      BY RangeShort, Nil
    <3> QED BY <3>1, ValuesNone
  <2> QED BY <1>2, <1>4, <1>6, <2>1, <2>2, <2>3
<1>7. CASE w # <<>>
  <2>1. PICK s \in Seq(Lines), n \in Nat :
           /\ s = PersistText(w) /\ n = Len(w) /\ Len(s) = 3 + n
           /\ s[1].depth = 12 /\ s[1].key = k
           /\ s[2].depth = 16 /\ s[2].key = "root:" /\ s[3].depth = 16 /\ s[3].key = "paths:"
           /\ \A i \in 1..n : s[3 + i] = Each(18, "- item", w)[i]
           /\ \A i \in 1..n : s[3 + i].depth = 18
    BY PersistedIs
  <2>2. b = s
    BY <2>1, <1>1, <1>2, <1>7
  <2>3. Len(b) = 3 + n
    BY <2>1, <2>2
  <2>4. PICK m \in Nat : m = Len(a)
    BY <1>1
  <2>5. PICK c \in Seq(Lines) : c = a \o b /\ Len(c) = m + 3 + n
                                /\ (\A x \in 1..m : c[x] = a[x])
                                /\ \A x \in 1..3 + n : c[m + x] = b[x]
    <3>1. /\ a \o b \in Seq(Lines) /\ Len(a \o b) = Len(a) + Len(b)
          /\ \A x \in 1..Len(a) : (a \o b)[x] = a[x]
          /\ \A x \in 1..Len(b) : (a \o b)[Len(a) + x] = b[x]
      BY ConcatAt
    <3>2. m + (3 + n) = m + 3 + n
      OBVIOUS
    <3> QED BY <3>1, <3>2, <2>3, <2>4
  <2>6. b[1] \in Of(12, k)
    <3>1. 1 \in DOMAIN b
      BY <2>3, Places
    <3>2. b[1] \in Lines
      BY <3>1
    <3> QED BY <2>1, <2>2, <3>2 DEF Of
  <2>7. FirstIn(c, Of(12, k)) = m + 1
    <3>1. Len(b) # 0
      BY <2>3
    <3>4. DOMAIN a = 1..Len(a)
      BY Places
    <3> HIDE DEF k
    <3>2. \A x \in 1..Len(a) : a[x] \notin Of(12, k)
      BY <1>5, <3>4 DEF Of
    <3>3. FirstIn(a \o b, Of(12, k)) = Len(a) + 1
      BY <2>6, <3>1, <3>2, FirstAt
    <3> QED BY <3>3, <2>4, <2>5
  <2>25. /\ b[2].depth # 12 /\ b[3].depth # 12 /\ b[2].depth # 18 /\ b[3].depth # 18
         /\ \A i \in 1..n : b[3 + i].depth # 12
    <3>1. s[2].depth = 16 /\ s[3].depth = 16
      BY <2>1
    <3>2. \A i \in 1..n : s[3 + i].depth = 18
      BY <2>1
    <3> QED BY <3>1, <3>2, <2>2
  <2>8. \A x \in 2..3 + n : b[x].depth # 12
    <3> TAKE x \in 2..3 + n
    <3>1. x = 2 \/ x = 3 \/ (x - 3 \in 1..n /\ 3 + (x - 3) = x)
      OBVIOUS
    <3>2. CASE x - 3 \in 1..n /\ 3 + (x - 3) = x
      <4>1. PICK i \in 1..n : 3 + i = x
        BY <3>2
      <4> QED BY <4>1, <2>25
    <3>3. CASE x = 2
      BY <3>3, <2>25
    <3>4. CASE x = 3
      BY <3>4, <2>25
    <3> QED BY <3>1, <3>2, <3>3, <3>4
  <2>9. PICK at \in Nat : at = m + 1
    OBVIOUS
  <2>10. PICK h \in Nat : h = 2 + n
    OBVIOUS
  <2>11. at + h = Len(c) /\ at \in DOMAIN c
    <3>1. at + h = m + 3 + n
      BY <2>9, <2>10
    <3>2. Len(c) = m + 3 + n
      BY <2>5
    <3>3. 1 <= at /\ at <= Len(c)
      BY <2>9, <3>2
    <3> QED BY <3>1, <3>2, <3>3, Places
  <2>12. \A x \in 1..h : c[at + x] = b[1 + x] /\ 1 + x \in 2..3 + n
    <3> TAKE x \in 1..h
    <3>1. 1 + x \in 1..3 + n /\ m + (1 + x) = at + x /\ 1 + x \in 2..3 + n
      BY <2>9, <2>10
    <3>2. PICK y \in 1..3 + n : y = 1 + x
      BY <3>1
    <3>3. c[m + y] = b[y]
      BY <2>5
    <3> QED BY <3>1, <3>2, <3>3
  <2>13. StepItem(c, k) = SubSeq(c, at + 1, at + h)
    <3>1. \A x \in 1..h : c[at + x].depth # 12
      BY <2>8, <2>12
    <3> HIDE DEF k
    <3>2. FirstIn(c, Of(12, k)) = at
      BY <2>7, <2>9
    <3>3. at + h <= Len(c)
      BY <2>11, Places
    <3> QED BY <3>1, <3>2, <3>3, <2>11, StepFound
  <2>14. /\ SubSeq(c, at + 1, at + h) \in Seq(Lines) /\ Len(SubSeq(c, at + 1, at + h)) = h
         /\ \A i \in 1..h : SubSeq(c, at + 1, at + h)[i] = c[at + i]
    <3>1. at + h <= Len(c)
      BY <2>11, Places
    <3> QED BY <3>1, Slice
  <2>15. PICK u \in Seq(Lines) : u = StepItem(c, k) /\ Len(u) = h /\ \A i \in 1..h : u[i] = b[1 + i]
    BY <2>12, <2>13, <2>14
  <2>16. PICK d \in Seq(Lines) : d = Each(18, "- item", w) /\ Len(d) = n
    BY <2>1, ItemsAre
  <2>17. b[2] \in Lines /\ b[3] \in Lines
    <3>1. 2 \in DOMAIN b /\ 3 \in DOMAIN b
      BY <2>3, Places
    <3> QED BY <3>1
  <2>18. PICK x \in Seq(Lines) : x = <<b[2], b[3]>> /\ Len(x) = 2 /\ x[1] = b[2] /\ x[2] = b[3]
                                 /\ Range(x) = {b[2], b[3]}
    <3> DEFINE x == <<b[2], b[3]>>
    <3>1. x \in Seq(Lines) /\ Len(x) = 2 /\ x[1] = b[2] /\ x[2] = b[3] /\ DOMAIN x = {1, 2}
      BY <2>17
    <3>2. Range(x) = {b[2], b[3]}
      <4> HIDE DEF x
      <4> QED BY <3>1 DEF Range
    <3> HIDE DEF x
    <3>3. x = <<b[2], b[3]>>
      BY DEF x
    <3> QED BY <3>1, <3>2, <3>3
  <2>19. PICK y \in Seq(Lines) : y = x \o d /\ Len(y) = 2 + n /\ (\A i \in 1..2 : y[i] = x[i])
                                 /\ \A i \in 1..n : y[2 + i] = d[i]
    <3>1. /\ x \o d \in Seq(Lines) /\ Len(x \o d) = Len(x) + Len(d)
          /\ \A i \in 1..Len(x) : (x \o d)[i] = x[i]
          /\ \A i \in 1..Len(d) : (x \o d)[Len(x) + i] = d[i]
      BY ConcatAt
    <3>2. Len(x) = 2 /\ Len(d) = n
      BY <2>16, <2>18
    <3> QED BY ZenonT(60), <3>1, <3>2
  <2>20. u = y
    <3>1. \A i \in 1..h : u[i] = y[i]
      <4> TAKE i \in 1..h
      <4>1. i = 1 \/ i = 2 \/ (i - 2 \in 1..n /\ 2 + (i - 2) = i)
        BY <2>10
      <4>2. CASE i = 1
        <5>2. 1 \in 1..h /\ 1 \in 1..2 /\ 1 + 1 = 2
          BY <2>10
        <5>1. u[1] = b[2] /\ y[1] = x[1]
          BY <5>2, <2>15, <2>19
        <5> QED BY <5>1, <4>2, <2>18
      <4>3. CASE i = 2
        <5>2. 2 \in 1..h /\ 2 \in 1..2 /\ 1 + 2 = 3
          BY <2>10
        <5>1. u[2] = b[3] /\ y[2] = x[2]
          BY <5>2, <2>15, <2>19
        <5> QED BY <5>1, <4>3, <2>18
      <4>4. CASE i - 2 \in 1..n /\ 2 + (i - 2) = i
        <5>1. PICK j \in 1..n : 2 + j = i
          BY <4>4
        <5>2. y[i] = d[j]
          BY <5>1, <2>19
        <5>3. u[i] = b[1 + i] /\ 1 + i = 3 + j
          <6>1. u[i] = b[1 + i]
            BY <2>15
          <6>2. 1 + i = 3 + j
            BY <5>1
          <6> QED BY <6>1, <6>2
        <5>4. b[3 + j] = d[j]
          BY <2>1, <2>2, <2>16
        <5> QED BY <5>2, <5>3, <5>4
      <4> QED BY <4>1, <4>2, <4>3, <4>4
    <3> QED BY ZenonT(60), <3>1, <2>10, <2>15, <2>19, SeqEqual
  <2>21. Values(x, 18, "- item") = <<>>
    <3>1. \A l \in Range(x) : l.depth # 18
      BY <2>25, <2>18
    <3>2. Of(18, "- item") \cap Range(x) = {}
      BY <3>1 DEF Of
    <3> QED BY <3>2, ValuesNone
  <2>22. Values(d, 18, "- item") = w
    BY <2>16, ValuesEach DEF Depths, KeyNames
  <2>23. Values(y, 18, "- item") = Values(x, 18, "- item") \o Values(d, 18, "- item")
    <3>1. \A p \in Seq(Lines), q \in Seq(Lines) :
            Values(p \o q, 18, "- item") = Values(p, 18, "- item") \o Values(q, 18, "- item")
      BY ItemsJoin
    <3>2. Values(x \o d, 18, "- item") = Values(x, 18, "- item") \o Values(d, 18, "- item")
      BY <3>1
    <3> QED BY <3>2, <2>19
  <2>24. <<>> \o w = w
    BY ConcatEmptySeq
  <2> QED BY <1>2, <1>4, <2>5, <2>15, <2>20, <2>21, <2>22, <2>23, <2>24
<1> QED BY <1>6, <1>7

\* An entry begins with the line of its job, and nothing else in it is as shallow.
LEMMA EntryBegins ==
  ASSUME NEW e \in Entry
  PROVE  /\ EntryText(e) \in Seq(Lines) /\ 1 \in DOMAIN EntryText(e)
         /\ EntryText(e)[1] = Line(6, "- job", <<e.orbJob>>)
<1>1. Before(e) \in Seq(Lines) /\ RequiresText(e.requires) \in Seq(Lines) /\ After(e) \in Seq(Lines)
      /\ EntryText(e) = (Before(e) \o RequiresText(e.requires)) \o After(e)
  BY EntrySplit
<1>2. Opening(e) \in Seq(Lines) /\ Params(e) \in Seq(Lines) /\ 1 \in DOMAIN Opening(e)
  BY PartsTyped, HeadHas
<1>3. PICK h \in Seq(Lines), p \in Seq(Lines), b \in Seq(Lines) :
        h = Opening(e) /\ p = Params(e) /\ b = Before(e)
  BY <1>1, <1>2
<1>4. b = h \o p /\ 1 \in DOMAIN h
  BY <1>2, <1>3 DEF Before
<1>5. 1 \in 1..Len(b) /\ b[1] = h[1]
  BY <1>4, ConcatAt
<1>6. PICK r \in Seq(Lines), c \in Seq(Lines) : r = RequiresText(e.requires) /\ c = After(e)
  BY <1>1
<1>7. EntryText(e) = (b \o r) \o c
  BY <1>1, <1>3, <1>6
<1>8. PICK n \in Nat : n = Len(b) /\ n # 0
  BY <1>5
<1>9. /\ (b \o r) \o c \in Seq(Lines) /\ Len((b \o r) \o c) = Len(b) + Len(r) + Len(c)
      /\ ((b \o r) \o c)[1] = b[1] /\ Len(r) \in Nat /\ Len(c) \in Nat
  BY <1>5, MiddleAt
<1>10. 1 \in DOMAIN ((b \o r) \o c)
  <2>1. PICK s \in Seq(Lines) : s = (b \o r) \o c /\ Len(s) = Len(b) + Len(r) + Len(c)
    BY <1>9
  <2>2. 1 <= Len(s)
    BY <2>1, <1>8, <1>9
  <2> QED BY <2>1, <2>2, Places
<1>11. Opening(e)[1] = Line(6, "- job", <<e.orbJob>>)
  BY HeadHas
<1> QED BY <1>3, <1>5, <1>7, <1>9, <1>10, <1>11

\* What the scanners can see of an entry: neither the body below a parameter nor a
\* post-step of another kind.
Seen(e, m) ==
  [orbJob |-> e.orbJob, name |-> e.name, requires |-> e.requires, params |-> e.params,
   extras |-> [context |-> e.extras.context, attach |-> e.extras.attach,
               store |-> e.extras.store, persist |-> e.extras.persist,
               nested |-> <<>>, steps |-> <<>>],
   marked |-> m]

\* Whatever blank lines and comments without a colon stand in an entry, in front of
\* any of its lines but those of a nested list, and whatever stands below its
\* parameters and among its post-steps, the scanners read from it the name,
\* requires, parameters, context, workspace and own post-steps that it was written
\* with, and nothing of the rest (wire_ci.rs:906-1088, :1237-1421).
THEOREM EntryRead ==
  ASSUME NEW e \in Entry, NEW t, Writes(t, e), Nested(t), Sound(e), 1 \in DOMAIN t,
         Significant(t[1]), NEW m
  PROVE  EntryOf(t, RequiresShape(t), m) = Seen(e, m)
<1>1. t \in Seq(Lines) /\ Said(t) = EntryText(e)
  BY DEF Writes
<1>2. t[1].value[1] = e.orbJob
  <2>1. Rank(t, 1) = 1
    BY <1>1, RankEnds
  <2>2. t[1] = EntryText(e)[1]
    BY <1>1, <2>1, RankNext
  <2>3. \A v : Line(6, "- job", v).value = v
    BY DEF Line
  <2>4. t[1].value = <<e.orbJob>>
    BY <2>2, <2>3, EntryBegins
  <2> QED BY <2>4
<1>3. ExplicitName(t) = e.name
  BY NameRead
<1>4. RequiresShape(t).form = e.requires.form /\ RequiresShape(t).items = e.requires.items
  BY ShapeRead
<1>5. CurrentParams(t) = e.params
  BY ParamsRead
<1>6. Scalar(t, "context: []") = e.extras.context
  BY ContextRead
<1>7. (Field(t, "attach_workspace: true") # 0) = e.extras.attach
  BY AttachRead
<1>8. StorePath(t) = e.extras.store /\ PersistPaths(t) = e.extras.persist
  BY StoreRead, PersistRead
<1>9. [form |-> RequiresShape(t).form, items |-> RequiresShape(t).items] = e.requires
  <2>1. e.requires \in [form : Readable \cup {"odd"}, items : Seq(Words)]
    BY DEF Entry
  <2>2. e.requires = [form |-> e.requires.form, items |-> e.requires.items]
    BY <2>1
  <2> QED BY <2>2, <1>4
<1> QED BY <1>2, <1>3, <1>5, <1>6, <1>7, <1>8, <1>9 DEF EntryOf, Seen

-----------------------------------------------------------------------------
(* The entries of a workflow, one after the other *)

\* Lines of an entry: its own one is as deep as 6, the others are deeper.
Inner == {l \in Sayings : l.depth \in {10, 12, 16, 18}}
JobLine(o) == Line(6, "- job", <<o>>)
Outer == {JobLine(o) : o \in Words}

LEMMA SayingIs ==
  ASSUME NEW d \in Depths, NEW k \in KeyNames \ {"", "#", "#:", "# >>>", "# <<<"}, NEW v \in Seq(Words)
  PROVE  Line(d, k, v) \in Sayings
<1>1. Line(d, k, v) \in Lines
  BY LineTyped
<1>2. Line(d, k, v).key = k
  BY DEF Line
<1> QED BY <1>1, <1>2 DEF Sayings, Significant

LEMMA Wordy ==
  \A v : /\ Line(10, "name:", v).depth = 10 /\ Line(10, "context: []", v).depth = 10
         /\ Line(10, "attach_workspace: true", v).depth = 10
         /\ Line(10, "post-steps:", v).depth = 10
         /\ Significant(Line(10, "name:", v)) /\ Significant(Line(10, "context: []", v))
         /\ Significant(Line(10, "attach_workspace: true", v))
         /\ Significant(Line(10, "post-steps:", v)) /\ Significant(Line(6, "- job", v))
BY DEF Line, Significant

\* Everything an entry says after its first line is deeper than that line.
LEMMA EntrySays ==
  ASSUME NEW e \in Entry
  PROVE  \A l \in Range(EntryText(e)) : l = JobLine(e.orbJob) \/ l \in Inner
<1> SUFFICES ASSUME NEW l \in Range(EntryText(e)), l # JobLine(e.orbJob) PROVE l \in Inner
  OBVIOUS
<1>1. l \in Lines
  BY EntryLines
<1>2. CASE l \in Range(Opening(e))
  <2>1. l = Line(10, "name:", <<e.name>>)
    BY <1>2, HeadHas DEF JobLine
  <2>2. l.depth = 10 /\ Significant(l)
    BY <2>1, Wordy
  <2> QED BY <1>1, <2>2 DEF Inner, Sayings
<1>3. CASE l \in Range(Params(e))
  <2>1. (l.depth = 10 /\ l.key = "param") \/ (l.depth = 12 /\ l.key = "nested")
    BY <1>3, ParamsHave
  <2> QED BY <1>1, <2>1 DEF Inner, Sayings, Significant
<1>4. CASE l \in Range(RequiresText(e.requires))
  <2>1. (l.depth = 10 /\ l.key \in Listed) \/ (l.depth = 12 /\ l.key = "- item")
    BY <1>4, RequiresHas
  <2> QED BY <1>1, <2>1 DEF Inner, Sayings, Significant, Listed
<1>5. CASE l \in Range(Keys(e)) \/ l \in Range(Opens(e))
  <2>1. \A v : \/ l = Line(10, "context: []", v) \/ l = Line(10, "attach_workspace: true", v)
               \/ l = Line(10, "post-steps:", v) => l.depth = 10 /\ Significant(l)
    BY Wordy
  <2>2. \E v : \/ l = Line(10, "context: []", v) \/ l = Line(10, "attach_workspace: true", v)
               \/ l = Line(10, "post-steps:", v)
    BY <1>5, KeysHave
  <2>3. l.depth = 10 /\ Significant(l)
    BY <2>1, <2>2, Wordy
  <2> QED BY <1>1, <2>3 DEF Inner, Sayings
<1>6. CASE l \in Range(StepsText(e))
  <2>1. l.depth > 10 /\ l.key \in StepKeys
    BY <1>6, StepsHave
  <2>2. l.depth \in {12, 16, 18}
    BY <1>1, <2>1 DEF Lines, Depths
  <2> QED BY <1>1, <2>1, <2>2 DEF Inner, Sayings, Significant, StepKeys
<1> QED BY <1>2, <1>3, <1>4, <1>5, <1>6, EntryRange

LEMMA JobLineIs ==
  ASSUME NEW o \in Words
  PROVE  JobLine(o) \in Sayings /\ JobLine(o) \in Lines /\ JobLine(o).depth = 6 /\ JobLine(o).key = "- job"
         /\ JobLine(o).value = <<o>>
<1>1. \A v : /\ Line(6, "- job", v).depth = 6 /\ Line(6, "- job", v).key = "- job"
             /\ Line(6, "- job", v).value = v
  BY DEF Line
<1>2. JobLine(o) \in Lines
  <2> DEFINE k == "- job"
  <2>1. k \in KeyNames
    BY DEF KeyNames
  <2> HIDE DEF k
  <2>2. Line(6, k, <<o>>) \in Lines
    BY <2>1, DepthsAre, LineOne
  <2> QED BY <2>2 DEF JobLine, k
<1> QED BY <1>1, <1>2 DEF JobLine, Sayings, Significant

Texts == [e \in Entry |-> EntryText(e)]

LEMMA EntrySayings ==
  ASSUME NEW e \in Entry PROVE EntryText(e) \in Seq(Sayings)
<1>1. PICK t \in Seq(Lines) : t = EntryText(e)
  BY EntryBegins
<1>2. e.orbJob \in Words
  BY EntryTyped
<1>3. \A l \in Range(t) : l \in Sayings
  BY <1>1, <1>2, EntrySays, JobLineIs DEF Inner
<1>4. \A i \in 1..Len(t) : t[i] \in Sayings
  <2>1. DOMAIN t = 1..Len(t)
    BY Places
  <2> QED BY <1>3, <2>1 DEF Range
<1>5. t \in Seq(Sayings)
  <2>1. Len(t) \in Nat /\ t = [i \in 1..Len(t) |-> t[i]]
    OBVIOUS
  <2>2. t \in [1..Len(t) -> Sayings]
    BY <1>4, <2>1
  <2> QED BY <2>1, <2>2
<1> QED BY <1>1, <1>5

LEMMA TextsMap == Maps(Texts, Entry, Lines) /\ Maps(Texts, Entry, Sayings)
BY EntryBegins, EntrySayings DEF Maps, Texts

LEMMA JobsIs ==
  ASSUME NEW es \in Seq(Entry)
  PROVE  JobsText(es) = Through(Texts, es)
<1>1. \A i \in DOMAIN es : es[i] \in Entry
  OBVIOUS
<1>2. [i \in DOMAIN es |-> EntryText(es[i])] = [i \in DOMAIN es |-> Texts[es[i]]]
  BY <1>1 DEF Texts
<1> QED BY <1>2 DEF JobsText, Through

LEMMA JobsType ==
  ASSUME NEW es \in Seq(Entry)
  PROVE  JobsText(es) \in Seq(Lines) /\ JobsText(es) \in Seq(Sayings)
BY JobsIs, TextsMap, ThroughType

LEMMA JobsConcat ==
  ASSUME NEW a \in Seq(Entry), NEW b \in Seq(Entry)
  PROVE  JobsText(a \o b) = JobsText(a) \o JobsText(b)
<1>1. a \o b \in Seq(Entry)
  BY ConcatProperties
<1>2. Through(Texts, a \o b) = Through(Texts, a) \o Through(Texts, b)
  BY TextsMap, ThroughConcat
<1> QED BY <1>1, <1>2, JobsIs

LEMMA JobsNone == JobsText(<<>>) = <<>>
<1>1. <<>> \in Seq(Entry)
  OBVIOUS
<1> QED BY <1>1, JobsIs, ThroughEmpty

LEMMA JobsOne ==
  ASSUME NEW e \in Entry PROVE JobsText(<<e>>) = EntryText(e)
<1>1. <<e>> \in Seq(Entry)
  OBVIOUS
<1>2. Through(Texts, <<e>>) = Texts[e]
  BY TextsMap, ThroughOne
<1> QED BY <1>1, <1>2, JobsIs DEF Texts

\* A sequence around one of its elements.
LEMMA Around ==
  ASSUME NEW T, NEW s \in Seq(T), NEW i \in DOMAIN s
  PROVE  /\ SubSeq(s, 1, i - 1) \in Seq(T) /\ SubSeq(s, i + 1, Len(s)) \in Seq(T) /\ <<s[i]>> \in Seq(T)
         /\ s = (SubSeq(s, 1, i - 1) \o <<s[i]>>) \o SubSeq(s, i + 1, Len(s))
<1>1. Len(s) \in Nat /\ i \in 1..Len(s) /\ s[i] \in T
  OBVIOUS
<1>2. PICK b \in 1..Len(s) + 1 : b = i + 1 /\ i <= b /\ b - 1 = i
  BY <1>1
<1>6. i \in 1..Len(s) + 1
  BY <1>1
<1>3. /\ SubSeq(s, 1, i - 1) \in Seq(T) /\ SubSeq(s, i, b - 1) \in Seq(T)
      /\ SubSeq(s, b, Len(s)) \in Seq(T)
      /\ SubSeq(s, 1, b - 1) = SubSeq(s, 1, i - 1) \o SubSeq(s, i, b - 1)
      /\ s = SubSeq(s, 1, b - 1) \o SubSeq(s, b, Len(s))
  <2>1. i <= b
    BY <1>2
  <2> QED BY ZenonT(60), <2>1, <1>6, InThree
<1>4. SubSeq(s, i, b - 1) = <<s[i]>>
  <2>1. SubSeq(s, i, i) \in Seq(T) /\ Len(SubSeq(s, i, i)) = 1
    BY <1>1
  <2>2. SubSeq(s, i, i)[1] = s[i]
    BY <1>1
  <2>3. <<s[i]>> \in Seq(T) /\ Len(<<s[i]>>) = 1 /\ <<s[i]>>[1] = s[i]
    BY <1>1
  <2> DEFINE u == SubSeq(s, i, i)
             v == <<s[i]>>
  <2>4. u \in Seq(T) /\ v \in Seq(T) /\ Len(u) = Len(v) /\ \A j \in 1..Len(u) : u[j] = v[j]
    BY <2>1, <2>2, <2>3
  <2> HIDE DEF u, v
  <2>5. u = v
    BY <2>4, SeqEqual
  <2> QED BY <2>5, <1>2 DEF u, v
<1>5. <<s[i]>> \in Seq(T)
  BY <1>1
<1> QED BY <1>2, <1>3, <1>4, <1>5

LEMMA JobsAround ==
  ASSUME NEW es \in Seq(Entry), NEW i \in DOMAIN es
  PROVE  /\ JobsText(SubSeq(es, 1, i - 1)) \in Seq(Lines)
         /\ JobsText(SubSeq(es, i + 1, Len(es))) \in Seq(Lines)
         /\ JobsText(es) = (JobsText(SubSeq(es, 1, i - 1)) \o EntryText(es[i]))
                              \o JobsText(SubSeq(es, i + 1, Len(es)))
<1>6. /\ SubSeq(es, 1, i - 1) \in Seq(Entry) /\ SubSeq(es, i + 1, Len(es)) \in Seq(Entry)
      /\ <<es[i]>> \in Seq(Entry)
      /\ es = (SubSeq(es, 1, i - 1) \o <<es[i]>>) \o SubSeq(es, i + 1, Len(es))
  BY Around
<1>7. es[i] \in Entry
  OBVIOUS
<1>1. PICK a \in Seq(Entry), b \in Seq(Entry), m \in Seq(Entry) :
        /\ a = SubSeq(es, 1, i - 1) /\ b = SubSeq(es, i + 1, Len(es)) /\ m = <<es[i]>>
        /\ es = (a \o m) \o b
  BY <1>6
<1>2. a \o m \in Seq(Entry)
  BY ConcatProperties
<1>3. JobsText(es) = JobsText(a \o m) \o JobsText(b)
  BY ZenonT(60), <1>1, <1>2, JobsConcat
<1>4. JobsText(a \o m) = JobsText(a) \o JobsText(m)
  BY JobsConcat
<1>5. JobsText(m) = EntryText(es[i])
  BY <1>1, <1>7, JobsOne
<1> QED BY <1>1, <1>3, <1>4, <1>5, JobsType

\* One entry in place of another.
LEMMA JobsExcept ==
  ASSUME NEW es \in Seq(Entry), NEW i \in DOMAIN es, NEW e \in Entry
  PROVE  /\ [es EXCEPT ![i] = e] \in Seq(Entry)
         /\ JobsText([es EXCEPT ![i] = e])
              = (JobsText(SubSeq(es, 1, i - 1)) \o EntryText(e)) \o JobsText(SubSeq(es, i + 1, Len(es)))
<1>1. PICK n \in Seq(Entry) : n = [es EXCEPT ![i] = e] /\ Len(n) = Len(es) /\ n[i] = e
                              /\ \A j \in 1..Len(es) : j # i => n[j] = es[j]
  <2> DEFINE n == [es EXCEPT ![i] = e]
  <2>1. n \in Seq(Entry) /\ Len(n) = Len(es) /\ n[i] = e
        /\ \A j \in 1..Len(es) : j # i => n[j] = es[j]
    OBVIOUS
  <2> HIDE DEF n
  <2> QED BY <2>1 DEF n
<1>2. i \in DOMAIN n /\ i \in 1..Len(es) /\ Len(es) \in Nat
  BY <1>1, Places
<1>3. SubSeq(n, 1, i - 1) = SubSeq(es, 1, i - 1)
  <2>1. \A j \in 1..i - 1 : n[j] = es[j]
    BY <1>1, <1>2
  <2>2. PICK x \in Seq(Entry), y \in Seq(Entry) : x = SubSeq(n, 1, i - 1) /\ y = SubSeq(es, 1, i - 1)
          /\ Len(x) = i - 1 /\ Len(y) = i - 1 /\ \A j \in 1..i - 1 : x[j] = n[j] /\ y[j] = es[j]
    <3>5. i - 1 \in Nat /\ 0 \in Nat
      BY <1>2
    <3>6. PICK z \in Nat : z = 0
      BY <3>5
    <3>7. PICK h \in Nat : h = i - 1
      BY <3>5
    <3>1. z = 0 /\ h = i - 1
      BY <3>6, <3>7
    <3>2. /\ SubSeq(n, z + 1, z + h) \in Seq(Entry) /\ Len(SubSeq(n, z + 1, z + h)) = h
          /\ \A j \in 1..h : SubSeq(n, z + 1, z + h)[j] = n[z + j]
      <4>1. z + h <= Len(n)
        BY <1>1, <1>2, <3>1
      <4> QED BY <4>1, <3>1, Slice
    <3>3. /\ SubSeq(es, z + 1, z + h) \in Seq(Entry) /\ Len(SubSeq(es, z + 1, z + h)) = h
          /\ \A j \in 1..h : SubSeq(es, z + 1, z + h)[j] = es[z + j]
      <4>1. z + h <= Len(es)
        BY <1>1, <1>2, <3>1
      <4> QED BY <4>1, <3>1, Slice
    <3>4. z + 1 = 1 /\ z + h = i - 1 /\ \A j \in 1..h : z + j = j
      BY <3>1
    <3>8. /\ SubSeq(n, 1, i - 1) \in Seq(Entry) /\ Len(SubSeq(n, 1, i - 1)) = i - 1
          /\ \A j \in 1..i - 1 : SubSeq(n, 1, i - 1)[j] = n[j]
      BY <3>1, <3>2, <3>4
    <3>9. /\ SubSeq(es, 1, i - 1) \in Seq(Entry) /\ Len(SubSeq(es, 1, i - 1)) = i - 1
          /\ \A j \in 1..i - 1 : SubSeq(es, 1, i - 1)[j] = es[j]
      BY <3>1, <3>3, <3>4
    <3> QED BY <3>8, <3>9
  <2>3. x = y
    BY <2>1, <2>2, SeqEqual
  <2> QED BY <2>2, <2>3
<1>4. SubSeq(n, i + 1, Len(n)) = SubSeq(es, i + 1, Len(es))
  <2>1. PICK h \in Nat : i + h = Len(es) /\ i \in Nat
    <3>1. Len(es) - i \in Nat /\ i + (Len(es) - i) = Len(es)
      BY <1>2
    <3> QED BY <3>1, <1>2
  <2>2. /\ SubSeq(n, i + 1, i + h) \in Seq(Entry) /\ Len(SubSeq(n, i + 1, i + h)) = h
        /\ \A j \in 1..h : SubSeq(n, i + 1, i + h)[j] = n[i + j]
    <3>1. i + h <= Len(n)
      BY <1>1, <1>2, <2>1
    <3> QED BY SMTT(40), <3>1, <2>1, Slice
  <2>3. /\ SubSeq(es, i + 1, i + h) \in Seq(Entry) /\ Len(SubSeq(es, i + 1, i + h)) = h
        /\ \A j \in 1..h : SubSeq(es, i + 1, i + h)[j] = es[i + j]
    BY SMTT(40), <2>1, Slice
  <2>4. \A j \in 1..h : n[i + j] = es[i + j]
    <3> TAKE j \in 1..h
    <3>1. i + j \in 1..Len(es) /\ i + j # i
      BY <2>1, <1>2
    <3> QED BY <3>1, <1>1
  <2>5. PICK x \in Seq(Entry), y \in Seq(Entry) :
          /\ x = SubSeq(n, i + 1, i + h) /\ y = SubSeq(es, i + 1, i + h)
          /\ Len(x) = h /\ Len(y) = h /\ \A j \in 1..h : x[j] = y[j]
    BY <2>2, <2>3, <2>4
  <2>6. x = y
    BY <2>5, SeqEqual
  <2> QED BY <1>1, <2>1, <2>5, <2>6
<1>5. JobsText(n) = (JobsText(SubSeq(n, 1, i - 1)) \o EntryText(n[i])) \o JobsText(SubSeq(n, i + 1, Len(n)))
  BY <1>2, JobsAround
<1> QED BY <1>1, <1>3, <1>4, <1>5

-----------------------------------------------------------------------------
(* The workflows, one after the other *)

\* When m makes nothing of an element or begins with one of L, so does the whole.
LEMMA ThroughHead ==
  ASSUME NEW T, NEW U, NEW m, Maps(m, T, U), NEW t \in Seq(T), NEW L,
         \A x \in T : m[x] = <<>> \/ (Len(m[x]) # 0 /\ m[x][1] \in L)
  PROVE  Through(m, t) = <<>> \/ (Len(Through(m, t)) # 0 /\ Through(m, t)[1] \in L)
<1> DEFINE B(n) == SubSeq(t, 1, n)
           Good(s) == s = <<>> \/ (Len(s) # 0 /\ s[1] \in L)
           S == {n \in 0..Len(t) : Good(Through(m, B(n)))}
<1>1. Len(t) \in Nat /\ 0 \in S
  <2>1. B(0) = <<>> /\ 0 \in 0..Len(t)
    OBVIOUS
  <2>2. Through(m, B(0)) = <<>>
    <3> HIDE DEF B
    <3> QED BY <2>1, ThroughEmpty
  <2> HIDE DEF B
  <2> QED BY <2>1, <2>2
<1>2. ASSUME NEW n \in 0..Len(t), n \in S, n < Len(t) PROVE n + 1 \in S
  <2>1. B(n) \in Seq(T) /\ B(n + 1) = Append(B(n), t[n + 1]) /\ t[n + 1] \in T
    BY <1>2, FirstOnes
  <2>2. n + 1 \in 0..Len(t) /\ Good(m[t[n + 1]]) /\ m[t[n + 1]] \in Seq(U)
    BY <1>2, <2>1 DEF Maps
  <2>3. Good(Through(m, B(n)))
    BY <1>2
  <2> HIDE DEF B
  <2> DEFINE b == B(n)
             x == t[n + 1]
  <2>4. b \in Seq(T) /\ B(n + 1) = Append(b, x) /\ x \in T
    BY <2>1
  <2>5. Good(Through(m, b)) /\ Good(m[x]) /\ m[x] \in Seq(U)
    BY <2>2, <2>3
  <2> HIDE DEF b, x
  <2>6. Through(m, Append(b, x)) = Through(m, b) \o m[x] /\ Through(m, b) \in Seq(U)
    BY <2>4, ThroughAppend, ThroughType
  <2>7. Good(Through(m, b) \o m[x])
    <3> DEFINE p == Through(m, b)
               q == m[x]
    <3>1. p \in Seq(U) /\ q \in Seq(U) /\ Good(p) /\ Good(q)
      BY <2>5, <2>6
    <3> HIDE DEF p, q
    <3> SUFFICES Good(p \o q)
      BY DEF p, q
    <3>2. CASE p = <<>>
      <4>1. p \o q = q
        BY <3>1, <3>2, ConcatEmptySeq
      <4> QED BY <3>1, <4>1
    <3>3. CASE p # <<>>
      <4>1. Len(p) # 0 /\ p[1] \in L
        BY <3>1, <3>3
      <4>2. Len(p \o q) = Len(p) + Len(q) /\ Len(p) \in Nat /\ Len(q) \in Nat
            /\ \A i \in 1..Len(p) : (p \o q)[i] = p[i]
        BY <3>1, ConcatAt
      <4>3. 1 \in 1..Len(p) /\ Len(p \o q) # 0
        BY <4>1, <4>2
      <4>4. (p \o q)[1] = p[1]
        BY <4>2, <4>3
      <4> QED BY <4>1, <4>3, <4>4
    <3> QED BY <3>2, <3>3
  <2>8. Good(Through(m, B(n + 1)))
    BY <2>4, <2>6, <2>7
  <2> HIDE DEF Good
  <2> QED BY <2>2, <2>8
<1>3. Len(t) \in S
  <2> HIDE DEF S
  <2>1. 0..Len(t) \subseteq S
    BY <1>1, <1>2, Counting
  <2> QED BY <1>1, <2>1
<1>4. B(Len(t)) = t
  BY SubSeqFull
<1> QED
  <2> HIDE DEF B
  <2> QED BY <1>3, <1>4

WLine(w) == Line(2, "workflow:", <<w>>)
JLine == Line(4, "jobs:", <<>>)

LEMMA HeaderLines ==
  ASSUME NEW w \in Words
  PROVE  /\ WLine(w) \in Sayings /\ WLine(w).depth = 2 /\ WLine(w).key = "workflow:"
         /\ WLine(w).value = <<w>>
         /\ JLine \in Sayings /\ JLine.depth = 4 /\ JLine.key = "jobs:"
<1>1. \A v : /\ Line(2, "workflow:", v).depth = 2 /\ Line(2, "workflow:", v).key = "workflow:"
             /\ Line(2, "workflow:", v).value = v /\ Line(4, "jobs:", v).depth = 4
             /\ Line(4, "jobs:", v).key = "jobs:"
  BY DEF Line
<1>2. WLine(w) \in Lines
  <2> DEFINE k == "workflow:"
  <2>1. k \in KeyNames
    BY DEF KeyNames
  <2> HIDE DEF k
  <2>2. Line(2, k, <<w>>) \in Lines
    BY <2>1, DepthsAre, LineOne
  <2> QED BY <2>2 DEF WLine, k
<1>3. JLine \in Lines
  BY Nil, DepthsAre, LineTyped DEF KeyNames, JLine
<1> QED BY <1>1, <1>2, <1>3 DEF WLine, JLine, Sayings, Significant

\* What a file says of other workflows than w.
Outside(w) == {l \in Sayings : l.depth \in {2, 4, 6, 10, 12, 16, 18} /\ l # WLine(w)}

LEMMA JobsInside ==
  ASSUME NEW es \in Seq(Entry)
  PROVE  JobsText(es) \in Seq({l \in Sayings : l.depth \in {6, 10, 12, 16, 18}})
<1> DEFINE L == {l \in Sayings : l.depth \in {6, 10, 12, 16, 18}}
<1>1. ASSUME NEW e \in Entry PROVE EntryText(e) \in Seq(L)
  <2>1. PICK t \in Seq(Sayings) : t = EntryText(e)
    BY EntrySayings
  <2>2. \A l \in Range(t) : l \in L
    BY <2>1, EntrySays, EntryTyped, JobLineIs DEF Inner
  <2>3. \A i \in 1..Len(t) : t[i] \in L
    <3>1. DOMAIN t = 1..Len(t)
      BY Places
    <3> QED BY <2>2, <3>1 DEF Range
  <2> HIDE DEF L
  <2>4. Len(t) \in Nat /\ t = [i \in 1..Len(t) |-> t[i]]
    OBVIOUS
  <2>5. t \in [1..Len(t) -> L]
    BY <2>3, <2>4
  <2>6. t \in Seq(L)
    BY <2>4, <2>5
  <2> QED BY <2>1, <2>6
<1>2. Maps(Texts, Entry, L)
  <2> HIDE DEF L
  <2> QED BY <1>1 DEF Maps, Texts
<1> HIDE DEF L
<1>3. JobsText(es) \in Seq(L)
  BY <1>2, JobsIs, ThroughType
<1> QED BY <1>3 DEF L

LEMMA WorkflowHas ==
  ASSUME NEW w \in Words, NEW es \in Seq(Entry)
  PROVE  /\ WorkflowText(w, es) = <<WLine(w), JLine>> \o JobsText(es)
         /\ WorkflowText(w, es) \in Seq(Sayings)
         /\ Len(WorkflowText(w, es)) # 0 /\ WorkflowText(w, es)[1] = WLine(w)
         /\ \A x \in Words : x # w => WorkflowText(w, es) \in Seq(Outside(x))
<1>1. WorkflowText(w, es) = <<WLine(w), JLine>> \o JobsText(es)
  BY DEF WorkflowText, WLine, JLine
<1>2. /\ WLine(w) \in Sayings /\ WLine(w).depth = 2 /\ WLine(w).value = <<w>>
      /\ JLine \in Sayings /\ JLine.depth = 4
  BY HeaderLines
<1> DEFINE h == <<WLine(w), JLine>>
           j == JobsText(es)
<1>3. h \in Seq(Sayings) /\ Len(h) = 2 /\ h[1] = WLine(w)
  BY <1>2
<1>4. j \in Seq(Sayings)
  BY JobsType
<1>5. h \o j \in Seq(Sayings) /\ Len(h \o j) = Len(h) + Len(j) /\ Len(j) \in Nat
      /\ \A i \in 1..Len(h) : (h \o j)[i] = h[i]
  <2> HIDE DEF h, j
  <2> QED BY ZenonT(60), <1>3, <1>4, ConcatAt
<1>6. Len(h \o j) # 0 /\ (h \o j)[1] = WLine(w)
  <2> HIDE DEF h, j
  <2>1. 1 \in 1..Len(h) /\ 2 + Len(j) # 0
    BY <1>3, <1>5
  <2> QED BY <1>3, <1>5, <2>1
<1>7. ASSUME NEW x \in Words, x # w PROVE h \o j \in Seq(Outside(x))
  <2>1. WLine(x).value = <<x>> /\ WLine(x).depth = 2
    BY HeaderLines
  <2>2. WLine(w) # WLine(x)
    <3> SUFFICES ASSUME WLine(w) = WLine(x) PROVE FALSE
      OBVIOUS
    <3>1. <<w>> = <<x>>
      BY <1>2, <2>1
    <3> QED BY <3>1, <1>7
  <2>3. WLine(w) \in Outside(x) /\ JLine \in Outside(x)
    BY <1>2, <2>1, <2>2 DEF Outside
  <2>4. h \in Seq(Outside(x))
    BY <2>3
  <2>5. {l \in Sayings : l.depth \in {6, 10, 12, 16, 18}} \subseteq Outside(x)
    BY <2>1 DEF Outside
  <2>6. j \in Seq(Outside(x))
    BY <2>5, JobsInside, SeqMonotonic
  <2> HIDE DEF h, j
  <2> QED BY <2>4, <2>6, ConcatProperties
<1> QED BY <1>1, <1>5, <1>6, <1>7

Flows(wf) == wf \in [DOMAIN wf -> Seq(Entry)] /\ DOMAIN wf \subseteq ToSet(Workflows)
FlowText(wf) == [w \in Words |-> If(w \in DOMAIN wf, WorkflowText(w, wf[w]))]
Others(wf, w) == [x \in Words \ {w} |-> If(x \in DOMAIN wf, WorkflowText(x, wf[x]))]
Pos(w) == CHOOSE k \in DOMAIN Workflows : Workflows[k] = w
Above(wf, w) == Through(Others(wf, w), SubSeq(Workflows, 1, Pos(w) - 1))
Below(wf, w) == Through(Others(wf, w), SubSeq(Workflows, Pos(w) + 1, Len(Workflows)))

LEMMA FlowMaps ==
  ASSUME NEW wf, Flows(wf)
  PROVE  /\ Maps(FlowText(wf), Words, Sayings)
         /\ \A w \in Words \ DOMAIN wf : Maps(FlowText(wf), Words, Outside(w))
         /\ \A w \in Words : Maps(Others(wf, w), Words \ {w}, Outside(w))
<1>1. \A x \in DOMAIN wf : wf[x] \in Seq(Entry) /\ x \in Words
  <2>1. ToSet(Workflows) \subseteq Words
    BY TextAssumption DEF TextAssumption, ToSet
  <2> QED BY <2>1 DEF Flows
<1>2. \A U : <<>> \in Seq(U)
  OBVIOUS
<1>3. \A x \in Words : If(x \in DOMAIN wf, WorkflowText(x, wf[x])) \in Seq(Sayings)
  BY <1>1, <1>2, WorkflowHas DEF If
<1>4. \A x \in Words, w \in Words : x # w \/ w \notin DOMAIN wf =>
         If(x \in DOMAIN wf, WorkflowText(x, wf[x])) \in Seq(Outside(w))
  <2> SUFFICES ASSUME NEW x \in Words, NEW w \in Words, x # w \/ w \notin DOMAIN wf
               PROVE  If(x \in DOMAIN wf, WorkflowText(x, wf[x])) \in Seq(Outside(w))
    OBVIOUS
  <2>1. CASE x \notin DOMAIN wf
    BY <2>1, <1>2 DEF If
  <2>2. CASE x \in DOMAIN wf
    <3>1. x # w
      BY <2>2
    <3> QED BY <2>2, <3>1, <1>1, WorkflowHas DEF If
  <2> QED BY <2>1, <2>2
<1>5. Maps(FlowText(wf), Words, Sayings)
  BY <1>3 DEF Maps, FlowText
<1>6. ASSUME NEW w \in Words \ DOMAIN wf PROVE Maps(FlowText(wf), Words, Outside(w))
  BY <1>4 DEF Maps, FlowText
<1>7. ASSUME NEW w \in Words PROVE Maps(Others(wf, w), Words \ {w}, Outside(w))
  BY <1>4 DEF Maps, Others
<1> QED BY <1>5, <1>6, <1>7

LEMMA FlowsIs ==
  ASSUME NEW wf, Flows(wf)
  PROVE  /\ WorkflowsText(wf) = Through(FlowText(wf), Workflows)
         /\ WorkflowsText(wf) \in Seq(Sayings)
         /\ \A w \in Words \ DOMAIN wf : WorkflowsText(wf) \in Seq(Outside(w))
<1>1. Workflows \in Seq(Words)
  BY TextAssumption DEF TextAssumption
<1>2. \A k \in DOMAIN Workflows : Workflows[k] \in Words
  BY <1>1
<1>3. WorkflowsText(wf) = Through(FlowText(wf), Workflows)
  BY <1>2 DEF WorkflowsText, Through, FlowText
<1>4. \A w \in Words \ DOMAIN wf : Through(FlowText(wf), Workflows) \in Seq(Outside(w))
  BY <1>1, FlowMaps, ThroughType
<1>5. Through(FlowText(wf), Workflows) \in Seq(Sayings)
  BY <1>1, FlowMaps, ThroughType
<1> QED BY <1>3, <1>4, <1>5

LEMMA PosIs ==
  ASSUME NEW w \in ToSet(Workflows)
  PROVE  /\ w \in Words /\ Pos(w) \in DOMAIN Workflows /\ Workflows[Pos(w)] = w
         /\ SubSeq(Workflows, 1, Pos(w) - 1) \in Seq(Words \ {w})
         /\ SubSeq(Workflows, Pos(w) + 1, Len(Workflows)) \in Seq(Words \ {w})
<1>1. Workflows \in Seq(Words) /\ IsInjective(Workflows)
  BY TextAssumption DEF TextAssumption
<1>2. PICK k \in DOMAIN Workflows : k = Pos(w) /\ Workflows[k] = w
  BY DEF Pos, ToSet
<1>3. k \in 1..Len(Workflows) /\ Len(Workflows) \in Nat
  BY <1>1
<1>4. \A j \in 1..Len(Workflows) : j # k => Workflows[j] \in Words \ {w}
  BY <1>1, <1>2, <1>3 DEF IsInjective
<1>5. SubSeq(Workflows, 1, k - 1) \in Seq(Words \ {w})
  <2>1. \A i \in 1..k - 1 : Workflows[i] \in Words \ {w}
    BY <1>3, <1>4
  <2>2. 1 \in Int /\ k - 1 \in Int
    BY <1>3
  <2> QED BY <2>1, <2>2, SubSeqProperties
<1>6. SubSeq(Workflows, k + 1, Len(Workflows)) \in Seq(Words \ {w})
  <2>1. \A i \in k + 1..Len(Workflows) : Workflows[i] \in Words \ {w}
    BY <1>3, <1>4
  <2>2. k + 1 \in Int /\ Len(Workflows) \in Int
    BY <1>3
  <2> QED BY <2>1, <2>2, SubSeqProperties
<1>7. w \in Words
  BY <1>1, <1>2
<1> QED BY <1>2, <1>5, <1>6, <1>7

\* A file's workflows around one of them, which nothing else depends on.
LEMMA FlowSplit ==
  ASSUME NEW wf, Flows(wf), NEW w \in DOMAIN wf
  PROVE  /\ w \in Words /\ wf[w] \in Seq(Entry)
         /\ Above(wf, w) \in Seq(Outside(w)) /\ Below(wf, w) \in Seq(Outside(w))
         /\ Below(wf, w) = <<>> \/ (Len(Below(wf, w)) # 0 /\ Below(wf, w)[1].depth = 2)
         /\ WorkflowsText(wf) = (Above(wf, w) \o WorkflowText(w, wf[w])) \o Below(wf, w)
<1> DEFINE a == SubSeq(Workflows, 1, Pos(w) - 1)
           b == SubSeq(Workflows, Pos(w) + 1, Len(Workflows))
           m == FlowText(wf)
           o == Others(wf, w)
<1>1. /\ w \in Words /\ a \in Seq(Words \ {w}) /\ b \in Seq(Words \ {w})
      /\ Pos(w) \in DOMAIN Workflows /\ Workflows[Pos(w)] = w
  BY PosIs DEF Flows
<1>2. wf[w] \in Seq(Entry)
  BY DEF Flows
<1>3. Workflows = (a \o <<w>>) \o b
  BY <1>1, Around, TextAssumption DEF TextAssumption
<1>4. WorkflowsText(wf) = Through(m, Workflows)
  BY FlowsIs
<1>5. Maps(m, Words, Sayings) /\ Maps(o, Words \ {w}, Outside(w))
  BY <1>1, FlowMaps
<1>6. \A x \in Words \ {w} : m[x] = o[x]
  BY DEF FlowText, Others
<1>7. m[w] = WorkflowText(w, wf[w])
  BY <1>1 DEF FlowText, If
<1>8. \A x \in Words \ {w} : o[x] = <<>> \/ (Len(o[x]) # 0 /\ o[x][1] \in {l \in Sayings : l.depth = 2})
  <2> SUFFICES ASSUME NEW x \in Words \ {w}
               PROVE  o[x] = <<>> \/ (Len(o[x]) # 0 /\ o[x][1] \in {l \in Sayings : l.depth = 2})
    OBVIOUS
  <2>1. CASE x \in DOMAIN wf
    <3>1. o[x] = WorkflowText(x, wf[x]) /\ wf[x] \in Seq(Entry)
      BY <2>1 DEF Others, If, Flows
    <3>2. Len(o[x]) # 0 /\ o[x][1] = WLine(x)
      BY <3>1, WorkflowHas
    <3>3. WLine(x) \in Sayings /\ WLine(x).depth = 2
      BY HeaderLines
    <3> QED BY <3>2, <3>3
  <2>2. CASE x \notin DOMAIN wf
    BY <2>2 DEF Others, If
  <2> QED BY <2>1, <2>2
<1>9. Above(wf, w) = Through(o, a) /\ Below(wf, w) = Through(o, b)
  BY DEF Above, Below
<1> HIDE DEF a, b, m, o
<1>10. Through(o, a) \in Seq(Outside(w)) /\ Through(o, b) \in Seq(Outside(w))
  BY <1>1, <1>5, ThroughType
<1>11. Through(o, b) = <<>> \/ (Len(Through(o, b)) # 0 /\ Through(o, b)[1].depth = 2)
  <2>1. Through(o, b) = <<>> \/ (Len(Through(o, b)) # 0 /\ Through(o, b)[1] \in {l \in Sayings : l.depth = 2})
    BY <1>1, <1>5, <1>8, ThroughHead
  <2> QED BY <2>1
<1>12. Through(m, a) = Through(o, a) /\ Through(m, b) = Through(o, b)
  <2>1. \A i \in DOMAIN a : m[a[i]] = o[a[i]]
    BY <1>1, <1>6
  <2>2. \A i \in DOMAIN b : m[b[i]] = o[b[i]]
    BY <1>1, <1>6
  <2> QED BY <2>1, <2>2 DEF Through
<1>13. Through(m, (a \o <<w>>) \o b) = (Through(m, a) \o m[w]) \o Through(m, b)
  <2>1. Words \ {w} \subseteq Words
    OBVIOUS
  <2>2. a \in Seq(Words) /\ b \in Seq(Words)
    BY <1>1, <2>1, SeqMonotonic
  <2>8. w \in Words
    BY <1>1
  <2>9. <<w>> \in Seq(Words)
    BY <2>8
  <2>3. PICK c \in Seq(Words) : c = <<w>>
    BY <2>9
  <2>4. a \o c \in Seq(Words)
    BY <2>2, ConcatProperties
  <2>5. Through(m, (a \o c) \o b) = Through(m, a \o c) \o Through(m, b)
    <3>1. PICK q \in Seq(Words) : q = a \o c
      BY <2>4
    <3>2. Through(m, q \o b) = Through(m, q) \o Through(m, b)
      BY <1>5, <2>2, ThroughConcat
    <3> QED BY <3>1, <3>2
  <2>6. Through(m, a \o c) = Through(m, a) \o Through(m, c)
    BY <1>5, <2>2, ThroughConcat
  <2>7. Through(m, <<w>>) = m[w]
    BY <1>1, <1>5, ThroughOne
  <2> QED BY <2>3, <2>5, <2>6, <2>7
<1>14. WorkflowsText(wf) = (Through(o, a) \o WorkflowText(w, wf[w])) \o Through(o, b)
  BY <1>3, <1>4, <1>7, <1>12, <1>13
<1> QED BY <1>1, <1>2, <1>9, <1>10, <1>11, <1>14

LEMMA FlowExcept ==
  ASSUME NEW wf, Flows(wf), NEW w \in DOMAIN wf, NEW es \in Seq(Entry)
  PROVE  /\ Flows([wf EXCEPT ![w] = es]) /\ DOMAIN [wf EXCEPT ![w] = es] = DOMAIN wf
         /\ [wf EXCEPT ![w] = es][w] = es
         /\ Above([wf EXCEPT ![w] = es], w) = Above(wf, w)
         /\ Below([wf EXCEPT ![w] = es], w) = Below(wf, w)
<1> DEFINE n == [wf EXCEPT ![w] = es]
<1>1. Flows(n) /\ DOMAIN n = DOMAIN wf /\ n[w] = es
  BY DEF Flows
<1>2. \A x \in Words \ {w} : x \in DOMAIN wf => n[x] = wf[x]
  BY DEF Flows
<1>3. Others(n, w) = Others(wf, w)
  <2> HIDE DEF n
  <2>1. \A x \in Words \ {w} : If(x \in DOMAIN n, WorkflowText(x, n[x]))
                                 = If(x \in DOMAIN wf, WorkflowText(x, wf[x]))
    BY <1>1, <1>2 DEF If
  <2> QED BY <2>1 DEF Others
<1> QED BY <1>1, <1>3 DEF Above, Below

-----------------------------------------------------------------------------
(* Where a workflow stands in a file *)

TopLine == Line(0, "workflows:", <<>>)
OrbsLine == Line(0, "orbs:", <<>>)
JobsLines == {l \in Sayings : l.depth \in {6, 10, 12, 16, 18}}

\* The file says G up to the workflow w, then its entries J, then Z.
Laid(t, G, w, J, Z) ==
  /\ t \in Seq(Lines) /\ Tidy(t) /\ w \in Words
  /\ G \in Seq(Sayings) /\ J \in Seq(JobsLines) /\ Z \in Seq(Sayings)
  /\ WLine(w) \notin Range(G) /\ WLine(w) \notin Range(Z)
  /\ Z = <<>> \/ (Len(Z) # 0 /\ Z[1].depth = 2)
  /\ \E O \in Seq(Sayings), R \in Seq(Sayings) :
       G = (O \o <<TopLine>>) \o R /\ TopLine \notin Range(O)
  /\ Said(t) = ((G \o <<WLine(w), JLine>>) \o J) \o Z

Parted(h, J, Z, T) ==
  /\ (h \o J) \o Z \in Seq(T) /\ Len((h \o J) \o Z) = Len(h) + Len(J) + Len(Z)
  /\ Len(h) \in Nat /\ Len(J) \in Nat /\ Len(Z) \in Nat
  /\ \A x \in 1..Len(h) : ((h \o J) \o Z)[x] = h[x]
  /\ \A x \in 1..Len(J) : ((h \o J) \o Z)[Len(h) + x] = J[x]
  /\ \A x \in 1..Len(Z) : ((h \o J) \o Z)[Len(h) + Len(J) + x] = Z[x]

LEMMA MiddleAfter ==
  ASSUME NEW T, NEW h \in Seq(T), NEW J \in Seq(T), NEW Z \in Seq(T)
  PROVE  Parted(h, J, Z, T)
  BY MiddleAt DEF Parted

LEMMA FourParts ==
  ASSUME NEW T, NEW G \in Seq(T), NEW a \in T, NEW b \in T, NEW J \in Seq(T), NEW Z \in Seq(T),
         NEW S, S = ((G \o <<a, b>>) \o J) \o Z
  PROVE  /\ S \in Seq(T) /\ Len(G) \in Nat /\ Len(J) \in Nat /\ Len(Z) \in Nat
         /\ Len(S) = Len(G) + 2 + Len(J) + Len(Z)
         /\ \A x \in 1..Len(G) : S[x] = G[x]
         /\ S[Len(G) + 1] = a /\ S[Len(G) + 2] = b
         /\ \A x \in 1..Len(J) : S[Len(G) + 2 + x] = J[x]
         /\ \A x \in 1..Len(Z) : S[Len(G) + 2 + Len(J) + x] = Z[x]
<1>1. <<a, b>> \in Seq(T) /\ Len(<<a, b>>) = 2 /\ <<a, b>>[1] = a /\ <<a, b>>[2] = b
  OBVIOUS
<1>2. PICK c \in Seq(T) : c = <<a, b>> /\ Len(c) = 2 /\ c[1] = a /\ c[2] = b
  BY <1>1
<1>3. /\ G \o c \in Seq(T) /\ Len(G \o c) = Len(G) + Len(c)
      /\ \A x \in 1..Len(G) : (G \o c)[x] = G[x]
      /\ \A x \in 1..Len(c) : (G \o c)[Len(G) + x] = c[x]
  BY ConcatAt
<1>4. PICK H \in Seq(T) : H = G \o c
  BY <1>3
<1>5. Len(H) = Len(G) + 2 /\ Len(G) \in Nat /\ (\A x \in 1..Len(G) : H[x] = G[x])
  BY <1>2, <1>3, <1>4
<1>6. H[Len(G) + 1] = a /\ H[Len(G) + 2] = b
  <2>1. 1 \in 1..Len(c) /\ 2 \in 1..Len(c)
    BY <1>2
  <2>2. H[Len(G) + 1] = c[1] /\ H[Len(G) + 2] = c[2]
    BY <2>1, <1>3, <1>4
  <2> QED BY <2>2, <1>2
<1>7. /\ (H \o J) \o Z \in Seq(T) /\ Len((H \o J) \o Z) = Len(H) + Len(J) + Len(Z)
      /\ Len(H) \in Nat /\ Len(J) \in Nat /\ Len(Z) \in Nat
      /\ \A x \in 1..Len(H) : ((H \o J) \o Z)[x] = H[x]
      /\ \A x \in 1..Len(J) : ((H \o J) \o Z)[Len(H) + x] = J[x]
      /\ \A x \in 1..Len(Z) : ((H \o J) \o Z)[Len(H) + Len(J) + x] = Z[x]
  <2>1. Parted(H, J, Z, T)
    BY MiddleAfter
  <2> QED BY <2>1 DEF Parted
<1>8. S = (H \o J) \o Z
  BY <1>2, <1>4
<1>9. /\ S \in Seq(T) /\ Len(S) = Len(H) + Len(J) + Len(Z)
      /\ \A x \in 1..Len(H) : S[x] = H[x]
      /\ \A x \in 1..Len(J) : S[Len(H) + x] = J[x]
      /\ \A x \in 1..Len(Z) : S[Len(H) + Len(J) + x] = Z[x]
  BY <1>7, <1>8, Zenon
<1>10. Len(S) = Len(G) + 2 + Len(J) + Len(Z) /\ Len(J) \in Nat /\ Len(Z) \in Nat
  BY <1>5, <1>7, <1>9
<1>11. \A x \in 1..Len(G) : S[x] = G[x]
  <2>1. \A x \in 1..Len(G) : x \in 1..Len(H)
    BY <1>5
  <2> QED BY <2>1, <1>5, <1>9
<1>12. S[Len(G) + 1] = a /\ S[Len(G) + 2] = b
  <2>1. Len(G) + 1 \in 1..Len(H) /\ Len(G) + 2 \in 1..Len(H)
    BY <1>5
  <2>2. S[Len(G) + 1] = H[Len(G) + 1] /\ S[Len(G) + 2] = H[Len(G) + 2]
    BY <2>1, <1>9
  <2> QED BY <2>2, <1>6
<1>13. \A x \in 1..Len(J) : S[Len(G) + 2 + x] = J[x]
  BY <1>5, <1>9
<1>14. \A x \in 1..Len(Z) : S[Len(G) + 2 + Len(J) + x] = Z[x]
  BY <1>5, <1>7, <1>9
<1> QED BY <1>5, <1>9, <1>10, <1>11, <1>12, <1>13, <1>14

LEMMA Single ==
  ASSUME NEW T, NEW x \in T
  PROVE  <<x>> \in Seq(T) /\ Len(<<x>>) = 1 /\ <<x>>[1] = x
OBVIOUS

LEMMA ThreeParts ==
  ASSUME NEW T, NEW a \in Seq(T), NEW x \in T, NEW c \in Seq(T), NEW S, S = (a \o <<x>>) \o c
  PROVE  /\ S \in Seq(T) /\ Len(a) \in Nat /\ Len(c) \in Nat /\ Len(S) = Len(a) + 1 + Len(c)
         /\ \A y \in 1..Len(a) : S[y] = a[y]
         /\ S[Len(a) + 1] = x
         /\ \A y \in 1..Len(c) : S[Len(a) + 1 + y] = c[y]
<1>1. \A b \in Seq(T) :
        /\ (a \o b) \o c \in Seq(T) /\ Len((a \o b) \o c) = Len(a) + Len(b) + Len(c)
        /\ Len(a) \in Nat /\ Len(b) \in Nat /\ Len(c) \in Nat
        /\ \A y \in 1..Len(a) : ((a \o b) \o c)[y] = a[y]
        /\ \A y \in 1..Len(b) : ((a \o b) \o c)[Len(a) + y] = b[y]
        /\ \A y \in 1..Len(c) : ((a \o b) \o c)[Len(a) + Len(b) + y] = c[y]
  BY MiddleAt
<1>2. PICK b \in Seq(T) : b = <<x>>
  BY Single
<1>10. /\ (a \o b) \o c \in Seq(T) /\ Len((a \o b) \o c) = Len(a) + Len(b) + Len(c)
       /\ Len(a) \in Nat /\ Len(b) \in Nat /\ Len(c) \in Nat
       /\ \A y \in 1..Len(a) : ((a \o b) \o c)[y] = a[y]
       /\ \A y \in 1..Len(b) : ((a \o b) \o c)[Len(a) + y] = b[y]
       /\ \A y \in 1..Len(c) : ((a \o b) \o c)[Len(a) + Len(b) + y] = c[y]
  BY <1>1
<1>3. Len(b) = 1 /\ b[1] = x
  BY <1>2, Single
<1>4. S = (a \o b) \o c
  BY <1>2
<1>5. /\ S \in Seq(T) /\ Len(S) = Len(a) + Len(b) + Len(c)
      /\ Len(a) \in Nat /\ Len(b) \in Nat /\ Len(c) \in Nat
      /\ \A y \in 1..Len(a) : S[y] = a[y]
      /\ \A y \in 1..Len(b) : S[Len(a) + y] = b[y]
      /\ \A y \in 1..Len(c) : S[Len(a) + Len(b) + y] = c[y]
  BY <1>10, <1>4, Zenon
<1>6. 1 \in 1..Len(b)
  BY <1>3
<1>7. S[Len(a) + 1] = x
  BY <1>3, <1>5, <1>6
<1> QED BY <1>3, <1>5, <1>7

LEMMA SectionIs ==
  ASSUME NEW t \in Seq(Lines), NEW k
  PROVE  Section(t, k) = FirstIn(t, {Line(0, k, <<>>)})
BY DEF Section, SelectInSeq, FirstIn

LEMMA RankIs ==
  ASSUME NEW t \in Seq(Lines), NEW b \in 1..Len(t) + 1
  PROVE  Rank(t, b) \in Nat
<1>1. b <= b /\ b \in 1..Len(t) + 1
  OBVIOUS
<1> QED BY <1>1, Cuts

\* A line that the text says once is found where it says it.
LEMMA OnlyOne ==
  ASSUME NEW t \in Seq(Lines), NEW l \in Sayings, NEW k \in DOMAIN Said(t), Said(t)[k] = l,
         \A n \in DOMAIN Said(t) : Said(t)[n] = l => n = k
  PROVE  \E h \in DOMAIN t : /\ t[h] = l /\ Significant(t[h]) /\ Rank(t, h) = k
                             /\ \A j \in DOMAIN t : t[j] = l => j = h
<1>1. PICK h \in DOMAIN t : Significant(t[h]) /\ Rank(t, h) = k
  BY Spots
<1>2. t[h] = l
  BY <1>1, RankNext
<1>3. ASSUME NEW j \in DOMAIN t, t[j] = l PROVE j = h
  <2>1. Significant(t[j])
    BY <1>3 DEF Sayings
  <2>2. Rank(t, j) \in DOMAIN Said(t) /\ Said(t)[Rank(t, j)] = l
    BY <1>3, <2>1, RankNext
  <2>3. Rank(t, j) = k
    BY <2>2
  <2> QED BY <1>1, <2>1, <2>3, RankOne
<1> QED BY <1>1, <1>2, <1>3

-----------------------------------------------------------------------------
(* The jobs of a workflow *)

\* What Laid says of each line of what the text says.
LEMMA LaidAt ==
  ASSUME NEW t, NEW G, NEW w, NEW J, NEW Z, Laid(t, G, w, J, Z)
  PROVE  /\ t \in Seq(Lines) /\ Tidy(t) /\ Said(t) \in Seq(Sayings)
         /\ Len(G) \in Nat /\ Len(J) \in Nat /\ Len(Z) \in Nat
         /\ Len(Said(t)) = Len(G) + 2 + Len(J) + Len(Z)
         /\ \A x \in 1..Len(G) : Said(t)[x] = G[x] /\ Said(t)[x] # WLine(w)
         /\ Said(t)[Len(G) + 1] = WLine(w) /\ Said(t)[Len(G) + 2] = JLine
         /\ \A x \in 1..Len(J) : Said(t)[Len(G) + 2 + x] = J[x] /\ J[x].depth \in {6, 10, 12, 16, 18}
         /\ \A x \in 1..Len(Z) : Said(t)[Len(G) + 2 + Len(J) + x] = Z[x] /\ Z[x] # WLine(w)
         /\ Len(Z) # 0 => Said(t)[Len(G) + 3 + Len(J)].depth = 2
<1>1. /\ t \in Seq(Lines) /\ Tidy(t) /\ w \in Words
      /\ G \in Seq(Sayings) /\ J \in Seq(JobsLines) /\ Z \in Seq(Sayings)
      /\ WLine(w) \notin Range(G) /\ WLine(w) \notin Range(Z)
      /\ Z = <<>> \/ (Len(Z) # 0 /\ Z[1].depth = 2)
      /\ Said(t) = ((G \o <<WLine(w), JLine>>) \o J) \o Z
  BY DEF Laid
<1>2. J \in Seq(Sayings) /\ \A x \in 1..Len(J) : J[x].depth \in {6, 10, 12, 16, 18}
  BY <1>1 DEF JobsLines
<1>3. WLine(w) \in Sayings /\ JLine \in Sayings
  BY <1>1, HeaderLines
<1>4. PICK a \in Sayings, b \in Sayings : a = WLine(w) /\ b = JLine
  BY <1>3
<1>5. PICK S : S = Said(t)
  OBVIOUS
<1>6. S = ((G \o <<a, b>>) \o J) \o Z
  BY <1>1, <1>4, <1>5
<1>7. /\ S \in Seq(Sayings) /\ Len(G) \in Nat /\ Len(J) \in Nat /\ Len(Z) \in Nat
      /\ Len(S) = Len(G) + 2 + Len(J) + Len(Z)
      /\ \A x \in 1..Len(G) : S[x] = G[x]
      /\ S[Len(G) + 1] = a /\ S[Len(G) + 2] = b
      /\ \A x \in 1..Len(J) : S[Len(G) + 2 + x] = J[x]
      /\ \A x \in 1..Len(Z) : S[Len(G) + 2 + Len(J) + x] = Z[x]
  <2>1. G \in Seq(Sayings) /\ J \in Seq(Sayings) /\ Z \in Seq(Sayings)
    BY <1>1, <1>2
  <2> QED BY <2>1, <1>6, FourParts
<1>8. (\A x \in 1..Len(G) : G[x] # WLine(w)) /\ (\A x \in 1..Len(Z) : Z[x] # WLine(w))
  BY <1>1 DEF Range
<1>9. Len(Z) # 0 => S[Len(G) + 3 + Len(J)].depth = 2
  <2> SUFFICES ASSUME Len(Z) # 0 PROVE S[Len(G) + 3 + Len(J)].depth = 2
    OBVIOUS
  <2>1. Z[1].depth = 2
    BY <1>1
  <2>2. 1 \in 1..Len(Z) /\ Len(G) + 2 + Len(J) + 1 = Len(G) + 3 + Len(J)
    BY <1>7
  <2>3. S[Len(G) + 2 + Len(J) + 1] = Z[1]
    BY <2>2, <1>7
  <2> QED BY <2>1, <2>2, <2>3
<1> QED BY <1>1, <1>2, <1>4, <1>5, <1>7, <1>8, <1>9

\* `workflows:` comes before the workflow.
LEMMA TopIs ==
  ASSUME NEW t, NEW G, NEW w, NEW J, NEW Z, Laid(t, G, w, J, Z)
  PROVE  /\ Section(t, "workflows:") \in DOMAIN t /\ Significant(t[Section(t, "workflows:")])
         /\ Rank(t, Section(t, "workflows:")) <= Len(G)
         /\ t[Section(t, "workflows:")] = TopLine
<1>1. TopLine \in Lines /\ Significant(TopLine)
  BY DEF TopLine, Lines, Line, Depths, KeyNames, Significant
<1>2. t \in Seq(Lines) /\ Len(G) \in Nat /\ Said(t) \in Seq(Sayings)
      /\ Len(Said(t)) \in Nat /\ Len(G) <= Len(Said(t)) /\ \A x \in 1..Len(G) : Said(t)[x] = G[x]
  BY LaidAt
<1>3. PICK O \in Seq(Sayings), R \in Seq(Sayings) : G = (O \o <<TopLine>>) \o R
  BY DEF Laid
<1>4. Len(O) + 1 \in 1..Len(G) /\ G[Len(O) + 1] = TopLine
  <2>1. TopLine \in Sayings
    BY <1>1 DEF Sayings
  <2>2. /\ Len(O) \in Nat /\ Len(R) \in Nat /\ Len(G) = Len(O) + 1 + Len(R)
        /\ G[Len(O) + 1] = TopLine
    BY <1>3, <2>1, ThreeParts
  <2> QED BY <2>2
<1>5. PICK k \in DOMAIN Said(t) : k <= Len(G) /\ Said(t)[k] = TopLine
  BY <1>2, <1>4
<1> DEFINE L == {Line(0, "workflows:", <<>>)}
<1>6. L = {TopLine} /\ Section(t, "workflows:") = FirstIn(t, L)
  BY <1>2, SectionIs DEF TopLine
<1> HIDE DEF L
<1>7. \A l \in Lines : l \in L => Significant(l)
  BY <1>1, <1>6
<1>8. FirstIn(Said(t), L) \in DOMAIN Said(t) /\ FirstIn(Said(t), L) <= k
  <2>1. \/ FirstIn(Said(t), L) = 0 /\ \A i \in DOMAIN Said(t) : Said(t)[i] \notin L
        \/ /\ FirstIn(Said(t), L) \in DOMAIN Said(t)
           /\ \A i \in DOMAIN Said(t) : Said(t)[i] \in L => FirstIn(Said(t), L) <= i
    BY <1>2, FirstInIs
  <2> QED BY <2>1, <1>5, <1>6
<1>9. /\ FirstIn(t, L) \in DOMAIN t /\ t[FirstIn(t, L)] \in L /\ Significant(t[FirstIn(t, L)])
      /\ Rank(t, FirstIn(t, L)) = FirstIn(Said(t), L)
  <2>1. FirstIn(Said(t), L) # 0
    BY <1>2, <1>8
  <2> QED BY <2>1, <1>2, <1>7, FirstSaid
<1>10. FirstIn(Said(t), L) <= Len(G)
  BY <1>2, <1>5, <1>8
<1> QED BY <1>6, <1>9, <1>10

LEMMA HeaderIs ==
  ASSUME NEW t, NEW G, NEW w, NEW J, NEW Z, Laid(t, G, w, J, Z)
  PROVE  \E h \in DOMAIN t :
           /\ Significant(t[h]) /\ Rank(t, h) = Len(G) + 1
           /\ {j \in Section(t, "workflows:") + 1..Len(t) : t[j] = Line(2, "workflow:", <<w>>)} = {h}
<1>1. /\ t \in Seq(Lines) /\ Said(t) \in Seq(Sayings) /\ Len(t) \in Nat
      /\ Len(G) \in Nat /\ Len(J) \in Nat /\ Len(Z) \in Nat
      /\ Len(Said(t)) = Len(G) + 2 + Len(J) + Len(Z)
      /\ \A x \in 1..Len(G) : Said(t)[x] # WLine(w)
      /\ Said(t)[Len(G) + 1] = WLine(w) /\ Said(t)[Len(G) + 2] = JLine
      /\ \A x \in 1..Len(J) : Said(t)[Len(G) + 2 + x] = J[x] /\ J[x].depth \in {6, 10, 12, 16, 18}
      /\ \A x \in 1..Len(Z) : Said(t)[Len(G) + 2 + Len(J) + x] = Z[x] /\ Z[x] # WLine(w)
  BY LaidAt
<1>2. w \in Words
  BY DEF Laid
<1>3. WLine(w) \in Sayings /\ WLine(w).depth = 2 /\ JLine.depth = 4
  BY <1>2, HeaderLines
<1>4. ASSUME NEW n \in DOMAIN Said(t), Said(t)[n] = WLine(w) PROVE n = Len(G) + 1
  <2>1. n \in 1..Len(G) \/ n = Len(G) + 1 \/ n = Len(G) + 2
        \/ (\E x \in 1..Len(J) : n = Len(G) + 2 + x)
        \/ (\E x \in 1..Len(Z) : n = Len(G) + 2 + Len(J) + x)
    <3>1. n \in Nat /\ 1 <= n /\ n <= Len(G) + 2 + Len(J) + Len(Z)
      BY <1>1
    <3>2. CASE n > Len(G) + 2 + Len(J)
      <4>1. n - (Len(G) + 2 + Len(J)) \in 1..Len(Z)
        BY <3>1, <3>2, <1>1
      <4>2. n = Len(G) + 2 + Len(J) + (n - (Len(G) + 2 + Len(J)))
        BY <3>1, <1>1
      <4> QED BY <4>1, <4>2
    <3>3. CASE n > Len(G) + 2 /\ n <= Len(G) + 2 + Len(J)
      <4>1. n - (Len(G) + 2) \in 1..Len(J)
        BY <3>1, <3>3, <1>1
      <4>2. n = Len(G) + 2 + (n - (Len(G) + 2))
        BY <3>1, <1>1
      <4> QED BY <4>1, <4>2
    <3>4. CASE n <= Len(G) + 2
      BY <3>1, <3>4, <1>1
    <3> QED BY <3>1, <3>2, <3>3, <3>4, <1>1
  <2>2. n # Len(G) + 2
    BY <1>1, <1>3, <1>4
  <2>3. ~(\E x \in 1..Len(J) : n = Len(G) + 2 + x)
    <3> SUFFICES ASSUME NEW x \in 1..Len(J), n = Len(G) + 2 + x PROVE FALSE
      OBVIOUS
    <3>1. Said(t)[n].depth = J[x].depth
      BY <1>1
    <3>2. J[x].depth # 2
      <4>1. \A y \in 1..Len(J) : J[y].depth \in {6, 10, 12, 16, 18}
        BY LaidAt
      <4>2. J[x].depth \in {6, 10, 12, 16, 18}
        BY <4>1
      <4> QED BY <4>2
    <3>3. Said(t)[n].depth = 2
      BY <1>3, <1>4
    <3> QED BY <3>1, <3>2, <3>3
  <2> QED BY <2>1, <2>2, <2>3, <1>1, <1>4
<1>5. PICK k \in DOMAIN Said(t) : k = Len(G) + 1
  BY <1>1
<1>6. PICK l \in Sayings : l = WLine(w)
  BY <1>3
<1>7. Said(t)[k] = l /\ \A n \in DOMAIN Said(t) : Said(t)[n] = l => n = k
  BY <1>1, <1>4, <1>5, <1>6
<1>8. PICK h \in DOMAIN t : /\ t[h] = l /\ Significant(t[h]) /\ Rank(t, h) = k
                            /\ \A j \in DOMAIN t : t[j] = l => j = h
  <2>1. t \in Seq(Lines)
    BY <1>1
  <2> QED BY <2>1, <1>7, OnlyOne
<1>9. Section(t, "workflows:") < h
  <2>1. /\ Section(t, "workflows:") \in DOMAIN t /\ Rank(t, Section(t, "workflows:")) <= Len(G)
    BY TopIs
  <2>2. Section(t, "workflows:") \in 1..Len(t) + 1 /\ h \in 1..Len(t) + 1
    BY <2>1, <1>1
  <2>3. Rank(t, Section(t, "workflows:")) < Rank(t, h)
    <3>1. Rank(t, Section(t, "workflows:")) \in Nat
      BY <1>1, <2>2, RankIs
    <3> QED BY <2>1, <3>1, <1>1, <1>5, <1>8
  <2> QED BY <1>1, <2>2, <2>3, RankOrder
<1>10. Section(t, "workflows:") \in Nat
  BY TopIs, <1>1
<1>11. {j \in Section(t, "workflows:") + 1..Len(t) : t[j] = l} = {h}
  BY <1>1, <1>8, <1>9, <1>10
<1> QED BY <1>5, <1>6, <1>8, <1>11 DEF WLine

\* A workflow that the file does not name has no jobs.
LEMMA NoJobs ==
  ASSUME NEW t \in Seq(Lines), NEW w \in Words, WLine(w) \notin Range(Said(t))
  PROVE  JobsLine(t, w) = 0
<1> DEFINE headers == {j \in Section(t, "workflows:") + 1..Len(t) : t[j] = Line(2, "workflow:", <<w>>)}
<1>1. headers = {}
  <2> SUFFICES ASSUME NEW j \in headers PROVE FALSE
    OBVIOUS
  <2>1. j \in Nat /\ Section(t, "workflows:") \in Nat /\ Len(t) \in Nat
    <3>1. Section(t, "workflows:") = FirstIn(t, {Line(0, "workflows:", <<>>)})
      BY SectionIs
    <3>2. FirstIn(t, {Line(0, "workflows:", <<>>)}) = 0 \/ FirstIn(t, {Line(0, "workflows:", <<>>)}) \in DOMAIN t
      BY FirstInIs
    <3>3. Len(t) \in Nat /\ DOMAIN t = 1..Len(t)
      BY Places
    <3> QED BY <3>1, <3>2, <3>3
  <2>2. j \in 1..Len(t) /\ t[j] = WLine(w)
    BY <2>1 DEF WLine
  <2>3. j \in DOMAIN t /\ WLine(w) \in Sayings
    BY <2>2, Places, HeaderLines
  <2>4. Significant(t[j])
    BY <2>2, <2>3 DEF Sayings
  <2>5. Rank(t, j) \in DOMAIN Said(t) /\ Said(t)[Rank(t, j)] = WLine(w)
    BY <2>2, <2>3, <2>4, RankNext
  <2> QED BY <2>5 DEF Range
<1> QED BY <1>1 DEF JobsLine

LEMMA OnlyLeast ==
  ASSUME NEW h \in Nat PROVE Min({h}) = h
<1>1. {h} \subseteq Nat /\ {h} # {}
  OBVIOUS
<1> QED BY <1>1, LeastOf

LEMMA JobsLineIs ==
  ASSUME NEW t, NEW G, NEW w, NEW J, NEW Z, Laid(t, G, w, J, Z)
  PROVE  /\ JobsLine(t, w) \in DOMAIN t /\ Significant(t[JobsLine(t, w)])
         /\ Rank(t, JobsLine(t, w)) = Len(G) + 2 /\ t[JobsLine(t, w)] = JLine
<1>1. /\ t \in Seq(Lines) /\ Tidy(t) /\ Said(t) \in Seq(Sayings) /\ Len(t) \in Nat
      /\ DOMAIN t = 1..Len(t)
      /\ Len(G) \in Nat /\ Len(J) \in Nat /\ Len(Z) \in Nat
      /\ Len(Said(t)) = Len(G) + 2 + Len(J) + Len(Z)
  BY LaidAt, Places
<1>2. /\ Said(t)[Len(G) + 2] = JLine
      /\ \A x \in 1..Len(J) : Said(t)[Len(G) + 2 + x] = J[x] /\ J[x].depth \in {6, 10, 12, 16, 18}
      /\ Len(Z) # 0 => Said(t)[Len(G) + 3 + Len(J)].depth = 2
  BY LaidAt
<1>3. PICK h \in DOMAIN t :
           /\ Significant(t[h]) /\ Rank(t, h) = Len(G) + 1
           /\ {j \in Section(t, "workflows:") + 1..Len(t) : t[j] = Line(2, "workflow:", <<w>>)} = {h}
  BY HeaderIs
<1>4. JLine \in Sayings /\ JLine \in Lines /\ JLine.depth = 4
  <2>1. w \in Words
    BY DEF Laid
  <2> QED BY <2>1, HeaderLines DEF Sayings
<1> DEFINE e == BlockEnd(t, h, Len(t) + 1, 2)
           k == Len(G) + 3 + Len(J)
           found == {j \in h + 1..e - 1 : t[j] = JLine}
<1>5. JobsLine(t, w) = IF found = {} THEN 0 ELSE Min(found)
  <2>1. Min({h}) = h
    BY <1>1, <1>3, OnlyLeast
  <2> QED BY <1>3, <2>1 DEF JobsLine, JLine
<1>6. e \in h + 1..Len(t) + 1 /\ Rank(t, e) = k
  <2>1. /\ Len(t) + 1 \in h + 1..Len(t) + 1 /\ EndsAt(t, Len(t) + 1, 2)
        /\ k \in Rank(t, h) + 1..Len(Said(t)) + 1 /\ 2 \in Nat
    BY <1>1, <1>3 DEF EndsAt
  <2>2. ASSUME NEW n \in Rank(t, h) + 1..k - 1 PROVE Said(t)[n].depth > 2
    <3>1. n \in Nat /\ n >= Len(G) + 2 /\ n <= Len(G) + 2 + Len(J)
      BY <1>1, <1>3
    <3>2. CASE n = Len(G) + 2
      BY <3>2, <1>2, <1>4
    <3>3. CASE n # Len(G) + 2
      <4>1. n - (Len(G) + 2) \in 1..Len(J) /\ n = Len(G) + 2 + (n - (Len(G) + 2))
        BY <3>1, <3>3, <1>1
      <4>2. PICK x \in 1..Len(J) : n = Len(G) + 2 + x
        BY <4>1
      <4>3. Said(t)[n].depth \in {6, 10, 12, 16, 18}
        BY <4>2, <1>2
      <4> QED BY <4>3
    <3> QED BY <3>2, <3>3
  <2>3. k # Len(Said(t)) + 1 => Said(t)[k].depth <= 2
    <3>1. k # Len(Said(t)) + 1 => Len(Z) # 0
      BY <1>1
    <3> QED BY <3>1, <1>2
  <2>4. t \in Seq(Lines) /\ Tidy(t) /\ Significant(t[h]) /\ k \in Nat
    BY <1>1, <1>3
  <2>5. PICK m \in Nat : m = k
    BY <2>4
  <2>6. /\ m \in Rank(t, h) + 1..Len(Said(t)) + 1
        /\ \A n \in Rank(t, h) + 1..m - 1 : Said(t)[n].depth > 2
        /\ m # Len(Said(t)) + 1 => Said(t)[m].depth <= 2
    BY <2>1, <2>2, <2>3, <2>5
  <2>7. /\ BlockEnd(t, h, Len(t) + 1, 2) \in h + 1..Len(t) + 1
        /\ Rank(t, BlockEnd(t, h, Len(t) + 1, 2)) = m
    BY <2>1, <2>4, <2>6, ScanIs
  <2> QED BY <2>5, <2>7
<1>7. PICK b \in DOMAIN t : Significant(t[b]) /\ Rank(t, b) = Len(G) + 2
  <2>1. Len(G) + 2 \in DOMAIN Said(t)
    BY <1>1
  <2> QED BY <1>1, <2>1, Spots
<1>8. t[b] = JLine
  BY <1>1, <1>2, <1>7, RankNext
<1>9. h < b /\ b < e
  <2>1. h \in 1..Len(t) + 1 /\ b \in 1..Len(t) + 1 /\ e \in 1..Len(t) + 1
    BY SMTT(40), <1>1, <1>3, <1>6, <1>7
  <2>2. Rank(t, h) < Rank(t, b) /\ Rank(t, b) < Rank(t, e)
    BY SMTT(40), <1>1, <1>3, <1>6, <1>7
  <2> HIDE DEF e
  <2> QED BY <2>1, <2>2, <1>1, RankOrder
<1>10. b \in found
  BY <1>1, <1>3, <1>6, <1>8, <1>9
<1>11. ASSUME NEW j \in found PROVE b <= j
  <2>1. j \in DOMAIN t /\ h < j /\ t[j] = JLine /\ Significant(t[j]) /\ j \in 1..Len(t) + 1
    BY SMTT(40), <1>1, <1>3, <1>4, <1>6 DEF Sayings
  <2>2. h \in DOMAIN t /\ b \in 1..Len(t) + 1
    BY <1>1, <1>3, <1>7
  <2>3. Rank(t, h) < Rank(t, j)
    BY <1>1, <1>3, <2>1, RankLess
  <2>4. Rank(t, j) \in Nat /\ Rank(t, j) >= Len(G) + 2
    BY <1>1, <1>3, <2>1, <2>3, RankIs
  <2>5. ASSUME j < b PROVE FALSE
    <3>1. Rank(t, j) < Rank(t, b)
      BY <1>1, <2>1, <2>2, <2>5, RankLess
    <3> QED BY <1>1, <1>7, <2>4, <3>1
  <2> QED BY <1>1, <1>7, <2>1, <2>5
<1>12. found \subseteq Nat /\ found # {}
  BY <1>1, <1>3, <1>6, <1>10
<1>13. Min(found) = b
  <2>1. Min(found) \in found /\ \A y \in found : Min(found) <= y
    BY <1>12, LeastOf
  <2>2. Min(found) <= b /\ b <= Min(found) /\ Min(found) \in Nat
    BY <2>1, <1>10, <1>11, <1>12
  <2> QED BY <2>2, <1>1, <1>7
<1> HIDE DEF found
<1> QED BY <1>5, <1>7, <1>8, <1>12, <1>13

\* They end where the lines of the entries do.
LEMMA JobsEndIs ==
  ASSUME NEW t, NEW G, NEW w, NEW J, NEW Z, Laid(t, G, w, J, Z)
  PROVE  /\ JobsEnd(t, w) \in JobsLine(t, w) + 1..Len(t) + 1
         /\ Rank(t, JobsEnd(t, w)) = Len(G) + 3 + Len(J)
         /\ EndsAt(t, JobsEnd(t, w), 4)
         /\ \A j \in JobsLine(t, w) + 1..JobsEnd(t, w) - 1 : ~Bars(t[j], 4)
<1>1. /\ t \in Seq(Lines) /\ Tidy(t) /\ Said(t) \in Seq(Sayings) /\ Len(t) \in Nat
      /\ DOMAIN t = 1..Len(t)
      /\ Len(G) \in Nat /\ Len(J) \in Nat /\ Len(Z) \in Nat
      /\ Len(Said(t)) = Len(G) + 2 + Len(J) + Len(Z)
  BY LaidAt, Places
<1>2. /\ \A x \in 1..Len(J) : Said(t)[Len(G) + 2 + x] = J[x] /\ J[x].depth \in {6, 10, 12, 16, 18}
      /\ Len(Z) # 0 => Said(t)[Len(G) + 3 + Len(J)].depth = 2
  BY LaidAt
<1>3. PICK b \in DOMAIN t : b = JobsLine(t, w) /\ Significant(t[b]) /\ Rank(t, b) = Len(G) + 2
  BY JobsLineIs
<1>4. PICK k \in Nat : k = Len(G) + 3 + Len(J)
  BY <1>1
<1>5. /\ Len(t) + 1 \in b + 1..Len(t) + 1 /\ EndsAt(t, Len(t) + 1, 4)
      /\ k \in Rank(t, b) + 1..Len(Said(t)) + 1 /\ 4 \in Nat
  BY <1>1, <1>3, <1>4 DEF EndsAt
<1>6. ASSUME NEW n \in Rank(t, b) + 1..k - 1 PROVE Said(t)[n].depth > 4
  <2>1. n - (Len(G) + 2) \in 1..Len(J) /\ n = Len(G) + 2 + (n - (Len(G) + 2))
    BY <1>1, <1>3, <1>4
  <2>2. PICK x \in 1..Len(J) : n = Len(G) + 2 + x
    BY <2>1
  <2>3. Said(t)[n].depth \in {6, 10, 12, 16, 18}
    BY <2>2, <1>2
  <2> QED BY <2>3
<1>7. k # Len(Said(t)) + 1 => Said(t)[k].depth <= 4
  <2>1. k # Len(Said(t)) + 1 => Len(Z) # 0
    BY <1>1, <1>4
  <2> QED BY <2>1, <1>2, <1>4
<1>8. t \in Seq(Lines) /\ Tidy(t) /\ Significant(t[b])
  BY <1>1, <1>3
<1>9. /\ BlockEnd(t, b, Len(t) + 1, 4) \in b + 1..Len(t) + 1
      /\ Rank(t, BlockEnd(t, b, Len(t) + 1, 4)) = k
      /\ EndsAt(t, BlockEnd(t, b, Len(t) + 1, 4), 4)
      /\ \A j \in b + 1..BlockEnd(t, b, Len(t) + 1, 4) - 1 : ~Bars(t[j], 4)
  BY <1>5, <1>6, <1>7, <1>8, ScanIs
<1>10. JobsEnd(t, w) = BlockEnd(t, b, Len(t) + 1, 4)
  BY <1>3 DEF JobsEnd
<1> QED BY <1>3, <1>4, <1>9, <1>10

-----------------------------------------------------------------------------
(* Where the entries of a workflow begin *)

NameText(e) == If(e.name # NoName, <<Line(10, "name:", <<e.name>>)>>)
Rest(e) == ((NameText(e) \o Params(e)) \o RequiresText(e.requires)) \o After(e)

LEMMA Regroup ==
  ASSUME NEW T
  PROVE  \A x \in Seq(T), y \in Seq(T), z \in Seq(T) : x \o (y \o z) = (x \o y) \o z
BY Associates

Fives(T, a, b, c, d, e) == {a, b, c, d, e} \subseteq Seq(T)

LEMMA FiveJoin ==
  ASSUME NEW T, NEW a, NEW b, NEW c, NEW d, NEW e, Fives(T, a, b, c, d, e)
  PROVE  /\ (((a \o b) \o c) \o d) \o e = a \o (((b \o c) \o d) \o e)
         /\ ((b \o c) \o d) \o e \in Seq(T)
         /\ Range(((b \o c) \o d) \o e) = Range(b) \cup Range(c) \cup Range(d) \cup Range(e)
<1>1. \A x \in Seq(T), y \in Seq(T), z \in Seq(T) : x \o (y \o z) = (x \o y) \o z
  BY Regroup
<1>2. \A x \in Seq(T), y \in Seq(T) : x \o y \in Seq(T)
  OBVIOUS
<1>3. \A x \in Seq(T), y \in Seq(T) : Range(x \o y) = Range(x) \cup Range(y)
  BY RangeConcatenation
<1>0. a \in Seq(T) /\ b \in Seq(T) /\ c \in Seq(T) /\ d \in Seq(T) /\ e \in Seq(T)
  BY DEF Fives
<1>4. PICK p, q, r : /\ p = b \o c /\ q = p \o d /\ r = q \o e
  OBVIOUS
<1>5. p \in Seq(T) /\ q \in Seq(T) /\ r \in Seq(T)
  <2>1. p \in Seq(T)
    BY <1>0, <1>2, <1>4, Zenon
  <2>2. q \in Seq(T)
    BY <1>0, <1>2, <1>4, <2>1, Zenon
  <2>3. r \in Seq(T)
    BY <1>0, <1>2, <1>4, <2>2, Zenon
  <2> QED BY <2>1, <2>2, <2>3
<1>6. (a \o b) \o c = a \o p
  <2>1. a \o (b \o c) = (a \o b) \o c
    BY ZenonT(60), <1>0, <1>1
  <2> QED BY <2>1, <1>4
<1>7. (a \o p) \o d = a \o q
  <2>0. a \in Seq(T) /\ p \in Seq(T) /\ d \in Seq(T)
    BY <1>0, <1>5
  <2>1. a \o (p \o d) = (a \o p) \o d
    BY <2>0, <1>1
  <2> QED BY <2>1, <1>4
<1>8. (a \o q) \o e = a \o r
  <2>0. a \in Seq(T) /\ q \in Seq(T) /\ e \in Seq(T)
    BY <1>0, <1>5
  <2>1. a \o (q \o e) = (a \o q) \o e
    BY <2>0, <1>1
  <2> QED BY <2>1, <1>4
<1>9. Range(r) = Range(b) \cup Range(c) \cup Range(d) \cup Range(e)
  <2>1. Range(q \o e) = Range(q) \cup Range(e)
    BY <1>0, <1>3, <1>5, Zenon
  <2>2. Range(p \o d) = Range(p) \cup Range(d)
    BY <1>0, <1>3, <1>5, Zenon
  <2>3. Range(b \o c) = Range(b) \cup Range(c)
    BY <1>0, <1>3, Zenon
  <2> QED BY <2>1, <2>2, <2>3, <1>4
<1> QED BY <1>4, <1>5, <1>6, <1>7, <1>8, <1>9

\* Everything an entry says after its first line is deeper than that line.
LEMMA EntryRest ==
  ASSUME NEW e \in Entry
  PROVE  EntryText(e) = <<JobLine(e.orbJob)>> \o Rest(e) /\ Rest(e) \in Seq(Inner)
<1>1. e.orbJob \in Words /\ e.name \in Words \cup {NoName}
  BY EntryTyped
<1>2. JobLine(e.orbJob) \in Lines
  BY <1>1, JobLineIs
<1>3. NameText(e) \in Seq(Lines) /\ \A l \in Range(NameText(e)) : l = Line(10, "name:", <<e.name>>)
  <2>1. CASE e.name = NoName
    BY <2>1 DEF NameText, If, Range
  <2>2. CASE e.name # NoName
    <3> DEFINE k == "name:"
    <3>1. k \in KeyNames /\ e.name \in Words
      BY <2>2, <1>1 DEF KeyNames
    <3> HIDE DEF k
    <3>2. Line(10, k, <<e.name>>) \in Lines
      BY <3>1, DepthsAre, LineOne
    <3>3. PICK l \in Lines : l = Line(10, "name:", <<e.name>>)
      BY <3>2 DEF k
    <3>4. NameText(e) = <<l>>
      BY <2>2, <3>3 DEF NameText, If
    <3>5. <<l>> \in Seq(Lines) /\ \A x \in Range(<<l>>) : x = l
      BY DEF Range
    <3> QED BY <3>3, <3>4, <3>5
  <2> QED BY <2>1, <2>2
<1>4. /\ Params(e) \in Seq(Lines) /\ RequiresText(e.requires) \in Seq(Lines) /\ After(e) \in Seq(Lines)
      /\ EntryText(e) = (Before(e) \o RequiresText(e.requires)) \o After(e)
      /\ Range(After(e)) = Range(Keys(e)) \cup Range(Opens(e)) \cup Range(StepsText(e))
      /\ EntryText(e) \in Seq(Lines)
  BY PartsTyped, EntrySplit, EntryBegins
<1>5. PICK a \in Seq(Lines) : a = <<JobLine(e.orbJob)>>
  BY <1>2, Single
<1>6. EntryText(e) = (((a \o NameText(e)) \o Params(e)) \o RequiresText(e.requires)) \o After(e)
  BY <1>4, <1>5 DEF Before, Opening, NameText, JobLine
<1>7. /\ EntryText(e) = a \o Rest(e) /\ Rest(e) \in Seq(Lines)
      /\ Range(Rest(e)) = Range(NameText(e)) \cup Range(Params(e)) \cup Range(RequiresText(e.requires))
                            \cup Range(After(e))
  <2>1. PICK N, P, R, A :
          N = NameText(e) /\ P = Params(e) /\ R = RequiresText(e.requires) /\ A = After(e)
    OBVIOUS
  <2>0. Fives(Lines, a, N, P, R, A)
    BY <1>3, <1>4, <1>5, <2>1 DEF Fives
  <2>2. /\ (((a \o N) \o P) \o R) \o A = a \o (((N \o P) \o R) \o A)
        /\ ((N \o P) \o R) \o A \in Seq(Lines)
        /\ Range(((N \o P) \o R) \o A) = Range(N) \cup Range(P) \cup Range(R) \cup Range(A)
    BY SMTT(40), <2>0, FiveJoin
  <2>3. Rest(e) = ((N \o P) \o R) \o A
    BY <2>1 DEF Rest
  <2> QED BY <1>6, <2>1, <2>2, <2>3
<1>8. ASSUME NEW l \in Range(Rest(e)) PROVE l \in Inner
  <2>1. l \in Range(EntryText(e))
    <3>1. PICK r \in Seq(Lines) : r = Rest(e)
      BY <1>7
    <3>2. Range(a \o r) = Range(a) \cup Range(r)
      <4>1. \A x \in Seq(Lines), y \in Seq(Lines) : Range(x \o y) = Range(x) \cup Range(y)
        BY RangeConcatenation
      <4> QED BY <4>1
    <3> QED BY <1>7, <3>1, <3>2
  <2>2. l # JobLine(e.orbJob)
    <3>1. JobLine(e.orbJob).depth = 6
      BY <1>1, JobLineIs
    <3> SUFFICES l.depth \in {10, 12, 16, 18}
      BY <3>1
    <3>2. CASE l \in Range(NameText(e))
      <4>1. Line(10, "name:", <<e.name>>).depth = 10
        BY Wordy
      <4> QED BY <1>3, <3>2, <4>1
    <3>3. CASE l \in Range(Params(e))
      <4>1. l.depth = 10 \/ l.depth = 12
        BY <3>3, ParamsHave
      <4> QED BY <4>1
    <3>4. CASE l \in Range(RequiresText(e.requires))
      <4>1. l.depth = 10 \/ l.depth = 12
        BY <3>4, RequiresHas
      <4> QED BY <4>1
    <3>5. CASE l \in Range(Keys(e)) \/ l \in Range(Opens(e))
      <4>1. \E v : \/ l = Line(10, "context: []", v) \/ l = Line(10, "attach_workspace: true", v)
                   \/ l = Line(10, "post-steps:", v)
        BY <3>5, KeysHave
      <4>2. l.depth = 10
        BY <4>1, Wordy
      <4> QED BY <4>2
    <3>6. CASE l \in Range(StepsText(e))
      <4>1. l.depth > 10
        BY <3>6, StepsHave
      <4>2. l.depth \in Depths /\ l.depth > 10 => l.depth \in {10, 12, 16, 18}
        BY DEF Depths
      <4> QED BY <2>1, <4>1, <4>2, EntryLines, LineDepth
    <3> QED BY <1>4, <1>7, <3>2, <3>3, <3>4, <3>5, <3>6
  <2> QED BY <2>1, <2>2, EntrySays
<1>9. PICK r \in Seq(Lines) : r = Rest(e)
  BY <1>7
<1>10. r \in Seq(Inner)
  <2>1. Len(r) \in Nat /\ DOMAIN r = 1..Len(r) /\ r = [i \in 1..Len(r) |-> r[i]]
    BY Places
  <2>2. \A i \in 1..Len(r) : r[i] \in Inner
    BY <1>8, <1>9, <2>1 DEF Range
  <2>3. r \in [1..Len(r) -> Inner]
    BY <2>1, <2>2
  <2> QED BY <2>1, <2>3
<1> QED BY <1>5, <1>7, <1>9, <1>10

LEMMA EntryAt ==
  ASSUME NEW e \in Entry
  PROVE  /\ EntryText(e) \in Seq(Sayings) /\ Len(EntryText(e)) \in Nat /\ Len(EntryText(e)) # 0
         /\ EntryText(e)[1] = JobLine(e.orbJob)
         /\ \A x \in 2..Len(EntryText(e)) : EntryText(e)[x].depth \in {10, 12, 16, 18}
<1>1. e.orbJob \in Words
  BY EntryTyped
<1>2. JobLine(e.orbJob) \in Sayings
  BY <1>1, JobLineIs
<1>3. PICK l \in Sayings : l = JobLine(e.orbJob)
  BY <1>2
<1>4. PICK r \in Seq(Inner) : r = Rest(e)
  BY EntryRest
<1>5. r \in Seq(Sayings) /\ \A x \in 1..Len(r) : r[x].depth \in {10, 12, 16, 18}
  <2>1. Inner \subseteq Sayings /\ \A x \in Inner : x.depth \in {10, 12, 16, 18}
    BY DEF Inner
  <2> QED BY <2>1
<1>6. PICK E \in Seq(Sayings) : E = EntryText(e)
  BY EntrySayings
<1>7. E = <<l>> \o r
  BY <1>3, <1>4, <1>6, EntryRest
<1>8. PICK a \in Seq(Sayings) : a = <<l>> /\ Len(a) = 1 /\ a[1] = l
  BY Single
<1>9. /\ Len(a \o r) = Len(a) + Len(r) /\ Len(a) \in Nat /\ Len(r) \in Nat
      /\ \A x \in 1..Len(a) : (a \o r)[x] = a[x]
      /\ \A x \in 1..Len(r) : (a \o r)[Len(a) + x] = r[x]
  BY <1>5, ConcatAt
<1>10. Len(E) = 1 + Len(r) /\ E[1] = l /\ \A x \in 1..Len(r) : E[1 + x] = r[x]
  BY <1>7, <1>8, <1>9
<1>11. ASSUME NEW x \in 2..Len(E) PROVE E[x].depth \in {10, 12, 16, 18}
  <2>1. x - 1 \in 1..Len(r) /\ x = 1 + (x - 1)
    BY <1>9, <1>10
  <2>2. PICK y \in 1..Len(r) : x = 1 + y
    BY <2>1
  <2> QED BY <1>5, <1>10, <2>2
<1> QED BY <1>3, <1>6, <1>9, <1>10, <1>11

\* The places of a set, in order.
Increasing(g) == \A i \in DOMAIN g, j \in DOMAIN g : i < j => g[i] < g[j]
Picks(Q, n) == FlattenSeq([j \in 1..n |-> If(j \in Q, <<j>>)])

LEMMA AppendOnto ==
  ASSUME NEW W, NEW u \in Seq(W), NEW y \in W, NEW v \in Seq(W), Len(v) = Len(u) + 1,
         \A j \in 1..Len(u) : v[j] = u[j], v[Len(u) + 1] = y
  PROVE  v = Append(u, y)
<1>1. Append(u, y) \in Seq(W) /\ Len(Append(u, y)) = Len(u) + 1
      /\ \A j \in 1..Len(u) + 1 : Append(u, y)[j] = IF j = Len(u) + 1 THEN y ELSE u[j]
  OBVIOUS
<1>2. \A j \in 1..Len(v) : v[j] = Append(u, y)[j]
  <2>1. \A j \in 1..Len(u) + 1 : j = Len(u) + 1 \/ j \in 1..Len(u)
    OBVIOUS
  <2> QED BY <1>1, <2>1
<1> QED BY <1>1, <1>2, SeqEqual

LEMMA PicksNext ==
  ASSUME NEW Q, NEW n \in Nat
  PROVE  /\ Picks(Q, 0) = <<>>
         /\ Picks(Q, n + 1) = Picks(Q, n) \o If(n + 1 \in Q, <<n + 1>>)
<1> DEFINE ss == [j \in 1..n |-> If(j \in Q, <<j>>)]
           x == If(n + 1 \in Q, <<n + 1>>)
           tt == [j \in 1..n + 1 |-> If(j \in Q, <<j>>)]
<1>1. \A j \in Nat : If(j \in Q, <<j>>) \in Seq(Nat)
  BY DEF If
<1>2. ss \in Seq(Seq(Nat)) /\ x \in Seq(Nat) /\ Len(ss) = n
  <2>1. ss \in [1..n -> Seq(Nat)]
    BY <1>1
  <2>2. \A V : ss \in [1..n -> V] => ss \in Seq(V) /\ Len(ss) = n
    OBVIOUS
  <2> QED BY <2>1, <2>2, <1>1
<1>3. tt = Append(ss, x)
  <2> DEFINE V == Seq(Nat)
  <2>1. ss \in Seq(V) /\ x \in V
    BY <1>2
  <2>2. tt \in [1..n + 1 -> V]
    BY <1>1
  <2>3. \A W : tt \in [1..n + 1 -> W] => tt \in Seq(W) /\ Len(tt) = n + 1
    OBVIOUS
  <2>4. tt \in Seq(V) /\ Len(tt) = Len(ss) + 1
    BY <2>2, <2>3, <1>2
  <2>5. (\A j \in 1..Len(ss) : tt[j] = ss[j]) /\ tt[Len(ss) + 1] = x
    BY <1>2
  <2> HIDE DEF V, ss, x, tt
  <2> QED BY <2>1, <2>4, <2>5, AppendOnto
<1>4. FlattenSeq(Append(ss, x)) = FlattenSeq(ss) \o x
  <2> HIDE DEF ss, x
  <2> QED BY <1>2, FlatAppend
<1>5. [j \in 1..0 |-> If(j \in Q, <<j>>)] = <<>>
  OBVIOUS
<1>6. Picks(Q, 0) = <<>>
  BY <1>5, FlatEmpty DEF Picks
<1> QED BY <1>3, <1>4, <1>6 DEF Picks

\* g lists the m places of Q, which are at most N, in order.
Lists(g, m, Q, N) ==
  /\ m \in Nat /\ N \in Nat /\ \A i \in 1..m : g[i] \in Q
  /\ \A x \in Q : x \in Nat /\ 1 <= x /\ x <= N /\ \E i \in 1..m : g[i] = x
  /\ \A i \in 1..m, j \in 1..m : i < j => g[i] < g[j]

\* The first q of them are those up to n.
UpTo(g, m, n, q) == /\ q \in 0..m /\ \A i \in 1..q : g[i] <= n
                    /\ q = m \/ g[q + 1] > n

LEMMA UpToZero ==
  ASSUME NEW g, NEW m, NEW Q, NEW N, Lists(g, m, Q, N), NEW q, UpTo(g, m, 0, q)
  PROVE  q = 0
<1>1. m \in Nat /\ q \in 0..m /\ q \in Nat /\ \A i \in 1..q : g[i] <= 0
  BY DEF Lists, UpTo
<1>2. \A i \in 1..m : g[i] \in Nat /\ 1 <= g[i]
  BY DEF Lists
<1>3. ASSUME q # 0 PROVE FALSE
  <2>1. 1 \in 1..q /\ 1 \in 1..m
    BY <1>1, <1>3
  <2>2. g[1] \in Nat /\ 1 <= g[1] /\ g[1] <= 0
    BY <1>1, <1>2, <2>1
  <2> QED BY <2>2
<1> QED BY <1>3

LEMMA UpToNext ==
  ASSUME NEW g, NEW m, NEW Q, NEW N, Lists(g, m, Q, N), NEW n \in Nat, NEW q, UpTo(g, m, n + 1, q)
  PROVE  /\ n + 1 \in Q => /\ q \in 1..m /\ q - 1 \in 0..m /\ g[q] = n + 1
                           /\ UpTo(g, m, n, q - 1)
         /\ n + 1 \notin Q => UpTo(g, m, n, q)
<1>1. m \in Nat /\ q \in 0..m /\ q \in Nat /\ (\A i \in 1..q : g[i] <= n + 1) /\ (q = m \/ g[q + 1] > n + 1)
  BY DEF Lists, UpTo
<1>2. \A i \in 1..m : g[i] \in Nat /\ g[i] \in Q
  BY DEF Lists
<1>3. \A i \in 1..m, j \in 1..m : i < j => g[i] < g[j]
  BY DEF Lists
<1>4. ASSUME n + 1 \in Q
      PROVE  q \in 1..m /\ q - 1 \in 0..m /\ g[q] = n + 1 /\ UpTo(g, m, n, q - 1)
  <2>1. PICK i \in 1..m : g[i] = n + 1
    BY <1>4 DEF Lists
  <2>2. ASSUME i > q PROVE FALSE
    <3>1. q + 1 \in 1..m /\ q # m /\ i \in Nat
      BY <1>1, <2>2
    <3>2. g[q + 1] > n + 1
      BY <1>1, <3>1
    <3>3. q + 1 = i \/ g[q + 1] < g[i]
      <4>1. q + 1 = i \/ q + 1 < i
        BY <1>1, <2>2, <3>1
      <4> QED BY <4>1, <3>1, <1>3
    <3>4. g[q + 1] \in Nat
      BY <3>1, <1>2
    <3> QED BY <2>1, <3>2, <3>3, <3>4
  <2>3. ASSUME i < q PROVE FALSE
    <3>1. q \in 1..m /\ q \in 1..q
      BY <1>1, <2>3
    <3>2. g[i] < g[q] /\ g[q] <= n + 1 /\ g[q] \in Nat
      BY <1>1, <1>2, <1>3, <2>3, <3>1
    <3> QED BY <2>1, <3>2
  <2>4. i = q
    BY <1>1, <2>2, <2>3
  <2>5. q \in 1..m /\ q - 1 \in 0..m /\ g[q] = n + 1 /\ q - 1 + 1 = q
    BY <2>1, <2>4, <1>1
  <2>6. \A j \in 1..q - 1 : g[j] <= n
    <3> SUFFICES ASSUME NEW j \in 1..q - 1 PROVE g[j] <= n
      OBVIOUS
    <3>1. j \in 1..m /\ j < q
      BY <1>1, <2>5
    <3>2. g[j] < g[q] /\ g[j] \in Nat
      BY <3>1, <2>5, <1>2, <1>3
    <3> QED BY <3>2, <2>5
  <2>7. g[q - 1 + 1] > n
    BY <2>5
  <2> QED BY <2>5, <2>6, <2>7 DEF UpTo
<1>5. ASSUME n + 1 \notin Q PROVE UpTo(g, m, n, q)
  <2>1. \A i \in 1..q : g[i] <= n
    <3> SUFFICES ASSUME NEW i \in 1..q PROVE g[i] <= n
      OBVIOUS
    <3>1. i \in 1..m
      BY <1>1
    <3>2. g[i] \in Nat /\ g[i] # n + 1 /\ g[i] <= n + 1
      BY <3>1, <1>1, <1>2, <1>5
    <3> QED BY <3>2
  <2>2. q = m \/ g[q + 1] > n
    <3> SUFFICES ASSUME q # m PROVE g[q + 1] > n
      OBVIOUS
    <3>1. q + 1 \in 1..m /\ g[q + 1] > n + 1
      BY <1>1
    <3>2. g[q + 1] \in Nat
      BY <3>1, <1>2
    <3> QED BY <3>1, <3>2
  <2> QED BY <1>1, <2>1, <2>2 DEF UpTo
<1> QED BY <1>4, <1>5

LEMMA TakeNext ==
  ASSUME NEW g \in Seq(Nat), NEW q \in 1..Len(g)
  PROVE  SubSeq(g, 1, q) = SubSeq(g, 1, q - 1) \o <<g[q]>>
<1>1. PICK p \in 0..Len(g) : p = q - 1 /\ p + 1 = q /\ p < Len(g)
  OBVIOUS
<1>2. SubSeq(g, 1, p + 1) = Append(SubSeq(g, 1, p), g[p + 1]) /\ SubSeq(g, 1, p) \in Seq(Nat)
  BY <1>1, FirstOnes
<1>3. g[p + 1] \in Nat
  BY <1>1
<1>4. PICK a \in Seq(Nat), x \in Nat : a = SubSeq(g, 1, p) /\ x = g[p + 1]
  BY <1>2, <1>3
<1>5. Append(a, x) = a \o <<x>>
  BY AppendLast
<1> QED BY <1>1, <1>2, <1>4, <1>5

LEMMA PicksAre ==
  ASSUME NEW g \in Seq(Nat), NEW N, NEW Q, Lists(g, Len(g), Q, N)
  PROVE  Picks(Q, N) = g
<1> DEFINE Good(n) == \A q : UpTo(g, Len(g), n, q) => Picks(Q, n) = SubSeq(g, 1, q)
           S == {n \in 0..N : Good(n)}
<1>1. N \in Nat /\ Len(g) \in Nat /\ \A i \in 1..Len(g) : g[i] <= N
  BY DEF Lists
<1>2. SubSeq(g, 1, 0) = <<>> /\ SubSeq(g, 1, Len(g)) = g
  <2>1. 0 \in 0..Len(g)
    BY <1>1
  <2> QED BY <2>1, FirstOnes
<1>3. Good(0)
  BY <1>2, UpToZero, PicksNext
<1>4. ASSUME NEW n \in Nat, Good(n) PROVE Good(n + 1)
  <2> SUFFICES ASSUME NEW q, UpTo(g, Len(g), n + 1, q) PROVE Picks(Q, n + 1) = SubSeq(g, 1, q)
    OBVIOUS
  <2>1. Picks(Q, n + 1) = Picks(Q, n) \o If(n + 1 \in Q, <<n + 1>>)
    BY PicksNext
  <2>2. CASE n + 1 \in Q
    <3>1. q \in 1..Len(g) /\ g[q] = n + 1 /\ UpTo(g, Len(g), n, q - 1)
      BY <2>2, UpToNext
    <3>2. Picks(Q, n) = SubSeq(g, 1, q - 1)
      BY <1>4, <3>1
    <3>3. SubSeq(g, 1, q) = SubSeq(g, 1, q - 1) \o <<g[q]>>
      BY <3>1, TakeNext
    <3>4. If(n + 1 \in Q, <<n + 1>>) = <<n + 1>>
      BY <2>2 DEF If
    <3> QED BY <2>1, <3>1, <3>2, <3>3, <3>4
  <2>3. CASE n + 1 \notin Q
    <3>1. UpTo(g, Len(g), n, q) /\ q \in 0..Len(g)
      BY <2>3, UpToNext DEF UpTo
    <3>2. Picks(Q, n) = SubSeq(g, 1, q)
      BY <1>4, <3>1
    <3>3. If(n + 1 \in Q, <<n + 1>>) = <<>>
      BY <2>3 DEF If
    <3>4. PICK a \in Seq(Nat) : a = SubSeq(g, 1, q)
      BY <3>1, FirstOnes
    <3>5. a \o <<>> = a
      OBVIOUS
    <3> QED BY <2>1, <3>2, <3>3, <3>4, <3>5
  <2> QED BY <2>2, <2>3
<1>5. 0 \in S /\ \A n \in 0..N : n \in S /\ n < N => n + 1 \in S
  <2>1. 0 \in 0..N /\ \A n \in 0..N : n \in Nat /\ (n < N => n + 1 \in 0..N)
    BY <1>1
  <2> HIDE DEF Good
  <2> QED BY <1>3, <1>4, <2>1
<1>6. 0..N \subseteq S
  <2> HIDE DEF S
  <2> QED BY <1>1, <1>5, Counting
<1>7. Good(N)
  <2>1. N \in 0..N
    BY <1>1
  <2> QED BY <2>1, <1>6
<1>8. UpTo(g, Len(g), N, Len(g))
  BY <1>1 DEF UpTo
<1> QED BY <1>2, <1>7, <1>8

\* How many lines the entries before the i-th have.
Offset(es, i) == Len(JobsText(SubSeq(es, 1, i - 1)))

LEMMA JobsPrefix ==
  ASSUME NEW es \in Seq(Entry), NEW n \in 0..Len(es), n < Len(es)
  PROVE  /\ JobsText(SubSeq(es, 1, n)) \in Seq(Sayings) /\ es[n + 1] \in Entry
         /\ JobsText(SubSeq(es, 1, n + 1)) = JobsText(SubSeq(es, 1, n)) \o EntryText(es[n + 1])
<1>1. PICK p \in Seq(Entry) : p = SubSeq(es, 1, n)
  BY FirstOnes
<1>2. PICK e \in Entry : e = es[n + 1]
  <2>1. es[n + 1] \in Entry
    OBVIOUS
  <2> QED BY <2>1
<1>3. SubSeq(es, 1, n + 1) = Append(p, e)
  BY <1>1, <1>2, FirstOnes
<1>4. Append(p, e) = p \o <<e>>
  BY AppendLast
<1>5. PICK s \in Seq(Entry) : s = <<e>>
  BY Single
<1>6. JobsText(p \o s) = JobsText(p) \o JobsText(s)
  BY JobsConcat
<1>7. JobsText(s) = EntryText(e)
  BY <1>5, JobsOne
<1>8. JobsText(p) \in Seq(Sayings)
  BY JobsType
<1> QED BY <1>1, <1>2, <1>3, <1>4, <1>5, <1>6, <1>7, <1>8

LEMMA OffsetNext ==
  ASSUME NEW es \in Seq(Entry), NEW i \in 1..Len(es)
  PROVE  /\ Offset(es, i) \in Nat /\ Offset(es, i + 1) \in Nat
         /\ Offset(es, i + 1) = Offset(es, i) + Len(EntryText(es[i]))
         /\ Offset(es, i) < Offset(es, i + 1)
<1>1. PICK n \in 0..Len(es) : n = i - 1 /\ n + 1 = i /\ n < Len(es)
  OBVIOUS
<1>2. PICK p \in Seq(Sayings) : p = JobsText(SubSeq(es, 1, n))
  BY <1>1, JobsPrefix
<1>3. PICK e \in Entry : e = es[n + 1]
  BY <1>1, JobsPrefix
<1>4. PICK E \in Seq(Sayings) : E = EntryText(e) /\ Len(E) # 0
  BY EntryAt
<1>5. JobsText(SubSeq(es, 1, n + 1)) = p \o E
  BY <1>1, <1>2, <1>3, <1>4, JobsPrefix
<1>6. Len(p \o E) = Len(p) + Len(E) /\ Len(p) \in Nat /\ Len(E) \in Nat
  BY ConcatAt
<1>7. Offset(es, i) = Len(p) /\ Offset(es, i + 1) = Len(p \o E)
  <2>1. i + 1 - 1 = n + 1
    BY <1>1
  <2> QED BY <1>1, <1>2, <1>5, <2>1 DEF Offset
<1>8. Len(EntryText(es[i])) = Len(E)
  BY <1>1, <1>3, <1>4
<1> QED BY <1>4, <1>6, <1>7, <1>8

LEMMA OffsetEnds ==
  ASSUME NEW es \in Seq(Entry)
  PROVE  Offset(es, 1) = 0 /\ Offset(es, Len(es) + 1) = Len(JobsText(es))
<1>1. SubSeq(es, 1, 0) = <<>> /\ SubSeq(es, 1, Len(es)) = es
  <2>1. 0 \in 0..Len(es)
    OBVIOUS
  <2> QED BY <2>1, FirstOnes
<1>2. Len(es) \in Nat
  OBVIOUS
<1>3. Len(es) + 1 - 1 = Len(es) /\ 1 - 1 = 0
  BY <1>2
<1>4. Len(<<>>) = 0
  OBVIOUS
<1>5. Offset(es, 1) = 0
  <2>1. Offset(es, 1) = Len(JobsText(SubSeq(es, 1, 0)))
    BY <1>3 DEF Offset
  <2> QED BY <2>1, <1>1, <1>4, JobsNone
<1>6. Offset(es, Len(es) + 1) = Len(JobsText(es))
  <2>1. Offset(es, Len(es) + 1) = Len(JobsText(SubSeq(es, 1, Len(es))))
    BY <1>3 DEF Offset
  <2> QED BY <2>1, <1>1
<1> QED BY <1>5, <1>6

LEMMA OffsetGrows ==
  ASSUME NEW es \in Seq(Entry), NEW j \in 1..Len(es) + 1, NEW i \in 1..j - 1
  PROVE  Offset(es, i) < Offset(es, j) /\ Offset(es, i) \in Nat /\ Offset(es, j) \in Nat
<1> DEFINE Good(n) == \A x \in 1..n : Offset(es, x) < Offset(es, n + 1)
           S == {n \in 0..Len(es) : Good(n)}
<1>1. Len(es) \in Nat /\ \A n \in 0..Len(es) : n \in Nat /\ (n < Len(es) => n + 1 \in 0..Len(es))
  OBVIOUS
<1>2. Good(0)
  OBVIOUS
<1>3. ASSUME NEW n \in Nat, n < Len(es), Good(n) PROVE Good(n + 1)
  <2> SUFFICES ASSUME NEW x \in 1..n + 1 PROVE Offset(es, x) < Offset(es, n + 1 + 1)
    OBVIOUS
  <2>1. n + 1 \in 1..Len(es) /\ x \in 1..Len(es)
    BY <1>1, <1>3
  <2>2. /\ Offset(es, n + 1) \in Nat /\ Offset(es, n + 1 + 1) \in Nat /\ Offset(es, x) \in Nat
        /\ Offset(es, n + 1) < Offset(es, n + 1 + 1)
    BY <2>1, OffsetNext
  <2>3. x = n + 1 \/ x \in 1..n
    OBVIOUS
  <2> QED BY <1>3, <2>2, <2>3
<1>4. 0 \in S /\ \A n \in 0..Len(es) : n \in S /\ n < Len(es) => n + 1 \in S
  <2> HIDE DEF Good
  <2> QED BY <1>1, <1>2, <1>3
<1>5. 0..Len(es) \subseteq S
  <2> HIDE DEF S
  <2> QED BY <1>1, <1>4, Counting
<1>6. PICK n \in 0..Len(es) : j = n + 1
  <2>1. j - 1 \in 0..Len(es) /\ j = j - 1 + 1
    BY <1>1
  <2> QED BY <2>1
<1>7. Good(n)
  BY <1>5
<1>8. i \in 1..n
  BY <1>6, <1>1
<1>9. n \in 1..Len(es) /\ i \in 1..Len(es)
  BY <1>8, <1>1
<1>10. Offset(es, n + 1) \in Nat /\ Offset(es, i) \in Nat
  BY <1>9, OffsetNext
<1> QED BY <1>6, <1>7, <1>8, <1>10

\* Only the first line of an entry is as shallow as 6.
LEMMA Openers ==
  ASSUME NEW es \in Seq(Entry), NEW x \in 1..Len(JobsText(es)), JobsText(es)[x].depth = 6
  PROVE  \E i \in 1..Len(es) : x = Offset(es, i) + 1
<1> DEFINE P(n) == JobsText(SubSeq(es, 1, n))
           Good(n) == \A y \in 1..Len(P(n)) : P(n)[y].depth = 6 => \E i \in 1..n : y = Offset(es, i) + 1
           S == {n \in 0..Len(es) : Good(n)}
<1>1. Len(es) \in Nat /\ \A n \in 0..Len(es) : n \in Nat /\ (n < Len(es) => n + 1 \in 0..Len(es))
  OBVIOUS
<1>2. Good(0)
  <2>1. P(0) = <<>>
    <3>1. 0 \in 0..Len(es)
      BY <1>1
    <3> QED BY <3>1, FirstOnes, JobsNone
  <2>2. Len(<<>>) = 0
    OBVIOUS
  <2> HIDE DEF P
  <2> QED BY <2>1, <2>2
<1>3. ASSUME NEW n \in 0..Len(es), n < Len(es), Good(n) PROVE Good(n + 1)
  <2>1. PICK p \in Seq(Sayings) : p = P(n)
    BY <1>3, JobsPrefix
  <2>2. PICK e \in Entry : e = es[n + 1]
    BY <1>3, JobsPrefix
  <2>3. PICK E \in Seq(Sayings) : /\ E = EntryText(e)
                                  /\ \A y \in 2..Len(E) : E[y].depth \in {10, 12, 16, 18}
    BY EntryAt
  <2>4. P(n + 1) = p \o E
    BY <1>3, <2>1, <2>2, <2>3, JobsPrefix
  <2>5. /\ Len(p \o E) = Len(p) + Len(E) /\ Len(p) \in Nat /\ Len(E) \in Nat
        /\ \A y \in 1..Len(p) : (p \o E)[y] = p[y]
        /\ \A y \in 1..Len(E) : (p \o E)[Len(p) + y] = E[y]
    BY ConcatAt
  <2>6. Offset(es, n + 1) = Len(p)
    <3>1. n + 1 - 1 = n
      OBVIOUS
    <3> QED BY <2>1, <3>1 DEF Offset
  <2> SUFFICES ASSUME NEW y \in 1..Len(p \o E), (p \o E)[y].depth = 6
               PROVE  \E i \in 1..n + 1 : y = Offset(es, i) + 1
    <3> HIDE DEF P
    <3> QED BY <2>4
  <2>7. CASE y \in 1..Len(p)
    <3>1. p[y].depth = 6
      BY <2>5, <2>7
    <3>2. \E i \in 1..n : y = Offset(es, i) + 1
      <4>1. y \in 1..Len(P(n)) /\ P(n)[y].depth = 6
        BY <2>1, <2>7, <3>1
      <4> QED BY <4>1, <1>3
    <3> QED BY <3>2
  <2>8. CASE y \notin 1..Len(p)
    <3>1. y - Len(p) \in 1..Len(E) /\ y = Len(p) + (y - Len(p))
      BY <2>5, <2>8
    <3>2. PICK z \in 1..Len(E) : y = Len(p) + z
      BY <3>1
    <3>3. E[z].depth = 6
      BY <2>5, <3>2
    <3>4. z \notin 2..Len(E)
      <4>1. z \in 2..Len(E) => E[z].depth \in {10, 12, 16, 18}
        BY <2>3
      <4>2. 6 \notin {10, 12, 16, 18}
        OBVIOUS
      <4> QED BY <4>1, <4>2, <3>3
    <3>5. z = 1
      BY <3>4, <2>5
    <3>6. n + 1 \in 1..n + 1
      OBVIOUS
    <3> QED BY <2>6, <3>2, <3>5, <3>6
  <2> QED BY <2>7, <2>8
<1>4. 0 \in S /\ \A n \in 0..Len(es) : n \in S /\ n < Len(es) => n + 1 \in S
  <2> HIDE DEF Good
  <2> QED BY <1>1, <1>2, <1>3
<1>5. 0..Len(es) \subseteq S
  <2> HIDE DEF S
  <2> QED BY <1>1, <1>4, Counting
<1>6. Good(Len(es))
  <2>1. Len(es) \in 0..Len(es)
    BY <1>1
  <2> QED BY <2>1, <1>5
<1>7. P(Len(es)) = JobsText(es)
  <2>1. Len(es) \in 0..Len(es)
    BY <1>1
  <2> QED BY <2>1, FirstOnes
<1> QED BY <1>6, <1>7

LEMMA JobsAt ==
  ASSUME NEW es \in Seq(Entry), NEW i \in 1..Len(es)
  PROVE  /\ es[i] \in Entry
         /\ \A y \in 1..Len(EntryText(es[i])) :
              /\ Offset(es, i) + y \in 1..Len(JobsText(es))
              /\ JobsText(es)[Offset(es, i) + y] = EntryText(es[i])[y]
<1>1. i \in DOMAIN es /\ es[i] \in Entry
  OBVIOUS
<1>2. /\ JobsText(SubSeq(es, 1, i - 1)) \in Seq(Lines)
      /\ JobsText(SubSeq(es, i + 1, Len(es))) \in Seq(Lines)
      /\ JobsText(es) = (JobsText(SubSeq(es, 1, i - 1)) \o EntryText(es[i]))
                              \o JobsText(SubSeq(es, i + 1, Len(es)))
      /\ EntryText(es[i]) \in Seq(Lines)
  BY <1>1, JobsAround, EntryBegins
<1>3. PICK a, b, c : /\ a = JobsText(SubSeq(es, 1, i - 1)) /\ b = EntryText(es[i])
                     /\ c = JobsText(SubSeq(es, i + 1, Len(es)))
  OBVIOUS
<1>4. a \in Seq(Lines) /\ b \in Seq(Lines) /\ c \in Seq(Lines)
  BY <1>2, <1>3
<1>5. /\ Len((a \o b) \o c) = Len(a) + Len(b) + Len(c)
      /\ Len(a) \in Nat /\ Len(b) \in Nat /\ Len(c) \in Nat
      /\ \A x \in 1..Len(b) : ((a \o b) \o c)[Len(a) + x] = b[x]
  BY <1>4, MiddleAt
<1>6. JobsText(es) = (a \o b) \o c /\ Offset(es, i) = Len(a)
  BY <1>2, <1>3 DEF Offset
<1>7. \A y \in 1..Len(b) : Len(a) + y \in 1..Len((a \o b) \o c)
  BY <1>5
<1> QED BY <1>1, <1>3, <1>5, <1>6, <1>7

LaidOut(t, G, w, es, Z) == es \in Seq(Entry) /\ Laid(t, G, w, JobsText(es), Z)

\* Where the text says the y-th line of the i-th entry.
LEMMA SpotIs ==
  ASSUME NEW t, NEW G, NEW w, NEW es, NEW Z, LaidOut(t, G, w, es, Z), NEW i \in 1..Len(es)
  PROVE  /\ es[i] \in Entry /\ Len(G) \in Nat /\ Offset(es, i) \in Nat
         /\ \A y \in 1..Len(EntryText(es[i])) :
              /\ Len(G) + 2 + Offset(es, i) + y \in DOMAIN Said(t)
              /\ Said(t)[Len(G) + 2 + Offset(es, i) + y] = EntryText(es[i])[y]
<1>1. es \in Seq(Entry) /\ Laid(t, G, w, JobsText(es), Z)
  BY DEF LaidOut
<1>2. PICK J : J = JobsText(es)
  OBVIOUS
<1>3. Laid(t, G, w, J, Z)
  BY <1>1, <1>2
<1>4. /\ Said(t) \in Seq(Sayings) /\ Len(G) \in Nat /\ Len(J) \in Nat /\ Len(Z) \in Nat
      /\ Len(Said(t)) = Len(G) + 2 + Len(J) + Len(Z)
      /\ \A x \in 1..Len(J) : Said(t)[Len(G) + 2 + x] = J[x]
  BY <1>3, LaidAt
<1>5. /\ es[i] \in Entry
      /\ \A y \in 1..Len(EntryText(es[i])) :
              /\ Offset(es, i) + y \in 1..Len(J)
              /\ J[Offset(es, i) + y] = EntryText(es[i])[y]
  BY <1>1, <1>2, JobsAt
<1>6. Offset(es, i) \in Nat
  BY <1>1, OffsetNext
<1>7. ASSUME NEW y \in 1..Len(EntryText(es[i]))
      PROVE  /\ Len(G) + 2 + Offset(es, i) + y \in DOMAIN Said(t)
             /\ Said(t)[Len(G) + 2 + Offset(es, i) + y] = EntryText(es[i])[y]
  <2>1. y \in Nat
    <3>1. Len(EntryText(es[i])) \in Nat
      BY <1>5, EntryAt
    <3> QED BY <3>1
  <2>2. Offset(es, i) + y \in 1..Len(J)
    BY <1>5
  <2>3. Said(t)[Len(G) + 2 + (Offset(es, i) + y)] = EntryText(es[i])[y]
    BY <1>4, <1>5, <2>2
  <2>4. /\ Len(G) + 2 + (Offset(es, i) + y) = Len(G) + 2 + Offset(es, i) + y
        /\ Len(G) + 2 + Offset(es, i) + y \in 1..Len(Said(t))
    BY SMTT(40), <1>4, <1>6, <2>1, <2>2
  <2>5. DOMAIN Said(t) = 1..Len(Said(t))
    BY <1>4
  <2> QED BY <2>3, <2>4, <2>5
<1> QED BY <1>4, <1>5, <1>6, <1>7

\* A line that begins an entry.
Opener(t, b, G, es, i) ==
  /\ b \in DOMAIN t /\ Significant(t[b]) /\ Rank(t, b) = Len(G) + 3 + Offset(es, i)
  /\ t[b] = JobLine(es[i].orbJob)

LEMMA OpenerIs ==
  ASSUME NEW t, NEW G, NEW w, NEW es, NEW Z, LaidOut(t, G, w, es, Z), NEW i \in 1..Len(es)
  PROVE  \E b : /\ Opener(t, b, G, es, i) /\ b \in Nat
                /\ JobsLine(t, w) < b /\ b < JobsEnd(t, w)
<1>1. es \in Seq(Entry) /\ Laid(t, G, w, JobsText(es), Z)
  BY DEF LaidOut
<1>2. /\ es[i] \in Entry /\ Len(G) \in Nat /\ Offset(es, i) \in Nat
      /\ \A y \in 1..Len(EntryText(es[i])) :
           /\ Len(G) + 2 + Offset(es, i) + y \in DOMAIN Said(t)
           /\ Said(t)[Len(G) + 2 + Offset(es, i) + y] = EntryText(es[i])[y]
  BY SpotIs
<1>3. EntryText(es[i])[1] = JobLine(es[i].orbJob) /\ 1 \in 1..Len(EntryText(es[i]))
  BY <1>2, EntryAt
<1>4. PICK k : k = Len(G) + 3 + Offset(es, i)
  OBVIOUS
<1>5. k \in DOMAIN Said(t) /\ Said(t)[k] = JobLine(es[i].orbJob)
  <2>1. Len(G) + 2 + Offset(es, i) + 1 = k
    BY <1>2, <1>4
  <2> QED BY <1>2, <1>3, <2>1
<1>6. t \in Seq(Lines) /\ Len(t) \in Nat /\ DOMAIN t = 1..Len(t)
  BY <1>1, Places DEF Laid
<1>7. PICK b \in DOMAIN t : Significant(t[b]) /\ Rank(t, b) = k
  BY <1>5, <1>6, Spots
<1>8. t[b] = JobLine(es[i].orbJob)
  BY <1>5, <1>6, <1>7, RankNext
<1>9. /\ JobsLine(t, w) \in DOMAIN t /\ Rank(t, JobsLine(t, w)) = Len(G) + 2
  BY <1>1, JobsLineIs
<1>10. /\ JobsEnd(t, w) \in JobsLine(t, w) + 1..Len(t) + 1
       /\ Rank(t, JobsEnd(t, w)) = Len(G) + 3 + Len(JobsText(es))
  BY <1>1, JobsEndIs
<1>11. Offset(es, i) < Len(JobsText(es)) /\ Len(JobsText(es)) \in Nat
  <2>1. Len(es) + 1 \in 1..Len(es) + 1 /\ i \in 1..Len(es) + 1 - 1
    BY <1>1
  <2>2. Offset(es, i) < Offset(es, Len(es) + 1) /\ Offset(es, Len(es) + 1) \in Nat
    BY <1>1, <2>1, OffsetGrows
  <2> QED BY <2>2, <1>1, OffsetEnds
<1>12. JobsLine(t, w) < b /\ b < JobsEnd(t, w)
  <2>1. /\ b \in 1..Len(t) + 1 /\ JobsLine(t, w) \in 1..Len(t) + 1 /\ JobsEnd(t, w) \in 1..Len(t) + 1
    BY <1>6, <1>7, <1>9, <1>10
  <2>2. Rank(t, JobsLine(t, w)) < Rank(t, b) /\ Rank(t, b) < Rank(t, JobsEnd(t, w))
    BY <1>2, <1>4, <1>7, <1>9, <1>10, <1>11
  <2> QED BY <1>6, <2>1, <2>2, RankOrder
<1> QED BY <1>4, <1>6, <1>7, <1>8, <1>12 DEF Opener

\* The lines that begin an entry between two others.
Openings(t, a, z) == {j \in 1..z - 1 : j > a /\ t[j].depth = 6 /\ t[j].key = "- job"}

LEMMA OpeningsAre ==
  ASSUME NEW t, NEW a \in Nat, NEW z \in Nat
  PROVE  /\ \A x : x \in Openings(t, a, z)
                    <=> x \in Nat /\ a < x /\ x < z /\ t[x].depth = 6 /\ t[x].key = "- job"
         /\ Starts(t, a, z) = Picks(Openings(t, a, z), z - 1)
<1> DEFINE P(j) == t[j].depth = 6 /\ t[j].key = "- job"
           Q == {j \in 1..z - 1 : j > a /\ P(j)}
<1>1. Openings(t, a, z) = Q
  BY DEF Openings
<1>2. Starts(t, a, z) = FlattenSeq([j \in 1..z - 1 |-> If(j > a /\ P(j), <<j>>)])
  BY DEF Starts
<1> HIDE DEF P
<1>3. \A x : x \in Q <=> x \in Nat /\ a < x /\ x < z /\ P(x)
  OBVIOUS
<1>4. \A j \in 1..z - 1 : j \in Q <=> j > a /\ P(j)
  OBVIOUS
<1>5. [j \in 1..z - 1 |-> If(j > a /\ P(j), <<j>>)] = [j \in 1..z - 1 |-> If(j \in Q, <<j>>)]
  <2> SUFFICES ASSUME NEW j \in 1..z - 1 PROVE If(j > a /\ P(j), <<j>>) = If(j \in Q, <<j>>)
    OBVIOUS
  <2>1. j \in Q <=> j > a /\ P(j)
    BY <1>4
  <2> HIDE DEF Q
  <2> QED BY <2>1 DEF If
<1>6. Starts(t, a, z) = Picks(Q, z - 1)
  BY <1>2, <1>5 DEF Picks
<1> QED BY <1>1, <1>3, <1>6 DEF P

LEMMA StartsAre ==
  ASSUME NEW t, NEW G, NEW w, NEW es, NEW Z, LaidOut(t, G, w, es, Z)
  PROVE  LET g == Starts(t, JobsLine(t, w), JobsEnd(t, w))
         IN g \in Seq(Nat) /\ Len(g) = Len(es) /\ \A i \in 1..Len(es) :
              /\ Opener(t, g[i], G, es, i) /\ JobsLine(t, w) < g[i] /\ g[i] < JobsEnd(t, w)
<1>1. es \in Seq(Entry) /\ Laid(t, G, w, JobsText(es), Z)
  BY DEF LaidOut
<1>2. t \in Seq(Lines) /\ Len(t) \in Nat /\ DOMAIN t = 1..Len(t)
  BY <1>1, Places DEF Laid
<1>3. /\ JobsLine(t, w) \in DOMAIN t /\ Rank(t, JobsLine(t, w)) = Len(G) + 2 /\ Significant(t[JobsLine(t, w)])
  BY <1>1, JobsLineIs
<1>4. /\ JobsEnd(t, w) \in JobsLine(t, w) + 1..Len(t) + 1
      /\ Rank(t, JobsEnd(t, w)) = Len(G) + 3 + Len(JobsText(es))
  BY <1>1, JobsEndIs
<1>5. PICK m \in Nat : m = Len(es)
  BY <1>1
<1>6. PICK a, z : a = JobsLine(t, w) /\ z = JobsEnd(t, w)
  OBVIOUS
<1>7. a \in Nat /\ z \in Nat /\ a \in 1..Len(t) /\ z \in 1..Len(t) + 1 /\ a < z
  BY <1>2, <1>3, <1>4, <1>6
<1> DEFINE Right(b, i) == Opener(t, b, G, es, i) /\ b \in Nat /\ a < b /\ b < z
           g == [i \in 1..m |-> CHOOSE b : Right(b, i)]
           Q == Openings(t, a, z)
<1>0. \A x : x \in Q <=> x \in Nat /\ a < x /\ x < z /\ t[x].depth = 6 /\ t[x].key = "- job"
  BY <1>7, OpeningsAre
<1>8. \A i \in 1..m : Right(g[i], i)
  <2>1. \A i \in 1..m : \E b : Right(b, i)
    BY <1>5, <1>6, OpenerIs
  <2> HIDE DEF Right
  <2> QED BY <2>1
<1>9. g \in Seq(Nat) /\ Len(g) = m
  <2>1. g \in [1..m -> Nat]
    BY <1>8
  <2> HIDE DEF g
  <2> QED BY <2>1
<1>10. Lists(g, m, Q, z - 1)
  <2>1. ASSUME NEW i \in 1..m PROVE g[i] \in Q
    <3>1. Right(g[i], i)
      BY <1>8
    <3>2. es[i].orbJob \in Words
      <4>1. es[i] \in Entry
        BY <1>1, <1>5
      <4> QED BY <4>1, EntryTyped
    <3>3. t[g[i]].depth = 6 /\ t[g[i]].key = "- job"
      BY <3>1, <3>2, JobLineIs DEF Opener
    <3> HIDE DEF g, Q
    <3> QED BY <3>1, <3>3, <1>0
  <2>2. ASSUME NEW x \in Q PROVE \E i \in 1..m : g[i] = x
    <3>0. x \in Nat /\ a < x /\ x < z /\ t[x].depth = 6 /\ t[x].key = "- job"
      BY <1>0
    <3>1. x \in Nat /\ x \in DOMAIN t /\ a < x /\ x < z /\ t[x].depth = 6 /\ t[x].key = "- job"
          /\ x \in 1..Len(t) + 1
      <4>1. x \in 1..Len(t) /\ x \in 1..Len(t) + 1
        <5>1. x \in Nat /\ a < x /\ x < z
          BY <3>0
        <5> HIDE DEF Q
        <5> QED BY <5>1, <1>7, <1>2
      <4> QED BY <3>0, <4>1, <1>2
    <3>2. Significant(t[x])
      BY <3>1 DEF Significant
    <3>3. Rank(t, a) < Rank(t, x) /\ Rank(t, x) < Rank(t, z) /\ Rank(t, x) \in Nat
      BY <1>2, <1>3, <1>6, <1>7, <3>1, <3>2, RankLess, RankIs
    <3>4. Said(t)[Rank(t, x)] = t[x] /\ Rank(t, x) \in DOMAIN Said(t)
      BY <1>2, <3>1, <3>2, RankNext
    <3>5. /\ Len(G) \in Nat /\ Len(JobsText(es)) \in Nat
          /\ \A y \in 1..Len(JobsText(es)) : Said(t)[Len(G) + 2 + y] = JobsText(es)[y]
      <4>1. PICK J : J = JobsText(es)
        OBVIOUS
      <4>2. Laid(t, G, w, J, Z)
        BY <1>1, <4>1
      <4>3. Len(G) \in Nat /\ Len(J) \in Nat /\ \A y \in 1..Len(J) : Said(t)[Len(G) + 2 + y] = J[y]
        BY <4>2, LaidAt
      <4> QED BY <4>1, <4>3
    <3>6. PICK y \in 1..Len(JobsText(es)) : Rank(t, x) = Len(G) + 2 + y
      <4>1. /\ Rank(t, x) - (Len(G) + 2) \in 1..Len(JobsText(es))
            /\ Rank(t, x) = Len(G) + 2 + (Rank(t, x) - (Len(G) + 2))
        <5>1. PICK r, v, n, k : /\ r = Rank(t, x) /\ v = Len(G) /\ n = Len(JobsText(es))
                                /\ k = Rank(t, z)
          OBVIOUS
        <5>2. r \in Nat /\ v \in Nat /\ n \in Nat /\ v + 2 < r /\ r < k /\ k = v + 3 + n
          BY <1>3, <1>4, <1>6, <3>3, <3>5, <5>1
        <5>3. r - (v + 2) \in 1..n /\ r = v + 2 + (r - (v + 2))
          BY <5>2
        <5> QED BY <5>1, <5>3
      <4> QED BY <4>1
    <3>7. JobsText(es)[y].depth = 6
      BY <3>1, <3>4, <3>5, <3>6
    <3>8. PICK i \in 1..Len(es) : y = Offset(es, i) + 1
      BY <1>1, <3>7, Openers
    <3>9. Right(g[i], i)
      BY <1>5, <1>8
    <3>10. Rank(t, g[i]) = Rank(t, x)
      <4>1. Offset(es, i) \in Nat
        BY <1>1, OffsetNext
      <4>2. Rank(t, g[i]) = Len(G) + 3 + Offset(es, i)
        BY <3>9 DEF Opener
      <4> HIDE DEF g, Q
      <4> QED BY <4>1, <4>2, <3>5, <3>6, <3>8
    <3>11. g[i] = x
      <4>1. g[i] \in DOMAIN t /\ Significant(t[g[i]])
        BY <3>9 DEF Opener
      <4> HIDE DEF g, Q
      <4> QED BY <4>1, <3>1, <3>2, <3>10, <1>2, RankOne
    <3> QED BY <1>5, <3>8, <3>11
  <2>3. ASSUME NEW i \in 1..m, NEW j \in 1..m, i < j PROVE g[i] < g[j]
    <3>1. Right(g[i], i) /\ Right(g[j], j)
      BY <1>8
    <3>2. j \in 1..Len(es) + 1 /\ i \in 1..j - 1
      BY <1>5, <2>3
    <3>3. Offset(es, i) < Offset(es, j) /\ Offset(es, i) \in Nat /\ Offset(es, j) \in Nat
      BY <1>1, <3>2, OffsetGrows
    <3>4. Len(G) \in Nat
      BY <1>1, LaidAt
    <3>5. Rank(t, g[i]) < Rank(t, g[j])
      <4>1. Rank(t, g[i]) = Len(G) + 3 + Offset(es, i) /\ Rank(t, g[j]) = Len(G) + 3 + Offset(es, j)
        BY <3>1 DEF Opener
      <4> HIDE DEF g
      <4> QED BY <4>1, <3>3, <3>4
    <3>6. g[i] \in 1..Len(t) + 1 /\ g[j] \in 1..Len(t) + 1
      <4>1. g[i] \in DOMAIN t /\ g[j] \in DOMAIN t
        BY <3>1 DEF Opener
      <4> HIDE DEF g
      <4> QED BY <4>1, <1>2
    <3> HIDE DEF g
    <3> QED BY <3>5, <3>6, <1>2, RankOrder
  <2>4. \A x \in Q : x \in Nat /\ 1 <= x /\ x <= z - 1
    <3> SUFFICES ASSUME NEW x \in Q PROVE x \in Nat /\ 1 <= x /\ x <= z - 1
      OBVIOUS
    <3>1. x \in Nat /\ a < x /\ x < z
      BY <1>0
    <3> HIDE DEF Q
    <3> QED BY <3>1, <1>7
  <2>5. z - 1 \in Nat
    BY <1>7
  <2> HIDE DEF g, Q
  <2> QED BY <2>1, <2>2, <2>3, <2>4, <2>5 DEF Lists
<1>11. Picks(Q, z - 1) = g
  <2> HIDE DEF g, Q
  <2> QED BY <1>9, <1>10, PicksAre
<1>12. Starts(t, a, z) = Picks(Q, z - 1)
  BY <1>7, OpeningsAre
<1> HIDE DEF g, Q
<1>13. \A i \in 1..m : Opener(t, g[i], G, es, i) /\ a < g[i] /\ g[i] < z
  BY <1>8
<1> QED BY <1>5, <1>6, <1>9, <1>11, <1>12, <1>13

LEMMA SliceIs ==
  ASSUME NEW T, NEW s \in Seq(T), NEW u \in Seq(T), NEW p \in Nat, p + Len(u) <= Len(s),
         \A y \in 1..Len(u) : s[p + y] = u[y]
  PROVE  SubSeq(s, p + 1, p + Len(u)) = u
<1>1. PICK n \in Nat : n = Len(u)
  OBVIOUS
<1>2. /\ SubSeq(s, p + 1, p + n) \in Seq(T) /\ Len(SubSeq(s, p + 1, p + n)) = n
      /\ \A y \in 1..n : SubSeq(s, p + 1, p + n)[y] = s[p + y]
  BY <1>1, Slice
<1>3. PICK v \in Seq(T) : v = SubSeq(s, p + 1, p + n)
  BY <1>2
<1>4. Len(v) = Len(u) /\ \A y \in 1..Len(v) : v[y] = u[y]
  BY <1>1, <1>2, <1>3
<1>5. v = u
  BY <1>4, SeqEqual
<1> QED BY <1>1, <1>3, <1>5

\* The lines of an entry, from the one that begins it.
Ranged(t, r, G, es, i, z) ==
  /\ Opener(t, r.first, G, es, i) /\ r.first \in Nat /\ r.last \in Nat
  /\ r.first <= r.last /\ r.last < z
  /\ Rank(t, r.last + 1) = Len(G) + 3 + Offset(es, i + 1)
  /\ EndsAt(t, r.last + 1, 6)
  /\ \A j \in r.first + 1..r.last : ~Bars(t[j], 6)
  /\ Said(Body(t, r)) = EntryText(es[i])

\* The text says the i-th entry from the b-th line to the one before the k-th.
EntryRanks(G, es, i, b, k) ==
  b = Len(G) + 3 + Offset(es, i) /\ k = Len(G) + 3 + Offset(es, i + 1)

\* What the text says from the i-th entry to the next.
LEMMA EntryEnds ==
  ASSUME NEW t, NEW G, NEW w, NEW es, NEW Z, LaidOut(t, G, w, es, Z), NEW i \in 1..Len(es),
         NEW b, NEW k, EntryRanks(G, es, i, b, k)
  PROVE  /\ b \in Nat /\ k \in b + 1..Len(Said(t)) + 1
         /\ \A n \in b + 1..k - 1 : Said(t)[n].depth > 6
         /\ k # Len(Said(t)) + 1 => Said(t)[k].depth <= 6
         /\ Said(t) \in Seq(Sayings)
         /\ SubSeq(Said(t), b, k - 1) = EntryText(es[i])
<1>1. es \in Seq(Entry) /\ Laid(t, G, w, JobsText(es), Z)
  BY DEF LaidOut
<1>2. PICK J, S, m : J = JobsText(es) /\ S = Said(t) /\ m = Len(es)
  OBVIOUS
<1>3. Laid(t, G, w, J, Z)
  BY <1>1, <1>2
<1>4. /\ S \in Seq(Sayings) /\ Len(G) \in Nat /\ Len(J) \in Nat /\ Len(Z) \in Nat
      /\ Len(S) = Len(G) + 2 + Len(J) + Len(Z)
      /\ Len(Z) # 0 => S[Len(G) + 3 + Len(J)].depth = 2
  <2>1. /\ Said(t) \in Seq(Sayings) /\ Len(G) \in Nat /\ Len(J) \in Nat /\ Len(Z) \in Nat
        /\ Len(Said(t)) = Len(G) + 2 + Len(J) + Len(Z)
        /\ Len(Z) # 0 => Said(t)[Len(G) + 3 + Len(J)].depth = 2
    BY <1>3, LaidAt
  <2> QED BY <2>1, <1>2
<1>5. PICK E, o, q, f : E = EntryText(es[i]) /\ o = Offset(es, i) /\ q = Offset(es, i + 1) /\ f = Len(G)
  OBVIOUS
<1>6. /\ es[i] \in Entry
      /\ \A y \in 1..Len(E) : f + 2 + o + y \in DOMAIN S /\ S[f + 2 + o + y] = E[y]
  BY <1>2, <1>5, SpotIs
<1>7. E \in Seq(Sayings) /\ Len(E) \in Nat /\ Len(E) # 0
      /\ \A x \in 2..Len(E) : E[x].depth \in {10, 12, 16, 18}
  BY <1>5, <1>6, EntryAt
<1>8. o \in Nat /\ q \in Nat /\ q = o + Len(E)
  BY <1>1, <1>5, OffsetNext
<1>9. q <= Len(J)
  <2>1. m \in Nat /\ i \in 1..m
    BY <1>1, <1>2
  <2>2. Offset(es, m + 1) = Len(J)
    BY <1>1, <1>2, OffsetEnds
  <2>3. CASE i = m
    BY <2>2, <2>3, <1>4, <1>5
  <2>4. CASE i # m
    <3>1. Len(es) + 1 \in 1..Len(es) + 1 /\ i + 1 \in 1..Len(es) + 1 - 1
      BY <2>1, <2>4, <1>2
    <3>2. Offset(es, i + 1) < Offset(es, Len(es) + 1)
      BY <1>1, <3>1, OffsetGrows
    <3> QED BY SMTT(40), <2>2, <3>2, <1>2, <1>4, <1>5, <1>8
  <2> QED BY <2>3, <2>4
<1>10. b = f + 3 + o /\ k = f + 3 + q
  BY <1>5 DEF EntryRanks
<1>20. PICK u, v, x, zz : u = Len(E) /\ v = Len(S) /\ x = Len(J) /\ zz = Len(Z)
  OBVIOUS
<1>21. /\ f \in Nat /\ o \in Nat /\ q \in Nat /\ u \in Nat /\ v \in Nat /\ x \in Nat /\ zz \in Nat
       /\ v = f + 2 + x + zz /\ u # 0 /\ q = o + u /\ q <= x
  <2>1. /\ f \in Nat /\ x \in Nat /\ zz \in Nat /\ v = f + 2 + x + zz
    BY <1>4, <1>5, <1>20
  <2>2. u \in Nat /\ u # 0
    BY <1>7, <1>20
  <2>3. o \in Nat /\ q \in Nat /\ q = o + u /\ q <= x
    BY <1>8, <1>9, <1>20
  <2>4. v \in Nat
    BY <2>1
  <2> QED BY <2>1, <2>2, <2>3, <2>4
<1>22. b \in Nat /\ k \in b + 1..v + 1
  BY <1>10, <1>21
<1>11. b \in Nat /\ k \in b + 1..Len(S) + 1
  BY <1>20, <1>22
<1>12. ASSUME NEW n \in b + 1..k - 1 PROVE S[n].depth > 6
  <2>1. n - (f + 2 + o) \in 2..Len(E) /\ n = f + 2 + o + (n - (f + 2 + o))
    <3>1. n - (f + 2 + o) \in 2..u /\ n = f + 2 + o + (n - (f + 2 + o))
      BY <1>10, <1>21
    <3> QED BY <3>1, <1>20
  <2>2. PICK y \in 2..Len(E) : n = f + 2 + o + y
    BY <2>1
  <2>3. S[n] = E[y]
    BY <2>2, <1>6, <1>7
  <2>4. E[y].depth \in {10, 12, 16, 18}
    BY <1>7
  <2> QED BY <2>3, <2>4
<1>13. k # Len(S) + 1 => S[k].depth <= 6
  <2> SUFFICES ASSUME k # Len(S) + 1 PROVE S[k].depth <= 6
    OBVIOUS
  <2>1. m \in Nat /\ i \in 1..m
    BY <1>1, <1>2
  <2>2. CASE i = m
    <3>1. q = Len(J)
      BY <1>1, <1>2, <1>5, <2>2, OffsetEnds
    <3>2. Len(Z) # 0 /\ k = Len(G) + 3 + Len(J)
      BY <3>1, <1>4, <1>5, <1>10
    <3> QED BY <3>2, <1>4
  <2>3. CASE i # m
    <3>1. PICK j \in 1..Len(es) : j = i + 1
      BY <2>1, <2>3, <1>2
    <3>2. /\ es[j] \in Entry
          /\ \A y \in 1..Len(EntryText(es[j])) :
               Said(t)[Len(G) + 2 + Offset(es, j) + y] = EntryText(es[j])[y]
      BY SpotIs
    <3>3. EntryText(es[j])[1] = JobLine(es[j].orbJob) /\ 1 \in 1..Len(EntryText(es[j]))
      BY <3>2, EntryAt
    <3>4. JobLine(es[j].orbJob).depth = 6
      BY <3>2, EntryTyped, JobLineIs
    <3>5. Said(t)[Len(G) + 2 + Offset(es, j) + 1] = JobLine(es[j].orbJob)
      BY <3>2, <3>3
    <3>6. Len(G) + 2 + Offset(es, j) + 1 = k
      BY SMTT(40), <3>1, <1>4, <1>5, <1>8, <1>10
    <3> QED BY <3>4, <3>5, <3>6, <1>2
  <2> QED BY <2>2, <2>3
<1>14. SubSeq(S, b, k - 1) = E
  <2>1. PICK p \in Nat : p = f + 2 + o
    BY SMTT(40), <1>4, <1>5, <1>8
  <2>6. p + u <= v /\ p + 1 = b /\ p + u = k - 1
    BY <2>1, <1>10, <1>21
  <2>2. /\ p + Len(E) <= Len(S) /\ p + 1 = b /\ p + Len(E) = k - 1
        /\ \A n \in 1..Len(E) : S[p + n] = E[n]
    BY <2>1, <2>6, <1>6, <1>20
  <2>3. S \in Seq(Sayings) /\ E \in Seq(Sayings)
    BY <1>4, <1>7
  <2>4. p + Len(E) <= Len(S) /\ \A n \in 1..Len(E) : S[p + n] = E[n]
    BY <2>2
  <2>5. SubSeq(S, p + 1, p + Len(E)) = E
    BY <2>3, <2>4, SliceIs
  <2> QED BY <2>2, <2>5
<1> QED BY <1>2, <1>4, <1>5, <1>10, <1>11, <1>12, <1>13, <1>14

LEMMA RangesAre ==
  ASSUME NEW t, NEW G, NEW w, NEW es, NEW Z, LaidOut(t, G, w, es, Z)
  PROVE  /\ Len(Ranges(t, w)) = Len(es) /\ DOMAIN Ranges(t, w) = 1..Len(es)
         /\ Ranges(t, w) \in Seq([first : Nat, last : Nat])
         /\ \A i \in 1..Len(es) : /\ Ranged(t, Ranges(t, w)[i], G, es, i, JobsEnd(t, w))
                                  /\ JobsLine(t, w) < Ranges(t, w)[i].first
<1>1. es \in Seq(Entry) /\ Laid(t, G, w, JobsText(es), Z)
  BY DEF LaidOut
<1>2. t \in Seq(Lines) /\ Len(t) \in Nat /\ DOMAIN t = 1..Len(t) /\ Tidy(t)
  BY <1>1, Places DEF Laid
<1>3. PICK g, z, m : /\ g = Starts(t, JobsLine(t, w), JobsEnd(t, w)) /\ z = JobsEnd(t, w) /\ m = Len(es)
  OBVIOUS
<1>4. g \in Seq(Nat) /\ Len(g) = m /\ \A i \in 1..m :
              /\ Opener(t, g[i], G, es, i) /\ JobsLine(t, w) < g[i] /\ g[i] < z
  BY <1>3, StartsAre
<1>5. m \in Nat /\ DOMAIN g = 1..m /\ \A i \in 1..m : g[i] \in Nat
  BY <1>1, <1>3, <1>4
<1>6. z \in 1..Len(t) + 1 /\ z \in Nat /\ EndsAt(t, z, 4)
  <2>1. JobsLine(t, w) \in DOMAIN t
    BY <1>1, JobsLineIs
  <2>2. z \in JobsLine(t, w) + 1..Len(t) + 1 /\ EndsAt(t, z, 4)
    BY <1>1, <1>3, JobsEndIs
  <2> QED BY <2>1, <2>2, <1>2
<1>7. EndsAt(t, z, 6)
  <2>1. CASE z = Len(t) + 1
    BY <2>1 DEF EndsAt
  <2>2. CASE z # Len(t) + 1
    <3>1. Bars(t[z], 4) /\ z \in DOMAIN t
      BY <2>2, <1>2, <1>6 DEF EndsAt
    <3>2. t[z].depth \in Nat
      <4>1. t[z] \in Lines
        BY <3>1, <1>2
      <4> QED BY <4>1, LineDepth
    <3>4. \A d \in Nat : d <= 4 => d <= 6
      OBVIOUS
    <3>3. Bars(t[z], 6)
      BY <3>1, <3>2, <3>4 DEF Bars
    <3> QED BY <3>3 DEF EndsAt
  <2> QED BY <2>1, <2>2
<1> DEFINE R == [i \in DOMAIN g |-> [first |-> g[i], last |-> BlockEnd(t, g[i], z, 6) - 1]]
<1>8. Ranges(t, w) = R
  BY <1>3 DEF Ranges
<1>9. ASSUME NEW i \in 1..m
      PROVE  /\ R[i] \in [first : Nat, last : Nat] /\ R[i].first = g[i]
             /\ Ranged(t, R[i], G, es, i, z)
  <2>1. PICK b, e : b = g[i] /\ e = BlockEnd(t, g[i], z, 6)
    OBVIOUS
  <2>2. /\ b \in DOMAIN t /\ Significant(t[b]) /\ Rank(t, b) = Len(G) + 3 + Offset(es, i)
        /\ b \in Nat /\ b < z /\ Opener(t, b, G, es, i)
    BY <2>1, <1>4, <1>5 DEF Opener
  <2>3. PICK k : k = Len(G) + 3 + Offset(es, i + 1)
    OBVIOUS
  <2>4. /\ Rank(t, b) \in Nat /\ k \in Rank(t, b) + 1..Len(Said(t)) + 1
        /\ \A n \in Rank(t, b) + 1..k - 1 : Said(t)[n].depth > 6
        /\ k # Len(Said(t)) + 1 => Said(t)[k].depth <= 6
        /\ SubSeq(Said(t), Rank(t, b), k - 1) = EntryText(es[i])
    <3>1. PICK c : c = Len(G) + 3 + Offset(es, i)
      OBVIOUS
    <3>2. i \in 1..Len(es)
      BY <1>3
    <3>3. /\ c \in Nat /\ k \in c + 1..Len(Said(t)) + 1
          /\ \A n \in c + 1..k - 1 : Said(t)[n].depth > 6
          /\ k # Len(Said(t)) + 1 => Said(t)[k].depth <= 6
          /\ SubSeq(Said(t), c, k - 1) = EntryText(es[i])
      <4>1. EntryRanks(G, es, i, c, k)
        BY <2>3, <3>1 DEF EntryRanks
      <4> QED BY <3>2, <4>1, EntryEnds
    <3>4. c = Rank(t, b)
      BY <2>2, <3>1
    <3> QED BY <3>3, <3>4
  <2>5. z \in b + 1..Len(t) + 1 /\ 6 \in Nat
    BY <2>2, <1>6, <1>2
  <2>6. /\ BlockEnd(t, b, z, 6) \in b + 1..z
        /\ Rank(t, BlockEnd(t, b, z, 6)) = k
        /\ EndsAt(t, BlockEnd(t, b, z, 6), 6)
        /\ \A j \in b + 1..BlockEnd(t, b, z, 6) - 1 : ~Bars(t[j], 6)
    BY <2>2, <2>4, <2>5, <1>2, <1>7, ScanIs
  <2>7. e = BlockEnd(t, b, z, 6)
    BY <2>1
  <2>8. e \in Nat /\ b + 1 <= e /\ e <= z /\ e - 1 \in Nat /\ e - 1 + 1 = e /\ e \in 1..Len(t) + 1
        /\ b \in 1..Len(t) + 1 /\ b <= e
    BY <2>2, <2>6, <2>7, <1>6, <1>2
  <2>9. Said(SubSeq(t, b, e - 1)) = SubSeq(Said(t), Rank(t, b), Rank(t, e) - 1)
    BY <2>8, <1>2, Cuts
  <2>10. R[i] = [first |-> b, last |-> e - 1]
    BY <2>1, <1>5
  <2>11. R[i].first = b /\ R[i].last = e - 1 /\ R[i] \in [first : Nat, last : Nat]
    BY <2>2, <2>8, <2>10
  <2>12. Body(t, R[i]) = SubSeq(t, b, e - 1)
    BY <2>11 DEF Body
  <2>13. Said(Body(t, R[i])) = EntryText(es[i])
    BY <2>4, <2>6, <2>7, <2>9, <2>12
  <2>14. R[i].first <= R[i].last /\ R[i].last < z /\ R[i].last + 1 = e
    BY <2>2, <2>8, <2>11, <1>6
  <2> HIDE DEF R
  <2>15. \A j \in R[i].first + 1..R[i].last : ~Bars(t[j], 6)
    BY <2>6, <2>7, <2>11
  <2>16. Ranged(t, R[i], G, es, i, z)
    BY <2>2, <2>3, <2>6, <2>7, <2>8, <2>11, <2>13, <2>14, <2>15 DEF Ranged
  <2> QED BY <2>1, <2>11, <2>16
<1>10. DOMAIN R = 1..m
  BY <1>5
<1>11. R \in Seq([first : Nat, last : Nat]) /\ Len(R) = m
  <2>1. R \in [1..m -> [first : Nat, last : Nat]]
    <3>1. R = [i \in 1..m |-> R[i]]
      BY <1>5
    <3> HIDE DEF R
    <3> QED BY <3>1, <1>9
  <2>2. \A V : R \in [1..m -> V] => R \in Seq(V) /\ Len(R) = m
    <3> HIDE DEF R
    <3> QED BY <1>5
  <2> HIDE DEF R
  <2> QED BY <2>1, <2>2
<1> HIDE DEF R
<1> QED BY <1>3, <1>4, <1>8, <1>9, <1>10, <1>11

-----------------------------------------------------------------------------
(* A content and the text that says it *)

\* What is known of every content.
Proper(c) == /\ \E W \in SUBSET ToSet(Workflows) : c \in Content(W)
             /\ IsFiniteSet(c.pins) /\ IsWritable(c)

\* t says c, its pins in the order p, and whatever else it says is no harm.
Fits(t, c, p) == /\ t \in Seq(Lines) /\ Tidy(t) /\ Nested(t)
                 /\ Proper(c) /\ p \in Orders(c) /\ Said(t) = Written(c, p)

LEMMA ProperIs ==
  ASSUME NEW c, Proper(c)
  PROVE  /\ c.pins \subseteq Words /\ c.hasOrbs \in BOOLEAN /\ IsFiniteSet(c.pins)
         /\ Flows(c.workflows) /\ DOMAIN c.workflows \subseteq ToSet(Workflows)
         /\ DOMAIN c.workflows \subseteq Words
         /\ \A w \in DOMAIN c.workflows :
              /\ c.workflows[w] \in Seq(Entry)
              /\ \A i \in DOMAIN c.workflows[w] : /\ c.workflows[w][i] \in Entry
                                                  /\ Sound(c.workflows[w][i])
                                                  /\ c.workflows[w][i].marked
<1>1. PICK W \in SUBSET ToSet(Workflows) : c \in Content(W)
  BY DEF Proper
<1>2. c.pins \in SUBSET Words /\ c.hasOrbs \in BOOLEAN /\ c.workflows \in [W -> Seq(Entry)]
  BY <1>1 DEF Content
<1>3. DOMAIN c.workflows = W
  BY <1>2
<1>4. ToSet(Workflows) \subseteq Words
  BY TextAssumption DEF ToSet
<1>5. \A w \in W : \A i \in DOMAIN c.workflows[w] :
        /\ c.workflows[w][i] \in Entry /\ Sound(c.workflows[w][i]) /\ c.workflows[w][i].marked
  <2> SUFFICES ASSUME NEW w \in W, NEW i \in DOMAIN c.workflows[w]
               PROVE  /\ c.workflows[w][i] \in Entry
                      /\ Sound(c.workflows[w][i]) /\ c.workflows[w][i].marked
    OBVIOUS
  <2>1. c.workflows[w] \in Seq(Entry)
    BY <1>2
  <2>2. c.workflows[w][i] \in Entry /\ c.workflows[w][i] \in ToSet(c.workflows[w])
    <3>1. PICK s \in Seq(Entry) : s = c.workflows[w]
      BY <2>1
    <3>2. i \in DOMAIN s
      BY <3>1
    <3>3. s[i] \in Entry /\ s[i] \in ToSet(s)
      BY <3>2 DEF ToSet
    <3> QED BY <3>1, <3>3
  <2> QED BY <2>2, <1>3 DEF Proper, IsWritable, Sound
<1>6. IsFiniteSet(c.pins)
  BY DEF Proper
<1>7. Flows(c.workflows)
  <2>1. PICK f : f = c.workflows
    OBVIOUS
  <2>2. f \in [W -> Seq(Entry)] /\ W \subseteq ToSet(Workflows)
    BY <1>2, <2>1
  <2>3. f \in [DOMAIN f -> Seq(Entry)] /\ DOMAIN f \subseteq ToSet(Workflows)
    BY <2>2
  <2> QED BY <2>1, <2>3 DEF Flows
<1> QED BY <1>1, <1>2, <1>3, <1>4, <1>5, <1>6, <1>7

LEMMA OrbLines ==
  /\ OrbsLine \in Sayings /\ TopLine \in Sayings
  /\ OrbsLine.depth = 0 /\ TopLine.depth = 0 /\ OrbsLine.key = "orbs:" /\ TopLine.key = "workflows:"
  /\ \A x \in Words : /\ Line(2, "pin:", <<x>>) \in Sayings /\ Line(2, "pin:", <<x>>).depth = 2
                      /\ Line(2, "pin:", <<x>>).key = "pin:" /\ Line(2, "pin:", <<x>>).value = <<x>>
<1> DEFINE a == "orbs:"
           b == "workflows:"
           c == "pin:"
<1>1. a \in KeyNames \ {"", "#", "#:", "# >>>", "# <<<"} /\ b \in KeyNames \ {"", "#", "#:", "# >>>", "# <<<"}
      /\ c \in KeyNames \ {"", "#", "#:", "# >>>", "# <<<"}
  BY DEF KeyNames
<1>2. \A d, k, v : Line(d, k, v).depth = d /\ Line(d, k, v).key = k /\ Line(d, k, v).value = v
  BY LineHas
<1>3. <<>> \in Seq(Words) /\ (\A x \in Words : <<x>> \in Seq(Words)) /\ 0 \in Depths /\ 2 \in Depths
  BY Nil, DepthsAre
<1> HIDE DEF a, b, c
<1>4. Line(0, a, <<>>) \in Sayings /\ Line(0, b, <<>>) \in Sayings
      /\ \A x \in Words : Line(2, c, <<x>>) \in Sayings
  BY <1>1, <1>3, SayingIs
<1> QED BY <1>2, <1>4 DEF OrbsLine, TopLine, a, b, c

LEMMA OrbsAre ==
  ASSUME NEW h \in BOOLEAN, NEW p \in Seq(Words)
  PROVE  /\ OrbsText(h, p) \in Seq(Sayings)
         /\ h => OrbsText(h, p) = <<OrbsLine>> \o Each(2, "pin:", p)
         /\ ~h => OrbsText(h, p) = <<>>
         /\ Each(2, "pin:", p) \in Seq(Sayings) /\ Len(Each(2, "pin:", p)) = Len(p)
         /\ \A i \in 1..Len(p) : Each(2, "pin:", p)[i] = Line(2, "pin:", <<p[i]>>)
         /\ \A l \in Range(OrbsText(h, p)) : l.key \in {"orbs:", "pin:"}
         /\ \A l \in Range(Each(2, "pin:", p)) : l.key = "pin:" /\ l.depth = 2
<1> DEFINE k == "pin:"
<1>1. PICK E : E = Each(2, k, p)
  OBVIOUS
<1>2. /\ E \in Seq(Lines) /\ Len(E) = Len(p)
      /\ \A i \in DOMAIN p : E[i] = Line(2, k, <<p[i]>>)
      /\ DOMAIN E = DOMAIN p /\ DOMAIN p = 1..Len(p) /\ Len(p) \in Nat
  <2>1. k \in KeyNames /\ 2 \in Depths
    BY DepthsAre DEF KeyNames
  <2> HIDE DEF k
  <2> QED BY <2>1, <1>1, EachIs
<1>3. \A i \in 1..Len(p) : /\ E[i] \in Sayings /\ E[i].key = "pin:" /\ E[i].depth = 2
                           /\ E[i] = Line(2, "pin:", <<p[i]>>)
  <2> SUFFICES ASSUME NEW i \in 1..Len(p)
               PROVE  E[i] \in Sayings /\ E[i].key = "pin:" /\ E[i].depth = 2
                      /\ E[i] = Line(2, "pin:", <<p[i]>>)
    OBVIOUS
  <2>1. p[i] \in Words
    OBVIOUS
  <2>2. E[i] = Line(2, "pin:", <<p[i]>>)
    BY <1>2
  <2> QED BY <2>1, <2>2, OrbLines
<1>4. E \in Seq(Sayings)
  <2>1. Len(E) \in Nat /\ E = [i \in 1..Len(E) |-> E[i]]
    <3>1. E \in Seq(Lines)
      BY <1>2
    <3> QED BY <3>1
  <2>3. \A i \in 1..Len(E) : E[i] \in Sayings
    <3>1. Len(E) = Len(p)
      BY <1>2
    <3> QED BY <3>1, <1>3
  <2>2. E \in [1..Len(E) -> Sayings]
    BY <2>1, <2>3
  <2> QED BY <2>1, <2>2
<1>5. \A l \in Range(E) : l.key = "pin:" /\ l.depth = 2
  <2>1. DOMAIN E = 1..Len(p)
    BY <1>2
  <2> QED BY <2>1, <1>3 DEF Range
<1>6. PICK o \in Sayings : o = OrbsLine /\ o.key = "orbs:"
  BY OrbLines
<1>7. /\ <<o>> \o E \in Seq(Sayings) /\ Range(<<o>> \o E) = {o} \cup Range(E)
  BY <1>4, ConsIs
<1>8. /\ h => OrbsText(h, p) = <<o>> \o E
      /\ ~h => OrbsText(h, p) = <<>>
  BY <1>1, <1>6 DEF OrbsText, If, OrbsLine
<1>9. <<>> \in Seq(Sayings) /\ Range(<<>>) = {}
  BY DEF Range
<1>10. OrbsText(h, p) \in Seq(Sayings) /\ \A l \in Range(OrbsText(h, p)) : l.key \in {"orbs:", "pin:"}
  <2>1. CASE h
    BY <2>1, <1>5, <1>6, <1>7, <1>8
  <2>2. CASE ~h
    BY <2>2, <1>8, <1>9
  <2> QED BY <2>1, <2>2
<1> QED BY <1>1, <1>2, <1>3, <1>4, <1>5, <1>6, <1>8, <1>10

LEMMA Unfold ==
  ASSUME NEW T, NEW h, NEW a, NEW d, NEW j, NEW b, Fives(T, h, a, d, j, b)
  PROVE  /\ h \o ((a \o (d \o j)) \o b) = (((h \o a) \o d) \o j) \o b
         /\ h \o a \in Seq(T)
<1>1. \A x \in Seq(T), y \in Seq(T), z \in Seq(T) : x \o (y \o z) = (x \o y) \o z
  BY Regroup
<1>2. \A x \in Seq(T), y \in Seq(T) : x \o y \in Seq(T)
  OBVIOUS
<1>0. h \in Seq(T) /\ a \in Seq(T) /\ d \in Seq(T) /\ j \in Seq(T) /\ b \in Seq(T)
  BY DEF Fives
<1>3. PICK dj, ad, adj, ha, had : dj = d \o j /\ ad = a \o d /\ adj = a \o dj /\ ha = h \o a /\ had = ha \o d
  OBVIOUS
<1>4. dj \in Seq(T) /\ ad \in Seq(T) /\ ha \in Seq(T)
  <2>1. dj \in Seq(T)
    BY <1>0, <1>2, <1>3, Zenon
  <2>2. ad \in Seq(T)
    BY <1>0, <1>2, <1>3, Zenon
  <2>3. ha \in Seq(T)
    BY <1>0, <1>2, <1>3, Zenon
  <2> QED BY <2>1, <2>2, <2>3
<1>5. adj \in Seq(T) /\ had \in Seq(T)
  <2>1. adj \in Seq(T)
    BY <1>0, <1>2, <1>3, <1>4, Zenon
  <2>2. had \in Seq(T)
    BY <1>0, <1>2, <1>3, <1>4, Zenon
  <2> QED BY <2>1, <2>2
<1>6. h \o (adj \o b) = (h \o adj) \o b
  <2>1. h \in Seq(T) /\ adj \in Seq(T) /\ b \in Seq(T)
    BY <1>0, <1>5
  <2> QED BY <2>1, <1>1
<1>7. h \o (a \o dj) = (h \o a) \o dj
  <2>1. h \in Seq(T) /\ a \in Seq(T) /\ dj \in Seq(T)
    BY <1>0, <1>4
  <2> QED BY <2>1, <1>1
<1>8. ha \o (d \o j) = (ha \o d) \o j
  <2>1. ha \in Seq(T) /\ d \in Seq(T) /\ j \in Seq(T)
    BY <1>0, <1>4
  <2> QED BY <2>1, <1>1
<1> QED BY <1>3, <1>4, <1>6, <1>7, <1>8

Ahead(c, p, w) == (OrbsText(c.hasOrbs, p) \o <<TopLine>>) \o Above(c.workflows, w)

LEMMA OrderIs ==
  ASSUME NEW c, Proper(c), NEW p \in Orders(c)
  PROVE  p \in Seq(Words) /\ ToSet(p) = c.pins
<1>1. c.pins \subseteq Words /\ IsFiniteSet(c.pins)
  BY ProperIs
<1>2. p \in [1..Cardinality(c.pins) -> c.pins] /\ ToSet(p) = c.pins
  BY DEF Orders
<1>3. Cardinality(c.pins) \in Nat
  BY <1>1, FS_CardinalityType
<1>4. PICK n \in Nat : n = Cardinality(c.pins)
  BY <1>3
<1>5. p \in [1..n -> Words]
  BY <1>1, <1>2, <1>4
<1>6. p \in Seq(Words)
  BY <1>5
<1> QED BY <1>2, <1>6

LEMMA WrittenIs ==
  ASSUME NEW c, Proper(c), NEW p \in Seq(Words), NEW w \in DOMAIN c.workflows
  PROVE  /\ Written(c, p) = ((Ahead(c, p, w) \o <<WLine(w), JLine>>) \o JobsText(c.workflows[w]))
                               \o Below(c.workflows, w)
         /\ Ahead(c, p, w) \in Seq(Sayings) /\ Below(c.workflows, w) \in Seq(Sayings)
         /\ WLine(w) \notin Range(Ahead(c, p, w)) /\ WLine(w) \notin Range(Below(c.workflows, w))
<1>1. /\ c.hasOrbs \in BOOLEAN /\ Flows(c.workflows) /\ c.workflows[w] \in Seq(Entry) /\ w \in Words
  BY ProperIs
<1>2. PICK wf, es, O, A, B, J : /\ wf = c.workflows /\ es = wf[w] /\ O = OrbsText(c.hasOrbs, p)
                                /\ A = Above(wf, w) /\ B = Below(wf, w) /\ J = JobsText(es)
  OBVIOUS
<1>3. /\ A \in Seq(Outside(w)) /\ B \in Seq(Outside(w))
      /\ WorkflowsText(wf) = (A \o WorkflowText(w, es)) \o B
  BY <1>1, <1>2, FlowSplit
<1>4. /\ O \in Seq(Sayings) /\ \A l \in Range(O) : l.key \in {"orbs:", "pin:"}
  BY <1>1, <1>2, OrbsAre
<1>5. es \in Seq(Entry)
  BY <1>1, <1>2
<1>6. WorkflowText(w, es) = <<WLine(w), JLine>> \o J /\ J \in Seq(Sayings)
  BY <1>1, <1>2, <1>5, WorkflowHas, JobsType
<1>7. WLine(w) \in Sayings /\ JLine \in Sayings /\ WLine(w).key = "workflow:" /\ TopLine \in Sayings
      /\ TopLine.key = "workflows:"
  BY <1>1, HeaderLines, OrbLines
<1>8. PICK d : d = <<WLine(w), JLine>>
  OBVIOUS
<1>9. d \in Seq(Sayings)
  BY <1>7, <1>8
<1>10. PICK u \in Seq(Sayings) : u = <<TopLine>>
  BY <1>7, Single
<1>11. PICK H : H = O \o u
  OBVIOUS
<1>12. H \in Seq(Sayings)
  BY <1>4, <1>11
<1>13. A \in Seq(Sayings) /\ B \in Seq(Sayings)
  <2>1. Outside(w) \subseteq Sayings
    BY DEF Outside
  <2> QED BY <2>1, <1>3
<1>14. Fives(Sayings, H, A, d, J, B)
  BY <1>6, <1>9, <1>12, <1>13 DEF Fives
<1>15. H \o ((A \o (d \o J)) \o B) = (((H \o A) \o d) \o J) \o B /\ H \o A \in Seq(Sayings)
  BY <1>14, Unfold
<1>16. Written(c, p) = H \o WorkflowsText(wf)
  BY <1>2, <1>10, <1>11 DEF Written, TopLine
<1>17. Ahead(c, p, w) = H \o A
  BY <1>2, <1>10, <1>11 DEF Ahead
<1>18. Range(H \o A) = Range(O) \cup {TopLine} \cup Range(A)
  <2>1. \A x \in Seq(Sayings), y \in Seq(Sayings) : Range(x \o y) = Range(x) \cup Range(y)
    BY RangeConcatenation
  <2>2. Range(H \o A) = Range(H) \cup Range(A)
    BY <2>1, <1>12, <1>13
  <2>3. Range(O \o u) = Range(O) \cup Range(u)
    BY <2>1, <1>4
  <2>4. Range(u) = {TopLine}
    BY <1>7, <1>10, RangeShort
  <2> QED BY <2>2, <2>3, <2>4, <1>11
<1>19. WLine(w) \notin Range(A) /\ WLine(w) \notin Range(B)
  <2>1. \A l \in Outside(w) : l # WLine(w)
    BY DEF Outside
  <2>2. \A l \in Range(A) : l \in Outside(w)
    BY <1>3 DEF Range
  <2>3. \A l \in Range(B) : l \in Outside(w)
    BY <1>3 DEF Range
  <2> QED BY <2>1, <2>2, <2>3
<1>20. WLine(w) \notin Range(O) /\ WLine(w) # TopLine
  BY <1>4, <1>7
<1> QED BY <1>2, <1>3, <1>6, <1>8, <1>13, <1>15, <1>16, <1>17, <1>18, <1>19, <1>20

LEMMA FitsLaid ==
  ASSUME NEW t, NEW c, NEW p, Fits(t, c, p), NEW w \in DOMAIN c.workflows
  PROVE  LaidOut(t, Ahead(c, p, w), w, c.workflows[w], Below(c.workflows, w))
<1>1. /\ t \in Seq(Lines) /\ Tidy(t) /\ Proper(c) /\ p \in Orders(c) /\ Said(t) = Written(c, p)
  BY DEF Fits
<1>2. p \in Seq(Words) /\ c.hasOrbs \in BOOLEAN /\ c.workflows[w] \in Seq(Entry) /\ w \in Words
      /\ Flows(c.workflows)
  BY <1>1, OrderIs, ProperIs
<1>3. /\ Written(c, p) = ((Ahead(c, p, w) \o <<WLine(w), JLine>>) \o JobsText(c.workflows[w]))
                               \o Below(c.workflows, w)
      /\ Ahead(c, p, w) \in Seq(Sayings) /\ Below(c.workflows, w) \in Seq(Sayings)
      /\ WLine(w) \notin Range(Ahead(c, p, w)) /\ WLine(w) \notin Range(Below(c.workflows, w))
  BY <1>1, <1>2, WrittenIs
<1>4. JobsText(c.workflows[w]) \in Seq(JobsLines)
  BY <1>2, JobsInside DEF JobsLines
<1>5. /\ Below(c.workflows, w) = <<>> \/ (Len(Below(c.workflows, w)) # 0 /\ Below(c.workflows, w)[1].depth = 2)
      /\ Above(c.workflows, w) \in Seq(Outside(w))
  BY <1>2, FlowSplit
<1>6. PICK O, A : O = OrbsText(c.hasOrbs, p) /\ A = Above(c.workflows, w)
  OBVIOUS
<1>7. O \in Seq(Sayings) /\ TopLine \notin Range(O)
  <2>1. O \in Seq(Sayings) /\ \A l \in Range(O) : l.key \in {"orbs:", "pin:"}
    BY <1>2, <1>6, OrbsAre
  <2> QED BY <2>1, OrbLines
<1>8. A \in Seq(Sayings)
  <2>1. Outside(w) \subseteq Sayings
    BY DEF Outside
  <2> QED BY <2>1, <1>5, <1>6
<1>9. \E o \in Seq(Sayings), r \in Seq(Sayings) :
         Ahead(c, p, w) = (o \o <<TopLine>>) \o r /\ TopLine \notin Range(o)
  BY <1>6, <1>7, <1>8 DEF Ahead
<1> QED BY <1>1, <1>2, <1>3, <1>4, <1>5, <1>9 DEF LaidOut, Laid

LEMMA FitsNot ==
  ASSUME NEW t, NEW c, NEW p, Fits(t, c, p), NEW w \in Words, w \notin DOMAIN c.workflows
  PROVE  JobsLine(t, w) = 0
<1>1. /\ t \in Seq(Lines) /\ Proper(c) /\ p \in Orders(c) /\ Said(t) = Written(c, p)
  BY DEF Fits
<1>2. p \in Seq(Words) /\ c.hasOrbs \in BOOLEAN /\ Flows(c.workflows)
  BY <1>1, OrderIs, ProperIs
<1>3. PICK O, F : O = OrbsText(c.hasOrbs, p) /\ F = WorkflowsText(c.workflows)
  OBVIOUS
<1>4. O \in Seq(Sayings) /\ \A l \in Range(O) : l.key \in {"orbs:", "pin:"}
  BY <1>2, <1>3, OrbsAre
<1>5. F \in Seq(Sayings) /\ F \in Seq(Outside(w))
  BY <1>2, <1>3, FlowsIs
<1>6. PICK u \in Seq(Sayings) : u = <<TopLine>> /\ Range(u) = {TopLine}
  <2>1. TopLine \in Sayings
    BY OrbLines
  <2> QED BY <2>1, Single, RangeShort
<1>7. Said(t) = (O \o u) \o F
  BY <1>1, <1>3, <1>6 DEF Written, TopLine
<1>8. Range((O \o u) \o F) = Range(O) \cup {TopLine} \cup Range(F)
  <2>1. \A x \in Seq(Sayings), y \in Seq(Sayings) : Range(x \o y) = Range(x) \cup Range(y)
    BY RangeConcatenation
  <2>2. PICK H : H = O \o u
    OBVIOUS
  <2>3. H \in Seq(Sayings)
    BY <2>2, <1>4
  <2>4. Range(H \o F) = Range(H) \cup Range(F)
    BY <2>1, <2>3, <1>5
  <2>5. Range(O \o u) = Range(O) \cup Range(u)
    BY <2>1, <1>4
  <2> QED BY <2>2, <2>4, <2>5, <1>6
<1>9. WLine(w).key = "workflow:" /\ TopLine.key = "workflows:"
  BY HeaderLines, OrbLines
<1>10. WLine(w) \notin Range(F)
  <2>1. \A l \in Outside(w) : l # WLine(w)
    BY DEF Outside
  <2>2. \A l \in Range(F) : l \in Outside(w)
    BY <1>5 DEF Range
  <2> QED BY <2>1, <2>2
<1>11. WLine(w) \notin Range(Said(t))
  BY <1>4, <1>7, <1>8, <1>9, <1>10
<1> QED BY <1>1, <1>11, NoJobs

\* What is read of an entry is what it was written from.
LEMMA RangeRead ==
  ASSUME NEW t \in Seq(Lines), Nested(t), NEW r, NEW G, NEW es, NEW i, NEW z \in 1..Len(t) + 1,
         Ranged(t, r, G, es, i, z), es[i] \in Entry, Sound(es[i])
  PROVE  /\ ReadEntry(t, r) = Seen(es[i], IsMarked(t, r))
         /\ Body(t, r) \in Seq(Lines) /\ Writes(Body(t, r), es[i]) /\ Nested(Body(t, r))
         /\ 1 \in DOMAIN Body(t, r) /\ Significant(Body(t, r)[1])
         /\ Len(Body(t, r)) = r.last + 1 - r.first
         /\ \A n \in 1..Len(Body(t, r)) : Body(t, r)[n] = t[r.first + n - 1]
<1>1. PICK a, b, n : a = r.first /\ b = r.last /\ n = Len(t)
  OBVIOUS
<1>2. a \in 1..n /\ Significant(t[a]) /\ t[a] = JobLine(es[i].orbJob) /\ a \in Nat /\ b \in Nat
      /\ a <= b /\ b < z /\ n \in Nat /\ Said(Body(t, r)) = EntryText(es[i])
  BY <1>1, Places DEF Ranged, Opener
<1>3. b <= n
  BY <1>1, <1>2
<1>4. PICK m \in Nat : m = b + 1 - a
  BY <1>2
<1>5. PICK s : s = SubSeq(t, a, b)
  OBVIOUS
<1>6. Body(t, r) = s
  BY <1>1, <1>5 DEF Body
<1>7. s \in Seq(Lines) /\ Len(s) = m /\ \A x \in 1..m : s[x] = t[a + x - 1]
  <2>1. PICK q \in Nat : q + 1 = a
    BY <1>2
  <2>2. q + m = b /\ q + m <= n
    BY <1>2, <1>3, <1>4, <2>1
  <2>3. /\ SubSeq(t, q + 1, q + m) \in Seq(Lines) /\ Len(SubSeq(t, q + 1, q + m)) = m
        /\ \A y \in 1..m : SubSeq(t, q + 1, q + m)[y] = t[q + y]
    BY <1>1, <2>2, Slice
  <2>4. \A y \in 1..m : q + y = a + y - 1
    BY <1>2, <2>1
  <2> QED BY <2>1, <2>2, <2>3, <2>4, <1>5
<1>8. m # 0 /\ DOMAIN s = 1..m
  BY <1>2, <1>4, <1>7
<1>9. 1 \in DOMAIN s /\ s[1] = t[a]
  <2>1. 1 \in 1..m /\ a + 1 - 1 = a
    BY <1>2, <1>8
  <2> QED BY <2>1, <1>7, <1>8
<1>10. Nested(s)
  <2> SUFFICES ASSUME NEW j \in DOMAIN s, Deep(s[j])
               PROVE  j > 1 /\ Significant(s[j]) /\ Significant(s[j - 1])
    BY DEF Nested
  <2>1. j \in 1..m /\ s[j] = t[a + j - 1] /\ a + j - 1 \in 1..n
    BY <1>2, <1>3, <1>4, <1>7, <1>8
  <2>2. a + j - 1 \in DOMAIN t
    BY <2>1, <1>1
  <2>7. PICK x : x = a + j - 1
    OBVIOUS
  <2>8. x \in DOMAIN t /\ Deep(t[x])
    BY <2>1, <2>2, <2>7
  <2>9. Significant(t[x]) /\ Significant(t[x - 1])
    BY <2>8 DEF Nested
  <2>3. s[j] = t[x] /\ x \in Nat
    BY <2>1, <2>7
  <2>4. j # 1
    <3>1. t[a].depth = 6
      BY <1>2, EntryTyped, JobLineIs
    <3>2. ASSUME j = 1 PROVE FALSE
      <4>1. a + j - 1 = a
        BY <3>2, <1>2
      <4>2. ~Deep(t[a])
        BY <1>2, <3>1, NotDeep
      <4> QED BY <4>1, <4>2, <2>1
    <3> QED BY <3>2
  <2>5. j - 1 \in 1..m /\ a + (j - 1) - 1 = a + j - 1 - 1 /\ j > 1
    BY <1>2, <2>1, <2>4
  <2>6. s[j - 1] = t[x - 1]
    <3>1. a + (j - 1) - 1 = x - 1
      <4>1. a \in Nat /\ j \in Nat
        BY <1>2, <2>1
      <4> QED BY <4>1, <2>7
    <3>2. s[j - 1] = t[a + (j - 1) - 1]
      BY <1>7, <2>5
    <3> QED BY <3>1, <3>2
  <2> QED BY <2>3, <2>5, <2>6, <2>9
<1>11. Writes(s, es[i])
  BY <1>2, <1>6, <1>7 DEF Writes
<1>12. PICK k : k = IsMarked(t, r)
  OBVIOUS
<1>13. EntryOf(s, RequiresShape(s), k) = Seen(es[i], k)
  <2>1. Significant(s[1])
    BY <1>2, <1>9
  <2> QED BY <2>1, <1>9, <1>10, <1>11, EntryRead
<1>14. ReadEntry(t, r) = Seen(es[i], IsMarked(t, r))
  BY <1>6, <1>12, <1>13 DEF ReadEntry
<1> QED BY <1>1, <1>2, <1>4, <1>6, <1>7, <1>9, <1>10, <1>11, <1>14

-----------------------------------------------------------------------------
(* What a splice leaves as it was *)

LEMMA SaidPair ==
  ASSUME NEW x \in Seq(Lines), NEW y \in Seq(Lines)
  PROVE  /\ x \o y \in Seq(Lines) /\ Said(x \o y) = Said(x) \o Said(y)
         /\ Said(x) \in Seq(Sayings) /\ Said(y) \in Seq(Sayings)
<1>1. x \o y \in Seq(Lines)
  OBVIOUS
<1> QED BY <1>1, SaidConcat, SaidType

LEMMA SpliceIs ==
  ASSUME NEW t \in Seq(Lines), NEW a \in 1..Len(t) + 1, NEW b \in a..Len(t) + 1, NEW u \in Seq(Lines),
         NEW x, NEW y, x = SubSeq(t, 1, a - 1), y = SubSeq(t, b, Len(t))
  PROVE  /\ Splice(t, a, b - 1, u) = (x \o u) \o y
         /\ x \in Seq(Lines) /\ y \in Seq(Lines) /\ (x \o u) \o y \in Seq(Lines)
         /\ Said((x \o u) \o y) = (Said(x) \o Said(u)) \o Said(y)
         /\ Said(x) = SubSeq(Said(t), 1, Rank(t, a) - 1)
         /\ Said(y) = SubSeq(Said(t), Rank(t, b), Len(Said(t)))
<1>1. b \in 1..Len(t) + 1 /\ a <= b /\ b - 1 + 1 = b
  OBVIOUS
<1>2. Splice(t, a, b - 1, u) = (x \o u) \o y
  BY <1>1 DEF Splice
<1>3. x \in Seq(Lines) /\ y \in Seq(Lines)
  BY <1>1, InThree
<1>4. PICK X \in Seq(Lines), Y \in Seq(Lines) : X = x /\ Y = y
  BY <1>3
<1>5. X \o u \in Seq(Lines) /\ Said(X \o u) = Said(X) \o Said(u)
  BY SaidPair
<1>6. PICK P \in Seq(Lines) : P = X \o u
  BY <1>5
<1>7. P \o Y \in Seq(Lines) /\ Said(P \o Y) = Said(P) \o Said(Y)
  BY SaidPair
<1>8. /\ Said(x) = SubSeq(Said(t), 1, Rank(t, a) - 1)
      /\ Said(y) = SubSeq(Said(t), Rank(t, b), Len(Said(t)))
  BY <1>1, Cuts
<1> QED BY <1>2, <1>3, <1>4, <1>5, <1>6, <1>7, <1>8

\* What comes first of what is said is no deeper than d.
Starting(s, d) == s # <<>> => s[1].depth <= d

\* The remarks of a are fine when s is said after it.
TidyTo(a, s) ==
  \A j \in DOMAIN a : Remark(a[j]) => Starting(Said(SubSeq(a, j, Len(a))) \o s, a[j].depth)

LEMMA TwoEnd ==
  ASSUME NEW T, NEW x \in Seq(T), NEW y \in Seq(T)
  PROVE  SubSeq(x \o y, Len(x) + 1, Len(x \o y)) = y
<1>1. /\ x \o y \in Seq(T) /\ Len(x \o y) = Len(x) + Len(y) /\ Len(x) \in Nat /\ Len(y) \in Nat
      /\ \A i \in 1..Len(y) : (x \o y)[Len(x) + i] = y[i]
  BY ConcatAt
<1> DEFINE s == x \o y
<1>2. s \in Seq(T) /\ Len(x) + Len(y) <= Len(s) /\ \A i \in 1..Len(y) : s[Len(x) + i] = y[i]
  BY <1>1
<1> HIDE DEF s
<1>3. SubSeq(s, Len(x) + 1, Len(x) + Len(y)) = y
  BY <1>1, <1>2, SliceIs
<1> QED BY <1>1, <1>3 DEF s

Trio(T, p, q, b) == {p, q, b} \subseteq Seq(T)

LEMMA ThreeEnd ==
  ASSUME NEW T, NEW p, NEW q, NEW b, Trio(T, p, q, b)
  PROVE  /\ SubSeq((p \o q) \o b, Len(p) + 1, Len((p \o q) \o b)) = q \o b
         /\ SubSeq(p \o (q \o b), Len(p) + Len(q) + 1, Len(p \o (q \o b))) = b
<1>0. p \in Seq(T) /\ q \in Seq(T) /\ b \in Seq(T)
  BY DEF Trio
<1>1. (p \o q) \o b = p \o (q \o b)
  BY SMTT(40), <1>0, Associates
<1>2. q \o b \in Seq(T) /\ p \o q \in Seq(T) /\ Len(p \o q) = Len(p) + Len(q)
  BY <1>0
<1> DEFINE u == q \o b
           v == p \o q
<1>3. u \in Seq(T) /\ v \in Seq(T)
  BY <1>2
<1> HIDE DEF u, v
<1>4. SubSeq(p \o u, Len(p) + 1, Len(p \o u)) = u
  BY <1>0, <1>3, TwoEnd
<1>5. SubSeq(v \o b, Len(v) + 1, Len(v \o b)) = b
  BY <1>0, <1>3, TwoEnd
<1> QED BY <1>1, <1>2, <1>4, <1>5 DEF u, v

LEMMA TailOne ==
  ASSUME NEW T, NEW a \in Seq(T), NEW b \in Seq(T), NEW j \in 1..Len(a)
  PROVE  /\ SubSeq(a \o b, j, Len(a \o b)) = SubSeq(a, j, Len(a)) \o b
         /\ SubSeq(b \o a, Len(b) + j, Len(b \o a)) = SubSeq(a, j, Len(a))
<1>1. Len(a) \in Nat /\ j \in 1..Len(a) + 1 /\ j <= j
  OBVIOUS
<1>2. PICK p, q : /\ p = SubSeq(a, 1, j - 1) /\ q = SubSeq(a, j, Len(a))
  OBVIOUS
<1>3. /\ p \in Seq(T) /\ q \in Seq(T) /\ a = p \o q /\ Len(p) = j - 1
  BY SMTT(40), <1>1, <1>2, InThree
<1>8. Trio(T, p, q, b) /\ Trio(T, b, p, q)
  BY <1>3 DEF Trio
<1>4. /\ SubSeq((p \o q) \o b, Len(p) + 1, Len((p \o q) \o b)) = q \o b
      /\ SubSeq(b \o (p \o q), Len(b) + Len(p) + 1, Len(b \o (p \o q))) = q
  <2>1. SubSeq((p \o q) \o b, Len(p) + 1, Len((p \o q) \o b)) = q \o b
    BY SMTT(40), <1>8, ThreeEnd
  <2>2. SubSeq(b \o (p \o q), Len(b) + Len(p) + 1, Len(b \o (p \o q))) = q
    BY <1>8, ThreeEnd
  <2> QED BY <2>1, <2>2
<1>5. Len(b) \in Nat /\ Len(p) + 1 = j /\ Len(b) + Len(p) + 1 = Len(b) + j
  <2>1. Len(b) \in Nat
    OBVIOUS
  <2> QED BY <2>1, <1>3
<1>6. SubSeq(a \o b, j, Len(a \o b)) = q \o b
  BY <1>3, <1>4, <1>5
<1>7. SubSeq(b \o a, Len(b) + j, Len(b \o a)) = q
  BY <1>3, <1>4, <1>5
<1> QED BY <1>2, <1>6, <1>7

LEMMA TailOf ==
  ASSUME NEW T, NEW a \in Seq(T), NEW b \in Seq(T)
  PROVE  /\ \A j \in 1..Len(a) : SubSeq(a \o b, j, Len(a \o b)) = SubSeq(a, j, Len(a)) \o b
         /\ \A j \in 1..Len(b) : SubSeq(a \o b, Len(a) + j, Len(a \o b)) = SubSeq(b, j, Len(b))
BY TailOne

LEMMA TidyConcat ==
  ASSUME NEW a \in Seq(Lines), NEW b \in Seq(Lines)
  PROVE  Tidy(a \o b) <=> TidyTo(a, Said(b)) /\ Tidy(b)
<1>1. /\ a \o b \in Seq(Lines) /\ Len(a \o b) = Len(a) + Len(b) /\ Len(a) \in Nat /\ Len(b) \in Nat
      /\ \A x \in 1..Len(a) : (a \o b)[x] = a[x]
      /\ \A x \in 1..Len(b) : (a \o b)[Len(a) + x] = b[x]
  BY ConcatAt
<1>2. DOMAIN a = 1..Len(a) /\ DOMAIN b = 1..Len(b) /\ DOMAIN (a \o b) = 1..Len(a) + Len(b)
  BY <1>1
<1> DEFINE Fine(j) == Remark((a \o b)[j]) => Leads(SubSeq(a \o b, j, Len(a \o b)), (a \o b)[j].depth)
<1>3. \A j \in 1..Len(a) : Fine(j) <=> (Remark(a[j]) => Starting(Said(SubSeq(a, j, Len(a))) \o Said(b), a[j].depth))
  <2> SUFFICES ASSUME NEW j \in 1..Len(a)
               PROVE  Fine(j) <=> (Remark(a[j]) => Starting(Said(SubSeq(a, j, Len(a))) \o Said(b), a[j].depth))
    OBVIOUS
  <2>1. (a \o b)[j] = a[j]
    BY <1>1
  <2>2. PICK q \in Seq(Lines) : q = SubSeq(a, j, Len(a))
    <3>1. j \in 1..Len(a) + 1 /\ j <= j
      BY <1>1
    <3> QED BY <3>1, InThree
  <2>3. SubSeq(a \o b, j, Len(a \o b)) = q \o b
    BY <2>2, TailOf
  <2>4. Said(q \o b) = Said(q) \o Said(b)
    BY SaidConcat
  <2>5. Fine(j) <=> (Remark(a[j]) => Leads(q \o b, a[j].depth))
    BY <2>1, <2>3
  <2> QED BY <2>2, <2>4, <2>5 DEF Leads, Starting
<1>4. \A j \in 1..Len(b) : Fine(Len(a) + j) <=> (Remark(b[j]) => Leads(SubSeq(b, j, Len(b)), b[j].depth))
  <2> SUFFICES ASSUME NEW j \in 1..Len(b)
               PROVE  Fine(Len(a) + j) <=> (Remark(b[j]) => Leads(SubSeq(b, j, Len(b)), b[j].depth))
    OBVIOUS
  <2>1. (a \o b)[Len(a) + j] = b[j]
    BY <1>1
  <2>2. SubSeq(a \o b, Len(a) + j, Len(a \o b)) = SubSeq(b, j, Len(b))
    BY TailOf
  <2> QED BY <2>1, <2>2
<1>5. Tidy(a \o b) <=> \A j \in 1..Len(a) + Len(b) : Fine(j)
  BY <1>2 DEF Tidy
<1>6. (\A j \in 1..Len(a) + Len(b) : Fine(j))
        <=> (\A j \in 1..Len(a) : Fine(j)) /\ \A j \in 1..Len(b) : Fine(Len(a) + j)
  <2> HIDE DEF Fine
  <2>1. \A j \in 1..Len(a) : j \in 1..Len(a) + Len(b)
    BY <1>1
  <2>2. \A j \in 1..Len(b) : Len(a) + j \in 1..Len(a) + Len(b)
    BY <1>1
  <2>3. \A j \in 1..Len(a) + Len(b) : j \in 1..Len(a) \/ \E x \in 1..Len(b) : j = Len(a) + x
    <3> SUFFICES ASSUME NEW j \in 1..Len(a) + Len(b), j \notin 1..Len(a)
                 PROVE  \E x \in 1..Len(b) : j = Len(a) + x
      OBVIOUS
    <3>1. j - Len(a) \in 1..Len(b) /\ j = Len(a) + (j - Len(a))
      BY <1>1
    <3> QED BY <3>1
  <2> QED BY <2>1, <2>2, <2>3
<1> HIDE DEF Fine
<1> QED BY <1>2, <1>3, <1>4, <1>5, <1>6 DEF Tidy, TidyTo

\* The remarks at the end of x are no shallower than d.
Open(x, d) ==
  \A j \in DOMAIN x : Remark(x[j]) /\ Said(SubSeq(x, j, Len(x))) = <<>> => d <= x[j].depth

LEMMA TailSaid ==
  ASSUME NEW x \in Seq(Lines), NEW j \in DOMAIN x
  PROVE  /\ SubSeq(x, j, Len(x)) \in Seq(Lines) /\ Said(SubSeq(x, j, Len(x))) \in Seq(Sayings)
         /\ x[j] \in Lines
<1>1. j \in 1..Len(x) + 1 /\ j <= j /\ x[j] \in Lines
  BY Places
<1>2. SubSeq(x, j, Len(x)) \in Seq(Lines)
  BY <1>1, InThree
<1> QED BY <1>1, <1>2, SaidType

LEMMA Joined ==
  ASSUME NEW T, NEW u \in Seq(T), NEW s \in Seq(T)
  PROVE  /\ u = <<>> => u \o s = s
         /\ u # <<>> => u \o s # <<>> /\ (u \o s)[1] = u[1]
         /\ u \o s = <<>> => u = <<>> /\ s = <<>>
<1>1. /\ u \o s \in Seq(T) /\ Len(u \o s) = Len(u) + Len(s) /\ Len(u) \in Nat /\ Len(s) \in Nat
      /\ \A x \in 1..Len(u) : (u \o s)[x] = u[x]
  BY ConcatAt
<1>2. u = <<>> => u \o s = s
  OBVIOUS
<1>3. (u # <<>> <=> Len(u) # 0) /\ (s # <<>> <=> Len(s) # 0) /\ (u \o s # <<>> <=> Len(u \o s) # 0)
  BY <1>1
<1> QED BY <1>1, <1>2, <1>3

LEMMA TidyToOther ==
  ASSUME NEW x \in Seq(Lines), NEW a \in Seq(Sayings), TidyTo(x, a), NEW d \in Nat, Open(x, d),
         NEW s \in Seq(Sayings), Starting(s, d)
  PROVE  TidyTo(x, s)
<1> SUFFICES ASSUME NEW j \in DOMAIN x, Remark(x[j])
             PROVE  Starting(Said(SubSeq(x, j, Len(x))) \o s, x[j].depth)
  BY DEF TidyTo
<1>1. PICK u : u = Said(SubSeq(x, j, Len(x)))
  OBVIOUS
<1>2. u \in Seq(Sayings) /\ x[j] \in Lines
  BY <1>1, TailSaid
<1>3. x[j].depth \in Nat
  BY <1>2, LineDepth
<1>4. Starting(u \o a, x[j].depth)
  BY <1>1 DEF TidyTo
<1>5. CASE u = <<>>
  <2>1. d <= x[j].depth
    BY <1>1, <1>5 DEF Open
  <2>2. u \o s = s
    BY <1>5, <1>2, Joined
  <2>3. s # <<>> => s[1] \in Lines
    <3>1. s # <<>> => s[1] \in Sayings
      OBVIOUS
    <3> QED BY <3>1 DEF Sayings
  <2>4. s # <<>> => s[1].depth \in Nat
    BY <2>3, LineDepth
  <2>5. s # <<>> => s[1].depth <= x[j].depth
    BY <2>1, <2>4, <1>3 DEF Starting
  <2> QED BY <1>1, <2>2, <2>5 DEF Starting
<1>6. CASE u # <<>>
  <2>1. u \o a # <<>> /\ (u \o a)[1] = u[1]
    BY <1>6, <1>2, Joined
  <2>2. (u \o s)[1] = u[1]
    BY <1>6, <1>2, Joined
  <2> QED BY <1>1, <1>4, <2>1, <2>2 DEF Starting
<1> QED BY <1>5, <1>6

LEMMA OpenFrom ==
  ASSUME NEW x \in Seq(Lines), NEW s \in Seq(Sayings), TidyTo(x, s), s # <<>>
  PROVE  Open(x, s[1].depth)
<1> SUFFICES ASSUME NEW j \in DOMAIN x, Remark(x[j]), Said(SubSeq(x, j, Len(x))) = <<>>
             PROVE  s[1].depth <= x[j].depth
  BY DEF Open
<1>1. Starting(<<>> \o s, x[j].depth)
  BY DEF TidyTo
<1>2. <<>> \o s = s
  OBVIOUS
<1> QED BY <1>1, <1>2 DEF Starting

LEMMA OpenAfter ==
  ASSUME NEW x \in Seq(Lines), NEW s \in DOMAIN x, Significant(x[s]), NEW d,
         \A j \in s + 1..Len(x) : Remark(x[j]) => d <= x[j].depth
  PROVE  Open(x, d)
<1> SUFFICES ASSUME NEW j \in DOMAIN x, Remark(x[j]), Said(SubSeq(x, j, Len(x))) = <<>>
             PROVE  d <= x[j].depth
  BY DEF Open
<1>1. /\ Len(x) \in Nat /\ s \in 1..Len(x) + 1 /\ j \in 1..Len(x) + 1
      /\ s \in Nat /\ j \in Nat /\ j <= Len(x)
  BY Places
<1>2. Rank(x, j) = Len(Said(x)) + 1
  BY <1>1, SaidFrom
<1>3. Rank(x, s) \in DOMAIN Said(x)
  BY RankNext
<1>4. Said(x) \in Seq(Sayings)
  BY SaidType
<1>5. Rank(x, s) <= Len(Said(x)) /\ Rank(x, s) \in Nat /\ Len(Said(x)) \in Nat
  BY <1>3, <1>4, Places
<1>6. ASSUME j <= s PROVE FALSE
  <2>1. Rank(x, j) <= Rank(x, s)
    BY <1>1, <1>6, Cuts
  <2> QED BY <2>1, <1>2, <1>5
<1>7. j \in s + 1..Len(x)
  BY <1>1, <1>6
<1> QED BY <1>7

\* A text that is put in after x, in place of what the remarks of x were fine with.
LEMMA TidySplice ==
  ASSUME NEW x \in Seq(Lines), NEW old \in Seq(Lines), NEW new \in Seq(Lines), Tidy(x \o old),
         Tidy(new), NEW d \in Nat, Open(x, d), Starting(Said(new), d)
  PROVE  Tidy(x \o new)
<1>1. TidyTo(x, Said(old))
  BY TidyConcat
<1>2. Said(old) \in Seq(Sayings)
  BY SaidType
<1>3. Said(new) \in Seq(Sayings)
  BY SaidType
<1>4. TidyTo(x, Said(new))
  BY <1>1, <1>2, <1>3, TidyToOther
<1> QED BY <1>4, TidyConcat

LEMMA TidySays ==
  ASSUME NEW s \in Seq(Sayings)
  PROVE  s \in Seq(Lines) /\ Tidy(s) /\ \A u : TidyTo(s, u)
<1>1. s \in Seq(Lines)
  BY SaidSelf
<1>2. \A j \in DOMAIN s : ~Remark(s[j])
  <2>1. \A j \in DOMAIN s : s[j] \in Sayings
    OBVIOUS
  <2> QED BY <2>1 DEF Remark, Sayings
<1> QED BY <1>1, <1>2 DEF Tidy, TidyTo

\* The deep lines of b are fine when b stands after a.
NestedTo(a, b) ==
  \A j \in DOMAIN b :
    Deep(b[j]) => /\ Significant(b[j])
                  /\ IF j = 1 THEN Len(a) # 0 /\ Significant(a[Len(a)]) ELSE Significant(b[j - 1])

LEMMA NestedConcat ==
  ASSUME NEW T, NEW a \in Seq(T), NEW b \in Seq(T)
  PROVE  Nested(a \o b) <=> Nested(a) /\ NestedTo(a, b)
<1>1. PICK c : c = a \o b
  OBVIOUS
<1>2. /\ c \in Seq(T) /\ Len(c) = Len(a) + Len(b) /\ Len(a) \in Nat /\ Len(b) \in Nat
      /\ \A x \in 1..Len(a) : c[x] = a[x]
      /\ \A x \in 1..Len(b) : c[Len(a) + x] = b[x]
  BY <1>1, ConcatAt
<1>3. DOMAIN a = 1..Len(a) /\ DOMAIN b = 1..Len(b) /\ DOMAIN c = 1..Len(c)
  BY <1>2
<1>4. PICK m, n : m = Len(a) /\ n = Len(b)
  OBVIOUS
<1>5. m \in Nat /\ n \in Nat /\ DOMAIN a = 1..m /\ DOMAIN b = 1..n /\ DOMAIN c = 1..m + n
  BY <1>2, <1>3, <1>4
<1>6. (\A x \in 1..m : c[x] = a[x]) /\ \A x \in 1..n : c[m + x] = b[x]
  BY <1>2, <1>4
<1> DEFINE Fine(j) == Deep(c[j]) => j > 1 /\ Significant(c[j]) /\ Significant(c[j - 1])
           Good(j) == Deep(a[j]) => j > 1 /\ Significant(a[j]) /\ Significant(a[j - 1])
           After2(j) == Deep(b[j]) => /\ Significant(b[j])
                                      /\ IF j = 1 THEN m # 0 /\ Significant(a[m]) ELSE Significant(b[j - 1])
<1>7. ASSUME NEW j \in 1..m PROVE Fine(j) <=> Good(j)
  <2>1. c[j] = a[j]
    BY <1>6
  <2>2. j > 1 => c[j - 1] = a[j - 1]
    <3>1. j > 1 => j - 1 \in 1..m
      BY <1>5
    <3> QED BY <3>1, <1>6
  <2> QED BY <2>1, <2>2
<1>8. ASSUME NEW j \in 1..n PROVE Fine(m + j) <=> After2(j)
  <2> DEFINE x == m + j
  <2>1. c[x] = b[j] /\ x \in Nat /\ j \in Nat
    BY <1>5, <1>6
  <2>2. j = 1 => x - 1 = m /\ (x > 1 <=> m # 0) /\ (m # 0 => m \in 1..m)
    BY <1>5
  <2>3. j # 1 => j - 1 \in 1..n /\ x - 1 = m + (j - 1) /\ x > 1
    BY <1>5
  <2> HIDE DEF x
  <2>4. j = 1 /\ m # 0 => c[x - 1] = a[m]
    BY <2>2, <1>6
  <2>5. j # 1 => c[x - 1] = b[j - 1]
    BY <2>3, <1>6
  <2>6. CASE j = 1
    <3>1. x > 1 <=> m # 0
      BY <2>2, <2>6
    <3>2. Fine(x) <=> (Deep(b[j]) => x > 1 /\ Significant(b[j]) /\ Significant(c[x - 1]))
      BY <2>1
    <3>3. m # 0 => Significant(c[x - 1]) = Significant(a[m])
      BY <2>4, <2>6
    <3>5. After2(j) <=> (Deep(b[j]) => Significant(b[j]) /\ m # 0 /\ Significant(a[m]))
      BY <2>6
    <3> QED BY <3>1, <3>2, <3>3, <3>5 DEF x
  <2>7. CASE j # 1
    <3>1. x > 1 /\ c[x - 1] = b[j - 1]
      BY <2>3, <2>5, <2>7
    <3>2. Fine(x) <=> (Deep(b[j]) => x > 1 /\ Significant(b[j]) /\ Significant(c[x - 1]))
      BY <2>1
    <3>5. After2(j) <=> (Deep(b[j]) => Significant(b[j]) /\ Significant(b[j - 1]))
      BY <2>7
    <3> QED BY <3>1, <3>2, <3>5 DEF x
  <2> QED BY <2>6, <2>7
<1>9. (\A j \in 1..m + n : Fine(j)) <=> (\A j \in 1..m : Fine(j)) /\ \A j \in 1..n : Fine(m + j)
  <2> HIDE DEF Fine
  <2>1. (\A j \in 1..m : j \in 1..m + n) /\ \A j \in 1..n : m + j \in 1..m + n
    BY <1>5
  <2>2. \A j \in 1..m + n : j \in 1..m \/ \E x \in 1..n : j = m + x
    <3> SUFFICES ASSUME NEW j \in 1..m + n, j \notin 1..m
                 PROVE  \E x \in 1..n : j = m + x
      OBVIOUS
    <3>1. j - m \in 1..n /\ j = m + (j - m)
      BY <1>5
    <3> QED BY <3>1
  <2> QED BY <2>1, <2>2
<1>10. Nested(c) <=> \A j \in 1..m + n : Fine(j)
  BY <1>5 DEF Nested
<1>11. Nested(a) <=> \A j \in 1..m : Good(j)
  BY <1>5 DEF Nested
<1>12. NestedTo(a, b) <=> \A j \in 1..n : After2(j)
  BY <1>4, <1>5 DEF NestedTo
<1> HIDE DEF Fine, Good, After2
<1> QED BY <1>1, <1>7, <1>8, <1>9, <1>10, <1>11, <1>12

LEMMA NestedAlone ==
  ASSUME NEW T, NEW a, NEW b \in Seq(T)
  PROVE  /\ Nested(b) => NestedTo(a, b)
         /\ NestedTo(a, b) /\ (b = <<>> \/ ~Deep(b[1])) => Nested(b)
<1>1. DOMAIN b = 1..Len(b) /\ Len(b) \in Nat /\ (b = <<>> => Len(b) = 0)
  OBVIOUS
<1>2. Nested(b) => NestedTo(a, b)
  BY <1>1 DEF Nested, NestedTo
<1>3. ASSUME NestedTo(a, b), b = <<>> \/ ~Deep(b[1])
      PROVE  Nested(b)
  <2> SUFFICES ASSUME NEW j \in DOMAIN b, Deep(b[j])
               PROVE  j > 1 /\ Significant(b[j]) /\ Significant(b[j - 1])
    BY DEF Nested
  <2>1. j # 1
    BY <1>1, <1>3
  <2>2. j > 1
    BY <2>1, <1>1
  <2> QED BY <2>1, <2>2, <1>3 DEF NestedTo
<1> QED BY <1>2, <1>3

\* b may stand after a wherever it may stand after another text, when a ends
\* with a line that says something.
LEMMA NestedAfter ==
  ASSUME NEW a, NEW c, NEW b, NestedTo(c, b), Len(a) # 0, Significant(a[Len(a)])
  PROVE  NestedTo(a, b)
BY DEF NestedTo

\* Lines that say something are fine when the first of them is not deep, or they
\* stand after a line that says something.
LEMMA NestedSays ==
  ASSUME NEW s \in Seq(Sayings)
  PROVE  /\ s = <<>> \/ ~Deep(s[1]) => Nested(s)
         /\ \A a : Len(a) # 0 /\ Significant(a[Len(a)]) => NestedTo(a, s)
<1>1. DOMAIN s = 1..Len(s) /\ Len(s) \in Nat /\ \A j \in 1..Len(s) : Significant(s[j])
  <2>1. \A j \in 1..Len(s) : s[j] \in Sayings
    OBVIOUS
  <2> QED BY <2>1 DEF Sayings
<1>2. \A j \in 1..Len(s) : j # 1 => j > 1 /\ j - 1 \in 1..Len(s)
  BY <1>1
<1>3. \A a : Len(a) # 0 /\ Significant(a[Len(a)]) => NestedTo(a, s)
  BY <1>1, <1>2 DEF NestedTo
<1>4. ASSUME s = <<>> \/ ~Deep(s[1]) PROVE Nested(s)
  <2> SUFFICES ASSUME NEW j \in DOMAIN s, Deep(s[j])
               PROVE  j > 1 /\ Significant(s[j]) /\ Significant(s[j - 1])
    BY DEF Nested
  <2>1. j \in 1..Len(s)
    BY <1>1
  <2>2. j # 1
    BY <2>1, <1>1, <1>4
  <2> QED BY <2>1, <2>2, <1>1, <1>2
<1> QED BY <1>3, <1>4

LEMMA LastOf ==
  ASSUME NEW T, NEW x \in Seq(T), NEW u \in Seq(T), u # <<>>
  PROVE  Len(x \o u) # 0 /\ (x \o u)[Len(x \o u)] = u[Len(u)] /\ Len(u) # 0 /\ u[Len(u)] \in T
<1>1. /\ Len(x \o u) = Len(x) + Len(u) /\ Len(x) \in Nat /\ Len(u) \in Nat
      /\ \A y \in 1..Len(u) : (x \o u)[Len(x) + y] = u[y]
  BY ConcatAt
<1>2. Len(u) # 0
  OBVIOUS
<1>3. Len(u) \in 1..Len(u) /\ Len(x) + Len(u) # 0
  BY <1>1, <1>2
<1>4. (x \o u)[Len(x) + Len(u)] = u[Len(u)]
  BY <1>1, <1>3
<1>5. u[Len(u)] \in T
  BY <1>3
<1> QED BY <1>1, <1>2, <1>3, <1>4, <1>5

CutAt(t, a, x, y) ==
  /\ t \in Seq(Lines) /\ Tidy(t) /\ Nested(t) /\ a \in 1..Len(t) + 1
  /\ x = SubSeq(t, 1, a - 1) /\ y = SubSeq(t, a, Len(t))

LEMMA SpliceAt ==
  ASSUME NEW t, NEW a, NEW x, NEW y, CutAt(t, a, x, y)
  PROVE  /\ x \in Seq(Lines) /\ y \in Seq(Lines) /\ t = x \o y
         /\ TidyTo(x, Said(y)) /\ Tidy(y) /\ Nested(x) /\ NestedTo(x, y)
         /\ a = Len(t) + 1 => y = <<>>
         /\ a # Len(t) + 1 => y # <<>> /\ y[1] = t[a]
<1>0. t \in Seq(Lines) /\ Tidy(t) /\ Nested(t) /\ a \in 1..Len(t) + 1
  BY DEF CutAt
<1>7. x = SubSeq(t, 1, a - 1) /\ y = SubSeq(t, a, Len(t))
  BY DEF CutAt
<1>1. a <= a /\ a \in Nat /\ Len(t) \in Nat
  BY <1>0
<1>2. x \in Seq(Lines) /\ y \in Seq(Lines) /\ t = x \o y
  BY ZenonT(60), <1>0, <1>1, <1>7, InThree
<1>3. TidyTo(x, Said(y)) /\ Tidy(y)
  BY <1>0, <1>2, TidyConcat
<1>4. Nested(x) /\ NestedTo(x, y)
  BY <1>0, <1>2, NestedConcat
<1>8. Len(y) = Len(t) + 1 - a
  BY <1>0, <1>1, <1>7, InThree
<1>5. a = Len(t) + 1 => y = <<>>
  BY <1>1, <1>2, <1>8
<1>6. a # Len(t) + 1 => y # <<>> /\ y[1] = t[a]
  <2>1. SUFFICES ASSUME a # Len(t) + 1 PROVE y # <<>> /\ y[1] = t[a]
    OBVIOUS
  <2>2. PICK at, n : at = a - 1 /\ n = Len(t) + 1 - a
    OBVIOUS
  <2>3. /\ at \in Nat /\ n \in Nat /\ at + n <= Len(t) /\ 1 \in 1..n /\ n # 0
        /\ at + 1 = a /\ at + n = Len(t)
    BY <2>1, <2>2, <1>0, <1>1
  <2>4. \A i \in 1..n : SubSeq(t, at + 1, at + n)[i] = t[at + i]
    BY ZenonT(60), <2>3, <1>0, Slice
  <2>5. y[1] = t[a]
    BY <2>3, <2>4, <1>7
  <2>6. Len(y) # 0
    BY <2>2, <2>3, <1>8
  <2> QED BY <2>5, <2>6
<1> QED BY <1>2, <1>3, <1>4, <1>5, <1>6

Cut(t, a, b, x, y) ==
  /\ t \in Seq(Lines) /\ Tidy(t) /\ Nested(t) /\ a \in 1..Len(t) + 1 /\ b \in a..Len(t) + 1
  /\ x = SubSeq(t, 1, a - 1) /\ y = SubSeq(t, b, Len(t))

LEMMA CutIs ==
  ASSUME NEW t, NEW a, NEW b, NEW x, NEW y, Cut(t, a, b, x, y)
  PROVE  /\ x \in Seq(Lines) /\ y \in Seq(Lines)
         /\ Nested(x) /\ Tidy(y)
         /\ \E old \in Seq(Lines) : Tidy(x \o old) /\ TidyTo(x, Said(old)) /\ old = SubSeq(t, a, Len(t))
         /\ \E z : NestedTo(z, y)
         /\ b = Len(t) + 1 => y = <<>>
         /\ b # Len(t) + 1 => y # <<>> /\ y[1] = t[b]
<1>1. t \in Seq(Lines) /\ Tidy(t) /\ Nested(t)
  BY DEF Cut
<1>2. a \in 1..Len(t) + 1 /\ b \in 1..Len(t) + 1
  BY DEF Cut
<1>3. x = SubSeq(t, 1, a - 1) /\ y = SubSeq(t, b, Len(t))
  BY DEF Cut
<1>4. PICK old, z : old = SubSeq(t, a, Len(t)) /\ z = SubSeq(t, 1, b - 1)
  OBVIOUS
<1>7. CutAt(t, a, x, old) /\ CutAt(t, b, z, y)
  BY <1>1, <1>2, <1>3, <1>4 DEF CutAt
<1>5. /\ x \in Seq(Lines) /\ old \in Seq(Lines) /\ t = x \o old
      /\ TidyTo(x, Said(old)) /\ Nested(x)
  BY <1>7, SpliceAt
<1>6. /\ y \in Seq(Lines) /\ Tidy(y) /\ NestedTo(z, y)
      /\ b = Len(t) + 1 => y = <<>>
      /\ b # Len(t) + 1 => y # <<>> /\ y[1] = t[b]
  BY <1>7, SpliceAt
<1> QED BY <1>1, <1>4, <1>5, <1>6

LEMMA PutSays ==
  ASSUME NEW t, NEW a, NEW b, NEW x, NEW y, Cut(t, a, b, x, y), NEW u \in Seq(Sayings), u # <<>>,
         Open(x, u[1].depth), ~Deep(u[1]) \/ (Len(x) # 0 /\ Significant(x[Len(x)]))
  PROVE  LET s == (x \o u) \o y IN s \in Seq(Lines) /\ Tidy(s) /\ Nested(s)
<1>1. x \in Seq(Lines) /\ y \in Seq(Lines) /\ Nested(x) /\ Tidy(y)
  BY CutIs
<1>2. u \in Seq(Lines) /\ Tidy(u) /\ TidyTo(u, Said(y)) /\ Said(u) = u
  BY TidySays, SaidSelf
<1>3. PICK v : v = u \o y
  OBVIOUS
<1>4. v \in Seq(Lines) /\ Said(v) = u \o Said(y) /\ Said(y) \in Seq(Sayings)
  BY <1>1, <1>2, <1>3, SaidPair
<1>5. Tidy(v)
  BY <1>1, <1>2, <1>3, TidyConcat
<1>6. u[1] \in Lines /\ u[1] \in Sayings
  <2>1. u[1] \in Sayings
    OBVIOUS
  <2> QED BY <2>1 DEF Sayings
<1>7. u[1].depth \in Nat
  BY <1>6, LineDepth
<1>8. Starting(Said(v), u[1].depth)
  <2>1. (u \o Said(y))[1] = u[1]
    BY <1>4, Joined
  <2> QED BY <2>1, <1>4, <1>7 DEF Starting
<1>9. PICK old : old \in Seq(Lines) /\ Tidy(x \o old)
  BY CutIs
<1>10. Tidy(x \o v)
  BY <1>1, <1>4, <1>5, <1>7, <1>8, <1>9, TidySplice
<1>11. x \o v = (x \o u) \o y
  <2>1. x \o (u \o y) = (x \o u) \o y
    BY <1>1, <1>2, Regroup
  <2> QED BY <2>1, <1>3
<1>12. x \o u \in Seq(Lines) /\ (x \o u) \o y \in Seq(Lines)
  BY <1>1, <1>2
<1>13. NestedTo(x, u)
  <2>1. ~Deep(u[1]) => Nested(u)
    BY NestedSays
  <2>2. ~Deep(u[1]) => NestedTo(x, u)
    BY <2>1, NestedAlone
  <2>3. Len(x) # 0 /\ Significant(x[Len(x)]) => NestedTo(x, u)
    BY NestedSays
  <2> QED BY <2>2, <2>3
<1>14. Nested(x \o u)
  BY <1>1, <1>2, <1>13, NestedConcat
<1>15. PICK z : NestedTo(z, y)
  BY CutIs
<1>16. Len(x \o u) # 0 /\ Significant((x \o u)[Len(x \o u)])
  <2>1. Len(x \o u) # 0 /\ (x \o u)[Len(x \o u)] = u[Len(u)] /\ Len(u) # 0
    BY <1>1, <1>2, LastOf
  <2>2. u[Len(u)] \in Sayings
    BY LastOf
  <2>3. Significant(u[Len(u)])
    BY <2>2 DEF Sayings
  <2> QED BY <2>1, <2>3
<1>17. NestedTo(x \o u, y)
  BY <1>15, <1>16, NestedAfter
<1>18. Nested((x \o u) \o y)
  BY <1>1, <1>12, <1>14, <1>17, NestedConcat
<1> QED BY <1>10, <1>11, <1>12, <1>18

LEMMA MarkIs ==
  ASSUME NEW l \in Lines, ~Significant(l), ~Deep(l)
  PROVE  /\ <<l>> \in Seq(Lines) /\ Said(<<l>>) = <<>> /\ Nested(<<l>>)
         /\ \A s \in Seq(Sayings) : Starting(s, l.depth) => TidyTo(<<l>>, s)
<1>1. <<l>> \in Seq(Lines) /\ Len(<<l>>) = 1 /\ <<l>>[1] = l
  BY Single
<1>2. PICK k : k = <<l>>
  OBVIOUS
<1>3. k \in Seq(Lines) /\ Len(k) = 1 /\ k[1] = l /\ DOMAIN k = {1}
  BY <1>1, <1>2
<1>4. Said(k) = <<>>
  BY <1>2, SaidOne
<1>5. SubSeq(k, 1, Len(k)) = k
  BY <1>3
<1>6. Nested(k)
  BY <1>3 DEF Nested
<1>7. ASSUME NEW s \in Seq(Sayings), Starting(s, l.depth)
      PROVE  TidyTo(k, s)
  <2>2. <<>> \o s = s
    OBVIOUS
  <2>1. Said(SubSeq(k, 1, Len(k))) \o s = s
    BY <1>4, <1>5, <2>2
  <2> QED BY <2>1, <1>3, <1>7 DEF TidyTo
<1> QED BY <1>2, <1>3, <1>4, <1>6, <1>7

LEMMA MarksAre ==
  /\ Begin \in Lines /\ ~Significant(Begin) /\ ~Deep(Begin) /\ Begin.depth = 6
  /\ End \in Lines /\ ~Significant(End) /\ ~Deep(End) /\ End.depth = 6
  /\ Blank \in Lines /\ ~Significant(Blank) /\ ~Deep(Blank) /\ Blank.depth = 0
<1>1. <<>> \in Seq(Words)
  OBVIOUS
<1>2. 6 \in Depths /\ 0 \in Depths /\ "# >>>" \in KeyNames /\ "# <<<" \in KeyNames /\ "" \in KeyNames
  BY DEF Depths, KeyNames
<1>3. Begin \in Lines /\ End \in Lines /\ Blank \in Lines
  BY <1>1, <1>2, LineTyped DEF Begin, End, Blank
<1>4. Begin.depth = 6 /\ End.depth = 6 /\ Blank.depth = 0
  BY DEF Line, Begin, End, Blank
<1>5. Begin.key = "# >>>" /\ End.key = "# <<<" /\ Blank.key = ""
  BY DEF Line, Begin, End, Blank
<1>6. ~Significant(Begin) /\ ~Significant(End) /\ ~Significant(Blank)
  BY <1>5 DEF Significant
<1>7. ~Deep(Begin) /\ ~Deep(End) /\ ~Deep(Blank)
  <2>1. ~(6 > 10) /\ ~(0 > 10)
    OBVIOUS
  <2>2. Begin.key # "#:" /\ End.key # "#:" /\ Blank.key # "#:"
    BY <1>5
  <2> QED BY <2>1, <2>2, <1>4 DEF Deep
<1> QED BY <1>3, <1>4, <1>6, <1>7

\* A text in markers.
LEMMA WrappedIs ==
  ASSUME NEW text \in Seq(Sayings), text # <<>>, text[1].depth = 6
  PROVE  /\ Wrapped(text) \in Seq(Lines) /\ Said(Wrapped(text)) = text /\ Nested(Wrapped(text))
         /\ \A y \in Seq(Lines) : Tidy(y) /\ Starting(Said(y), 6) => Tidy(Wrapped(text) \o y)
<1>1. PICK a, c : a = <<Begin>> /\ c = <<End>>
  OBVIOUS
<1>2. /\ a \in Seq(Lines) /\ Said(a) = <<>> /\ Nested(a)
      /\ \A s \in Seq(Sayings) : Starting(s, 6) => TidyTo(a, s)
  BY <1>1, MarksAre, MarkIs
<1>3. /\ c \in Seq(Lines) /\ Said(c) = <<>> /\ Nested(c)
      /\ \A s \in Seq(Sayings) : Starting(s, 6) => TidyTo(c, s)
  BY <1>1, MarksAre, MarkIs
<1>4. text \in Seq(Lines) /\ Said(text) = text /\ Tidy(text) /\ \A u : TidyTo(text, u)
  BY SaidSelf, TidySays
<1>5. PICK b : b = a \o text
  OBVIOUS
<1>6. b \in Seq(Lines) /\ Said(b) = text
  <2>1. a \o text \in Seq(Lines) /\ Said(a \o text) = Said(a) \o Said(text)
    BY <1>2, <1>4, SaidPair
  <2>2. <<>> \o text = text
    OBVIOUS
  <2> QED BY <2>1, <2>2, <1>2, <1>4, <1>5
<1>7. Wrapped(text) = b \o c
  BY <1>1, <1>5 DEF Wrapped
<1>8. b \o c \in Seq(Lines) /\ Said(b \o c) = text
  <2>1. b \o c \in Seq(Lines) /\ Said(b \o c) = Said(b) \o Said(c)
    BY <1>3, <1>6, SaidPair
  <2>2. text \o <<>> = text
    OBVIOUS
  <2> QED BY <2>1, <2>2, <1>3, <1>6
<1>9. Nested(b \o c)
  <2>1. ~Deep(text[1])
    <3>1. text[1] \in Sayings
      OBVIOUS
    <3> QED BY <3>1, NotDeep DEF Sayings
  <2>2. Nested(text)
    BY <2>1, NestedSays
  <2>3. NestedTo(a, text)
    BY <2>2, <1>4, NestedAlone
  <2>4. Nested(b)
    BY <2>3, <1>2, <1>4, <1>5, NestedConcat
  <2>5. NestedTo(b, c)
    BY <1>3, NestedAlone
  <2> QED BY <2>4, <2>5, <1>3, <1>6, NestedConcat
\* What is read from the text on starts at depth 6, whatever comes after it.
<1>10. \A s : Starting(text \o s, 6)
  <2> SUFFICES ASSUME NEW s PROVE Starting(text \o s, 6)
    OBVIOUS
  <2>1. (text \o s)[1] = text[1]
    OBVIOUS
  <2> QED BY <2>1 DEF Starting
<1>11. ASSUME NEW y \in Seq(Lines), Tidy(y), Starting(Said(y), 6)
       PROVE  Tidy((b \o c) \o y)
  <2>1. PICK v, w : v = c \o y /\ w = text \o v
    OBVIOUS
  <2>2. v \in Seq(Lines)
    BY <2>1, <1>3
  <2>3. w \in Seq(Lines) /\ Said(w) = text \o Said(v)
    BY ZenonT(60), <2>1, <2>2, <1>4, SaidPair
  <2>4. Said(y) \in Seq(Sayings) /\ Said(w) \in Seq(Sayings)
    BY <2>3, SaidType
  <2>5. TidyTo(c, Said(y))
    BY <2>4, <1>3, <1>11
  <2>6. Tidy(v)
    BY <2>1, <2>5, <1>3, <1>11, TidyConcat
  <2>7. Tidy(w)
    BY <2>1, <2>2, <2>6, <1>4, TidyConcat
  <2>8. Starting(Said(w), 6)
    BY <2>3, <1>10
  <2>9. TidyTo(a, Said(w))
    BY <2>4, <2>8, <1>2
  <2>10. Tidy(a \o w)
    BY <2>3, <2>7, <2>9, <1>2, TidyConcat
  <2>11. (b \o c) \o y = b \o v
    BY SMTT(40), <2>1, <1>3, <1>6, Associates
  <2>12. b \o v = a \o w
    <3>1. v \in Seq(Lines) /\ a \in Seq(Lines) /\ text \in Seq(Lines)
      BY <2>2, <1>2, <1>4
    <3>2. a \o (text \o v) = (a \o text) \o v
      BY SMTT(40), <3>1, Regroup
    <3> QED BY <3>2, <2>1, <1>5
  <2> QED BY <2>10, <2>11, <2>12
<1> QED BY <1>7, <1>8, <1>9, <1>11

LEMMA PutWrapped ==
  ASSUME NEW t, NEW a, NEW b, NEW x, NEW y, Cut(t, a, b, x, y), NEW text \in Seq(Sayings),
         text # <<>>, text[1].depth = 6, Open(x, 6), Starting(Said(y), 6), EndsAt(t, b, 6)
  PROVE  LET s == (x \o Wrapped(text)) \o y IN s \in Seq(Lines) /\ Tidy(s) /\ Nested(s)
<1>1. x \in Seq(Lines) /\ y \in Seq(Lines) /\ Nested(x) /\ Tidy(y)
  BY CutIs
<1>2. PICK u : u = Wrapped(text)
  OBVIOUS
<1>3. /\ u \in Seq(Lines) /\ Said(u) = text /\ Nested(u)
      /\ Tidy(u \o y)
  BY <1>1, <1>2, WrappedIs
<1>4. PICK v : v = u \o y
  OBVIOUS
<1>5. v \in Seq(Lines) /\ Said(v) = text \o Said(y)
  BY <1>1, <1>3, <1>4, SaidPair
<1>6. Starting(Said(v), 6)
  <2>1. (text \o Said(y))[1] = text[1]
    <3>1. Said(y) \in Seq(Sayings)
      BY <1>1, SaidType
    <3> QED BY <3>1, Joined
  <2> QED BY <2>1, <1>5 DEF Starting
<1>7. PICK old : old \in Seq(Lines) /\ Tidy(x \o old)
  BY CutIs
<1>8. Tidy(x \o v)
  <2>1. Tidy(v)
    BY <1>3, <1>4
  <2> QED BY <2>1, <1>1, <1>5, <1>6, <1>7, TidySplice
<1>9. x \o v = (x \o u) \o y
  <2>1. x \o (u \o y) = (x \o u) \o y
    BY SMTT(40), <1>1, <1>3, Regroup
  <2> QED BY <2>1, <1>4
<1>10. x \o u \in Seq(Lines) /\ (x \o u) \o y \in Seq(Lines)
  BY <1>1, <1>3
<1>11. Nested(y)
  <2>1. PICK z : NestedTo(z, y)
    BY CutIs
  <2>2. y = <<>> \/ ~Deep(y[1])
    <3>1. b = Len(t) + 1 => y = <<>>
      BY CutIs
    <3>2. b # Len(t) + 1 => y[1] = t[b]
      BY CutIs
    <3>3. b # Len(t) + 1 => t[b] \in Lines /\ t[b].depth <= 6
      <4>1. t \in Seq(Lines) /\ a \in 1..Len(t) + 1 /\ b \in a..Len(t) + 1
        BY DEF Cut
      <4>2. b # Len(t) + 1 => b \in 1..Len(t)
        BY <4>1
      <4>3. b # Len(t) + 1 => t[b] \in Lines
        BY <4>1, <4>2
      <4>4. b # Len(t) + 1 => t[b].depth <= 6
        BY DEF EndsAt, Bars
      <4> QED BY <4>3, <4>4
    <3>4. b # Len(t) + 1 => t[b].depth \in Nat
      BY <3>3, LineDepth
    <3>5. b # Len(t) + 1 => ~Deep(t[b])
      <4> SUFFICES ASSUME b # Len(t) + 1, Deep(t[b]) PROVE FALSE
        OBVIOUS
      <4>1. t \in Seq(Lines) /\ Nested(t) /\ b \in DOMAIN t
        BY SMTT(40) DEF Cut
      <4>2. t[b].key # "#:"
        BY <4>1 DEF Nested, Significant
      <4>3. t[b].depth \in Nat /\ t[b].depth <= 6
        BY <3>3, <3>4
      <4> QED BY <4>2, <4>3 DEF Deep
    <3> QED BY <3>1, <3>2, <3>5
  <2> QED BY <2>1, <2>2, <1>1, NestedAlone
<1>12. Nested(x \o u)
  <2>1. NestedTo(x, u)
    BY <1>3, NestedAlone
  <2> QED BY <2>1, <1>1, <1>3, NestedConcat
<1>13. Nested((x \o u) \o y)
  <2>1. NestedTo(x \o u, y)
    BY <1>1, <1>11, NestedAlone
  <2> QED BY <2>1, <1>1, <1>10, <1>12, NestedConcat
<1> QED BY <1>2, <1>8, <1>9, <1>10, <1>13

\* The remarks that end a text's first lines are as deep as the line that they
\* stand before, when that says something.
LEMMA OpenBefore ==
  ASSUME NEW t, NEW a, NEW b, NEW x, NEW y, Cut(t, a, b, x, y), a \in DOMAIN t, Significant(t[a])
  PROVE  Open(x, t[a].depth)
<1>1. t \in Seq(Lines) /\ Tidy(t) /\ Nested(t) /\ a \in 1..Len(t) + 1 /\ x = SubSeq(t, 1, a - 1)
  BY DEF Cut
<1>2. PICK z : z = SubSeq(t, a, Len(t))
  OBVIOUS
<1>3. CutAt(t, a, x, z)
  BY <1>1, <1>2 DEF CutAt
<1>4. x \in Seq(Lines) /\ z \in Seq(Lines) /\ TidyTo(x, Said(z))
  BY <1>3, SpliceAt
<1>5. Rank(t, a) \in DOMAIN Said(t) /\ Said(t)[Rank(t, a)] = t[a]
  BY <1>1, RankNext
<1>6. Said(t) \in Seq(Sayings) /\ Said(z) \in Seq(Sayings)
  BY <1>1, <1>4, SaidType
<1>7. Rank(t, a) # Len(Said(t)) + 1
  <2>1. Rank(t, a) <= Len(Said(t)) /\ Rank(t, a) \in Nat /\ Len(Said(t)) \in Nat
    BY <1>5, <1>6, Places
  <2> QED BY <2>1
<1>8. Said(z) # <<>> /\ Said(z)[1] = Said(t)[Rank(t, a)]
  BY <1>1, <1>2, <1>7, SaidFrom
<1> QED BY <1>4, <1>5, <1>6, <1>8, OpenFrom

\* What t says is P, then Q, which its lines from a up to b say, then R.
Parts(t, a, b, P, Q, R) ==
  /\ {P, Q, R} \subseteq Seq(Sayings) /\ Said(t) = (P \o Q) \o R
  /\ Rank(t, a) = Len(P) + 1 /\ Rank(t, b) = Len(P) + Len(Q) + 1

LEMMA ThreeCut ==
  ASSUME NEW T, NEW S, NEW P \in Seq(T), NEW Q \in Seq(T), NEW R \in Seq(T), S = (P \o Q) \o R
  PROVE  /\ SubSeq(S, 1, Len(P)) = P
         /\ SubSeq(S, Len(P) + Len(Q) + 1, Len(S)) = R
<1>1. /\ SubSeq(S, Len(P) + Len(Q) + 1, Len(P) + Len(Q) + Len(R)) = R
      /\ SubSeq(S, 1, Len(P)) = P
      /\ Len(S) = Len(P) + Len(Q) + Len(R)
  BY Middle
<1> QED BY <1>1

LEMMA SaidSplice ==
  ASSUME NEW t, NEW a, NEW b, NEW x, NEW y, Cut(t, a, b, x, y),
         NEW P, NEW Q, NEW R, Parts(t, a, b, P, Q, R), NEW u \in Seq(Lines)
  PROVE  /\ Said((x \o u) \o y) = (P \o Said(u)) \o R
         /\ Said(x) = P /\ Said(y) = R
<1>1. /\ t \in Seq(Lines) /\ a \in 1..Len(t) + 1 /\ b \in 1..Len(t) + 1 /\ a <= b
      /\ x = SubSeq(t, 1, a - 1) /\ y = SubSeq(t, b, Len(t))
  <2>1. t \in Seq(Lines) /\ a \in 1..Len(t) + 1 /\ b \in a..Len(t) + 1
    BY DEF Cut
  <2>2. b \in 1..Len(t) + 1 /\ a <= b
    BY <2>1
  <2> QED BY <2>1, <2>2 DEF Cut
<1>2. P \in Seq(Sayings) /\ Q \in Seq(Sayings) /\ R \in Seq(Sayings) /\ Said(t) = (P \o Q) \o R
  BY DEF Parts
<1>3. PICK m, n, S : m = Len(P) /\ n = Len(Q) /\ S = Said(t)
  OBVIOUS
<1>4. m \in Nat /\ n \in Nat
  BY <1>2, <1>3
<1>5. Rank(t, a) = m + 1 /\ Rank(t, b) = m + n + 1
  BY <1>3 DEF Parts
<1>6. Said(x) = SubSeq(S, 1, Rank(t, a) - 1) /\ Said(y) = SubSeq(S, Rank(t, b), Len(S))
  <2>1. Said(SubSeq(t, 1, a - 1)) = SubSeq(Said(t), 1, Rank(t, a) - 1)
    BY <1>1, Cuts
  <2>2. Said(SubSeq(t, b, Len(t))) = SubSeq(Said(t), Rank(t, b), Len(Said(t)))
    BY <1>1, Cuts
  <2> QED BY <2>1, <2>2, <1>1, <1>3
<1>7. Rank(t, a) - 1 = m
  BY <1>4, <1>5
<1>8. SubSeq(S, 1, m) = P /\ SubSeq(S, m + n + 1, Len(S)) = R
  <2>1. S = (P \o Q) \o R
    BY <1>2, <1>3
  <2>2. SubSeq(S, 1, Len(P)) = P
    BY <2>1, <1>2, ThreeCut
  <2>3. SubSeq(S, Len(P) + Len(Q) + 1, Len(S)) = R
    BY <2>1, <1>2, ThreeCut
  <2> QED BY <2>2, <2>3, <1>3
<1>9. Said(x) = P /\ Said(y) = R
  BY <1>5, <1>6, <1>7, <1>8
<1>10. x \in Seq(Lines) /\ y \in Seq(Lines)
  BY CutIs
<1>11. x \o u \in Seq(Lines) /\ Said(x \o u) = Said(x) \o Said(u)
  BY <1>10, SaidPair
<1>12. Said((x \o u) \o y) = Said(x \o u) \o Said(y)
  BY <1>10, <1>11, SaidPair
<1> QED BY <1>9, <1>11, <1>12

Joins(s, x, u, y) == s = (x \o u) \o y

LEMMA CutSplice ==
  ASSUME NEW t, NEW a, NEW l, NEW x, NEW y, Cut(t, a, l + 1, x, y), NEW u
  PROVE  Joins(Splice(t, a, l, u), x, u, y)
<1>1. x = SubSeq(t, 1, a - 1) /\ y = SubSeq(t, l + 1, Len(t))
  BY DEF Cut
<1> QED BY <1>1 DEF Splice, Joins

-----------------------------------------------------------------------------
(* What the text of a workflow's jobs becomes *)

\* What a file says whose workflow w has the jobs es.
Saying(G, w, es, Z) == ((G \o <<WLine(w), JLine>>) \o JobsText(es)) \o Z

LEMMA HeaderTyped ==
  ASSUME NEW w \in Words
  PROVE  <<WLine(w), JLine>> \in Seq(Sayings) /\ Len(<<WLine(w), JLine>>) = 2
<1>1. WLine(w) \in Sayings /\ JLine \in Sayings
  BY HeaderLines
<1> QED BY <1>1

LEMMA NestFour ==
  ASSUME NEW T, NEW g, NEW a, NEW e, NEW c, NEW z, Fives(T, g, a, e, c, z)
  PROVE  /\ (g \o ((a \o e) \o c)) \o z = ((g \o a) \o e) \o (c \o z)
         /\ g \o a \in Seq(T) /\ c \o z \in Seq(T)
<1>1. g \in Seq(T) /\ a \in Seq(T) /\ e \in Seq(T) /\ c \in Seq(T) /\ z \in Seq(T)
  BY DEF Fives
<1>2. g \o a \in Seq(T) /\ c \o z \in Seq(T) /\ a \o e \in Seq(T)
  BY <1>1
<1>3. g \o ((a \o e) \o c) = (g \o (a \o e)) \o c
  BY SMTT(40), <1>1, <1>2, Regroup
<1>4. g \o (a \o e) = (g \o a) \o e
  BY SMTT(40), <1>1, Regroup
<1>5. (g \o a) \o e \in Seq(T)
  BY <1>1, <1>2
<1>6. ((g \o a) \o e) \o (c \o z) = (((g \o a) \o e) \o c) \o z
  BY SMTT(40), <1>1, <1>5, Regroup
<1> QED BY <1>2, <1>3, <1>4, <1>6

LEMMA Nesting ==
  ASSUME NEW T, NEW g, NEW a, NEW e, NEW c, NEW z, Fives(T, g, a, e, c, z)
  PROVE  (g \o ((a \o e) \o c)) \o z = ((g \o a) \o e) \o (c \o z)
BY SMTT(40), NestFour

Upper(G, w, es, i) == (G \o <<WLine(w), JLine>>) \o JobsText(SubSeq(es, 1, i - 1))
Lower(es, i, Z) == JobsText(SubSeq(es, i + 1, Len(es))) \o Z

LEMMA PiecesTyped ==
  ASSUME NEW es \in Seq(Entry), NEW i \in DOMAIN es
  PROVE  /\ JobsText(SubSeq(es, 1, i - 1)) \in Seq(Sayings)
         /\ JobsText(SubSeq(es, i + 1, Len(es))) \in Seq(Sayings)
         /\ es[i] \in Entry /\ EntryText(es[i]) \in Seq(Sayings)
<1>1. SubSeq(es, 1, i - 1) \in Seq(Entry) /\ SubSeq(es, i + 1, Len(es)) \in Seq(Entry)
  BY Around
<1>2. JobsText(SubSeq(es, 1, i - 1)) \in Seq(Sayings)
  BY <1>1, JobsType
<1>3. JobsText(SubSeq(es, i + 1, Len(es))) \in Seq(Sayings)
  BY <1>1, JobsType
<1>4. es[i] \in Entry
  OBVIOUS
<1>5. EntryText(es[i]) \in Seq(Sayings)
  BY <1>4, EntrySayings
<1> QED BY <1>2, <1>3, <1>4, <1>5

LEMMA HeadTyped ==
  ASSUME NEW G \in Seq(Sayings), NEW w \in Words
  PROVE  G \o <<WLine(w), JLine>> \in Seq(Sayings) /\ Len(G \o <<WLine(w), JLine>>) = Len(G) + 2
<1>1. PICK h : h = <<WLine(w), JLine>>
  OBVIOUS
<1>2. h \in Seq(Sayings) /\ Len(h) = 2
  BY <1>1, HeaderTyped
<1>3. G \o h \in Seq(Sayings) /\ Len(G \o h) = Len(G) + 2
  BY SMTT(40), <1>2, ConcatAt
<1> QED BY <1>1, <1>3

Pieces(G, w, es, Z, g, a, E, c) ==
  /\ g = G \o <<WLine(w), JLine>> /\ Fives(Sayings, g, a, E, c, Z) /\ JobsText(es) = (a \o E) \o c

LEMMA SayingOf ==
  ASSUME NEW G, NEW w, NEW es, NEW Z, NEW g, NEW a, NEW E, NEW c, Pieces(G, w, es, Z, g, a, E, c)
  PROVE  Saying(G, w, es, Z) = ((g \o a) \o E) \o (c \o Z)
<1>1. Fives(Sayings, g, a, E, c, Z) /\ JobsText(es) = (a \o E) \o c /\ g = G \o <<WLine(w), JLine>>
  BY DEF Pieces
<1>3. Fives(Sayings, g, a, E, c, Z)
  BY DEF Pieces
<1>2. (g \o ((a \o E) \o c)) \o Z = ((g \o a) \o E) \o (c \o Z)
  BY <1>3, Nesting
<1> QED BY <1>1, <1>2 DEF Saying

Sides(G, w, es, Z, i) ==
  /\ w \in Words /\ es \in Seq(Entry) /\ G \in Seq(Sayings) /\ Z \in Seq(Sayings)
  /\ i \in DOMAIN es

Replaced(es, i, e, f) == f = [es EXCEPT ![i] = e]

LEMMA SidesAre ==
  ASSUME NEW G, NEW w, NEW es, NEW Z, NEW i, Sides(G, w, es, Z, i),
         NEW e \in Entry, NEW f, Replaced(es, i, e, f)
  PROVE  \E g, a, c : /\ Upper(G, w, es, i) = g \o a /\ Lower(es, i, Z) = c \o Z
                      /\ Pieces(G, w, es, Z, g, a, EntryText(es[i]), c)
                      /\ Pieces(G, w, f, Z, g, a, EntryText(e), c)
                      /\ Len(g) = Len(G) + 2 /\ Len(a) = Offset(es, i)
<1>1. PICK g, a, c : /\ g = G \o <<WLine(w), JLine>>
                     /\ a = JobsText(SubSeq(es, 1, i - 1)) /\ c = JobsText(SubSeq(es, i + 1, Len(es)))
  OBVIOUS
<1>2. w \in Words /\ es \in Seq(Entry) /\ i \in DOMAIN es
  BY DEF Sides
<1>3. G \in Seq(Sayings) /\ Z \in Seq(Sayings)
  BY DEF Sides
<1>4. g \in Seq(Sayings) /\ Len(g) = Len(G) + 2
  BY <1>1, <1>2, <1>3, HeadTyped
<1>5. a \in Seq(Sayings) /\ c \in Seq(Sayings) /\ EntryText(es[i]) \in Seq(Sayings)
  BY <1>1, <1>2, PiecesTyped
<1>6. EntryText(e) \in Seq(Sayings)
  BY EntrySayings
<1>7. JobsText(es) = (a \o EntryText(es[i])) \o c
  BY <1>1, <1>2, JobsAround
<1>8. JobsText(f) = (a \o EntryText(e)) \o c
  <2>1. JobsText([es EXCEPT ![i] = e]) = (a \o EntryText(e)) \o c
    BY <1>1, <1>2, JobsExcept
  <2> QED BY <2>1 DEF Replaced
<1>9. Fives(Sayings, g, a, EntryText(es[i]), c, Z) /\ Fives(Sayings, g, a, EntryText(e), c, Z)
  BY <1>3, <1>4, <1>5, <1>6 DEF Fives
<1>10. Upper(G, w, es, i) = g \o a /\ Lower(es, i, Z) = c \o Z
  BY <1>1 DEF Upper, Lower
<1>11. Len(a) = Offset(es, i)
  BY <1>1 DEF Offset
<1>12. Pieces(G, w, es, Z, g, a, EntryText(es[i]), c)
  BY <1>1, <1>7, <1>9 DEF Pieces
<1>13. Pieces(G, w, f, Z, g, a, EntryText(e), c)
  BY <1>1, <1>8, <1>9 DEF Pieces
<1> QED BY <1>4, <1>10, <1>11, <1>12, <1>13

LEMMA PiecesHave ==
  ASSUME NEW G, NEW w, NEW es, NEW Z, NEW g, NEW a, NEW E, NEW c, Pieces(G, w, es, Z, g, a, E, c)
  PROVE  /\ g \o a \in Seq(Sayings) /\ c \o Z \in Seq(Sayings)
         /\ Len(g \o a) = Len(g) + Len(a) /\ Len(g) \in Nat /\ Len(a) \in Nat
<1>1. Fives(Sayings, g, a, E, c, Z)
  BY DEF Pieces
<1>2. g \o a \in Seq(Sayings) /\ c \o Z \in Seq(Sayings)
  BY <1>1, NestFour
<1>3. g \in Seq(Sayings) /\ a \in Seq(Sayings)
  BY <1>1 DEF Fives
<1> QED BY <1>2, <1>3, ConcatAt

LEMMA SayingCut ==
  ASSUME NEW G, NEW w, NEW es, NEW Z, NEW i, Sides(G, w, es, Z, i)
  PROVE  /\ Upper(G, w, es, i) \in Seq(Sayings) /\ Lower(es, i, Z) \in Seq(Sayings)
         /\ Len(Upper(G, w, es, i)) = Len(G) + 2 + Offset(es, i)
<1>1. PICK e \in Entry : e = es[i]
  BY DEF Sides
<1>0. PICK f : Replaced(es, i, e, f)
  BY DEF Replaced
<1>2. PICK g, a, c : /\ Upper(G, w, es, i) = g \o a /\ Lower(es, i, Z) = c \o Z
                     /\ Pieces(G, w, es, Z, g, a, EntryText(es[i]), c)
                     /\ Pieces(G, w, f, Z, g, a, EntryText(e), c)
                     /\ Len(g) = Len(G) + 2 /\ Len(a) = Offset(es, i)
  BY <1>0, SidesAre
<1>3. Pieces(G, w, es, Z, g, a, EntryText(es[i]), c)
  BY <1>2
<1>4. g \o a \in Seq(Sayings) /\ c \o Z \in Seq(Sayings)
  BY <1>3, PiecesHave
<1>5. Len(g \o a) = Len(g) + Len(a)
  BY <1>3, PiecesHave
<1> QED BY <1>2, <1>4, <1>5

LEMMA SayingNow ==
  ASSUME NEW G, NEW w, NEW es, NEW Z, NEW i, Sides(G, w, es, Z, i)
  PROVE  Saying(G, w, es, Z) = (Upper(G, w, es, i) \o EntryText(es[i])) \o Lower(es, i, Z)
<1>1. PICK e \in Entry : e = es[i]
  BY DEF Sides
<1>0. PICK f : Replaced(es, i, e, f)
  BY DEF Replaced
<1>2. PICK g, a, c : /\ Upper(G, w, es, i) = g \o a /\ Lower(es, i, Z) = c \o Z
                     /\ Pieces(G, w, es, Z, g, a, EntryText(es[i]), c)
                     /\ Pieces(G, w, f, Z, g, a, EntryText(e), c)
                     /\ Len(g) = Len(G) + 2 /\ Len(a) = Offset(es, i)
  BY <1>0, SidesAre
<1>3. Pieces(G, w, es, Z, g, a, EntryText(es[i]), c)
  BY <1>2
<1>4. Saying(G, w, es, Z) = ((g \o a) \o EntryText(es[i])) \o (c \o Z)
  BY <1>3, SayingOf
<1>5. Upper(G, w, es, i) = g \o a /\ Lower(es, i, Z) = c \o Z
  BY <1>2
<1> QED BY <1>4, <1>5

LEMMA SayingThen ==
  ASSUME NEW G, NEW w, NEW es, NEW Z, NEW i, Sides(G, w, es, Z, i), NEW e \in Entry,
         NEW f, Replaced(es, i, e, f)
  PROVE  Saying(G, w, f, Z) = (Upper(G, w, es, i) \o EntryText(e)) \o Lower(es, i, Z)
<1>2. PICK g, a, c : /\ Upper(G, w, es, i) = g \o a /\ Lower(es, i, Z) = c \o Z
                     /\ Pieces(G, w, es, Z, g, a, EntryText(es[i]), c)
                     /\ Pieces(G, w, f, Z, g, a, EntryText(e), c)
                     /\ Len(g) = Len(G) + 2 /\ Len(a) = Offset(es, i)
  BY SidesAre
<1>3. Pieces(G, w, f, Z, g, a, EntryText(e), c)
  BY <1>2
<1>4. Saying(G, w, f, Z) = ((g \o a) \o EntryText(e)) \o (c \o Z)
  BY <1>3, SayingOf
<1>5. Upper(G, w, es, i) = g \o a /\ Lower(es, i, Z) = c \o Z
  BY <1>2
<1> QED BY <1>4, <1>5

LEMMA LaidHas ==
  ASSUME NEW t, NEW G, NEW w, NEW es, NEW Z, LaidOut(t, G, w, es, Z)
  PROVE  /\ t \in Seq(Lines) /\ Tidy(t) /\ w \in Words /\ es \in Seq(Entry)
         /\ G \in Seq(Sayings) /\ Z \in Seq(Sayings) /\ Said(t) = Saying(G, w, es, Z)
         /\ Z = <<>> \/ (Len(Z) # 0 /\ Z[1].depth = 2)
BY DEF LaidOut, Laid, Saying

LEMMA EntryParts ==
  ASSUME NEW t, NEW G, NEW w, NEW es, NEW Z, LaidOut(t, G, w, es, Z), NEW i \in 1..Len(es),
         NEW r, NEW z, Ranged(t, r, G, es, i, z)
  PROVE  Parts(t, r.first, r.last + 1, Upper(G, w, es, i), EntryText(es[i]), Lower(es, i, Z))
<1>1. /\ w \in Words /\ es \in Seq(Entry) /\ G \in Seq(Sayings) /\ Z \in Seq(Sayings)
      /\ Said(t) = Saying(G, w, es, Z)
  BY LaidHas
<1>2. i \in DOMAIN es
  BY <1>1
<1>3. /\ Upper(G, w, es, i) \in Seq(Sayings) /\ Lower(es, i, Z) \in Seq(Sayings)
      /\ Said(t) = (Upper(G, w, es, i) \o EntryText(es[i])) \o Lower(es, i, Z)
      /\ Len(Upper(G, w, es, i)) = Len(G) + 2 + Offset(es, i)
  <2>1. Sides(G, w, es, Z, i)
    BY <1>1, <1>2 DEF Sides
  <2>2. /\ Upper(G, w, es, i) \in Seq(Sayings) /\ Lower(es, i, Z) \in Seq(Sayings)
        /\ Len(Upper(G, w, es, i)) = Len(G) + 2 + Offset(es, i)
    BY <2>1, SayingCut
  <2>3. Saying(G, w, es, Z) = (Upper(G, w, es, i) \o EntryText(es[i])) \o Lower(es, i, Z)
    BY <2>1, SayingNow
  <2> QED BY <2>2, <2>3, <1>1
<1>4. EntryText(es[i]) \in Seq(Sayings) /\ Len(EntryText(es[i])) \in Nat
  <2>1. EntryText(es[i]) \in Seq(Sayings)
    BY <1>1, <1>2, PiecesTyped
  <2> QED BY <2>1
<1>5. Offset(es, i) \in Nat /\ Offset(es, i + 1) = Offset(es, i) + Len(EntryText(es[i]))
  BY <1>1, OffsetNext
<1>6. Rank(t, r.first) = Len(G) + 3 + Offset(es, i) /\ Rank(t, r.last + 1) = Len(G) + 3 + Offset(es, i + 1)
  BY DEF Ranged, Opener
<1>7. Len(G) \in Nat
  BY <1>1
<1>8. Rank(t, r.first) = Len(Upper(G, w, es, i)) + 1
  BY <1>3, <1>5, <1>6, <1>7
<1>9. Rank(t, r.last + 1) = Len(Upper(G, w, es, i)) + Len(EntryText(es[i])) + 1
  BY SMTT(40), <1>3, <1>4, <1>5, <1>6, <1>7
<1> QED BY <1>3, <1>4, <1>8, <1>9 DEF Parts

LEMMA AppendJobs ==
  ASSUME NEW es \in Seq(Entry), NEW g, g \in Seq(Sayings), NEW e \in Entry
  PROVE  g \o JobsText(Append(es, e)) = (g \o JobsText(es)) \o EntryText(e)
<1>1. Append(es, e) = es \o <<e>> /\ <<e>> \in Seq(Entry)
  OBVIOUS
<1>2. JobsText(Append(es, e)) = JobsText(es) \o EntryText(e)
  BY <1>1, JobsConcat, JobsOne
<1>3. JobsText(es) \in Seq(Sayings) /\ EntryText(e) \in Seq(Sayings)
  BY JobsType, EntrySayings
<1>4. g \o (JobsText(es) \o EntryText(e)) = (g \o JobsText(es)) \o EntryText(e)
  BY SMTT(40), <1>3, Regroup
<1> QED BY <1>2, <1>4

LEMMA EndParts ==
  ASSUME NEW t, NEW G, NEW w, NEW es, NEW Z, LaidOut(t, G, w, es, Z)
  PROVE  \E P : /\ Parts(t, JobsEnd(t, w), JobsEnd(t, w), P, <<>>, Z)
                /\ \A e \in Entry : Saying(G, w, Append(es, e), Z) = (P \o EntryText(e)) \o Z
<1>1. /\ w \in Words /\ es \in Seq(Entry) /\ G \in Seq(Sayings) /\ Z \in Seq(Sayings)
      /\ Said(t) = Saying(G, w, es, Z)
  BY LaidHas
<1>2. PICK g, J : g = G \o <<WLine(w), JLine>> /\ J = JobsText(es)
  OBVIOUS
<1>3. g \in Seq(Sayings) /\ Len(g) = Len(G) + 2 /\ Len(G) \in Nat
  BY <1>1, <1>2, HeadTyped
<1>4. J \in Seq(Sayings) /\ Len(J) \in Nat
  <2>1. J \in Seq(Sayings)
    BY <1>1, <1>2, JobsType
  <2> QED BY <2>1
<1>5. PICK P : P = g \o J
  OBVIOUS
<1>6. P \in Seq(Sayings) /\ Len(P) = Len(G) + 2 + Len(J)
  <2>1. g \o J \in Seq(Sayings) /\ Len(g \o J) = Len(g) + Len(J)
    BY <1>3, <1>4, ConcatAt
  <2> QED BY <2>1, <1>3, <1>5
<1>7. P \o <<>> = P /\ Len(<<>>) = 0 /\ <<>> \in Seq(Sayings)
  BY <1>6
<1>8. Said(t) = (P \o <<>>) \o Z
  BY <1>1, <1>2, <1>5, <1>7 DEF Saying
<1>9. Rank(t, JobsEnd(t, w)) = Len(G) + 3 + Len(J)
  <2>1. Laid(t, G, w, J, Z)
    BY <1>2 DEF LaidOut
  <2> QED BY <2>1, JobsEndIs
<1>10. Parts(t, JobsEnd(t, w), JobsEnd(t, w), P, <<>>, Z)
  <2>1. Rank(t, JobsEnd(t, w)) = Len(P) + 1 /\ Len(P) + Len(<<>>) + 1 = Len(P) + 1
    BY <1>3, <1>4, <1>6, <1>7, <1>9
  <2> QED BY <2>1, <1>1, <1>6, <1>7, <1>8 DEF Parts
<1>11. ASSUME NEW e \in Entry PROVE Saying(G, w, Append(es, e), Z) = (P \o EntryText(e)) \o Z
  <2>1. g \o JobsText(Append(es, e)) = (g \o JobsText(es)) \o EntryText(e)
    BY <1>1, <1>3, AppendJobs
  <2> QED BY <2>1, <1>2, <1>5 DEF Saying
<1> QED BY <1>10, <1>11

Refitted(c, w, es) == [c EXCEPT !.workflows[w] = es]

\* Entries that a content may hold.
Good(es) == es \in Seq(Entry) /\ \A i \in DOMAIN es : Sound(es[i]) /\ es[i].marked

LEMMA GoodIs ==
  ASSUME NEW c, Proper(c), NEW w \in DOMAIN c.workflows
  PROVE  Good(c.workflows[w])
BY ProperIs DEF Good

LEMMA RefittedHas ==
  ASSUME NEW c, Proper(c), NEW w \in DOMAIN c.workflows, NEW es, Good(es)
  PROVE  /\ Refitted(c, w, es).workflows = [c.workflows EXCEPT ![w] = es]
         /\ Refitted(c, w, es).pins = c.pins /\ Refitted(c, w, es).hasOrbs = c.hasOrbs
         /\ Proper(Refitted(c, w, es))
<1>1. PICK W \in SUBSET ToSet(Workflows) : c \in Content(W)
  BY DEF Proper
<1>2. /\ c = [pins |-> c.pins, hasOrbs |-> c.hasOrbs, workflows |-> c.workflows]
      /\ c.pins \in SUBSET Words /\ c.hasOrbs \in BOOLEAN /\ c.workflows \in [W -> Seq(Entry)]
  BY <1>1 DEF Content
<1>3. PICK f : f = [c.workflows EXCEPT ![w] = es]
  OBVIOUS
<1>4. Refitted(c, w, es) = [pins |-> c.pins, hasOrbs |-> c.hasOrbs, workflows |-> f]
  <2>1. PICK P, h, F : P = c.pins /\ h = c.hasOrbs /\ F = c.workflows
    OBVIOUS
  <2>2. c = [pins |-> P, hasOrbs |-> h, workflows |-> F]
    BY <2>1, <1>2
  <2>3. Refitted([pins |-> P, hasOrbs |-> h, workflows |-> F], w, es)
          = [pins |-> P, hasOrbs |-> h, workflows |-> [F EXCEPT ![w] = es]]
    BY DEF Refitted
  <2> QED BY <2>1, <2>2, <2>3, <1>3
<1>5. DOMAIN c.workflows = W /\ es \in Seq(Entry)
  BY <1>2 DEF Good
<1>6. f \in [W -> Seq(Entry)]
  BY <1>2, <1>3, <1>5
<1>7. Refitted(c, w, es) \in Content(W)
  BY <1>2, <1>4, <1>6 DEF Content
<1>8. IsWritable(c)
  BY DEF Proper
<1>9. IsWritable(Refitted(c, w, es))
  <2>1. c.pins # {} => c.hasOrbs
    BY <1>8 DEF IsWritable
  <2>2. ASSUME NEW v \in W, NEW e \in ToSet(f[v])
        PROVE  Sound(e) /\ e.marked
    <3>1. CASE v = w
      <4>1. f[v] = es
        BY <3>1, <1>2, <1>3, <1>5
      <4>2. e \in ToSet(es)
        BY <4>1
      <4>3. PICK i \in DOMAIN es : e = es[i]
        BY <4>2 DEF ToSet
      <4> QED BY <4>3 DEF Good
    <3>2. CASE v # w
      <4>1. f[v] = c.workflows[v]
        BY <3>2, <1>2, <1>3, <1>5
      <4>2. v \in DOMAIN c.workflows /\ e \in ToSet(c.workflows[v])
        BY <4>1, <1>5
      <4> QED BY <4>2, <1>8 DEF IsWritable, Sound
    <3> QED BY <3>1, <3>2
  <2>3. DOMAIN f = W
    BY <1>6
  <2> QED BY <2>1, <2>2, <2>3, <1>4 DEF IsWritable, Sound
<1>10. IsFiniteSet(c.pins)
  BY DEF Proper
<1> QED BY <1>3, <1>4, <1>7, <1>9, <1>10 DEF Proper

LEMMA FitsSays ==
  ASSUME NEW t, NEW c, NEW p, Fits(t, c, p), NEW w \in DOMAIN c.workflows
  PROVE  /\ t \in Seq(Lines) /\ Tidy(t) /\ Nested(t) /\ Proper(c) /\ w \in Words
         /\ Good(c.workflows[w]) /\ c.workflows[w] \in Seq(Entry)
         /\ Said(t) = Saying(Ahead(c, p, w), w, c.workflows[w], Below(c.workflows, w))
         /\ Ahead(c, p, w) \in Seq(Sayings) /\ Below(c.workflows, w) \in Seq(Sayings)
<1>1. t \in Seq(Lines) /\ Tidy(t) /\ Nested(t) /\ Proper(c)
  BY DEF Fits
<1>2. Good(c.workflows[w]) /\ c.workflows[w] \in Seq(Entry) /\ w \in Words
  BY <1>1, GoodIs, ProperIs DEF Good
<1>3. LaidOut(t, Ahead(c, p, w), w, c.workflows[w], Below(c.workflows, w))
  BY FitsLaid
<1>4. /\ Said(t) = Saying(Ahead(c, p, w), w, c.workflows[w], Below(c.workflows, w))
      /\ Ahead(c, p, w) \in Seq(Sayings) /\ Below(c.workflows, w) \in Seq(Sayings)
  BY <1>3, LaidHas
<1> QED BY <1>1, <1>2, <1>4

\* A text that says other jobs in a workflow, and everything else as before.
LEMMA Refit ==
  ASSUME NEW t, NEW c, NEW p, Fits(t, c, p), NEW w \in DOMAIN c.workflows, NEW es, Good(es),
         NEW s \in Seq(Lines), Tidy(s), Nested(s),
         Said(s) = Saying(Ahead(c, p, w), w, es, Below(c.workflows, w))
  PROVE  Fits(s, Refitted(c, w, es), p)
<1>1. Proper(c) /\ p \in Orders(c)
  BY DEF Fits
<1>2. PICK d : d = Refitted(c, w, es)
  OBVIOUS
<1>3. /\ d.workflows = [c.workflows EXCEPT ![w] = es] /\ d.pins = c.pins /\ d.hasOrbs = c.hasOrbs
      /\ Proper(d)
  BY <1>1, <1>2, RefittedHas
<1>4. Flows(c.workflows) /\ es \in Seq(Entry)
  BY <1>1, ProperIs DEF Good
<1>5. /\ DOMAIN d.workflows = DOMAIN c.workflows /\ d.workflows[w] = es
      /\ Above(d.workflows, w) = Above(c.workflows, w)
      /\ Below(d.workflows, w) = Below(c.workflows, w)
  BY <1>3, <1>4, FlowExcept
<1>6. Ahead(d, p, w) = Ahead(c, p, w)
  BY <1>3, <1>5 DEF Ahead
<1>7. p \in Orders(d)
  BY <1>1, <1>3 DEF Orders
<1>8. p \in Seq(Words)
  BY <1>1, OrderIs
<1>9. Written(d, p) = Saying(Ahead(d, p, w), w, d.workflows[w], Below(d.workflows, w))
  <2>1. w \in DOMAIN d.workflows
    BY <1>5
  <2> QED BY <2>1, <1>3, <1>8, WrittenIs DEF Saying
<1>10. Said(s) = Written(d, p)
  BY <1>5, <1>6, <1>9
<1> QED BY <1>2, <1>3, <1>7, <1>10 DEF Fits

LEMMA StartsAfter ==
  ASSUME NEW t \in Seq(Lines), Tidy(t), NEW b \in 1..Len(t) + 1, NEW d \in Nat, EndsAt(t, b, d)
  PROVE  Starting(Said(SubSeq(t, b, Len(t))), d)
<1>1. \/ Rank(t, b) = Len(Said(t)) + 1
      \/ Rank(t, b) \in DOMAIN Said(t) /\ Said(t)[Rank(t, b)].depth <= d
  BY StopRank
<1>2. /\ Said(SubSeq(t, b, Len(t))) = <<>> <=> Rank(t, b) = Len(Said(t)) + 1
      /\ Rank(t, b) # Len(Said(t)) + 1 =>
           Said(SubSeq(t, b, Len(t)))[1] = Said(t)[Rank(t, b)]
  BY SaidFrom
<1> QED BY <1>1, <1>2 DEF Starting

LEMMA EntryFirst ==
  ASSUME NEW e \in Entry
  PROVE  /\ EntryText(e) \in Seq(Sayings) /\ EntryText(e) # <<>>
         /\ EntryText(e)[1].depth = 6 /\ ~Deep(EntryText(e)[1])
         /\ Said(EntryText(e)) = EntryText(e) /\ EntryText(e) \in Seq(Lines)
         /\ Said(Wrapped(EntryText(e))) = EntryText(e) /\ Wrapped(EntryText(e)) \in Seq(Lines)
<1>1. /\ EntryText(e) \in Seq(Sayings) /\ Len(EntryText(e)) # 0
      /\ EntryText(e)[1] = JobLine(e.orbJob)
  BY EntryAt
<1>2. JobLine(e.orbJob).depth = 6
  BY EntryTyped, JobLineIs
<1>3. EntryText(e) # <<>> /\ EntryText(e)[1].depth = 6
  BY <1>1, <1>2
<1>4. ~Deep(EntryText(e)[1])
  <2>1. EntryText(e)[1] \in Sayings
    BY <1>1
  <2> QED BY <2>1, <1>3, NotDeep DEF Sayings
<1>5. Said(EntryText(e)) = EntryText(e) /\ EntryText(e) \in Seq(Lines)
  BY <1>1, SaidSelf
<1>6. Said(Wrapped(EntryText(e))) = EntryText(e) /\ Wrapped(EntryText(e)) \in Seq(Lines)
  BY <1>1, <1>3, WrappedIs
<1> QED BY <1>1, <1>3, <1>4, <1>5, <1>6

\* The text of an entry may be put in bare or in markers.
Dressed(u, e) == u = EntryText(e) \/ u = Wrapped(EntryText(e))

LEMMA PutEntry ==
  ASSUME NEW t, NEW a, NEW b, NEW x, NEW y, Cut(t, a, b, x, y), NEW e \in Entry,
         NEW u, Dressed(u, e), Open(x, 6), EndsAt(t, b, 6)
  PROVE  /\ (x \o u) \o y \in Seq(Lines) /\ Tidy((x \o u) \o y) /\ Nested((x \o u) \o y)
         /\ u \in Seq(Lines) /\ Said(u) = EntryText(e)
<1>1. /\ EntryText(e) \in Seq(Sayings) /\ EntryText(e) # <<>> /\ EntryText(e)[1].depth = 6
      /\ ~Deep(EntryText(e)[1])
  BY EntryFirst
<1>2. u \in Seq(Lines) /\ Said(u) = EntryText(e)
  BY EntryFirst DEF Dressed
<1>3. Starting(Said(y), 6)
  <2>1. t \in Seq(Lines) /\ Tidy(t) /\ a \in 1..Len(t) + 1 /\ b \in a..Len(t) + 1
        /\ y = SubSeq(t, b, Len(t))
    BY DEF Cut
  <2>2. b \in 1..Len(t) + 1
    BY <2>1
  <2> QED BY <2>1, <2>2, StartsAfter
<1>4. CASE u = EntryText(e)
  <2>1. Open(x, EntryText(e)[1].depth)
    BY <1>1
  <2> QED BY <2>1, <1>1, <1>2, <1>4, PutSays
<1>5. CASE u = Wrapped(EntryText(e))
  BY <1>1, <1>2, <1>3, <1>5, PutWrapped
<1> QED BY <1>4, <1>5 DEF Dressed

LEMMA GoodExcept ==
  ASSUME NEW es, Good(es), NEW i \in DOMAIN es, NEW e \in Entry, Sound(e), e.marked
  PROVE  Good([es EXCEPT ![i] = e]) /\ Good(Append(es, e))
<1>1. es \in Seq(Entry) /\ \A k \in DOMAIN es : Sound(es[k]) /\ es[k].marked
  BY DEF Good
<1>2. [es EXCEPT ![i] = e] \in Seq(Entry)
  BY <1>1, JobsExcept
<1>3. \A k \in DOMAIN es : [es EXCEPT ![i] = e][k] = IF k = i THEN e ELSE es[k]
  BY <1>1
<1>4. DOMAIN [es EXCEPT ![i] = e] = DOMAIN es
  OBVIOUS
<1>5. Good([es EXCEPT ![i] = e])
  BY <1>1, <1>2, <1>3, <1>4 DEF Good
<1>6. Append(es, e) \in Seq(Entry) /\ \A k \in DOMAIN Append(es, e) :
         Append(es, e)[k] = e \/ (k \in DOMAIN es /\ Append(es, e)[k] = es[k])
  BY <1>1
<1>7. Good(Append(es, e))
  BY <1>1, <1>6 DEF Good
<1> QED BY <1>5, <1>7

LEMMA GoodAppend ==
  ASSUME NEW es, Good(es), NEW e \in Entry, Sound(e), e.marked
  PROVE  Good(Append(es, e))
<1>1. es \in Seq(Entry) /\ \A k \in DOMAIN es : Sound(es[k]) /\ es[k].marked
  BY DEF Good
<1>2. Append(es, e) \in Seq(Entry) /\ \A k \in DOMAIN Append(es, e) :
         Append(es, e)[k] = e \/ (k \in DOMAIN es /\ Append(es, e)[k] = es[k])
  BY <1>1
<1> QED BY <1>1, <1>2 DEF Good

\* An entry that is replaced where it was read.
LEMMA RewriteFits ==
  ASSUME NEW t, NEW c, NEW p, Fits(t, c, p), NEW w \in DOMAIN c.workflows, NEW es,
         es = c.workflows[w], NEW i \in 1..Len(es), NEW r, NEW z, z <= Len(t) + 1, z \in Nat,
         Ranged(t, r, Ahead(c, p, w), es, i, z), NEW e \in Entry, Sound(e), e.marked,
         NEW u, Dressed(u, e)
  PROVE  Fits(Splice(t, r.first, r.last, u), Refitted(c, w, [es EXCEPT ![i] = e]), p)
<1>1. PICK G, Z : G = Ahead(c, p, w) /\ Z = Below(c.workflows, w)
  OBVIOUS
<1>2. /\ t \in Seq(Lines) /\ Tidy(t) /\ Nested(t) /\ w \in Words /\ Good(es) /\ es \in Seq(Entry)
      /\ G \in Seq(Sayings) /\ Z \in Seq(Sayings)
  BY <1>1, FitsSays
<1>3. LaidOut(t, G, w, es, Z)
  BY <1>1, FitsLaid
<1>4. /\ r.first \in Nat /\ r.last \in Nat /\ r.first <= r.last /\ r.last < z
      /\ r.first \in DOMAIN t /\ Significant(t[r.first]) /\ t[r.first] = JobLine(es[i].orbJob)
      /\ EndsAt(t, r.last + 1, 6)
  BY DEF Ranged, Opener
<1>5. Len(t) \in Nat /\ r.first \in 1..Len(t) + 1 /\ r.last + 1 \in r.first..Len(t) + 1
      /\ r.last + 1 - 1 = r.last
  BY SMTT(40), <1>2, <1>4
<1>6. PICK x, y : x = SubSeq(t, 1, r.first - 1) /\ y = SubSeq(t, r.last + 1, Len(t))
  OBVIOUS
<1>7. Cut(t, r.first, r.last + 1, x, y)
  BY <1>2, <1>5, <1>6 DEF Cut
<1>8. Parts(t, r.first, r.last + 1, Upper(G, w, es, i), EntryText(es[i]), Lower(es, i, Z))
  BY <1>1, <1>3, EntryParts
<1>9. es[i] \in Entry /\ i \in DOMAIN es
  BY <1>2
<1>10. t[r.first].depth = 6
  BY ZenonT(60), <1>4, <1>9, EntryTyped, JobLineIs
<1>11. Open(x, 6)
  BY <1>4, <1>7, <1>10, OpenBefore
<1>12. /\ (x \o u) \o y \in Seq(Lines) /\ Tidy((x \o u) \o y) /\ Nested((x \o u) \o y)
       /\ u \in Seq(Lines) /\ Said(u) = EntryText(e)
  BY <1>4, <1>7, <1>11, PutEntry
<1>13. Said((x \o u) \o y) = (Upper(G, w, es, i) \o EntryText(e)) \o Lower(es, i, Z)
  <2>1. PICK a, b, P, Q, R : /\ a = r.first /\ b = r.last + 1 /\ P = Upper(G, w, es, i)
                             /\ Q = EntryText(es[i]) /\ R = Lower(es, i, Z)
    OBVIOUS
  <2>2. Cut(t, a, b, x, y) /\ Parts(t, a, b, P, Q, R)
    BY <2>1, <1>7, <1>8
  <2>3. u \in Seq(Lines)
    BY <1>12
  <2>4. Said((x \o u) \o y) = (P \o Said(u)) \o R
    BY <2>2, <2>3, SaidSplice
  <2> QED BY <2>1, <2>4, <1>12
<1>14. Saying(G, w, [es EXCEPT ![i] = e], Z) = (Upper(G, w, es, i) \o EntryText(e)) \o Lower(es, i, Z)
  <2>1. Sides(G, w, es, Z, i)
    BY <1>2, <1>9 DEF Sides
  <2>2. PICK f : f = [es EXCEPT ![i] = e]
    OBVIOUS
  <2>4. Replaced(es, i, e, f)
    BY <2>2 DEF Replaced
  <2>3. Saying(G, w, f, Z) = (Upper(G, w, es, i) \o EntryText(e)) \o Lower(es, i, Z)
    BY <2>1, <2>4, SayingThen
  <2> QED BY <2>2, <2>3
<1>15. Good([es EXCEPT ![i] = e])
  BY <1>2, <1>9, GoodExcept
<1>16. Splice(t, r.first, r.last, u) = (x \o u) \o y
  <2>1. Joins(Splice(t, r.first, r.last, u), x, u, y)
    BY <1>7, CutSplice
  <2> QED BY <2>1 DEF Joins
<1> QED BY <1>1, <1>12, <1>13, <1>14, <1>15, <1>16, Refit

LEMMA NextDepth ==
  ASSUME NEW l \in Lines
  PROVE  (~(l.depth <= 4) => 6 <= l.depth) /\ (~(l.depth <= 0) => 2 <= l.depth)
<1>1. l.depth \in Depths
  BY LineDepth
<1>2. \A n \in Depths : (~(n <= 4) => 6 <= n) /\ (~(n <= 0) => 2 <= n)
  BY DEF Depths
<1> QED BY <1>1, <1>2

\* No remark of the lines that a scan at depth d went over is shallower than m.
Deeper(d, m) == \A l \in Lines : ~(l.depth <= d) => m <= l.depth

LEMMA OpenScan ==
  ASSUME NEW t, NEW a, NEW b, NEW x, NEW y, Cut(t, a, b, x, y), NEW s \in 1..a - 1,
         Significant(t[s]), NEW d, NEW m, Deeper(d, m), \A j \in s + 1..a - 1 : ~Bars(t[j], d)
  PROVE  Open(x, m)
<1>1. t \in Seq(Lines) /\ a \in 1..Len(t) + 1 /\ x = SubSeq(t, 1, a - 1)
  BY DEF Cut
<1>2. Len(t) \in Nat /\ a \in Nat /\ a - 1 \in Nat /\ 0 + (a - 1) <= Len(t) /\ a - 1 \in 0..Len(t)
      /\ 0 + 1 = 1 /\ 0 + (a - 1) = a - 1
  BY <1>1
<1>3. x \in Seq(Lines) /\ Len(x) = a - 1
  BY <1>1, <1>2, FirstOnes
<1>4. \A i \in 1..a - 1 : x[i] = t[i]
  <2>1. \A i \in 1..a - 1 : SubSeq(t, 0 + 1, 0 + (a - 1))[i] = t[0 + i]
    BY <1>1, <1>2, Slice
  <2>2. \A i \in 1..a - 1 : 0 + i = i
    BY <1>2
  <2> QED BY <2>1, <2>2, <1>1, <1>2
<1>5. s \in DOMAIN x /\ Significant(x[s])
  BY <1>3, <1>4
<1>6. ASSUME NEW j \in s + 1..Len(x), Remark(x[j]) PROVE m <= x[j].depth
  <2>1. j \in s + 1..a - 1 /\ j \in 1..a - 1 /\ j \in 1..Len(t)
    BY <1>2, <1>3
  <2>2. x[j] = t[j] /\ t[j] \in Lines
    BY <2>1, <1>1, <1>4
  <2>3. ~(t[j].depth <= d)
    BY <2>1, <2>2, <1>6 DEF Bars, Remark
  <2> QED BY <2>2, <2>3 DEF Deeper
<1> QED BY <1>3, <1>5, <1>6, OpenAfter

LEMMA DeeperAre == Deeper(4, 6) /\ Deeper(0, 2)
BY NextDepth DEF Deeper

\* An entry that is put in at the end of a workflow's jobs.
LEMMA InsertFits ==
  ASSUME NEW t, NEW c, NEW p, Fits(t, c, p), NEW w \in DOMAIN c.workflows, NEW es,
         es = c.workflows[w], NEW e \in Entry, Sound(e), e.marked
  PROVE  Fits(Splice(t, JobsEnd(t, w), JobsEnd(t, w) - 1, Wrapped(EntryText(e))),
              Refitted(c, w, Append(es, e)), p)
<1>1. PICK G, Z, a, s : /\ G = Ahead(c, p, w) /\ Z = Below(c.workflows, w)
                        /\ a = JobsEnd(t, w) /\ s = JobsLine(t, w)
  OBVIOUS
<1>2. /\ t \in Seq(Lines) /\ Tidy(t) /\ Nested(t) /\ w \in Words /\ Good(es) /\ es \in Seq(Entry)
      /\ G \in Seq(Sayings) /\ Z \in Seq(Sayings)
  BY <1>1, FitsSays
<1>3. LaidOut(t, G, w, es, Z)
  BY <1>1, FitsLaid
<1>4. Laid(t, G, w, JobsText(es), Z)
  BY <1>3 DEF LaidOut
<1>5. /\ a \in s + 1..Len(t) + 1 /\ EndsAt(t, a, 4) /\ \A j \in s + 1..a - 1 : ~Bars(t[j], 4)
  BY <1>1, <1>4, JobsEndIs
<1>6. s \in DOMAIN t /\ Significant(t[s])
  BY <1>1, <1>4, JobsLineIs
<1>7. /\ Len(t) \in Nat /\ s \in Nat /\ a \in Nat /\ a - 1 \in Nat /\ a - 1 + 1 = a
      /\ a \in 1..Len(t) + 1 /\ a \in a..Len(t) + 1 /\ s \in 1..a - 1
  BY <1>2, <1>5, <1>6
<1>8. PICK x, y : x = SubSeq(t, 1, a - 1) /\ y = SubSeq(t, a, Len(t))
  OBVIOUS
<1>9. Cut(t, a, a, x, y)
  BY <1>2, <1>7, <1>8 DEF Cut
<1>10. Open(x, 6)
  BY <1>5, <1>6, <1>7, <1>9, DeeperAre, OpenScan
<1>11. EndsAt(t, a, 6)
  <2>1. a # Len(t) + 1 => a \in 1..Len(t)
    BY <1>7
  <2>2. a # Len(t) + 1 => t[a] \in Lines
    BY <2>1, <1>2
  <2>3. a # Len(t) + 1 => t[a].depth \in Nat
    BY <2>2, LineDepth
  <2>4. a # Len(t) + 1 => t[a].key # "" /\ t[a].depth <= 4
    BY <1>5 DEF EndsAt, Bars
  <2>5. a # Len(t) + 1 => t[a].depth <= 6
    <3>1. \A n \in Nat : n <= 4 => n <= 6
      OBVIOUS
    <3> QED BY <3>1, <2>3, <2>4
  <2>6. a # Len(t) + 1 => Bars(t[a], 6)
    BY <2>4, <2>5 DEF Bars
  <2> QED BY <2>6 DEF EndsAt
<1>12. PICK u : u = Wrapped(EntryText(e))
  OBVIOUS
<1>13. /\ (x \o u) \o y \in Seq(Lines) /\ Tidy((x \o u) \o y) /\ Nested((x \o u) \o y)
       /\ u \in Seq(Lines) /\ Said(u) = EntryText(e)
  <2>1. Dressed(u, e)
    BY <1>12 DEF Dressed
  <2> QED BY <2>1, <1>9, <1>10, <1>11, PutEntry
<1>14. PICK P : /\ Parts(t, a, a, P, <<>>, Z)
                /\ \A f \in Entry : Saying(G, w, Append(es, f), Z) = (P \o EntryText(f)) \o Z
  BY SMTT(40), <1>1, <1>3, EndParts
<1>15. Said((x \o u) \o y) = Saying(G, w, Append(es, e), Z)
  <2>2. Parts(t, a, a, P, <<>>, Z) /\ u \in Seq(Lines)
    BY <1>13, <1>14
  <2>1. Said((x \o u) \o y) = (P \o Said(u)) \o Z
    BY <2>2, <1>9, SaidSplice
  <2> QED BY <2>1, <1>13, <1>14
<1>16. Good(Append(es, e))
  BY <1>2, GoodAppend
<1>17. Fits((x \o u) \o y, Refitted(c, w, Append(es, e)), p)
  BY <1>1, <1>13, <1>15, <1>16, Refit
<1>18. Splice(t, a, a - 1, u) = (x \o u) \o y
  <2>1. Cut(t, a, a - 1 + 1, x, y)
    BY <1>7, <1>9
  <2>2. Joins(Splice(t, a, a - 1, u), x, u, y)
    BY <2>1, CutSplice
  <2> QED BY <2>2 DEF Joins
<1> QED BY <1>1, <1>12, <1>17, <1>18

=============================================================================
