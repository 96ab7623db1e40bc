---------------------------- MODULE WireTextProofs ----------------------------
(***************************************************************************)
(* Whatever a CircleCI file says, a run of wire-ci makes of its text what  *)
(* the rules of WireJobs make of what it says: pins, entries, the names    *)
(* appended to their requires, a whole run, and the jobs it discovers.     *)
(* TextInv is the invariant: the text Fits the content.  NotesInv adds     *)
(* what became of each entry of the file as it was before the run, which   *)
(* is what the notes of the run are to tell.                               *)
(***************************************************************************)
EXTENDS WireTextLemmas

Inward == {l \in Sayings : l.depth # 0}

LEMMA SeqWithin ==
  ASSUME NEW A, NEW B, A \subseteq B, NEW s \in Seq(A)
  PROVE  s \in Seq(B)
OBVIOUS

LEMMA FlowsInward ==
  ASSUME NEW wf, Flows(wf)
  PROVE  WorkflowsText(wf) \in Seq(Inward)
<1>1. ASSUME NEW w \in Words, NEW es \in Seq(Entry)
      PROVE  WorkflowText(w, es) \in Seq(Inward)
  <2>1. PICK a, b : a = <<WLine(w), JLine>> /\ b = JobsText(es)
    OBVIOUS
  <2>2. WLine(w) \in Inward /\ JLine \in Inward
    BY HeaderLines DEF Inward
  <2>3. a \in Seq(Inward)
    BY <2>1, <2>2
  <2>4. {l \in Sayings : l.depth \in {6, 10, 12, 16, 18}} \subseteq Inward
    BY DEF Inward
  <2>5. b \in Seq(Inward)
    <3>1. b \in Seq({l \in Sayings : l.depth \in {6, 10, 12, 16, 18}})
      BY <2>1, JobsInside
    <3> QED BY <3>1, <2>4, SeqWithin
  <2>6. a \o b \in Seq(Inward)
    BY <2>3, <2>5
  <2> QED BY <2>1, <2>6, WorkflowHas
<1>2. <<>> \in Seq(Inward)
  OBVIOUS
<1>3. ASSUME NEW w \in Words
      PROVE  If(w \in DOMAIN wf, WorkflowText(w, wf[w])) \in Seq(Inward)
  <2>1. w \in DOMAIN wf => wf[w] \in Seq(Entry)
    BY DEF Flows
  <2> QED BY <2>1, <1>1, <1>2 DEF If
<1>4. Maps(FlowText(wf), Words, Inward)
  <2> DEFINE V == Seq(Inward)
  <2>1. \A w \in Words : If(w \in DOMAIN wf, WorkflowText(w, wf[w])) \in V
    BY <1>3
  <2> HIDE DEF V
  <2>2. FlowText(wf) \in [Words -> V]
    BY <2>1 DEF FlowText
  <2> QED BY <2>2 DEF V, Maps
<1>5. Workflows \in Seq(Words)
  BY TextAssumption
<1>6. Through(FlowText(wf), Workflows) \in Seq(Inward)
  BY <1>4, <1>5, ThroughType
<1> QED BY <1>6, FlowsIs

\* What a file says: its orbs, the line over its workflows, and these.
LEMMA WrittenParts ==
  ASSUME NEW c, Proper(c), NEW p \in Seq(Words)
  PROVE  \E O, W : /\ O = OrbsText(c.hasOrbs, p) /\ W = WorkflowsText(c.workflows)
                   /\ O \in Seq(Sayings) /\ W \in Seq(Inward) /\ W \in Seq(Sayings)
                   /\ Written(c, p) = (O \o <<TopLine>>) \o W
<1>1. PICK O, W : O = OrbsText(c.hasOrbs, p) /\ W = WorkflowsText(c.workflows)
  OBVIOUS
<1>2. O \in Seq(Sayings)
  BY <1>1, ProperIs, OrbsAre
<1>3. W \in Seq(Inward)
  BY <1>1, ProperIs, FlowsInward
<1>4. Inward \subseteq Sayings
  BY DEF Inward
<1>5. W \in Seq(Sayings)
  BY <1>3, <1>4, SeqWithin
<1>6. Written(c, p) = (O \o <<TopLine>>) \o W
  BY <1>1 DEF Written, TopLine
<1> QED BY <1>1, <1>2, <1>3, <1>5, <1>6

\* What is said at each place, when the file has orbs.
LEMMA OrbsSaid ==
  ASSUME NEW t, NEW c, NEW p, Fits(t, c, p), c.hasOrbs
  PROVE  /\ p \in Seq(Words) /\ Len(p) \in Nat
         /\ Said(t) \in Seq(Sayings) /\ Len(Said(t)) >= Len(p) + 2 /\ Said(t)[1] = OrbsLine
         /\ \A i \in 1..Len(p) : Said(t)[1 + i] = Line(2, "pin:", <<p[i]>>)
         /\ Said(t)[Len(p) + 2] = TopLine
<1>1. Proper(c) /\ p \in Seq(Words) /\ t \in Seq(Lines) /\ Said(t) = Written(c, p)
  BY OrderIs DEF Fits
<1>2. PICK O, W, E : /\ O = OrbsText(c.hasOrbs, p) /\ W \in Seq(Sayings)
                     /\ Said(t) = (O \o <<TopLine>>) \o W /\ E = Each(2, "pin:", p)
  BY <1>1, WrittenParts
<1>3. /\ O = <<OrbsLine>> \o E /\ E \in Seq(Sayings) /\ Len(E) = Len(p)
      /\ \A i \in 1..Len(p) : E[i] = Line(2, "pin:", <<p[i]>>)
  BY <1>1, <1>2, OrbsAre, ProperIs
<1>4. OrbsLine \in Sayings /\ TopLine \in Sayings
  BY OrbLines
<1>5. PICK n : n = Len(p)
  OBVIOUS
<1>6. n \in Nat
  BY <1>1, <1>5
<1>7. /\ O \in Seq(Sayings) /\ Len(O) = 1 + Len(E) /\ O[1] = OrbsLine
      /\ \A i \in 1..Len(E) : O[1 + i] = E[i]
  BY <1>3, <1>4, ConsIs
<1>8. PICK S : S = Said(t)
  OBVIOUS
<1>9. /\ S \in Seq(Sayings) /\ Len(S) = Len(O) + 1 + Len(W) /\ Len(W) \in Nat
      /\ \A y \in 1..Len(O) : S[y] = O[y]
      /\ S[Len(O) + 1] = TopLine
  <2>1. O \in Seq(Sayings) /\ W \in Seq(Sayings)
    BY <1>2, <1>7
  <2>2. S = (O \o <<TopLine>>) \o W
    BY <1>2, <1>8
  <2>3. TopLine \in Sayings
    BY <1>4
  <2> QED BY <2>1, <2>2, <2>3, ThreeParts
<1>10. Len(O) = 1 + n /\ 1 \in 1..1 + n /\ 1 + n + 1 = n + 2
  BY <1>3, <1>5, <1>6, <1>7
<1>11. Len(S) >= n + 2
  BY <1>6, <1>9, <1>10
<1>12. S[1] = OrbsLine
  BY <1>7, <1>9, <1>10
<1>13. \A i \in 1..n : S[1 + i] = Line(2, "pin:", <<p[i]>>)
  <2> SUFFICES ASSUME NEW i \in 1..n PROVE S[1 + i] = Line(2, "pin:", <<p[i]>>)
    OBVIOUS
  <2>1. 1 + i \in 1..1 + n /\ i \in 1..Len(E) /\ i \in 1..Len(p)
    BY <1>3, <1>5, <1>6
  <2> QED BY <2>1, <1>3, <1>7, <1>9, <1>10
<1>14. S[n + 2] = TopLine
  BY <1>9, <1>10
<1> QED BY <1>1, <1>5, <1>6, <1>8, <1>9, <1>11, <1>12, <1>13, <1>14

LEMMA OrbsFound ==
  ASSUME NEW t, NEW c, NEW p, Fits(t, c, p), c.hasOrbs, NEW s, s = Section(t, "orbs:")
  PROVE  s \in DOMAIN t /\ Significant(t[s]) /\ Rank(t, s) = 1
<1> DEFINE L == {OrbsLine}
<1>1. t \in Seq(Lines)
  BY DEF Fits
<1>2. /\ Said(t) \in Seq(Sayings) /\ Len(Said(t)) >= Len(p) + 2 /\ Len(p) \in Nat
      /\ Said(t)[1] = OrbsLine
  BY OrbsSaid
<1>3. \A l \in Lines : l \in L => Significant(l)
  BY OrbLines DEF Sayings
<1>4. Said(t)[1] \in L /\ 1 \in DOMAIN Said(t)
  BY <1>2
<1>5. s = FirstIn(t, L)
  <2>1. Section(t, "orbs:") = FirstIn(t, {Line(0, "orbs:", <<>>)})
    BY <1>1, SectionIs
  <2> QED BY <2>1 DEF OrbsLine
<1> HIDE DEF L
<1>6. \/ FirstIn(Said(t), L) = 0 /\ \A i \in DOMAIN Said(t) : Said(t)[i] \notin L
      \/ /\ FirstIn(Said(t), L) \in DOMAIN Said(t)
         /\ \A i \in DOMAIN Said(t) : Said(t)[i] \in L => FirstIn(Said(t), L) <= i
  BY <1>2, FirstInIs
<1>7. FirstIn(Said(t), L) \in DOMAIN Said(t) /\ FirstIn(Said(t), L) <= 1
  BY <1>4, <1>6
<1>8. FirstIn(Said(t), L) = 1
  BY <1>2, <1>7
<1>9. \/ FirstIn(t, L) = 0 /\ FirstIn(Said(t), L) = 0
      \/ /\ FirstIn(t, L) \in DOMAIN t /\ Significant(t[FirstIn(t, L)])
         /\ Rank(t, FirstIn(t, L)) = FirstIn(Said(t), L)
  BY <1>1, <1>3, FirstSaid
<1> QED BY <1>5, <1>8, <1>9

LEMMA OrbsEnd ==
  ASSUME NEW t, NEW c, NEW p, Fits(t, c, p), c.hasOrbs, NEW s, s = Section(t, "orbs:"),
         NEW e, e = SectionEnd(t, "orbs:")
  PROVE  /\ e \in s + 1..Len(t) + 1 /\ Rank(t, e) = Len(p) + 2
         /\ \A j \in s + 1..e - 1 : ~Bars(t[j], 0)
<1>1. t \in Seq(Lines) /\ Tidy(t)
  BY DEF Fits
<1>2. s \in DOMAIN t /\ Significant(t[s]) /\ Rank(t, s) = 1
  BY OrbsFound
<1>3. /\ p \in Seq(Words) /\ Len(p) \in Nat
      /\ Said(t) \in Seq(Sayings) /\ Len(Said(t)) >= Len(p) + 2
      /\ \A i \in 1..Len(p) : Said(t)[1 + i] = Line(2, "pin:", <<p[i]>>)
      /\ Said(t)[Len(p) + 2] = TopLine
  BY OrbsSaid
<1>4. PICK k, lim : k = Len(p) + 2 /\ lim = Len(t) + 1
  OBVIOUS
<1>5. k \in Rank(t, s) + 1..Len(Said(t)) + 1
  BY <1>2, <1>3, <1>4
<1>6. lim \in s + 1..Len(t) + 1 /\ EndsAt(t, lim, 0) /\ 0 \in Nat
  BY <1>1, <1>2, <1>4 DEF EndsAt
<1>7. \A n \in Rank(t, s) + 1..k - 1 : Said(t)[n].depth > 0
  <2> SUFFICES ASSUME NEW n \in Rank(t, s) + 1..k - 1 PROVE Said(t)[n].depth > 0
    OBVIOUS
  <2>1. n - 1 \in 1..Len(p) /\ 1 + (n - 1) = n
    BY <1>2, <1>3, <1>4
  <2>2. Said(t)[n] = Line(2, "pin:", <<p[n - 1]>>)
    BY <2>1, <1>3
  <2>3. p[n - 1] \in Words
    BY <2>1, <1>3
  <2>4. Said(t)[n].depth = 2
    BY <2>2, <2>3, OrbLines
  <2> QED BY <2>4
<1>8. Said(t)[k].depth <= 0
  <2>1. Said(t)[k].depth = 0
    BY <1>3, <1>4, OrbLines
  <2> QED BY <2>1
<1>9. /\ BlockEnd(t, s, lim, 0) \in s + 1..lim
      /\ Rank(t, BlockEnd(t, s, lim, 0)) = k
      /\ \A j \in s + 1..BlockEnd(t, s, lim, 0) - 1 : ~Bars(t[j], 0)
  BY <1>1, <1>2, <1>5, <1>6, <1>7, <1>8, ScanIs
<1>10. e = BlockEnd(t, s, lim, 0)
  BY <1>4 DEF SectionEnd
<1> QED BY <1>4, <1>9, <1>10

LEMMA NoOrbs ==
  ASSUME NEW t, NEW c, NEW p, Fits(t, c, p), ~c.hasOrbs
  PROVE  Section(t, "orbs:") = 0
<1> DEFINE L == {OrbsLine}
<1>1. t \in Seq(Lines) /\ Proper(c) /\ p \in Seq(Words) /\ Said(t) = Written(c, p)
  BY OrderIs DEF Fits
<1>2. PICK O, W : /\ O = OrbsText(c.hasOrbs, p) /\ W \in Seq(Inward)
                  /\ Written(c, p) = (O \o <<TopLine>>) \o W
  BY <1>1, WrittenParts
<1>3. O = <<>>
  BY <1>1, <1>2, OrbsAre, ProperIs
<1>4. \A l \in Inward \cup {TopLine} : l # OrbsLine
  BY OrbLines DEF Inward
<1>5. Said(t) \in Seq(Inward \cup {TopLine})
  <2> DEFINE V == Inward \cup {TopLine}
  <2>1. <<TopLine>> \in Seq(V) /\ <<>> \in Seq(V)
    OBVIOUS
  <2>2. W \in Seq(V)
    BY <1>2, SeqWithin
  <2> HIDE DEF V
  <2>3. (<<>> \o <<TopLine>>) \o W \in Seq(V)
    BY <2>1, <2>2
  <2> QED BY <2>3, <1>1, <1>2, <1>3 DEF V
<1>6. \A i \in DOMAIN Said(t) : Said(t)[i] \notin L
  BY <1>4, <1>5
<1>7. \A l \in Lines : l \in L => Significant(l)
  BY OrbLines DEF Sayings
<1>8. Section(t, "orbs:") = FirstIn(t, L)
  <2>1. Section(t, "orbs:") = FirstIn(t, {Line(0, "orbs:", <<>>)})
    BY <1>1, SectionIs
  <2> QED BY <2>1 DEF OrbsLine
<1> HIDE DEF L
<1>9. \/ FirstIn(t, L) = 0
      \/ /\ FirstIn(Said(t), L) \in DOMAIN Said(t) /\ t[FirstIn(t, L)] \in L
         /\ Said(t)[FirstIn(Said(t), L)] = t[FirstIn(t, L)]
  BY <1>1, <1>7, FirstSaid
<1> QED BY <1>6, <1>8, <1>9

LEMMA PinLine ==
  ASSUME NEW x \in Words
  PROVE  Line(2, "pin:", <<x>>).value[1] = x /\ Line(2, "pin:", <<x>>).key = "pin:"
BY OrbLines DEF Line

\* The lines of the `orbs:` section that are pins hold what is pinned, each once.
LEMMA PinsFound ==
  ASSUME NEW t, NEW c, NEW p, Fits(t, c, p), c.hasOrbs, NEW s, s = Section(t, "orbs:"),
         NEW e, e = SectionEnd(t, "orbs:")
  PROVE  /\ \A j \in s + 1..e - 1 : t[j].key = "pin:" =>
              \E i \in DOMAIN p : t[j].value[1] = p[i]
         /\ \A i \in DOMAIN p : \E j \in s + 1..e - 1 : t[j].key = "pin:" /\ t[j].value[1] = p[i]
<1>1. t \in Seq(Lines)
  BY DEF Fits
<1>2. s \in DOMAIN t /\ Significant(t[s]) /\ Rank(t, s) = 1
  BY OrbsFound
<1>3. e \in s + 1..Len(t) + 1 /\ Rank(t, e) = Len(p) + 2
  BY OrbsEnd
<1>4. /\ p \in Seq(Words) /\ Len(p) \in Nat
      /\ Said(t) \in Seq(Sayings) /\ Len(Said(t)) >= Len(p) + 2
      /\ \A i \in 1..Len(p) : Said(t)[1 + i] = Line(2, "pin:", <<p[i]>>)
  BY OrbsSaid
<1>5. Len(t) \in Nat /\ s \in Nat /\ e \in Nat /\ e \in 1..Len(t) + 1 /\ DOMAIN p = 1..Len(p)
      /\ DOMAIN t = 1..Len(t) /\ s \in 1..Len(t)
  BY <1>1, <1>2, <1>3, <1>4
<1>6. ASSUME NEW j \in s + 1..e - 1, t[j].key = "pin:"
      PROVE  \E i \in DOMAIN p : t[j].value[1] = p[i]
  <2>1. j \in DOMAIN t /\ j \in 1..Len(t) + 1 /\ s < j /\ j < e
    BY <1>3, <1>5
  <2>2. Significant(t[j])
    BY <1>6 DEF Significant
  <2>3. Rank(t, s) < Rank(t, j)
    BY <2>1, <1>1, <1>2, RankLess
  <2>4. Rank(t, j) < Rank(t, e)
    BY <2>1, <2>2, <1>1, <1>5, RankLess
  <2>5. Rank(t, j) \in Nat /\ Said(t)[Rank(t, j)] = t[j]
    BY <2>1, <2>2, <1>1, RankNext, RankIs
  <2>6. PICK i : i = Rank(t, j) - 1
    OBVIOUS
  <2>7. i \in 1..Len(p) /\ 1 + i = Rank(t, j)
    BY <2>3, <2>4, <2>5, <2>6, <1>2, <1>3, <1>4
  <2>8. t[j] = Line(2, "pin:", <<p[i]>>) /\ p[i] \in Words
    BY SMTT(40), <2>5, <2>7, <1>4
  <2>9. t[j].value[1] = p[i]
    BY <2>8, PinLine
  <2> QED BY <2>7, <2>9, <1>5
<1>7. ASSUME NEW i \in DOMAIN p
      PROVE  \E j \in s + 1..e - 1 : t[j].key = "pin:" /\ t[j].value[1] = p[i]
  <2>1. PICK k : k = 1 + i
    OBVIOUS
  <2>2. k \in DOMAIN Said(t) /\ 1 < k /\ k < Len(p) + 2 /\ i \in 1..Len(p)
    BY <2>1, <1>4, <1>5
  <2>3. PICK b \in DOMAIN t : Significant(t[b]) /\ Rank(t, b) = k
    BY <2>2, <1>1, Spots
  <2>4. b \in 1..Len(t) + 1 /\ s \in 1..Len(t) + 1 /\ b \in Nat
    BY <1>5
  <2>5. s < b /\ b < e
    BY <2>2, <2>3, <2>4, <1>1, <1>2, <1>3, <1>5, RankOrder
  <2>6. t[b] = Said(t)[k]
    BY <2>3, <1>1, RankNext
  <2>7. t[b] = Line(2, "pin:", <<p[i]>>) /\ p[i] \in Words
    BY <2>1, <2>2, <2>6, <1>4
  <2>8. t[b].key = "pin:" /\ t[b].value[1] = p[i]
    BY <2>7, PinLine
  <2>9. b \in s + 1..e - 1
    BY <2>4, <2>5, <1>5
  <2> QED BY <2>8, <2>9
<1> QED BY <1>6, <1>7

\* The pins that are read are the ones that were written, in whatever order.
LEMMA PinsIs ==
  ASSUME NEW t, NEW c, NEW p, Fits(t, c, p)
  PROVE  Pins(t).hasOrbs = c.hasOrbs /\ Pins(t).pins = c.pins
<1>1. PICK s, e : s = Section(t, "orbs:") /\ e = SectionEnd(t, "orbs:")
  OBVIOUS
<1>2. /\ Pins(t).hasOrbs = (s # 0)
      /\ s = 0 => Pins(t).pins = {}
      /\ s # 0 => Pins(t).pins = {t[j].value[1] : j \in {k \in s + 1..e - 1 : t[k].key = "pin:"}}
  BY <1>1 DEF Pins
<1>3. Proper(c) /\ p \in Orders(c)
  BY DEF Fits
<1>4. c.hasOrbs \in BOOLEAN /\ p \in Seq(Words) /\ ToSet(p) = c.pins
  BY <1>3, ProperIs, OrderIs
<1>5. CASE ~c.hasOrbs
  <2>1. s = 0
    BY <1>1, <1>5, NoOrbs
  <2>2. c.pins = {}
    BY <1>3, <1>5 DEF Proper, IsWritable
  <2> QED BY <2>1, <2>2, <1>2, <1>4, <1>5
<1>6. CASE c.hasOrbs
  <2>1. s # 0
    <3>1. s \in DOMAIN t /\ t \in Seq(Lines)
      BY <1>1, <1>6, OrbsFound DEF Fits
    <3> QED BY <3>1
  <2>2. /\ \A j \in s + 1..e - 1 : t[j].key = "pin:" =>
              \E i \in DOMAIN p : t[j].value[1] = p[i]
       /\ \A i \in DOMAIN p : \E j \in s + 1..e - 1 : t[j].key = "pin:" /\ t[j].value[1] = p[i]
    BY <1>1, <1>6, PinsFound
  <2>3. ToSet(p) = {p[i] : i \in DOMAIN p}
    BY DEF ToSet
  <2>4. {t[j].value[1] : j \in {k \in s + 1..e - 1 : t[k].key = "pin:"}} = {p[i] : i \in DOMAIN p}
    <3> DEFINE K == {k \in s + 1..e - 1 : t[k].key = "pin:"}
    <3>1. \A j : j \in K <=> j \in s + 1..e - 1 /\ t[j].key = "pin:"
      OBVIOUS
    <3> HIDE DEF K
    <3>2. \A j \in K : \E i \in DOMAIN p : t[j].value[1] = p[i]
      BY <3>1, <2>2
    <3>3. \A i \in DOMAIN p : \E j \in K : t[j].value[1] = p[i]
      <4> TAKE i \in DOMAIN p
      <4>1. PICK j \in s + 1..e - 1 : t[j].key = "pin:" /\ t[j].value[1] = p[i]
        BY <2>2
      <4>2. j \in K
        BY <4>1, <3>1
      <4> QED BY <4>1, <4>2
    <3>4. {t[j].value[1] : j \in K} \subseteq {p[i] : i \in DOMAIN p}
      BY <3>2
    <3>5. {p[i] : i \in DOMAIN p} \subseteq {t[j].value[1] : j \in K}
      BY <3>3
    <3> QED BY <3>4, <3>5 DEF K
  <2>5. Pins(t).pins = c.pins
    BY <2>1, <2>3, <2>4, <1>2, <1>4
  <2> QED BY <2>1, <2>5, <1>2, <1>4, <1>6
<1> QED BY <1>4, <1>5, <1>6

PinOf(x) == Line(2, "pin:", <<x>>)

LEMMA EachAppend ==
  ASSUME NEW d \in Depths, NEW k \in KeyNames, NEW p \in Seq(Words), NEW x \in Words
  PROVE  Each(d, k, Append(p, x)) = Append(Each(d, k, p), Line(d, k, <<x>>))
<1>1. Append(p, x) \in Seq(Words) /\ Len(Append(p, x)) = Len(p) + 1 /\ Len(p) \in Nat
  OBVIOUS
<1>2. /\ Each(d, k, p) \in Seq(Lines) /\ Len(Each(d, k, p)) = Len(p)
      /\ \A i \in DOMAIN p : Each(d, k, p)[i] = Line(d, k, <<p[i]>>)
      /\ Each(d, k, Append(p, x)) \in Seq(Lines) /\ Len(Each(d, k, Append(p, x))) = Len(p) + 1
      /\ \A i \in DOMAIN Append(p, x) :
           Each(d, k, Append(p, x))[i] = Line(d, k, <<Append(p, x)[i]>>)
  BY <1>1, EachIs
<1>3. PICK a, b : a = Each(d, k, p) /\ b = Each(d, k, Append(p, x))
  OBVIOUS
<1>4. \A j \in 1..Len(a) : b[j] = a[j]
  <2> TAKE j \in 1..Len(a)
  <2>1. j \in DOMAIN p /\ j \in DOMAIN Append(p, x) /\ Append(p, x)[j] = p[j]
    BY <1>1, <1>2, <1>3
  <2> QED BY <2>1, <1>2, <1>3
<1>5. b[Len(a) + 1] = Line(d, k, <<x>>)
  <2>1. Len(p) + 1 \in DOMAIN Append(p, x) /\ Append(p, x)[Len(p) + 1] = x
    BY <1>1
  <2> QED BY <2>1, <1>2, <1>3
<1>6. Line(d, k, <<x>>) \in Lines
  BY LineOne
<1>7. b = Append(a, Line(d, k, <<x>>))
  BY <1>2, <1>3, <1>4, <1>5, <1>6, AppendOnto
<1> QED BY <1>3, <1>7

LEMMA EachPin ==
  ASSUME NEW p \in Seq(Words), NEW x \in Words
  PROVE  Each(2, "pin:", Append(p, x)) = Append(Each(2, "pin:", p), PinOf(x))
<1>1. PICK d, k : d = 2 /\ k = "pin:" /\ d \in Depths /\ k \in KeyNames
  BY DEF KeyNames, Depths
<1>2. Each(d, k, Append(p, x)) = Append(Each(d, k, p), Line(d, k, <<x>>))
  BY <1>1, EachAppend
<1> QED BY <1>1, <1>2 DEF PinOf

LEMMA OrbsGrow ==
  ASSUME NEW p \in Seq(Words), NEW x \in Words
  PROVE  /\ OrbsText(TRUE, Append(p, x)) = OrbsText(TRUE, p) \o <<PinOf(x)>>
         /\ OrbsText(TRUE, p) \in Seq(Sayings) /\ Len(OrbsText(TRUE, p)) = Len(p) + 1
<1>1. Append(p, x) \in Seq(Words)
  OBVIOUS
<1>2. OrbsText(TRUE, Append(p, x)) = <<OrbsLine>> \o Each(2, "pin:", Append(p, x))
  BY <1>1, OrbsAre
<1>3. OrbsText(TRUE, p) = <<OrbsLine>> \o Each(2, "pin:", p) /\ OrbsText(TRUE, p) \in Seq(Sayings)
  BY OrbsAre
<1>4. Each(2, "pin:", p) \in Seq(Sayings) /\ Len(Each(2, "pin:", p)) = Len(p)
  BY OrbsAre
<1>5. PinOf(x) \in Sayings /\ OrbsLine \in Sayings
  BY OrbLines DEF PinOf
<1>6. Each(2, "pin:", Append(p, x)) = Append(Each(2, "pin:", p), PinOf(x))
  BY EachPin
<1>7. PICK h, a : h = <<OrbsLine>> /\ a = Each(2, "pin:", p)
  OBVIOUS
<1>8. h \in Seq(Sayings) /\ a \in Seq(Sayings) /\ Len(h) = 1
  BY <1>4, <1>5, <1>7
<1>9. h \o Append(a, PinOf(x)) = Append(h \o a, PinOf(x))
  BY <1>5, <1>8, AppendLast
<1>10. Append(h \o a, PinOf(x)) = (h \o a) \o <<PinOf(x)>>
  <2>1. h \o a \in Seq(Sayings)
    BY <1>8
  <2> HIDE <1>7
  <2> QED BY <2>1, <1>5, AppendLast
<1>11. Len(h \o a) = Len(p) + 1
  BY <1>4, <1>7, <1>8
<1> QED BY <1>2, <1>3, <1>6, <1>7, <1>9, <1>10, <1>11

Pinned(c, x) == [c EXCEPT !.pins = @ \cup {x}]

LEMMA PinnedIs ==
  ASSUME NEW c, Proper(c), c.hasOrbs, NEW x \in Words
  PROVE  /\ Pinned(c, x).pins = c.pins \cup {x} /\ Pinned(c, x).hasOrbs = c.hasOrbs
         /\ Pinned(c, x).workflows = c.workflows /\ Proper(Pinned(c, x))
<1>1. PICK W \in SUBSET ToSet(Workflows) : c \in Content(W)
  BY DEF Proper
<1>2. PICK P, h, F : /\ c = [pins |-> P, hasOrbs |-> h, workflows |-> F]
                     /\ P \in SUBSET Words /\ h \in BOOLEAN /\ F \in [W -> Seq(Entry)]
  <2>1. /\ c = [pins |-> c.pins, hasOrbs |-> c.hasOrbs, workflows |-> c.workflows]
        /\ c.pins \in SUBSET Words /\ c.hasOrbs \in BOOLEAN /\ c.workflows \in [W -> Seq(Entry)]
    BY <1>1 DEF Content
  <2> QED BY <2>1
<1>3. Pinned(c, x) = [pins |-> P \cup {x}, hasOrbs |-> h, workflows |-> F]
  <2>1. Pinned([pins |-> P, hasOrbs |-> h, workflows |-> F], x)
          = [pins |-> P \cup {x}, hasOrbs |-> h, workflows |-> F]
    BY DEF Pinned
  <2> QED BY <2>1, <1>2
<1>4. P \cup {x} \in SUBSET Words
  BY <1>2
<1>5. Pinned(c, x) \in Content(W)
  <2>1. \A A, b, G : A \in SUBSET Words /\ b \in BOOLEAN /\ G \in [W -> Seq(Entry)]
                       => [pins |-> A, hasOrbs |-> b, workflows |-> G] \in Content(W)
    BY Zenon DEF Content
  <2>2. [pins |-> P \cup {x}, hasOrbs |-> h, workflows |-> F] \in Content(W)
    BY <2>1, <1>2, <1>4
  <2> QED BY <2>2, <1>3
<1>6. c.pins = P /\ c.hasOrbs = h /\ c.workflows = F
  BY <1>2
<1>7. /\ Pinned(c, x).pins = P \cup {x} /\ Pinned(c, x).hasOrbs = h
      /\ Pinned(c, x).workflows = F
  BY <1>3
<1>8. IsFiniteSet(P \cup {x})
  BY <1>6, FS_AddElement DEF Proper
<1>9. IsWritable(Pinned(c, x))
  BY <1>6, <1>7 DEF Proper, IsWritable
<1> QED BY <1>5, <1>6, <1>7, <1>8, <1>9 DEF Proper

LEMMA PinnedOrder ==
  ASSUME NEW c, Proper(c), c.hasOrbs, NEW x \in Words, x \notin c.pins, NEW p \in Orders(c)
  PROVE  Append(p, x) \in Orders(Pinned(c, x))
<1>1. PICK P, n : P = c.pins /\ n = Cardinality(P)
  OBVIOUS
<1>2. IsFiniteSet(P)
  BY <1>1 DEF Proper
<1>3. n \in Nat /\ Cardinality(P \cup {x}) = n + 1
  BY <1>1, <1>2, FS_CardinalityType, FS_AddElement
<1>4. p \in [1..n -> P] /\ ToSet(p) = P
  BY <1>1 DEF Orders
<1>5. p \in Seq(P) /\ Len(p) = n
  BY <1>3, <1>4
<1>6. PICK q : q = Append(p, x)
  OBVIOUS
<1>7. /\ q \in Seq(P \cup {x}) /\ Len(q) = n + 1 /\ q[n + 1] = x
      /\ \A i \in 1..n : q[i] = p[i]
  BY <1>5, <1>6
<1>8. q \in [1..n + 1 -> P \cup {x}]
  BY <1>3, <1>7
<1>9. ToSet(q) = P \cup {x}
  <2>1. ToSet(q) = {q[i] : i \in 1..n + 1}
    BY <1>8 DEF ToSet
  <2>2. P = {p[i] : i \in 1..n}
    BY <1>4 DEF ToSet
  <2>3. \A i \in 1..n + 1 : q[i] \in P \cup {x}
    BY <1>8
  <2>4. \A y \in P : \E i \in 1..n + 1 : q[i] = y
    BY <2>2, <1>3, <1>7
  <2>5. \E i \in 1..n + 1 : q[i] = x
    BY <1>3, <1>7
  <2> QED BY <2>1, <2>3, <2>4, <2>5
<1>10. Pinned(c, x).pins = P \cup {x}
  BY <1>1, PinnedIs
<1> QED BY <1>3, <1>6, <1>8, <1>9, <1>10 DEF Orders

\* What stands around the place where a pin is put in.
LEMMA PinParts ==
  ASSUME NEW t, NEW c, NEW p, Fits(t, c, p), c.hasOrbs, NEW a, a = SectionEnd(t, "orbs:")
  PROVE  \E O, R : /\ Parts(t, a, a, O, <<>>, R) /\ O = OrbsText(TRUE, p)
                   /\ R = <<TopLine>> \o WorkflowsText(c.workflows)
<1>1. Proper(c) /\ p \in Seq(Words) /\ Said(t) = Written(c, p)
  BY OrderIs DEF Fits
<1>2. PICK O, W : /\ O = OrbsText(c.hasOrbs, p) /\ W = WorkflowsText(c.workflows)
                  /\ O \in Seq(Sayings) /\ W \in Seq(Sayings)
                  /\ Written(c, p) = (O \o <<TopLine>>) \o W
  BY <1>1, WrittenParts
<1>3. c.hasOrbs = TRUE
  BY <1>1, ProperIs
<1>4. O = OrbsText(TRUE, p) /\ Len(O) = Len(p) + 1 /\ Len(p) \in Nat
  <2>1. O = OrbsText(TRUE, p)
    BY <1>2, <1>3
  <2>2. OrbsText(TRUE, p) = <<OrbsLine>> \o Each(2, "pin:", p) /\ OrbsLine \in Sayings
    BY <1>1, OrbsAre, OrbLines
  <2>3. Each(2, "pin:", p) \in Seq(Sayings) /\ Len(Each(2, "pin:", p)) = Len(p)
    BY <1>1, OrbsAre
  <2>4. PICK b : b = Each(2, "pin:", p)
    OBVIOUS
  <2>5. Len(<<OrbsLine>> \o b) = 1 + Len(b)
    BY <2>2, <2>3, <2>4, ConsIs
  <2>6. O = <<OrbsLine>> \o b
    BY <2>1, <2>2, <2>4
  <2>7. PICK n, m : n = Len(p) /\ m = Len(O)
    OBVIOUS
  <2>8. m = 1 + n
    BY <2>3, <2>4, <2>5, <2>6, <2>7
  <2>9. n \in Nat
    BY <2>7, <1>1
  <2>10. m = n + 1
    BY <2>8, <2>9
  <2> QED BY <2>1, <2>7, <2>9, <2>10
<1>5. <<TopLine>> \in Seq(Sayings)
  BY OrbLines
<1>6. PICK h : h = <<TopLine>> /\ h \in Seq(Sayings)
  BY <1>5
<1>7. h \o W \in Seq(Sayings) /\ (O \o h) \o W = O \o (h \o W)
  <2>1. h \o W \in Seq(Sayings)
    BY <1>2, <1>6
  <2>2. O \in Seq(Sayings) /\ h \in Seq(Sayings) /\ W \in Seq(Sayings)
    BY <1>2, <1>6
  <2>3. O \o (h \o W) = (O \o h) \o W
    BY <2>2, Associates
  <2> QED BY <2>1, <2>3
<1>8. O \o <<>> = O /\ <<>> \in Seq(Sayings) /\ Len(<<>>) = 0
  BY <1>2
<1>9. PICK R, E : R = h \o W /\ E = <<>>
  OBVIOUS
<1>10. Said(t) = (O \o E) \o R
  BY <1>1, <1>2, <1>6, <1>7, <1>8, <1>9
<1>11. Rank(t, a) = Len(p) + 2
  BY OrbsEnd
<1>12. Rank(t, a) = Len(O) + 1 /\ Rank(t, a) = Len(O) + Len(E) + 1
  <2>1. Len(E) = 0
    BY <1>8, <1>9
  <2>2. PICK n, m : n = Len(p) /\ m = Len(O)
    OBVIOUS
  <2>3. n \in Nat /\ m = n + 1
    BY <2>2, <1>4
  <2> QED BY <2>1, <2>2, <2>3, <1>11
<1>13. {O, E, R} \subseteq Seq(Sayings)
  BY <1>2, <1>7, <1>8, <1>9
<1>14. Parts(t, a, a, O, E, R)
  BY <1>10, <1>12, <1>13 DEF Parts
<1> QED BY <1>4, <1>14, <1>9, <1>6, <1>2

LEMMA PinFits ==
  ASSUME NEW t, NEW c, NEW p, Fits(t, c, p), c.hasOrbs, NEW x \in Words, x \notin c.pins,
         NEW a, a = SectionEnd(t, "orbs:")
  PROVE  Fits(Splice(t, a, a - 1, <<PinOf(x)>>), Pinned(c, x), Append(p, x))
<1>1. PICK s : s = Section(t, "orbs:")
  OBVIOUS
<1>2. t \in Seq(Lines) /\ Tidy(t) /\ Nested(t) /\ Proper(c) /\ p \in Orders(c) /\ p \in Seq(Words)
  BY OrderIs DEF Fits
<1>3. s \in DOMAIN t /\ Significant(t[s])
  BY <1>1, OrbsFound
<1>4. a \in s + 1..Len(t) + 1 /\ \A j \in s + 1..a - 1 : ~Bars(t[j], 0)
  BY <1>1, OrbsEnd
<1>5. /\ Len(t) \in Nat /\ s \in Nat /\ a \in Nat /\ a - 1 \in Nat /\ a - 1 + 1 = a
      /\ a \in 1..Len(t) + 1 /\ a \in a..Len(t) + 1 /\ s \in 1..a - 1
  BY <1>2, <1>3, <1>4
<1>6. PICK y, z : y = SubSeq(t, 1, a - 1) /\ z = SubSeq(t, a, Len(t))
  OBVIOUS
<1>7. Cut(t, a, a, y, z)
  BY <1>2, <1>5, <1>6 DEF Cut
<1>8. Open(y, 2)
  BY <1>3, <1>4, <1>5, <1>7, DeeperAre, OpenScan
<1>9. PICK u : u = <<PinOf(x)>>
  OBVIOUS
<1>10. u \in Seq(Sayings) /\ u # <<>> /\ u[1] = PinOf(x) /\ u[1].depth = 2
  <2>1. PinOf(x) \in Sayings /\ PinOf(x).depth = 2
    BY OrbLines DEF PinOf
  <2> QED BY <2>1, <1>9
<1>11. ~Deep(u[1]) /\ Open(y, u[1].depth)
  <2>1. u[1] \in Sayings
    BY <1>10
  <2> QED BY <2>1, <1>8, <1>10, NotDeep DEF Sayings
<1>12. PICK v : v = (y \o u) \o z
  OBVIOUS
<1>13. v \in Seq(Lines) /\ Tidy(v) /\ Nested(v)
  BY <1>7, <1>10, <1>11, <1>12, PutSays
<1>14. PICK O, R : /\ Parts(t, a, a, O, <<>>, R) /\ O = OrbsText(TRUE, p)
                   /\ R = <<TopLine>> \o WorkflowsText(c.workflows)
  BY PinParts
<1>15. u \in Seq(Lines) /\ Said(u) = u
  BY <1>10, SaidSelf
<1>16. Said(v) = (O \o u) \o R
  <2>2. Parts(t, a, a, O, <<>>, R) /\ u \in Seq(Lines)
    BY <1>14, <1>15
  <2>1. Said((y \o u) \o z) = (O \o Said(u)) \o R
    BY <2>2, <1>7, SaidSplice
  <2> QED BY <2>1, <1>12, <1>15
<1>17. PICK d, q : d = Pinned(c, x) /\ q = Append(p, x)
  OBVIOUS
<1>18. Proper(d) /\ d.hasOrbs = TRUE /\ d.workflows = c.workflows
  <2>1. c.hasOrbs = TRUE
    BY <1>2, ProperIs
  <2> QED BY <2>1, <1>2, <1>17, PinnedIs
<1>19. q \in Orders(d)
  BY <1>2, <1>17, PinnedOrder
<1>20. OrbsText(TRUE, q) = O \o u
  BY <1>2, <1>9, <1>14, <1>17, OrbsGrow
<1>21. Written(d, q) = (OrbsText(TRUE, q) \o <<TopLine>>) \o WorkflowsText(c.workflows)
  <2>1. q \in Seq(Words)
    BY <1>18, <1>19, OrderIs
  <2>2. Written(d, q) = (OrbsText(d.hasOrbs, q) \o <<TopLine>>) \o WorkflowsText(d.workflows)
    BY <2>1, <1>18, WrittenParts
  <2> QED BY <2>2, <1>18
<1>22. Said(v) = Written(d, q)
  <2>1. PICK h, W, Q : h = <<TopLine>> /\ W = WorkflowsText(c.workflows) /\ Q = O \o u
    OBVIOUS
  <2>2. W \in Seq(Sayings) /\ h \in Seq(Sayings)
    <3>1. W \in Seq(Sayings)
      BY <2>1, <1>2, ProperIs, FlowsIs
    <3>2. TopLine \in Sayings
      BY OrbLines
    <3> QED BY <3>1, <3>2, <2>1
  <2>3. Q \in Seq(Sayings)
    <3>1. O \in Seq(Sayings)
      BY <1>14 DEF Parts
    <3> QED BY <3>1, <2>1, <1>10
  <2>4. Q \o (h \o W) = (Q \o h) \o W
    BY <2>2, <2>3, Associates
  <2> QED BY <2>1, <2>4, <1>14, <1>16, <1>20, <1>21
<1>23. Fits(v, d, q)
  BY <1>13, <1>18, <1>19, <1>22 DEF Fits
<1>24. Splice(t, a, a - 1, u) = v
  <2>1. Cut(t, a, a - 1 + 1, y, z)
    BY <1>5, <1>7
  <2>2. Joins(Splice(t, a, a - 1, u), y, u, z)
    BY <2>1, CutSplice
  <2> QED BY <2>2, <1>12 DEF Joins
<1> QED BY <1>9, <1>17, <1>23, <1>24

\* The orb of a job is pinned unless it is.
LEMMA SetPinFits ==
  ASSUME NEW t, NEW c, NEW p, Fits(t, c, p), NEW x \in Words, x \in c.pins \/ c.hasOrbs
  PROVE  \E q : Fits(SetPin(t, x), Pinned(c, x), q)
<1>1. Pins(t).pins = c.pins
  BY PinsIs
<1>2. CASE x \in c.pins
  <2>1. SetPin(t, x) = t
    BY <1>1, <1>2 DEF SetPin
  <2>2. Pinned(c, x) = c
    <3>1. PICK W : c \in Content(W)
      BY DEF Fits, Proper
    <3>2. c = [pins |-> c.pins, hasOrbs |-> c.hasOrbs, workflows |-> c.workflows]
      BY <3>1 DEF Content
    <3>3. PICK P, h, F : P = c.pins /\ h = c.hasOrbs /\ F = c.workflows
      OBVIOUS
    <3>4. c = [pins |-> P, hasOrbs |-> h, workflows |-> F] /\ P \cup {x} = P
      BY <3>2, <3>3, <1>2
    <3>5. Pinned([pins |-> P, hasOrbs |-> h, workflows |-> F], x)
            = [pins |-> P \cup {x}, hasOrbs |-> h, workflows |-> F]
      BY DEF Pinned
    <3> QED BY <3>4, <3>5
  <2> QED BY <2>1, <2>2
<1>3. CASE x \notin c.pins
  <2>1. PICK a : a = SectionEnd(t, "orbs:")
    OBVIOUS
  <2>2. Fits(Splice(t, a, a - 1, <<PinOf(x)>>), Pinned(c, x), Append(p, x))
    BY <2>1, <1>3, PinFits
  <2>3. SetPin(t, x) = Splice(t, a, a - 1, <<PinOf(x)>>)
    BY <2>1, <1>1, <1>3 DEF SetPin, PinOf
  <2> QED BY <2>2, <2>3
<1> QED BY <1>2, <1>3

\* named_job_line: the first entry of a name, or none (wire_ci.rs:2187-2199).
LEMMA NamedIs ==
  ASSUME NEW E \in Seq(Entry), NEW t
  PROVE  \/ Named(E, t) = 0 /\ \A i \in DOMAIN E : EffectiveName(E[i]) # t
         \/ /\ Named(E, t) \in DOMAIN E /\ EffectiveName(E[Named(E, t)]) = t
            /\ \A i \in DOMAIN E : EffectiveName(E[i]) = t => Named(E, t) <= i
<1> DEFINE I == {i \in 1..Len(E) : EffectiveName(E[i]) = t}
<1>1. Named(E, t) = IF I # {} THEN Min(I) ELSE 0
  BY DEF Named, SelectInSeq
<1>2. I \subseteq Nat /\ DOMAIN E = 1..Len(E)
  OBVIOUS
<1>3. CASE I = {}
  BY <1>1, <1>2, <1>3
<1>4. CASE I # {}
  <2>1. Named(E, t) \in I /\ \A i \in I : Named(E, t) <= i
    <3> HIDE DEF I
    <3> QED BY <1>1, <1>2, <1>4, LeastOf
  <2> QED BY <2>1, <1>2
<1> QED BY <1>3, <1>4

\* A job always has a name to go by: job_name, or its orb job.
LEMMA NewNameTyped ==
  ASSUME NEW j \in Job PROVE NewName(j) \in Words /\ NewName(j) # NoName
BY TextAssumption DEF Job, NewName, NameOr, TextAssumption

\* Appending adds one element.
LEMMA AppendSet ==
  ASSUME NEW T, NEW s \in Seq(T), NEW x \in T
  PROVE  ToSet(Append(s, x)) = ToSet(s) \cup {x}
<1>1. DOMAIN Append(s, x) = 1..Len(s) + 1 /\ DOMAIN s = 1..Len(s)
  OBVIOUS
<1>2. \A i \in 1..Len(s) : Append(s, x)[i] = s[i]
  OBVIOUS
<1>3. Append(s, x)[Len(s) + 1] = x /\ Len(s) \in Nat
  OBVIOUS
<1>4. 1..Len(s) + 1 = (1..Len(s)) \cup {Len(s) + 1}
  BY <1>3
<1> QED BY <1>1, <1>2, <1>3, <1>4 DEF ToSet

\* Membership of a list is membership of its elements.
LEMMA ContainsIs ==
  ASSUME NEW T, NEW s \in Seq(T), NEW x PROVE Contains(s, x) <=> x \in ToSet(s)
BY DEF Contains, ToSet

\* The loop of Merged has a history, which is what its CHOOSE denotes.
LEMMA MergedUnfolds ==
  ASSUME NEW J \in Seq(Job), NEW j \in Job
  PROVE  \E f :
           /\ f = [n \in 0..Len(J) |-> IF n = 0 THEN j.requires ELSE Add(f[n - 1], J[n], j)]
           /\ Merged(j, J) = [j EXCEPT !.requires = f[Len(J)]]
<1> DEFINE V == Seq(Words)
           m == Len(J)
           G == [p \in (1..m) \X V |-> Add(p[2], J[p[1]], j)]
           IsIt(f) == f = [n \in 0..m |-> IF n = 0 THEN j.requires ELSE Add(f[n - 1], J[n], j)]
<1>1. j.requires \in V /\ m \in Nat
  BY DEF Job
<1>2. ASSUME NEW n \in 1..m, NEW x \in V PROVE G[<<n, x>>] \in V
  <2>1. J[n] \in Job /\ NewName(J[n]) \in Words
    BY NewNameTyped
  <2>2. G[<<n, x>>] = Add(x, J[n], j)
    OBVIOUS
  <2> QED BY <2>1, <2>2 DEF Add
<1>3. PICK f : Iterates(f, G, V, j.requires, m)
  <2>1. Steps(G, V, m)
    BY <1>2 DEF Steps
  <2> HIDE DEF V, G, m
  <2> QED BY <1>1, <2>1, Iteration
<1>4. IsIt(f)
  <2>1. ASSUME NEW n \in 1..m PROVE f[n] = Add(f[n - 1], J[n], j)
    <3>1. n - 1 \in 0..m
      BY <1>1
    <3>2. <<n, f[n - 1]>> \in (1..m) \X V
      <4> HIDE DEF V, m
      <4> QED BY <1>3, <3>1 DEF Iterates
    <3>3. G[<<n, f[n - 1]>>] = Add(f[n - 1], J[n], j)
      <4> HIDE DEF V, m
      <4> QED BY <3>2
    <3> QED BY <1>3, <3>3 DEF Iterates
  <2> QED BY <1>1, <1>3, <2>1 DEF Iterates
<1> DEFINE names == CHOOSE g : IsIt(g)
<1>5. IsIt(names)
  <2> HIDE DEF IsIt
  <2> QED BY <1>4
<1>6. Merged(j, J) = [j EXCEPT !.requires = names[Len(J)]]
  BY DEF Merged
<1> QED BY <1>5, <1>6

\* What a job is rendered with is a job, which differs in what it requires alone.
LEMMA MergedIs ==
  ASSUME NEW J \in Seq(Job), NEW j \in Job
  PROVE  /\ Merged(j, J) \in Job
         /\ Merged(j, J) = [j EXCEPT !.requires = Merged(j, J).requires]
<1>1. PICK f :
        /\ f = [n \in 0..Len(J) |-> IF n = 0 THEN j.requires ELSE Add(f[n - 1], J[n], j)]
        /\ Merged(j, J) = [j EXCEPT !.requires = f[Len(J)]]
  BY MergedUnfolds
<1> DEFINE S == {n \in 0..Len(J) : f[n] \in Seq(Words)}
<1>2. 0 \in S
  <2>1. f[0] = j.requires
    BY <1>1
  <2> QED BY <2>1 DEF Job
<1>3. ASSUME NEW n \in 0..Len(J), n \in S, n < Len(J) PROVE n + 1 \in S
  <2>0. n + 1 \in 0..Len(J)
    BY <1>3
  <2>1. f[n + 1] = Add(f[n], J[n + 1], j)
    BY <1>1, <1>3
  <2>2. f[n] \in Seq(Words)
    BY <1>3
  <2>3. J[n + 1] \in Job
    BY <1>3
  <2>4. NewName(J[n + 1]) \in Words
    BY <2>3, NewNameTyped
  <2>5. f[n + 1] \in Seq(Words)
    BY <2>1, <2>2, <2>4 DEF Add
  <2> QED BY <2>0, <2>5
<1>4. f[Len(J)] \in Seq(Words)
  <2> HIDE DEF S
  <2>1. Len(J) \in Nat
    OBVIOUS
  <2>2. 0..Len(J) \subseteq S
    BY <1>2, <1>3, <2>1, Counting
  <2>3. Len(J) \in S
    BY <2>1, <2>2
  <2> QED BY <2>3 DEF S
<1>5. PICK q : q = f[Len(J)]
  OBVIOUS
<1>6. [j EXCEPT !.requires = q] \in Job /\ [j EXCEPT !.requires = q].requires = q
  BY <1>4, <1>5 DEF Job
<1> QED BY <1>1, <1>5, <1>6

\* A rendered entry is sound, in markers and as typed.
LEMMA RenderIs ==
  ASSUME NEW m \in Job, NEW kept \in Words \cup {NoName}
  PROVE  /\ Render(m, kept) \in Entry /\ Sound(Render(m, kept)) /\ Render(m, kept).marked
         /\ Render(m, kept).orbJob = m.orbJob
         /\ Render(m, kept).name = IF m.jobName = NoName THEN kept ELSE m.jobName
<1>1. m.requires \in Seq(Words) /\ m.orbJob \in DOMAIN Orb /\ m.params \in Seq(Words)
      /\ m.extras \in Extras /\ m.jobName \in Words \cup {NoName} /\ m.extras.nested = <<>>
  BY DEF Job, Declarable
<1>2. Render(m, kept) \in Entry
  BY <1>1 DEF Render, Entry, Readable, Appendable
<1>3. /\ Render(m, kept).requires.form \in {"absent", "inline"}
      /\ Render(m, kept).requires.items = m.requires
      /\ Render(m, kept).requires.form = "absent" => m.requires = <<>>
      /\ Render(m, kept).marked = TRUE
      /\ Render(m, kept).orbJob = m.orbJob
      /\ Render(m, kept).name = IF m.jobName = NoName THEN kept ELSE m.jobName
      /\ Render(m, kept).extras = m.extras
  BY DEF Render
<1>4. Render(m, kept).extras.nested = <<>>
  BY <1>1, <1>3
<1> QED BY <1>2, <1>3, <1>4 DEF Sound

\* An entry whose requires gains a name.
Gained(e, x) == [e EXCEPT !.requires.items = Append(@, x)]

\* It changes in nothing else.
LEMMA GainedIs ==
  ASSUME NEW e \in Entry, NEW x \in Words
  PROVE  /\ Gained(e, x) \in Entry
         /\ Gained(e, x).orbJob = e.orbJob /\ Gained(e, x).name = e.name
         /\ Gained(e, x).requires.form = e.requires.form
         /\ Gained(e, x).requires.items = Append(e.requires.items, x)
         /\ Gained(e, x).requires = [form |-> e.requires.form, items |-> Append(e.requires.items, x)]
         /\ Gained(e, x).params = e.params /\ Gained(e, x).extras = e.extras
         /\ Gained(e, x).marked = e.marked
<1>1. /\ e.requires \in [form : Readable \cup {"odd"}, items : Seq(Words)]
      /\ e = [orbJob |-> e.orbJob, name |-> e.name, requires |-> e.requires,
              params |-> e.params, extras |-> e.extras, marked |-> e.marked]
  BY DEF Entry
<1>2. PICK r : r = e.requires
  OBVIOUS
<1>3. r = [form |-> r.form, items |-> r.items] /\ r.items \in Seq(Words)
  BY <1>1, <1>2
<1>4. PICK q : q = Append(r.items, x)
  OBVIOUS
<1>5. q \in Seq(Words)
  BY <1>3, <1>4
<1>6. [e EXCEPT !.requires.items = Append(@, x)].requires = [form |-> r.form, items |-> q]
  BY <1>1, <1>2, <1>3, <1>4
<1>7. [form |-> r.form, items |-> q] \in [form : Readable \cup {"odd"}, items : Seq(Words)]
  BY <1>1, <1>2, <1>5
<1>8. Gained(e, x).requires = [form |-> r.form, items |-> q]
  BY <1>6 DEF Gained
<1>9. /\ Gained(e, x).orbJob = e.orbJob /\ Gained(e, x).name = e.name
      /\ Gained(e, x).params = e.params /\ Gained(e, x).extras = e.extras
      /\ Gained(e, x).marked = e.marked
  BY <1>1 DEF Gained
<1>10. Gained(e, x) \in Entry
  BY <1>7, <1>8 DEF Gained, Entry
<1> QED BY <1>2, <1>4, <1>8, <1>9, <1>10

\* Extras that a scan cannot tell apart.
Twins(x, y) == /\ x.context = y.context /\ x.attach = y.attach
               /\ x.store = y.store /\ x.persist = y.persist

\* Entries that differ at most in their markers and in what no scan sees.
Alike(a, es) ==
  /\ DOMAIN a = DOMAIN es /\ Len(a) = Len(es)
  /\ \A i \in DOMAIN es : /\ a[i].orbJob = es[i].orbJob /\ a[i].name = es[i].name
                          /\ a[i].requires = es[i].requires
                          /\ a[i].params = es[i].params /\ Twins(a[i].extras, es[i].extras)

LEMMA SeenIs ==
  ASSUME NEW e, NEW m
  PROVE  /\ Seen(e, m).orbJob = e.orbJob /\ Seen(e, m).name = e.name
         /\ Seen(e, m).requires = e.requires /\ Seen(e, m).params = e.params
         /\ Twins(Seen(e, m).extras, e.extras)
BY DEF Seen, Twins

\* Every entry of a workflow is read as a scan can see it, up to its markers, and
\* its lines are where the scan of the workflow found them.
LEMMA ReadAlike ==
  ASSUME NEW t, NEW c, NEW p, Fits(t, c, p), NEW w \in DOMAIN c.workflows
  PROVE  Alike(ReadEntries(t, w), c.workflows[w])
<1>1. PICK es, G, z, R : /\ es = c.workflows[w] /\ G = Ahead(c, p, w) /\ z = JobsEnd(t, w)
                         /\ R = Ranges(t, w)
  OBVIOUS
<1>2. t \in Seq(Lines) /\ Nested(t) /\ Good(es) /\ es \in Seq(Entry)
  BY <1>1, FitsSays
<1>3. LaidOut(t, G, w, es, Below(c.workflows, w))
  BY <1>1, FitsLaid
<1>4. /\ Len(R) = Len(es) /\ DOMAIN R = 1..Len(es)
      /\ \A i \in 1..Len(es) : Ranged(t, R[i], G, es, i, z)
  BY <1>1, <1>3, RangesAre
<1>5. z \in 1..Len(t) + 1
  <2>1. Laid(t, G, w, JobsText(es), Below(c.workflows, w))
    BY <1>3 DEF LaidOut
  <2>2. z \in JobsLine(t, w) + 1..Len(t) + 1 /\ JobsLine(t, w) \in DOMAIN t
    BY <1>1, <2>1, JobsEndIs, JobsLineIs
  <2>3. PICK n : n = JobsLine(t, w)
    OBVIOUS
  <2>4. n \in Nat /\ Len(t) \in Nat /\ z \in n + 1..Len(t) + 1
    BY <2>2, <2>3, <1>2
  <2> QED BY <2>4
<1>6. ASSUME NEW i \in DOMAIN es
      PROVE  /\ ReadEntry(t, R[i]).orbJob = es[i].orbJob /\ ReadEntry(t, R[i]).name = es[i].name
             /\ ReadEntry(t, R[i]).requires = es[i].requires
             /\ ReadEntry(t, R[i]).params = es[i].params
             /\ Twins(ReadEntry(t, R[i]).extras, es[i].extras)
  <2>1. i \in 1..Len(es) /\ es[i] \in Entry /\ Sound(es[i])
    BY <1>2 DEF Good
  <2>2. Ranged(t, R[i], G, es, i, z)
    BY <2>1, <1>4
  <2>3. PICK e, m : e = es[i] /\ m = IsMarked(t, R[i])
    OBVIOUS
  <2>4. ReadEntry(t, R[i]) = Seen(es[i], IsMarked(t, R[i]))
    BY <2>1, <2>2, <1>2, <1>5, RangeRead
  <2> QED BY <2>4, SeenIs
<1>7. ReadEntries(t, w) = [i \in DOMAIN R |-> ReadEntry(t, R[i])]
  BY <1>1 DEF ReadEntries, EntriesIn
<1>8. PICK a : a = [i \in DOMAIN R |-> ReadEntry(t, R[i])]
  OBVIOUS
<1>9. DOMAIN es = 1..Len(es) /\ Len(es) \in Nat
  BY <1>2
<1>10. DOMAIN a = DOMAIN es /\ Len(a) = Len(es)
  BY <1>4, <1>8, <1>9
<1>11. \A i \in DOMAIN es : a[i] = ReadEntry(t, R[i])
  BY <1>4, <1>8, <1>9
<1>12. Alike(a, es)
  BY <1>6, <1>10, <1>11 DEF Alike
<1> QED BY <1>1, <1>7, <1>8, <1>12

LEMMA AlikeNames ==
  ASSUME NEW a, NEW es, Alike(a, es), NEW i \in DOMAIN es
  PROVE  /\ EffectiveName(a[i]) = EffectiveName(es[i]) /\ a[i].orbJob = es[i].orbJob
         /\ a[i].requires = es[i].requires /\ a[i].name = es[i].name
         /\ i \in DOMAIN a
BY DEF Alike, EffectiveName

LEMMA AlikeNamed ==
  ASSUME NEW es \in Seq(Entry), NEW a, Alike(a, es), NEW n
  PROVE  Named(a, n) = Named(es, n)
<1>1. Len(a) = Len(es) /\ DOMAIN es = 1..Len(es)
  BY DEF Alike
<1>2. {i \in 1..Len(a) : EffectiveName(a[i]) = n} = {i \in 1..Len(es) : EffectiveName(es[i]) = n}
  BY <1>1, AlikeNames
<1>3. PICK I : I = {i \in 1..Len(es) : EffectiveName(es[i]) = n}
  OBVIOUS
<1>4. Named(a, n) = IF I # {} THEN Min(I) ELSE 0
  BY <1>2, <1>3 DEF Named, SelectInSeq
<1>5. Named(es, n) = IF I # {} THEN Min(I) ELSE 0
  BY <1>3 DEF Named, SelectInSeq
<1> QED BY <1>4, <1>5

LEMMA AlikePatchable ==
  ASSUME NEW es \in Seq(Entry), NEW a, Alike(a, es), NEW T
  PROVE  Patchable(a, T) <=> Patchable(es, T)
<1>1. ASSUME NEW n
      PROVE  /\ Named(a, n) = Named(es, n)
             /\ Named(es, n) # 0 => a[Named(es, n)].requires = es[Named(es, n)].requires
  <2>1. Named(a, n) = Named(es, n)
    BY AlikeNamed
  <2>2. Named(es, n) # 0 => Named(es, n) \in DOMAIN es
    BY NamedIs
  <2> QED BY <2>1, <2>2, AlikeNames
<1> QED BY <1>1 DEF Patchable

LEMMA AlikeCandidates ==
  ASSUME NEW es \in Seq(Entry), NEW a, Alike(a, es), NEW j
  PROVE  Candidates(j, a) = Candidates(j, es) /\ Candidates(j, es) \subseteq DOMAIN es
<1>1. DOMAIN a = DOMAIN es
  BY DEF Alike
<1>2. Exact(j, a) = Exact(j, es)
  BY <1>1, AlikeNames DEF Exact
<1>3. {i \in DOMAIN a : a[i].orbJob = j.orbJob} = {i \in DOMAIN es : es[i].orbJob = j.orbJob}
  BY <1>1, AlikeNames
<1>4. Candidates(j, a) = Candidates(j, es)
  BY <1>2, <1>3 DEF Candidates
<1>5. Exact(j, es) \subseteq DOMAIN es /\ DOMAIN es \subseteq Nat
  BY DEF Exact
<1>6. Exact(j, es) # {} => Min(Exact(j, es)) \in Exact(j, es)
  <2>1. PICK X : X = Exact(j, es)
    OBVIOUS
  <2> QED BY <2>1, <1>5, LeastOf
<1> QED BY <1>4, <1>5, <1>6 DEF Candidates

\* An entry that reads as it should and is in markers is left as it stands.
LEMMA SameFits ==
  ASSUME NEW t, NEW c, NEW p, Fits(t, c, p), NEW w \in DOMAIN c.workflows, NEW es,
         es = c.workflows[w], NEW i \in 1..Len(es), NEW e \in Entry, Sound(e), e.marked,
         EntryText(e) = EntryText(es[i])
  PROVE  Fits(t, Refitted(c, w, [es EXCEPT ![i] = e]), p)
<1>1. PICK G, Z : G = Ahead(c, p, w) /\ Z = Below(c.workflows, w)
  OBVIOUS
<1>2. /\ t \in Seq(Lines) /\ Tidy(t) /\ Nested(t) /\ w \in Words /\ Good(es) /\ es \in Seq(Entry)
      /\ Said(t) = Saying(G, w, es, Z)
  BY <1>1, FitsSays
<1>3. i \in DOMAIN es
  BY <1>2
<1>4. PICK f : f = [es EXCEPT ![i] = e]
  OBVIOUS
<1>5. JobsText(f) = JobsText(es)
  <2>1. JobsText([es EXCEPT ![i] = e])
          = (JobsText(SubSeq(es, 1, i - 1)) \o EntryText(e)) \o JobsText(SubSeq(es, i + 1, Len(es)))
    BY <1>2, <1>3, JobsExcept
  <2>2. JobsText(es) = (JobsText(SubSeq(es, 1, i - 1)) \o EntryText(es[i]))
                              \o JobsText(SubSeq(es, i + 1, Len(es)))
    BY <1>2, <1>3, JobsAround
  <2> QED BY <2>1, <2>2, <1>4
<1>6. Said(t) = Saying(G, w, f, Z)
  BY <1>2, <1>5 DEF Saying
<1>7. Good(f)
  BY <1>2, <1>3, <1>4, GoodExcept
<1>8. Fits(t, Refitted(c, w, f), p)
  BY <1>1, <1>2, <1>6, <1>7, Refit
<1> QED BY <1>4, <1>8

LEMMA RewrittenFits ==
  ASSUME NEW t, NEW c, NEW p, Fits(t, c, p), NEW w \in DOMAIN c.workflows, NEW es,
         es = c.workflows[w], NEW i \in 1..Len(es), NEW r, NEW z, z <= Len(t) + 1, z \in Nat,
         Ranged(t, r, Ahead(c, p, w), es, i, z), NEW e \in Entry, Sound(e), e.marked,
         NEW said, NEW n, NEW old
  PROVE  Fits(Rewritten(t, said, n, r, old, e, EntryText(e)).text,
              Refitted(c, w, [es EXCEPT ![i] = e]), p)
<1>1. CASE Body(t, r) = EntryText(e) /\ old.marked
  <2>1. Said(Body(t, r)) = EntryText(es[i])
    BY DEF Ranged
  <2>2. Said(EntryText(e)) = EntryText(e)
    BY EntryFirst
  <2>3. EntryText(e) = EntryText(es[i])
    BY <2>1, <2>2, <1>1
  <2>4. Fits(t, Refitted(c, w, [es EXCEPT ![i] = e]), p)
    BY <2>3, SameFits
  <2>5. Rewritten(t, said, n, r, old, e, EntryText(e)).text = t
    BY <1>1 DEF Rewritten
  <2> QED BY <2>4, <2>5
<1>2. CASE ~(Body(t, r) = EntryText(e) /\ old.marked)
  <2>1. PICK u : u = IF old.marked THEN EntryText(e) ELSE Wrapped(EntryText(e))
    OBVIOUS
  <2>2. Dressed(u, e)
    BY <2>1 DEF Dressed
  <2>3. Fits(Splice(t, r.first, r.last, u), Refitted(c, w, [es EXCEPT ![i] = e]), p)
    BY <2>2, RewriteFits
  <2>4. Rewritten(t, said, n, r, old, e, EntryText(e)).text = Splice(t, r.first, r.last, u)
    BY <2>1, <1>2 DEF Rewritten
  <2> QED BY <2>3, <2>4
<1> QED BY <1>1, <1>2

\* The entries once the job's own stands as it should.
PlacedAs(es, m, found) ==
  IF found = {} THEN Append(es, Render(m, NoName))
  ELSE [es EXCEPT ![Min(found)] = Render(m, @.name)]

LEMMA PlaceFits ==
  ASSUME NEW t, NEW c, NEW p, Fits(t, c, p), NEW w \in DOMAIN c.workflows, NEW es,
         es = c.workflows[w], NEW m \in Job, m.workflow = w, NEW found, found \subseteq DOMAIN es,
         NEW said
  PROVE  Fits(Place(t, said, m, Ranges(t, w), ReadEntries(t, w), found).text,
              Refitted(c, w, PlacedAs(es, m, found)), p)
<1>1. Good(es) /\ es \in Seq(Entry) /\ t \in Seq(Lines)
  BY FitsSays
<1>2. CASE found = {}
  <2>1. PICK e : e = Render(m, NoName)
    OBVIOUS
  <2>2. e \in Entry /\ Sound(e) /\ e.marked
    BY <2>1, RenderIs
  <2>3. Fits(Splice(t, JobsEnd(t, w), JobsEnd(t, w) - 1, Wrapped(EntryText(e))),
             Refitted(c, w, Append(es, e)), p)
    BY <2>2, InsertFits
  <2>4. Place(t, said, m, Ranges(t, w), ReadEntries(t, w), found).text
          = Splice(t, JobsEnd(t, w), JobsEnd(t, w) - 1, Wrapped(EntryText(e)))
    BY <2>1, <1>2 DEF Place, InsertEntry
  <2>5. PlacedAs(es, m, found) = Append(es, e)
    BY <2>1, <1>2 DEF PlacedAs
  <2> QED BY <2>3, <2>4, <2>5
<1>3. CASE found # {}
  <2>1. PICK i, R, a : i = Min(found) /\ R = Ranges(t, w) /\ a = ReadEntries(t, w)
    OBVIOUS
  <2>2. i \in DOMAIN es /\ i \in 1..Len(es)
    <3>1. found \subseteq Nat
      BY <1>1
    <3>2. i \in found
      BY <2>1, <3>1, <1>3, LeastOf
    <3> QED BY <3>2, <1>1
  <2>3. Alike(a, es)
    BY <2>1, ReadAlike
  <2>4. a[i].name = es[i].name /\ es[i] \in Entry
    BY <2>2, <2>3, <1>1, AlikeNames
  <2>5. es[i].name \in Words \cup {NoName}
    BY <2>4 DEF Entry
  <2>6. PICK e : e = Render(m, es[i].name)
    OBVIOUS
  <2>7. e \in Entry /\ Sound(e) /\ e.marked
    BY <2>5, <2>6, RenderIs
  <2>8. LaidOut(t, Ahead(c, p, w), w, es, Below(c.workflows, w))
    BY FitsLaid
  <2>9. Ranged(t, R[i], Ahead(c, p, w), es, i, JobsEnd(t, w))
    BY <2>1, <2>2, <2>8, RangesAre
  <2>10. JobsEnd(t, w) \in Nat /\ JobsEnd(t, w) <= Len(t) + 1
    <3>1. Laid(t, Ahead(c, p, w), w, JobsText(es), Below(c.workflows, w))
      BY <2>8 DEF LaidOut
    <3>2. JobsEnd(t, w) \in JobsLine(t, w) + 1..Len(t) + 1 /\ JobsLine(t, w) \in DOMAIN t
      BY <3>1, JobsEndIs, JobsLineIs
    <3>3. PICK n : n = JobsLine(t, w)
      OBVIOUS
    <3>4. n \in Nat /\ Len(t) \in Nat /\ JobsEnd(t, w) \in n + 1..Len(t) + 1
      BY <3>2, <3>3, <1>1
    <3> QED BY <3>4
  <2>11. PICK r, z : r = R[i] /\ z = JobsEnd(t, w)
    OBVIOUS
  <2>12. Ranged(t, r, Ahead(c, p, w), es, i, z) /\ z \in Nat /\ z <= Len(t) + 1
    BY <2>9, <2>10, <2>11
  <2>13. Fits(Rewritten(t, said, NewName(m), r, a[i], e, EntryText(e)).text,
              Refitted(c, w, [es EXCEPT ![i] = e]), p)
    BY <2>2, <2>7, <2>12, RewrittenFits
  <2>14. Place(t, said, m, R, a, found).text
           = Rewritten(t, said, NewName(m), r, a[i], e, EntryText(e)).text
    BY <2>1, <2>4, <2>6, <2>11, <1>3 DEF Place, Resync
  <2>15. PlacedAs(es, m, found) = [es EXCEPT ![i] = e]
    BY <2>1, <2>6, <1>3 DEF PlacedAs
  <2> QED BY <2>1, <2>13, <2>14, <2>15
<1> QED BY <1>2, <1>3

\* How many of a text's lines say something before a line of one of its entries.
LEMMA RankInside ==
  ASSUME NEW t \in Seq(Lines), NEW a \in 1..Len(t) + 1, NEW b \in a..Len(t) + 1,
         NEW l, l \in b - 1..Len(t), NEW y, y = SubSeq(t, a, l)
  PROVE  Rank(t, b) = Rank(t, a) + Rank(y, b - a + 1) - 1
<1>1. Len(t) \in Nat /\ a \in Nat /\ b \in Nat /\ l \in Nat /\ b \in 1..Len(t) + 1 /\ a <= b
      /\ b - a \in Nat /\ l + 1 - a \in Nat /\ b - a <= l + 1 - a
  OBVIOUS
<1>2. /\ SubSeq(t, 1, b - 1) = SubSeq(t, 1, a - 1) \o SubSeq(t, a, b - 1)
      /\ SubSeq(t, 1, a - 1) \in Seq(Lines) /\ SubSeq(t, a, b - 1) \in Seq(Lines)
  BY ZenonT(60), <1>1, InThree
<1>3. SubSeq(y, 1, b - a) = SubSeq(t, a, b - 1)
  <2>1. PICK q, n, m : q = a - 1 /\ n = b - a /\ m = l + 1 - a
    OBVIOUS
  <2>2. /\ q \in Nat /\ n \in Nat /\ m \in Nat /\ n <= m /\ q + m <= Len(t) /\ q + n <= Len(t)
        /\ q + 1 = a /\ q + m = l /\ q + n = b - 1
    BY <2>1, <1>1
  <2>3. /\ y \in Seq(Lines) /\ Len(y) = m /\ \A i \in 1..m : y[i] = t[q + i]
    <3>1. /\ SubSeq(t, q + 1, q + m) \in Seq(Lines) /\ Len(SubSeq(t, q + 1, q + m)) = m
          /\ \A i \in 1..m : SubSeq(t, q + 1, q + m)[i] = t[q + i]
      BY <2>2, Slice
    <3>2. y = SubSeq(t, q + 1, q + m)
      BY <2>2
    <3> QED BY <3>1, <3>2
  <2>4. PICK v : v = SubSeq(t, a, b - 1)
    OBVIOUS
  <2>5. v \in Seq(Lines) /\ Len(v) = n /\ \A i \in 1..n : v[i] = t[q + i]
    <3>1. /\ SubSeq(t, q + 1, q + n) \in Seq(Lines) /\ Len(SubSeq(t, q + 1, q + n)) = n
          /\ \A i \in 1..n : SubSeq(t, q + 1, q + n)[i] = t[q + i]
      BY <2>2, Slice
    <3>2. v = SubSeq(t, q + 1, q + n)
      BY <2>2, <2>4
    <3> QED BY <3>1, <3>2
  <2>6. \A i \in 1..Len(v) : y[0 + i] = v[i]
    <3>1. \A i \in 1..n : y[i] = v[i] /\ 0 + i = i
      BY SMTT(40), <2>2, <2>3, <2>5
    <3> QED BY <3>1, <2>5
  <2>7. 0 + Len(v) <= Len(y) /\ 0 \in Nat
    BY <2>2, <2>3, <2>5
  <2>8. SubSeq(y, 0 + 1, 0 + Len(v)) = v
    BY <2>3, <2>5, <2>6, <2>7, SliceIs
  <2>9. 0 + 1 = 1 /\ 0 + Len(v) = n
    BY <2>2, <2>5
  <2> QED BY <2>1, <2>4, <2>8, <2>9
<1>4. PICK u, v : u = SubSeq(t, 1, a - 1) /\ v = SubSeq(t, a, b - 1)
  OBVIOUS
<1>5. Said(u \o v) = Said(u) \o Said(v) /\ Said(u) \in Seq(Lines) /\ Said(v) \in Seq(Lines)
  BY <1>2, <1>4, SaidConcat, SaidType
<1>6. Len(Said(u) \o Said(v)) = Len(Said(u)) + Len(Said(v))
  BY <1>5
<1>7. Rank(t, a) = Len(Said(u)) + 1 /\ Rank(t, b) = Len(Said(u \o v)) + 1
  BY <1>2, <1>4 DEF Rank
<1>8. Rank(y, b - a + 1) = Len(Said(v)) + 1
  <2>1. PICK n : n = b - a + 1 /\ n - 1 = b - a
    BY <1>1
  <2>2. SubSeq(y, 1, n - 1) = v
    BY <2>1, <1>3, <1>4
  <2>3. Rank(y, n) = Len(Said(v)) + 1
    BY <2>2 DEF Rank
  <2> QED BY <2>1, <2>3
<1>9. PICK m, n : m = Len(Said(u)) /\ n = Len(Said(v))
  OBVIOUS
<1>10. m \in Nat /\ n \in Nat
  BY <1>5, <1>9
<1>11. Rank(t, a) = m + 1 /\ Rank(t, b) = m + n + 1 /\ Rank(y, b - a + 1) = n + 1
  BY <1>5, <1>6, <1>7, <1>8, <1>9
<1> QED BY <1>10, <1>11

\* How an entry changes where a part of it does.
Inside(e, g, A, B, C, u) ==
  /\ {A, B, C, u} \subseteq Seq(Sayings)
  /\ EntryText(e) = (A \o B) \o C /\ EntryText(g) = (A \o u) \o C

LEMMA InsideParts ==
  ASSUME NEW t, NEW G, NEW w, NEW es, NEW Z, LaidOut(t, G, w, es, Z), NEW i \in 1..Len(es),
         NEW r, NEW z, z <= Len(t) + 1, z \in Nat, Ranged(t, r, G, es, i, z),
         NEW g, NEW A, NEW B, NEW C, NEW u, Inside(es[i], g, A, B, C, u),
         NEW a \in r.first..r.last + 1, NEW b \in a..r.last + 1,
         Rank(Body(t, r), a - r.first + 1) = Len(A) + 1,
         Rank(Body(t, r), b - r.first + 1) = Len(A) + Len(B) + 1
  PROVE  Parts(t, a, b, Upper(G, w, es, i) \o A, B, C \o Lower(es, i, Z))
<1>1. PICK U, L, f, k : U = Upper(G, w, es, i) /\ L = Lower(es, i, Z) /\ f = r.first /\ k = r.last
  OBVIOUS
<1>2. Parts(t, f, k + 1, U, EntryText(es[i]), L)
  BY <1>1, EntryParts
<1>3. /\ t \in Seq(Lines) /\ f \in DOMAIN t /\ k \in Nat /\ k < z
  BY <1>1, LaidHas DEF Ranged, Opener
<1>4. Len(t) \in Nat /\ f \in 1..Len(t) + 1 /\ a \in f..Len(t) + 1 /\ b \in f..Len(t) + 1
      /\ k \in a - 1..Len(t) /\ k \in b - 1..Len(t) /\ a \in Nat /\ b \in Nat /\ f \in Nat
      /\ b \in a..Len(t) + 1
  <2>1. a \in f..k + 1 /\ b \in a..k + 1
    BY <1>1
  <2>2. f \in 1..Len(t) /\ Len(t) \in Nat
    BY <1>3
  <2>3. PICK n : n = Len(t)
    OBVIOUS
  <2>4. n \in Nat /\ f \in 1..n /\ k < z /\ z <= n + 1 /\ k \in Nat /\ z \in Nat
    BY <2>2, <2>3, <1>3
  <2>5. n \in Nat /\ f \in 1..n + 1 /\ a \in f..n + 1 /\ b \in f..n + 1
      /\ k \in a - 1..n /\ k \in b - 1..n /\ a \in Nat /\ b \in Nat /\ f \in Nat
      /\ b \in a..n + 1
    BY <2>1, <2>4
  <2> QED BY <2>3, <2>5
<1>5. PICK y : y = SubSeq(t, f, k) /\ y = Body(t, r)
  BY <1>1 DEF Body
<1>6. /\ Rank(t, a) = Rank(t, f) + Rank(y, a - f + 1) - 1
      /\ Rank(t, b) = Rank(t, f) + Rank(y, b - f + 1) - 1
  <2>0. f \in 1..Len(t) + 1 /\ a \in f..Len(t) + 1 /\ k \in a - 1..Len(t) /\ y = SubSeq(t, f, k)
    BY <1>4, <1>5
  <2>1. Rank(t, a) = Rank(t, f) + Rank(y, a - f + 1) - 1
    BY <2>0, <1>3, RankInside
  <2>2. Rank(t, b) = Rank(t, f) + Rank(y, b - f + 1) - 1
    BY ZenonT(60), <1>3, <1>4, <1>5, RankInside
  <2> QED BY <2>1, <2>2
<1>7. /\ Rank(y, a - f + 1) = Len(A) + 1 /\ Rank(y, b - f + 1) = Len(A) + Len(B) + 1
  BY <1>1, <1>5
<1>8. /\ U \in Seq(Sayings) /\ L \in Seq(Sayings) /\ Rank(t, f) = Len(U) + 1
      /\ Said(t) = (U \o EntryText(es[i])) \o L
  BY <1>2 DEF Parts
<1>9. /\ A \in Seq(Sayings) /\ B \in Seq(Sayings) /\ C \in Seq(Sayings)
      /\ EntryText(es[i]) = (A \o B) \o C
  BY DEF Inside
<1>10. Fives(Sayings, U, A, B, C, L)
  BY <1>8, <1>9 DEF Fives
<1>11. /\ (U \o ((A \o B) \o C)) \o L = ((U \o A) \o B) \o (C \o L)
       /\ U \o A \in Seq(Sayings) /\ C \o L \in Seq(Sayings)
  BY <1>10, NestFour
<1>12. Said(t) = ((U \o A) \o B) \o (C \o L)
  BY <1>8, <1>9, <1>11
<1>13. Len(U \o A) = Len(U) + Len(A)
  BY <1>8, <1>9
<1>14. PICK m, n, q : m = Len(U) /\ n = Len(A) /\ q = Len(B)
  OBVIOUS
<1>15. m \in Nat /\ n \in Nat /\ q \in Nat
  BY SMTT(40), <1>8, <1>9, <1>14
<1>16. Rank(t, a) = m + 1 + (n + 1) - 1 /\ Rank(t, b) = m + 1 + (n + q + 1) - 1
  BY <1>6, <1>7, <1>8, <1>14
<1>17. Rank(t, a) = Len(U \o A) + 1 /\ Rank(t, b) = Len(U \o A) + Len(B) + 1
  BY <1>13, <1>14, <1>15, <1>16
<1>18. Parts(t, a, b, U \o A, B, C \o L)
  BY <1>9, <1>11, <1>12, <1>17 DEF Parts
<1> QED BY <1>1, <1>18

\* The lines on either side of that part.
Flanks(G, w, es, i, Z, A, C, P, R) ==
  P = Upper(G, w, es, i) \o A /\ R = C \o Lower(es, i, Z)

LEMMA InsideSays ==
  ASSUME NEW G, NEW w, NEW es, NEW Z, NEW i, Sides(G, w, es, Z, i), NEW g \in Entry,
         NEW f, Replaced(es, i, g, f),
         NEW A, NEW B, NEW C, NEW u, Inside(es[i], g, A, B, C, u),
         NEW P, NEW R, Flanks(G, w, es, i, Z, A, C, P, R)
  PROVE  Joins(Saying(G, w, f, Z), P, u, R)
<1>1. PICK U, L : U = Upper(G, w, es, i) /\ L = Lower(es, i, Z)
  OBVIOUS
<1>2. U \in Seq(Sayings) /\ L \in Seq(Sayings)
  BY <1>1, SayingCut
<1>3. Saying(G, w, f, Z) = (U \o EntryText(g)) \o L
  <2>1. Saying(G, w, f, Z) = (Upper(G, w, es, i) \o EntryText(g)) \o Lower(es, i, Z)
    BY SayingThen
  <2> QED BY <2>1, <1>1
<1>4. EntryText(g) = (A \o u) \o C
  BY DEF Inside
<1>5. Fives(Sayings, U, A, u, C, L)
  BY <1>2 DEF Fives, Inside
<1>6. (U \o ((A \o u) \o C)) \o L = ((U \o A) \o u) \o (C \o L)
  BY <1>5, Nesting
<1>7. P = U \o A /\ R = C \o L
  BY <1>1 DEF Flanks
<1> QED BY <1>3, <1>4, <1>6, <1>7 DEF Joins

\* Some lines of an entry that others take the place of.
Changed(t, r, a, b, e, g, u) ==
  /\ u \in Seq(Sayings) /\ u # <<>>
  /\ a \in r.first..r.last + 1 /\ b \in a..r.last + 1
  /\ \E A, B, C : /\ Inside(e, g, A, B, C, u)
                  /\ Rank(Body(t, r), a - r.first + 1) = Len(A) + 1
                  /\ Rank(Body(t, r), b - r.first + 1) = Len(A) + Len(B) + 1
  /\ \E x : /\ x = SubSeq(t, 1, a - 1) /\ Open(x, u[1].depth)
            /\ ~Deep(u[1]) \/ (Len(x) # 0 /\ Significant(x[Len(x)]))

LEMMA ChangeFits ==
  ASSUME NEW t, NEW c, NEW p, Fits(t, c, p), NEW w \in DOMAIN c.workflows, NEW es,
         es = c.workflows[w], NEW i \in 1..Len(es), NEW r, NEW z, z <= Len(t) + 1, z \in Nat,
         Ranged(t, r, Ahead(c, p, w), es, i, z), NEW g \in Entry, Sound(g), g.marked,
         NEW a, NEW b, NEW u, Changed(t, r, a, b, es[i], g, u)
  PROVE  Fits(Splice(t, a, b - 1, u), Refitted(c, w, [es EXCEPT ![i] = g]), p)
<1>1. PICK G, Z, f : G = Ahead(c, p, w) /\ Z = Below(c.workflows, w) /\ f = [es EXCEPT ![i] = g]
  OBVIOUS
<1>2. /\ t \in Seq(Lines) /\ Tidy(t) /\ Nested(t) /\ w \in Words /\ Good(es) /\ es \in Seq(Entry)
      /\ G \in Seq(Sayings) /\ Z \in Seq(Sayings)
  BY <1>1, FitsSays
<1>3. LaidOut(t, G, w, es, Z) /\ Ranged(t, r, G, es, i, z)
  BY <1>1, FitsLaid
<1>4. u \in Seq(Sayings) /\ u # <<>> /\ a \in r.first..r.last + 1 /\ b \in a..r.last + 1
  BY DEF Changed
<1>5. PICK A, B, C : /\ Inside(es[i], g, A, B, C, u)
                     /\ Rank(Body(t, r), a - r.first + 1) = Len(A) + 1
                     /\ Rank(Body(t, r), b - r.first + 1) = Len(A) + Len(B) + 1
  BY DEF Changed
<1>6. PICK x, y : /\ x = SubSeq(t, 1, a - 1) /\ Open(x, u[1].depth)
                  /\ ~Deep(u[1]) \/ (Len(x) # 0 /\ Significant(x[Len(x)]))
                  /\ y = SubSeq(t, b, Len(t))
  BY DEF Changed
<1>7. a \in 1..Len(t) + 1 /\ b \in a..Len(t) + 1 /\ b - 1 + 1 = b
  <2>1. r.first \in DOMAIN t /\ r.first \in Nat /\ r.last \in Nat /\ r.last < z
    BY <1>3 DEF Ranged, Opener
  <2>2. PICK n, m, k : n = Len(t) /\ m = r.first /\ k = r.last
    OBVIOUS
  <2>3. n \in Nat /\ m \in 1..n /\ k \in Nat /\ k < z /\ z <= n + 1 /\ z \in Nat
    BY <2>1, <2>2, <1>2
  <2>4. a \in m..k + 1 /\ b \in a..k + 1
    BY <2>2, <1>4
  <2>5. a \in 1..n + 1 /\ b \in a..n + 1 /\ b - 1 + 1 = b
    BY <2>3, <2>4
  <2> QED BY <2>2, <2>5
<1>8. Cut(t, a, b, x, y)
  BY <1>2, <1>6, <1>7 DEF Cut
<1>9. PICK v : v = (x \o u) \o y
  OBVIOUS
<1>10. v \in Seq(Lines) /\ Tidy(v) /\ Nested(v)
  BY <1>4, <1>6, <1>8, <1>9, PutSays
<1>11. PICK P, R : P = Upper(G, w, es, i) \o A /\ R = C \o Lower(es, i, Z)
  OBVIOUS
<1>12. Parts(t, a, b, P, B, R)
  <2>1. Parts(t, a, b, Upper(G, w, es, i) \o A, B, C \o Lower(es, i, Z))
    BY <1>3, <1>4, <1>5, InsideParts
  <2> QED BY <2>1, <1>11
<1>13. u \in Seq(Lines) /\ Said(u) = u
  BY <1>4, SaidSelf
<1>14. Said(v) = (P \o u) \o R
  <2>1. Said((x \o u) \o y) = (P \o Said(u)) \o R
    <3>1. u \in Seq(Lines)
      BY <1>13
    <3> QED BY <3>1, <1>8, <1>12, SaidSplice
  <2> QED BY <2>1, <1>9, <1>13
<1>15. Saying(G, w, f, Z) = (P \o u) \o R
  <2>1. Sides(G, w, es, Z, i)
    BY <1>2 DEF Sides
  <2>2. Replaced(es, i, g, f)
    BY <1>1 DEF Replaced
  <2>3. Inside(es[i], g, A, B, C, u)
    BY <1>5
  <2>4. Flanks(G, w, es, i, Z, A, C, P, R)
    BY <1>11 DEF Flanks
  <2>5. Joins(Saying(G, w, f, Z), P, u, R)
    BY <2>1, <2>2, <2>3, <2>4, InsideSays
  <2> QED BY <2>5 DEF Joins
<1>16. Good(f)
  <2>1. i \in DOMAIN es
    BY <1>2
  <2> QED BY <2>1, <1>1, <1>2, GoodExcept
<1>17. Fits(v, Refitted(c, w, f), p)
  BY <1>1, <1>10, <1>14, <1>15, <1>16, Refit
<1>18. Splice(t, a, b - 1, u) = v
  <2>1. Cut(t, a, b - 1 + 1, x, y)
    BY <1>7, <1>8
  <2>2. Joins(Splice(t, a, b - 1, u), x, u, y)
    BY <2>1, CutSplice
  <2> QED BY <2>2, <1>9 DEF Joins
<1> QED BY <1>1, <1>17, <1>18

LEMMA PartsWithin ==
  ASSUME NEW T, NEW S, NEW a, NEW b, NEW c, Trio(T, a, b, c), (a \o b) \o c \in Seq(S)
  PROVE  {a, b, c} \subseteq Seq(S)
<1>1. a \in Seq(T) /\ b \in Seq(T) /\ c \in Seq(T)
  BY DEF Trio
<1>2. PICK d : d = (a \o b) \o c /\ d \in Seq(S)
  OBVIOUS
<1>3. /\ Len(d) = Len(a) + Len(b) + Len(c)
      /\ Len(a) \in Nat /\ Len(b) \in Nat /\ Len(c) \in Nat
      /\ \A x \in 1..Len(a) : d[x] = a[x]
      /\ \A x \in 1..Len(b) : d[Len(a) + x] = b[x]
      /\ \A x \in 1..Len(c) : d[Len(a) + Len(b) + x] = c[x]
  BY SMTT(40), <1>1, <1>2, MiddleAt
<1>4. \A q : q \in Seq(T) /\ (\A x \in 1..Len(q) : q[x] \in S) => q \in Seq(S)
  OBVIOUS
<1>5. \A x \in 1..Len(d) : d[x] \in S
  BY <1>2
<1>6. \A x \in 1..Len(a) : a[x] \in S
  BY <1>3, <1>5
<1>7. \A x \in 1..Len(b) : b[x] \in S
  <2> TAKE x \in 1..Len(b)
  <2>1. Len(a) + x \in 1..Len(d)
    BY <1>3
  <2> QED BY <2>1, <1>3, <1>5
<1>8. \A x \in 1..Len(c) : c[x] \in S
  <2> TAKE x \in 1..Len(c)
  <2>1. Len(a) + Len(b) + x \in 1..Len(d)
    BY <1>3
  <2> QED BY <2>1, <1>3, <1>5
<1> QED BY <1>1, <1>4, <1>6, <1>7, <1>8

\* Around the requires of an entry, what it requires makes no difference.
LEMMA GainedAround ==
  ASSUME NEW e \in Entry, NEW x \in Words
  PROVE  Before(Gained(e, x)) = Before(e) /\ After(Gained(e, x)) = After(e)
<1>1. PICK g : g = Gained(e, x)
  OBVIOUS
<1>2. g.orbJob = e.orbJob /\ g.name = e.name /\ g.params = e.params /\ g.extras = e.extras
  BY <1>1, GainedIs
<1>3. Before(g) = Before(e)
  BY <1>2 DEF Before, Opening, Params, Given, Nestings
<1>4. After(g) = After(e)
  BY <1>2 DEF After, Keys, Opens, Stepped, StepsText, Ours, Foreign, Stored, Persisted
<1> QED BY <1>1, <1>3, <1>4

ItemOf(x) == Line(12, "- item", <<x>>)
InlineOf(v) == Line(10, "requires: []", v)

LEMMA ItemIs ==
  ASSUME NEW x \in Words
  PROVE  /\ <<ItemOf(x)>> \in Seq(Sayings) /\ <<ItemOf(x)>> # <<>> /\ Len(<<ItemOf(x)>>) = 1
         /\ <<ItemOf(x)>>[1].depth = 12 /\ <<ItemOf(x)>> \in Seq(Lines)
<1>1. ItemOf(x) \in Lines
  <2>1. 12 \in Depths /\ "- item" \in KeyNames
    BY DEF Depths, KeyNames
  <2> QED BY <2>1, LineOne DEF ItemOf
<1>2. ItemOf(x).depth = 12 /\ ItemOf(x).key = "- item"
  BY DEF ItemOf, Line
<1>3. ItemOf(x) \in Sayings
  BY <1>1, <1>2 DEF Sayings, Significant
<1>4. PICK l : l = ItemOf(x)
  OBVIOUS
<1>5. <<l>> \in Seq(Sayings) /\ Len(<<l>>) = 1 /\ <<l>>[1] = l
  BY <1>3, <1>4, Single
<1>6. <<l>> \in Seq(Lines)
  BY <1>1, <1>4, Single
<1>7. <<l>> # <<>>
  OBVIOUS
<1>8. <<l>>[1].depth = 12
  BY <1>2, <1>4, <1>5
<1> QED BY <1>4, <1>5, <1>6, <1>7, <1>8

LEMMA InlineIs ==
  ASSUME NEW v \in Seq(Words)
  PROVE  /\ <<InlineOf(v)>> \in Seq(Sayings) /\ <<InlineOf(v)>> # <<>> /\ Len(<<InlineOf(v)>>) = 1
         /\ <<InlineOf(v)>>[1].depth = 10 /\ <<InlineOf(v)>> \in Seq(Lines)
         /\ InlineOf(v) \in Lines
<1>1. InlineOf(v) \in Lines
  <2>1. PICK d, k : d = 10 /\ k = "requires: []" /\ d \in Depths /\ k \in KeyNames
    BY DEF Depths, KeyNames
  <2>2. Line(d, k, v) \in Lines
    BY <2>1, LineTyped
  <2> QED BY <2>1, <2>2 DEF InlineOf
<1>2. InlineOf(v).depth = 10 /\ InlineOf(v).key = "requires: []"
  BY DEF InlineOf, Line
<1>3. InlineOf(v) \in Sayings
  BY <1>1, <1>2 DEF Sayings, Significant
<1>4. PICK l : l = InlineOf(v)
  OBVIOUS
<1>5. <<l>> \in Seq(Sayings) /\ Len(<<l>>) = 1 /\ <<l>>[1] = l
  BY <1>3, <1>4, Single
<1>6. <<l>> \in Seq(Lines)
  BY <1>1, <1>4, Single
<1>7. <<l>> # <<>>
  OBVIOUS
<1>8. <<l>>[1].depth = 10
  BY <1>2, <1>4, <1>5
<1> QED BY <1>1, <1>4, <1>5, <1>6, <1>7, <1>8

\* An item more at the end of a block.
LEMMA BlockGained ==
  ASSUME NEW e \in Entry, e.requires.form = "block", NEW x \in Words
  PROVE  \E A : /\ Inside(e, Gained(e, x), A, <<>>, After(e), <<ItemOf(x)>>)
                /\ Len(A) = Len(Before(e)) + 1 + Len(e.requires.items)
<1>1. PICK B, Q, C, g : B = Before(e) /\ Q = RequiresText(e.requires) /\ C = After(e) /\ g = Gained(e, x)
  OBVIOUS
<1>2. B \in Seq(Lines) /\ Q \in Seq(Lines) /\ C \in Seq(Lines) /\ EntryText(e) = (B \o Q) \o C
  BY <1>1, EntrySplit
<1>3. EntryText(e) \in Seq(Sayings)
  BY EntrySayings
<1>4. B \in Seq(Sayings) /\ Q \in Seq(Sayings) /\ C \in Seq(Sayings)
  <2>1. Trio(Lines, B, Q, C)
    BY <1>2 DEF Trio
  <2>2. (B \o Q) \o C \in Seq(Sayings)
    BY <1>2, <1>3
  <2>3. {B, Q, C} \subseteq Seq(Sayings)
    BY <2>1, <2>2, PartsWithin
  <2> QED BY <2>3
<1>5. PICK v : v = e.requires.items
  OBVIOUS
<1>6. v \in Seq(Words)
  BY <1>5, EntryTyped
<1>7. g \in Entry /\ g.requires.form = "block" /\ g.requires.items = Append(v, x)
  BY <1>1, <1>5, GainedIs
<1>8. PICK h, E : h = <<Line(10, "requires:", <<>>)>> /\ E = Each(12, "- item", v)
  OBVIOUS
<1>9. Q = h \o E
  BY <1>1, <1>5, <1>8, RequiresHas
<1>10. RequiresText(g.requires) = h \o Each(12, "- item", Append(v, x))
  BY <1>7, <1>8, RequiresHas
<1>11. Each(12, "- item", Append(v, x)) = Append(E, ItemOf(x))
  <2>1. PICK d, k : d = 12 /\ k = "- item" /\ d \in Depths /\ k \in KeyNames
    BY DEF KeyNames, Depths
  <2>2. Each(d, k, Append(v, x)) = Append(Each(d, k, v), Line(d, k, <<x>>))
    BY <2>1, <1>6, EachAppend
  <2> QED BY <2>1, <2>2, <1>8 DEF ItemOf
<1>12. h \in Seq(Lines) /\ E \in Seq(Lines) /\ ItemOf(x) \in Lines /\ Len(h) = 1 /\ Len(E) = Len(v)
  <2>1. E \in Seq(Lines) /\ Len(E) = Len(v)
    <3>1. 12 \in {12, 18}
      OBVIOUS
    <3> QED BY <3>1, <1>6, <1>8, ItemsAre
  <2>2. Line(10, "requires:", <<>>) \in Lines
    <3>1. PICK d, k : d = 10 /\ k = "requires:" /\ d \in Depths /\ k \in KeyNames
      BY DEF Depths, KeyNames
    <3>2. Line(d, k, <<>>) \in Lines
      BY <3>1, Nil, LineTyped
    <3> QED BY <3>1, <3>2
  <2>3. ItemOf(x) \in Lines
    <3>1. PICK d, k : d = 12 /\ k = "- item" /\ d \in Depths /\ k \in KeyNames
      BY DEF Depths, KeyNames
    <3>2. Line(d, k, <<x>>) \in Lines
      BY <3>1, LineOne
    <3> QED BY <3>1, <3>2 DEF ItemOf
  <2>4. PICK l : l = Line(10, "requires:", <<>>)
    OBVIOUS
  <2>5. <<l>> \in Seq(Lines) /\ Len(<<l>>) = 1
    BY <2>2, <2>4, Single
  <2>6. h = <<l>>
    BY <2>4, <1>8
  <2> QED BY <2>1, <2>3, <2>5, <2>6
<1>13. RequiresText(g.requires) = Q \o <<ItemOf(x)>>
  <2>1. h \o Append(E, ItemOf(x)) = Append(h \o E, ItemOf(x))
    BY <1>12, AppendLast
  <2>2. Append(Q, ItemOf(x)) = Q \o <<ItemOf(x)>>
    BY <1>2, <1>12, AppendLast
  <2> QED BY <2>1, <2>2, <1>9, <1>10, <1>11
<1>14. EntryText(g) = (B \o (Q \o <<ItemOf(x)>>)) \o C
  <2>1. EntryText(g) = (Before(g) \o RequiresText(g.requires)) \o After(g)
    BY <1>7, EntrySplit
  <2>2. Before(g) = B /\ After(g) = C
    BY <1>1, GainedAround
  <2> QED BY <2>1, <2>2, <1>13
<1>15. PICK u : u = <<ItemOf(x)>>
  OBVIOUS
<1>16. u \in Seq(Sayings)
  BY <1>15, ItemIs
<1>17. B \o (Q \o u) = (B \o Q) \o u
  BY SMTT(40), <1>4, <1>16, Associates
<1>18. PICK A, n : A = B \o Q /\ n = <<>>
  OBVIOUS
<1>19. A \in Seq(Sayings) /\ A \o n = A /\ n \in Seq(Sayings)
  BY <1>4, <1>18
<1>20. Inside(e, g, A, n, C, u)
  <2>1. EntryText(e) = (A \o n) \o C
    BY <1>2, <1>18, <1>19
  <2>2. EntryText(g) = (A \o u) \o C
    BY <1>14, <1>15, <1>17, <1>18
  <2>3. {A, n, C, u} \subseteq Seq(Sayings)
    BY <1>4, <1>16, <1>19
  <2> QED BY <2>1, <2>2, <2>3 DEF Inside
<1>21. Len(A) = Len(B) + 1 + Len(v)
  <2>1. Len(Q) = 1 + Len(E)
    <3>1. h \in Seq(Lines) /\ E \in Seq(Lines) /\ Len(h) = 1
      BY <1>12
    <3>2. Len(h \o E) = Len(h) + Len(E)
      BY <3>1, ConcatAt
    <3> QED BY <3>1, <3>2, <1>9
  <2>2. Len(A) = Len(B) + Len(Q)
    BY <1>4, <1>18
  <2>3. PICK b, m, k, l : b = Len(B) /\ m = Len(Q) /\ k = Len(v) /\ l = Len(A)
    OBVIOUS
  <2>4. b \in Nat /\ m \in Nat /\ k \in Nat /\ m = 1 + k /\ l = b + m
    BY <2>1, <2>2, <2>3, <1>4, <1>6, <1>12
  <2>5. l = b + 1 + k
    BY <2>4
  <2> QED BY <2>3, <2>5
<1> QED BY <1>1, <1>5, <1>15, <1>18, <1>20, <1>21

\* A name more in an inline list.
LEMMA InlineGained ==
  ASSUME NEW e \in Entry, e.requires.form = "inline", NEW x \in Words
  PROVE  Inside(e, Gained(e, x), Before(e), <<InlineOf(e.requires.items)>>, After(e),
                <<InlineOf(Append(e.requires.items, x))>>)
<1>1. PICK B, Q, C, g : B = Before(e) /\ Q = RequiresText(e.requires) /\ C = After(e) /\ g = Gained(e, x)
  OBVIOUS
<1>2. B \in Seq(Lines) /\ Q \in Seq(Lines) /\ C \in Seq(Lines) /\ EntryText(e) = (B \o Q) \o C
  BY <1>1, EntrySplit
<1>3. EntryText(e) \in Seq(Sayings)
  BY EntrySayings
<1>4. B \in Seq(Sayings) /\ Q \in Seq(Sayings) /\ C \in Seq(Sayings)
  <2>1. Trio(Lines, B, Q, C)
    BY <1>2 DEF Trio
  <2>2. (B \o Q) \o C \in Seq(Sayings)
    BY <1>2, <1>3
  <2>3. {B, Q, C} \subseteq Seq(Sayings)
    BY <2>1, <2>2, PartsWithin
  <2> QED BY <2>3
<1>5. PICK v, q : v = e.requires.items /\ q = Append(v, x)
  OBVIOUS
<1>6. v \in Seq(Words) /\ q \in Seq(Words)
  BY <1>5, EntryTyped
<1>7. g \in Entry /\ g.requires.form = "inline" /\ g.requires.items = q
  BY <1>1, <1>5, GainedIs
<1>8. Q = <<InlineOf(v)>> /\ RequiresText(g.requires) = <<InlineOf(q)>>
  BY <1>1, <1>5, <1>7, RequiresHas DEF InlineOf
<1>9. EntryText(g) = (B \o <<InlineOf(q)>>) \o C
  <2>1. EntryText(g) = (Before(g) \o RequiresText(g.requires)) \o After(g)
    BY <1>7, EntrySplit
  <2>2. Before(g) = B /\ After(g) = C
    BY <1>1, GainedAround
  <2> QED BY <2>1, <2>2, <1>8
<1>10. PICK u : u = <<InlineOf(q)>>
  OBVIOUS
<1>11. u \in Seq(Sayings)
  BY <1>6, <1>10, InlineIs
<1>12. Inside(e, g, B, Q, C, u)
  <2>1. {B, Q, C, u} \subseteq Seq(Sayings)
    BY <1>4, <1>11
  <2> QED BY <2>1, <1>2, <1>9, <1>10 DEF Inside
<1> QED BY <1>1, <1>5, <1>8, <1>10, <1>12

LEMMA SliceSame ==
  ASSUME NEW T, NEW s \in Seq(T), NEW t \in Seq(T), NEW at, at \in Nat, NEW n, n \in Nat,
         at + n <= Len(s), at + n <= Len(t), \A j \in 1..n : s[at + j] = t[at + j]
  PROVE  SubSeq(s, at + 1, at + n) = SubSeq(t, at + 1, at + n)
<1>1. PICK u, v : u = SubSeq(s, at + 1, at + n) /\ v = SubSeq(t, at + 1, at + n)
  OBVIOUS
<1>2. u \in Seq(T) /\ Len(u) = n /\ \A j \in 1..n : u[j] = s[at + j]
  BY <1>1, Slice
<1>3. v \in Seq(T) /\ Len(v) = n /\ \A j \in 1..n : v[j] = t[at + j]
  BY <1>1, Slice
<1>4. \A j \in 1..n : u[j] = v[j]
  BY <1>2, <1>3
<1>5. u = v
  BY <1>2, <1>3, <1>4
<1> QED BY <1>1, <1>5

\* A line that is changed is a line that another takes the place of.
LEMMA ExceptSplice ==
  ASSUME NEW T, NEW t \in Seq(T), NEW a \in DOMAIN t, NEW l, l \in T
  PROVE  [t EXCEPT ![a] = l] = Splice(t, a, a, <<l>>)
<1>1. PICK n : n = Len(t) /\ n \in Nat /\ DOMAIN t = 1..n /\ a \in 1..n
  BY Places
<1>2. PICK E : E = [t EXCEPT ![a] = l]
  OBVIOUS
<1>3. E \in Seq(T) /\ Len(E) = n
  BY <1>1, <1>2
<1>4. E[a] = l /\ \A j \in 1..n : j # a => E[j] = t[j]
  BY <1>1, <1>2
<1>5. PICK k, m : k = a - 1 /\ m = n - a
  OBVIOUS
<1>6. k \in Nat /\ m \in Nat /\ k + 1 = a /\ a + m = n /\ a \in Nat
  BY <1>1, <1>5
<1>7. SubSeq(E, 0 + 1, 0 + k) = SubSeq(t, 0 + 1, 0 + k)
  <2>1. 0 \in Nat /\ 0 + k <= Len(E) /\ 0 + k <= Len(t)
    BY <1>1, <1>3, <1>6
  <2>2. \A j \in 1..k : E[0 + j] = t[0 + j]
    <3> TAKE j \in 1..k
    <3>1. 0 + j \in 1..n /\ 0 + j # a
      BY <1>1, <1>6
    <3> QED BY <3>1, <1>4
  <2> QED BY <2>1, <2>2, <1>3, <1>6, SliceSame
<1>8. SubSeq(E, a + 1, a + m) = SubSeq(t, a + 1, a + m)
  <2>1. a + m <= Len(E) /\ a + m <= Len(t)
    BY <1>1, <1>3, <1>6
  <2>2. \A j \in 1..m : E[a + j] = t[a + j]
    <3> TAKE j \in 1..m
    <3>1. a + j \in 1..n /\ a + j # a
      BY <1>1, <1>6
    <3> QED BY <3>1, <1>4
  <2>3. E \in Seq(T) /\ a \in Nat /\ m \in Nat
    BY <1>3, <1>6
  <2> QED BY SMTT(40), <2>1, <2>2, <2>3, SliceSame
<1>9. E = (SubSeq(E, 1, a - 1) \o <<E[a]>>) \o SubSeq(E, a + 1, Len(E))
  <2>1. a \in DOMAIN E
    BY <1>1, <1>3
  <2> QED BY <2>1, <1>3, Around
<1>10. SubSeq(E, 1, a - 1) = SubSeq(t, 1, a - 1)
  <2>1. 0 + 1 = 1 /\ 0 + k = a - 1
    BY <1>5, <1>6
  <2> QED BY <2>1, <1>7
<1>11. SubSeq(E, a + 1, Len(E)) = SubSeq(t, a + 1, Len(t))
  BY <1>1, <1>3, <1>6, <1>8
<1>12. E = (SubSeq(t, 1, a - 1) \o <<l>>) \o SubSeq(t, a + 1, Len(t))
  BY <1>4, <1>9, <1>10, <1>11
<1> QED BY <1>2, <1>12 DEF Splice

LEMMA InlineMore ==
  ASSUME NEW v, NEW x
  PROVE  [InlineOf(v) EXCEPT !.value = Append(@, x)] = InlineOf(Append(v, x))
<1>1. InlineOf(v).value = v
  BY DEF InlineOf, Line
<1>2. PICK q : q = Append(v, x)
  OBVIOUS
<1>3. [InlineOf(v) EXCEPT !.value = q] = InlineOf(q)
  <2>1. PICK d, k : d = 10 /\ k = "requires: []"
    OBVIOUS
  <2>2. [[depth |-> d, key |-> k, value |-> v] EXCEPT !.value = q]
          = [depth |-> d, key |-> k, value |-> q]
    OBVIOUS
  <2>3. InlineOf(v) = [depth |-> d, key |-> k, value |-> v]
    BY <2>1 DEF InlineOf, Line
  <2>4. InlineOf(q) = [depth |-> d, key |-> k, value |-> q]
    BY <2>1 DEF InlineOf, Line
  <2> QED BY <2>2, <2>3, <2>4
<1> QED BY <1>1, <1>2, <1>3

LEMMA ExtendedIs ==
  ASSUME NEW t, NEW s, NEW f, NEW x, ~Contains(s.items, x), s.form # "inline",
         f \in Nat, s.last \in Nat, NEW a, a = f + s.last
  PROVE  Extended(t, s, f, x) = Splice(t, a, a - 1, <<ItemOf(x)>>)
<1>1. PICK u, l : u = <<ItemOf(x)>> /\ l = s.last
  OBVIOUS
<1>2. Extended(t, s, f, x) = Splice(t, f + l, f + l - 1, u)
  BY <1>1 DEF Extended, ItemOf
<1>3. f + l = a /\ f + l - 1 = a - 1
  BY <1>1
<1> QED BY <1>1, <1>2, <1>3

LEMMA ExtendedIn ==
  ASSUME NEW t \in Seq(Lines), NEW s, NEW f, NEW x, ~Contains(s.items, x), s.form = "inline",
         NEW a, a = f + s.at - 1, a \in DOMAIN t, NEW v, t[a] = InlineOf(v),
         InlineOf(Append(v, x)) \in Lines
  PROVE  Extended(t, s, f, x) = Splice(t, a, a, <<InlineOf(Append(v, x))>>)
<1>1. Extended(t, s, f, x) = [t EXCEPT ![f + s.at - 1].value = Append(@, x)]
  BY DEF Extended
<1>2. PICK b, m : b = InlineOf(v) /\ m = InlineOf(Append(v, x))
  OBVIOUS
<1>3. [b EXCEPT !.value = Append(@, x)] = m
  BY <1>2, InlineMore
<1>4. [t EXCEPT ![a].value = Append(@, x)] = [t EXCEPT ![a] = [b EXCEPT !.value = Append(@, x)]]
  BY <1>2
<1>5. [t EXCEPT ![a].value = Append(@, x)] = [t EXCEPT ![a] = m]
  BY <1>3, <1>4
<1>6. [t EXCEPT ![a] = m] = Splice(t, a, a, <<m>>)
  BY <1>2, ExceptSplice
<1>7. Extended(t, s, f, x) = [t EXCEPT ![a].value = Append(@, x)]
  BY <1>1
<1> QED BY <1>2, <1>5, <1>6, <1>7

LEMMA ChangedIs ==
  ASSUME NEW t, NEW r, NEW a, NEW b, NEW e, NEW g, NEW u, u \in Seq(Sayings), u # <<>>,
         a \in r.first..r.last + 1, b \in a..r.last + 1,
         NEW A, NEW B, NEW C, Inside(e, g, A, B, C, u),
         Rank(Body(t, r), a - r.first + 1) = Len(A) + 1,
         Rank(Body(t, r), b - r.first + 1) = Len(A) + Len(B) + 1,
         NEW X, X = SubSeq(t, 1, a - 1), Open(X, u[1].depth),
         ~Deep(u[1]) \/ (Len(X) # 0 /\ Significant(X[Len(X)]))
  PROVE  Changed(t, r, a, b, e, g, u)
<1>1. \E A2, B2, C2 : /\ Inside(e, g, A2, B2, C2, u)
                      /\ Rank(Body(t, r), a - r.first + 1) = Len(A2) + 1
                      /\ Rank(Body(t, r), b - r.first + 1) = Len(A2) + Len(B2) + 1
  OBVIOUS
<1> QED BY <1>1 DEF Changed

\* How a name is appended to a list of an entry.
Appends(t, r, e, x) ==
  \E a, b, u : /\ Changed(t, r, a, b, e, Gained(e, x), u)
               /\ AppendAt(t, r, x) = Splice(t, a, b - 1, u) /\ r.first < a

LEMMA BlockAppends ==
  ASSUME NEW t \in Seq(Lines), Nested(t), NEW r, NEW G, NEW es, NEW i, NEW z \in 1..Len(t) + 1,
         Ranged(t, r, G, es, i, z), NEW e, e = es[i], e \in Entry, Sound(e),
         e.requires.form = "block", NEW x \in Words, ~Contains(e.requires.items, x)
  PROVE  Appends(t, r, e, x)
<1>1. PICK y, s, f, h, N : /\ y = Body(t, r) /\ s = RequiresShape(y) /\ f = r.first /\ h = r.last
                           /\ N = Len(t)
  OBVIOUS
<1>2. /\ y \in Seq(Lines) /\ Writes(y, e) /\ Nested(y) /\ Len(y) = h + 1 - f
      /\ \A n \in 1..Len(y) : y[n] = t[f + n - 1]
  BY <1>1, RangeRead
<1>3. f \in Nat /\ h \in Nat /\ f <= h /\ h < z /\ N \in Nat /\ z \in 1..N + 1 /\ f \in DOMAIN t /\ f \in 1..N
  BY <1>1, Places DEF Ranged, Opener
<1>4. PICK l, n : l = s.last /\ n = Len(e.requires.items)
  OBVIOUS
<1>5. /\ s.form = "block" /\ s.items = e.requires.items /\ l \in DOMAIN y /\ Significant(y[l])
      /\ n \in Nat /\ Rank(y, l) = Len(Before(e)) + 1 + n
  BY <1>1, <1>2, <1>4, BlockRead
<1>6. PICK a, u : a = f + l /\ u = <<ItemOf(x)>>
  OBVIOUS
<1>7. AppendAt(t, r, x) = Splice(t, a, a - 1, u)
  <2>1. AppendAt(t, r, x) = Extended(t, s, f, x)
    BY <1>1 DEF AppendAt
  <2>2. ~Contains(s.items, x) /\ s.form # "inline"
    BY <1>5
  <2>3. a = f + s.last
    BY <1>4, <1>6
  <2>4. Extended(t, s, f, x) = Splice(t, a, a - 1, <<ItemOf(x)>>)
    <3>1. f \in Nat /\ s.last \in Nat
      BY <1>2, <1>3, <1>4, <1>5, Places
    <3> QED BY <3>1, <2>2, <2>3, ExtendedIs
  <2> QED BY <2>1, <2>4, <1>6
<1>8. l \in 1..(h + 1 - f) /\ l \in Nat
  BY <1>2, <1>5, Places
<1>9. /\ a \in f..h + 1 /\ f < a /\ a - f + 1 = l + 1 /\ a - 1 = f + l - 1 /\ a - 1 \in 1..N
      /\ a - 1 \in Nat /\ a \in Nat
  BY <1>3, <1>6, <1>8
<1>10. PICK A : /\ Inside(e, Gained(e, x), A, <<>>, After(e), u)
                /\ Len(A) = Len(Before(e)) + 1 + n
  <2>1. \E A : /\ Inside(e, Gained(e, x), A, <<>>, After(e), <<ItemOf(x)>>)
               /\ Len(A) = Len(Before(e)) + 1 + Len(e.requires.items)
    BY BlockGained
  <2> QED BY <2>1, <1>4, <1>6
<1>11. Rank(y, a - f + 1) = Len(A) + 1
  <2>1. Rank(y, l + 1) = Rank(y, l) + 1
    BY <1>2, <1>5, RankNext
  <2> QED BY <2>1, <1>5, <1>9, <1>10
<1>12. Rank(y, a - f + 1) = Len(A) + Len(<<>>) + 1
  <2>1. PICK k : k = Len(A)
    OBVIOUS
  <2>2. k \in Nat
    <3>1. A \in Seq(Sayings)
      BY <1>10 DEF Inside
    <3> QED BY <3>1, <2>1
  <2>3. PICK o : o = Len(<<>>) /\ o = 0
    OBVIOUS
  <2>4. k + o + 1 = k + 1
    BY <2>2, <2>3
  <2> QED BY <2>1, <2>3, <2>4, <1>11
<1>13. PICK X : X = SubSeq(t, 1, a - 1)
  OBVIOUS
<1>14. X \in Seq(Lines) /\ Len(X) = a - 1 /\ X[a - 1] = t[a - 1]
  <2>1. /\ SubSeq(t, 0 + 1, 0 + (a - 1)) \in Seq(Lines) /\ Len(SubSeq(t, 0 + 1, 0 + (a - 1))) = a - 1
        /\ \A j \in 1..a - 1 : SubSeq(t, 0 + 1, 0 + (a - 1))[j] = t[0 + j]
    BY <1>1, <1>9, Slice
  <2>2. SubSeq(t, 0 + 1, 0 + (a - 1)) = X
    BY <1>9, <1>13
  <2>3. a - 1 \in 1..a - 1 /\ 0 + (a - 1) = a - 1
    BY <1>9
  <2> QED BY <2>1, <2>2, <2>3
<1>15. Significant(X[a - 1])
  BY <1>2, <1>5, <1>8, <1>9, <1>14
<1>16. Open(X, 12)
  <2>1. PICK k : k = a - 1
    OBVIOUS
  <2>2. k \in DOMAIN X /\ Significant(X[k]) /\ Len(X) = k /\ k \in Nat
    BY <2>1, <1>9, <1>14, <1>15
  <2>3. \A j \in k + 1..Len(X) : Remark(X[j]) => 12 <= X[j].depth
    BY <2>2
  <2> QED BY <2>2, <2>3, <1>14, OpenAfter
<1>17. u \in Seq(Sayings) /\ u # <<>> /\ u[1].depth = 12
  BY <1>6, ItemIs
<1>18. Open(X, u[1].depth) /\ Len(X) # 0 /\ Significant(X[Len(X)])
  BY <1>9, <1>14, <1>15, <1>16, <1>17
<1>19. a \in a..h + 1
  BY <1>9, <1>3
<1>20. Changed(t, r, a, a, e, Gained(e, x), u)
  <2>1. \E A2, B2, C2 : /\ Inside(e, Gained(e, x), A2, B2, C2, u)
                        /\ Rank(Body(t, r), a - r.first + 1) = Len(A2) + 1
                        /\ Rank(Body(t, r), a - r.first + 1) = Len(A2) + Len(B2) + 1
    BY <1>1, <1>10, <1>11, <1>12
  <2>2. a \in r.first..r.last + 1 /\ a \in a..r.last + 1
    BY <1>1, <1>9, <1>19
  <2> QED BY <2>1, <2>2, <1>13, <1>17, <1>18 DEF Changed
<1> QED BY <1>1, <1>7, <1>9, <1>20 DEF Appends

LEMMA InlineAppends ==
  ASSUME NEW t \in Seq(Lines), Tidy(t), Nested(t), NEW r, NEW G, NEW es, NEW i,
         NEW z \in 1..Len(t) + 1,
         Ranged(t, r, G, es, i, z), NEW e, e = es[i], e \in Entry, Sound(e),
         e.requires.form = "inline", NEW x \in Words, ~Contains(e.requires.items, x)
  PROVE  Appends(t, r, e, x)
<1>1. PICK y, s, f, h, N, v : /\ y = Body(t, r) /\ s = RequiresShape(y) /\ f = r.first /\ h = r.last
                              /\ N = Len(t) /\ v = e.requires.items
  OBVIOUS
<1>2. /\ y \in Seq(Lines) /\ Writes(y, e) /\ Nested(y) /\ Len(y) = h + 1 - f
      /\ \A n \in 1..Len(y) : y[n] = t[f + n - 1]
  BY <1>1, RangeRead
<1>3. /\ f \in Nat /\ h \in Nat /\ f <= h /\ h < z /\ N \in Nat /\ z \in 1..N + 1
      /\ f \in DOMAIN t /\ f \in 1..N /\ t[f] = JobLine(e.orbJob)
  BY <1>1, Places DEF Ranged, Opener
<1>4. PICK l : l = s.at
  OBVIOUS
<1>5. /\ s = Shape("inline", v, l, l) /\ l \in DOMAIN y /\ Significant(y[l])
      /\ Rank(y, l) = Len(Before(e)) + 1 /\ y[l] = InlineOf(v)
  BY <1>1, <1>2, <1>4, InlineRead DEF InlineOf
<1>6. v \in Seq(Words) /\ Append(v, x) \in Seq(Words)
  BY <1>1, EntryTyped
<1>7. PICK q, u, a : q = Append(v, x) /\ u = <<InlineOf(q)>> /\ a = f + l - 1
  OBVIOUS
<1>8. l \in 1..(h + 1 - f) /\ l \in Nat
  BY <1>2, <1>5, Places
<1>9. /\ a \in f..h + 1 /\ a + 1 \in a..h + 1 /\ a - f + 1 = l /\ a + 1 - f + 1 = l + 1
      /\ a \in 1..N /\ a \in Nat /\ a + 1 - 1 = a /\ a \in 1..N + 1 /\ a + 1 \in a..N + 1
  BY <1>3, <1>7, <1>8
<1>10. t[a] = InlineOf(v)
  BY <1>2, <1>5, <1>7, <1>8
<1>11. f < a
  <2>1. JobLine(e.orbJob).key = "- job" /\ InlineOf(v).key = "requires: []"
    BY DEF JobLine, InlineOf, Line
  <2>2. f # a
    BY <2>1, <1>3, <1>10
  <2> QED BY <2>2, <1>3, <1>9
<1>12. AppendAt(t, r, x) = Splice(t, a, a, u)
  <2>1. s.form = "inline" /\ s.items = v /\ s.at = l
    BY <1>5 DEF Shape
  <2>2. AppendAt(t, r, x) = Extended(t, s, f, x)
    BY <1>1 DEF AppendAt
  <2>3. ~Contains(s.items, x) /\ a = f + s.at - 1
    BY <2>1, <1>1, <1>7
  <2>4. a \in DOMAIN t
    BY <1>1, <1>9
  <2>5. InlineOf(Append(v, x)) \in Lines
    BY <1>6, InlineIs
  <2>6. Extended(t, s, f, x) = Splice(t, a, a, <<InlineOf(Append(v, x))>>)
    BY <2>1, <2>3, <2>4, <2>5, <1>10, ExtendedIn
  <2> QED BY <2>2, <2>6, <1>7
<1>13. Inside(e, Gained(e, x), Before(e), <<InlineOf(v)>>, After(e), u)
  BY <1>1, <1>7, InlineGained
<1>14. Len(<<InlineOf(v)>>) = 1
  BY <1>6, InlineIs
<1>15. PICK B, k, m : B = <<InlineOf(v)>> /\ k = Len(Before(e)) /\ m = Len(B) /\ m = 1
  BY <1>14
<1>16. k \in Nat
  <2>1. Before(e) \in Seq(Lines)
    BY EntrySplit
  <2> QED BY <2>1, <1>15
<1>17. Rank(y, a - f + 1) = Len(Before(e)) + 1
  BY <1>5, <1>9
<1>18. Rank(y, a + 1 - f + 1) = Len(Before(e)) + Len(B) + 1
  <2>1. Rank(y, l + 1) = Rank(y, l) + 1
    BY <1>2, <1>5, RankNext
  <2>2. PICK o : o = Rank(y, l + 1)
    OBVIOUS
  <2>3. o = k + 1 + 1
    BY <2>1, <2>2, <1>5, <1>15
  <2>4. o = k + m + 1
    BY <2>3, <1>15, <1>16
  <2> QED BY <2>2, <2>4, <1>9, <1>15
<1>19. PICK X, Y : X = SubSeq(t, 1, a - 1) /\ Y = SubSeq(t, a + 1, N)
  OBVIOUS
<1>20. Cut(t, a, a + 1, X, Y)
  BY <1>1, <1>9, <1>19 DEF Cut
<1>21. Open(X, 10)
  <2>1. a \in DOMAIN t /\ Significant(t[a]) /\ t[a].depth = 10
    <3>1. InlineOf(v).depth = 10
      BY DEF InlineOf, Line
    <3> QED BY <3>1, <1>1, <1>5, <1>9, <1>10
  <2>2. Open(X, t[a].depth)
    BY <2>1, <1>20, OpenBefore
  <2> QED BY <2>1, <2>2
<1>22. u \in Seq(Sayings) /\ u # <<>> /\ u[1].depth = 10 /\ ~Deep(u[1])
  <2>1. u \in Seq(Sayings) /\ u # <<>> /\ u[1].depth = 10
    BY <1>6, <1>7, InlineIs
  <2>2. u[1] \in Sayings
    BY <2>1
  <2> QED BY <2>1, <2>2, NotDeep DEF Sayings
<1>23. PICK b : b = a + 1
  OBVIOUS
<1>24. Changed(t, r, a, b, e, Gained(e, x), u)
  <2>1. Inside(e, Gained(e, x), Before(e), B, After(e), u)
    BY <1>13, <1>15
  <2>2. /\ Rank(Body(t, r), a - r.first + 1) = Len(Before(e)) + 1
        /\ Rank(Body(t, r), b - r.first + 1) = Len(Before(e)) + Len(B) + 1
    <3>1. b - f + 1 = a + 1 - f + 1
      BY <1>3, <1>9, <1>23
    <3>2. Rank(y, b - f + 1) = Len(Before(e)) + Len(B) + 1
      BY <3>1, <1>18
    <3> QED BY <3>2, <1>1, <1>17
  <2>3. a \in r.first..r.last + 1 /\ b \in a..r.last + 1
    BY <1>1, <1>9, <1>23
  <2>4. Open(X, u[1].depth)
    BY <1>21, <1>22
  <2>5. u \in Seq(Sayings) /\ u # <<>>
    BY <1>22
  <2> QED BY <2>1, <2>2, <2>3, <2>4, <2>5, <1>19, <1>22, ChangedIs
<1>25. AppendAt(t, r, x) = Splice(t, a, b - 1, u)
  BY <1>9, <1>12, <1>23
<1>26. r.first < a
  BY <1>1, <1>11
<1> QED BY <1>24, <1>25, <1>26 DEF Appends

\* Two texts that begin alike.
Same(s, t, m) ==
  /\ s \in Seq(Lines) /\ t \in Seq(Lines) /\ m \in Nat /\ m <= Len(s) /\ m <= Len(t)
  /\ \A j \in 1..m : s[j] = t[j]

Within(a, b, m) == a \in 1..m + 1 /\ b \in a - 1..m
Agree(s, t, k, n) ==
  /\ k \in Nat /\ n \in Nat /\ k + n <= Len(s) /\ k + n <= Len(t)
  /\ \A j \in 1..n : s[k + j] = t[k + j]

IsSlice(u, s, a, b) == u = SubSeq(s, a, b)

LEMMA AgreeSlice ==
  ASSUME NEW T, NEW s, s \in Seq(T), NEW t, t \in Seq(T), NEW k, NEW n, Agree(s, t, k, n),
         NEW a, a = k + 1, NEW b, b = k + n, NEW u, IsSlice(u, s, a, b), NEW v, IsSlice(v, t, a, b)
  PROVE  u = v
<1>0. u = SubSeq(s, k + 1, k + n) /\ v = SubSeq(t, k + 1, k + n)
  BY DEF IsSlice
<1>1. k \in Nat /\ n \in Nat /\ k + n <= Len(s) /\ k + n <= Len(t)
  BY DEF Agree
<1>2. u \in Seq(T) /\ Len(u) = n /\ \A j \in 1..n : u[j] = s[k + j]
  BY <1>0, <1>1, Slice
<1>3. v \in Seq(T) /\ Len(v) = n /\ \A j \in 1..n : v[j] = t[k + j]
  BY <1>0, <1>1, Slice
<1>4. \A j \in 1..n : u[j] = v[j]
  BY <1>2, <1>3 DEF Agree
<1> QED BY <1>2, <1>3, <1>4

LEMMA SameSlice ==
  ASSUME NEW s, NEW t, NEW m, Same(s, t, m), NEW a, NEW b, Within(a, b, m),
         NEW u, IsSlice(u, s, a, b), NEW v, IsSlice(v, t, a, b)
  PROVE  u = v
<1>1. s \in Seq(Lines) /\ t \in Seq(Lines)
  BY DEF Same
<1>2. m \in Nat /\ m <= Len(s) /\ m <= Len(t) /\ \A j \in 1..m : s[j] = t[j]
  BY DEF Same
<1>3. PICK k, n : k = a - 1 /\ n = b + 1 - a
  OBVIOUS
<1>4. k \in Nat /\ n \in Nat /\ k + 1 = a /\ k + n = b /\ k + n <= m
  BY <1>2, <1>3 DEF Within
<1>5. k + n <= Len(s) /\ k + n <= Len(t)
  <2>1. Len(s) \in Nat /\ Len(t) \in Nat
    BY <1>1
  <2> QED BY <2>1, <1>2, <1>4
<1>6. \A j \in 1..n : s[k + j] = t[k + j]
  <2> TAKE j \in 1..n
  <2>1. k + j \in 1..m
    BY <1>2, <1>4
  <2> QED BY <2>1, <1>2
<1>7. Agree(s, t, k, n)
  BY <1>4, <1>5, <1>6 DEF Agree
<1>8. a = k + 1 /\ b = k + n
  BY <1>4
<1> QED BY <1>1, <1>7, <1>8, AgreeSlice

LEMMA SameRank ==
  ASSUME NEW s, NEW t, NEW m, Same(s, t, m), NEW b, b \in 1..m + 1
  PROVE  Rank(s, b) = Rank(t, b)
<1>1. m \in Nat
  BY DEF Same
<1>2. Within(1, b - 1, m)
  BY <1>1 DEF Within
<1>3. PICK c, x, y : c = b - 1 /\ x = SubSeq(s, 1, c) /\ y = SubSeq(t, 1, c)
  OBVIOUS
<1>5. IsSlice(x, s, 1, c) /\ IsSlice(y, t, 1, c) /\ Within(1, c, m)
  BY <1>2, <1>3 DEF IsSlice
<1>4. x = y
  BY <1>5, SameSlice
<1> QED BY <1>3, <1>4 DEF Rank

LEMMA FromTo ==
  ASSUME NEW T, NEW t \in Seq(T), NEW a \in 1..Len(t) + 1, NEW b \in a..Len(t) + 1
  PROVE  SubSeq(t, 1, a - 1) \in Seq(T) /\ SubSeq(t, b, Len(t)) \in Seq(T)
<1>1. b \in 1..Len(t) + 1 /\ a <= b
  OBVIOUS
<1> QED BY <1>1, InThree

\* A change leaves what stands before it.
LEMMA SameSplice ==
  ASSUME NEW t \in Seq(Lines), NEW a, a \in 1..Len(t) + 1, NEW b, b \in a..Len(t) + 1,
         NEW u, u \in Seq(Lines), NEW m, m \in Nat, m < a
  PROVE  Same(t, Splice(t, a, b - 1, u), m)
<1>1. PICK x, y, v : x = SubSeq(t, 1, a - 1) /\ y = SubSeq(t, b, Len(t)) /\ v = Splice(t, a, b - 1, u)
  OBVIOUS
<1>2. v = (x \o u) \o y /\ x \in Seq(Lines) /\ y \in Seq(Lines) /\ v \in Seq(Lines)
  <2>1. /\ Splice(t, a, b - 1, u) = (x \o u) \o y
        /\ x \in Seq(Lines) /\ y \in Seq(Lines) /\ (x \o u) \o y \in Seq(Lines)
    <3>1. x \in Seq(Lines) /\ y \in Seq(Lines)
      BY <1>1, FromTo
    <3>2. (x \o u) \o y \in Seq(Lines)
      BY <3>1, MiddleAt
    <3>3. b - 1 + 1 = b
      OBVIOUS
    <3> QED BY <3>1, <3>2, <3>3, <1>1 DEF Splice
  <2> QED BY <2>1, <1>1
<1>3. Len(t) \in Nat /\ a \in Nat /\ a - 1 \in Nat /\ m <= a - 1 /\ m <= Len(t) /\ 0 + (a - 1) = a - 1
      /\ 0 \in Nat /\ 0 + 1 = 1 /\ a - 1 <= Len(t)
  OBVIOUS
<1>4. Len(x) = a - 1 /\ \A j \in 1..a - 1 : x[j] = t[j]
  <2>1. /\ Len(SubSeq(t, 0 + 1, 0 + (a - 1))) = a - 1
        /\ \A j \in 1..a - 1 : SubSeq(t, 0 + 1, 0 + (a - 1))[j] = t[0 + j]
    BY <1>3, Slice
  <2>2. SubSeq(t, 0 + 1, 0 + (a - 1)) = x
    BY <1>1, <1>3
  <2>3. \A j \in 1..a - 1 : 0 + j = j
    OBVIOUS
  <2> QED BY <2>1, <2>2, <2>3
<1>5. /\ Len(v) = Len(x) + Len(u) + Len(y) /\ Len(u) \in Nat /\ Len(y) \in Nat
      /\ \A j \in 1..Len(x) : v[j] = x[j]
  BY <1>2, MiddleAt
<1>6. m <= Len(v)
  <2>1. PICK k, l, n : k = Len(x) /\ l = Len(u) /\ n = Len(y)
    OBVIOUS
  <2>2. Len(v) = k + l + n /\ l \in Nat /\ n \in Nat /\ k = a - 1
    BY <2>1, <1>4, <1>5
  <2> QED BY <2>2, <1>3
<1>7. \A j \in 1..m : t[j] = v[j]
  <2> TAKE j \in 1..m
  <2>1. j \in 1..a - 1 /\ j \in 1..Len(x)
    BY <1>3, <1>4
  <2> QED BY <2>1, <1>4, <1>5
<1>8. Same(t, v, m)
  BY <1>2, <1>3, <1>6, <1>7 DEF Same
<1> QED BY <1>1, <1>8

\* An entry above a change is where it was.
LEMMA SameRanged ==
  ASSUME NEW s, NEW t, NEW m, Same(s, t, m), NEW r, NEW G, NEW es, NEW k, NEW z,
         Ranged(s, r, G, es, k, z), r.last + 1 <= m,
         NEW f, f[k] = es[k], Offset(f, k) = Offset(es, k), Offset(f, k + 1) = Offset(es, k + 1)
  PROVE  Ranged(t, r, G, f, k, Len(t) + 1)
<1>1. PICK a, b : a = r.first /\ b = r.last
  OBVIOUS
<1>2. /\ a \in DOMAIN s /\ Significant(s[a]) /\ Rank(s, a) = Len(G) + 3 + Offset(es, k)
      /\ s[a] = JobLine(es[k].orbJob)
      /\ a \in Nat /\ b \in Nat /\ a <= b /\ b + 1 <= m
      /\ Rank(s, b + 1) = Len(G) + 3 + Offset(es, k + 1)
      /\ EndsAt(s, b + 1, 6) /\ \A j \in a + 1..b : ~Bars(s[j], 6)
      /\ Said(Body(s, r)) = EntryText(es[k])
  BY <1>1 DEF Ranged, Opener
<1>3. m \in Nat /\ m <= Len(s) /\ m <= Len(t) /\ \A j \in 1..m : s[j] = t[j]
  BY DEF Same
<1>4. Len(s) \in Nat /\ DOMAIN s = 1..Len(s) /\ Len(t) \in Nat /\ DOMAIN t = 1..Len(t)
  <2>1. s \in Seq(Lines) /\ t \in Seq(Lines)
    BY DEF Same
  <2> QED BY <2>1, Places
<1>5. a \in 1..m /\ a \in 1..m + 1 /\ b \in a - 1..m /\ b + 1 \in 1..m /\ b + 1 \in 1..m + 1
  BY <1>2, <1>3, <1>4
<1>6. s[a] = t[a] /\ s[b + 1] = t[b + 1]
  BY <1>3, <1>5
<1>7. a \in DOMAIN t /\ b < Len(t) + 1
  BY <1>2, <1>3, <1>4, <1>5
<1>8. Rank(t, a) = Rank(s, a) /\ Rank(t, b + 1) = Rank(s, b + 1)
  BY <1>5, SameRank
<1>9. EndsAt(t, b + 1, 6)
  <2>1. b + 1 # Len(s) + 1 \/ b + 1 = Len(s) + 1
    OBVIOUS
  <2>2. b + 1 # Len(s) + 1
    BY <1>2, <1>3, <1>4
  <2>3. Bars(s[b + 1], 6)
    BY <2>2, <1>2 DEF EndsAt
  <2> QED BY <2>3, <1>6 DEF EndsAt
<1>10. \A j \in a + 1..b : ~Bars(t[j], 6)
  <2> TAKE j \in a + 1..b
  <2>1. j \in 1..m
    BY <1>2, <1>3
  <2>2. s[j] = t[j]
    BY <2>1, <1>3
  <2> QED BY <2>2, <1>2
<1>11. Body(t, r) = Body(s, r)
  <2>1. PICK x, y : x = SubSeq(s, a, b) /\ y = SubSeq(t, a, b)
    OBVIOUS
  <2>2. Within(a, b, m)
    BY <1>5 DEF Within
  <2>4. IsSlice(x, s, a, b) /\ IsSlice(y, t, a, b)
    BY <2>1 DEF IsSlice
  <2>3. x = y
    BY <2>2, <2>4, SameSlice
  <2> QED BY <2>1, <2>3, <1>1 DEF Body
<1>12. Opener(t, r.first, G, f, k)
  BY <1>1, <1>2, <1>6, <1>7, <1>8 DEF Opener
<1>13. Said(Body(t, r)) = EntryText(f[k])
  BY <1>2, <1>11
<1>14. Rank(t, r.last + 1) = Len(G) + 3 + Offset(f, k + 1)
  BY <1>1, <1>2, <1>8
<1> QED BY <1>1, <1>2, <1>7, <1>9, <1>10, <1>12, <1>13, <1>14 DEF Ranged

LEMMA OffsetSame ==
  ASSUME NEW es \in Seq(Entry), NEW f \in Seq(Entry), NEW n, n \in Nat, n <= Len(es), n <= Len(f),
         \A j \in 1..n : es[j] = f[j], NEW k, k \in 1..n + 1
  PROVE  Offset(es, k) = Offset(f, k)
<1>1. PICK m : m = k - 1 /\ m \in Nat /\ m <= n /\ 0 + m = k - 1 /\ 0 + 1 = 1 /\ 0 \in Nat
  OBVIOUS
<1>2. 0 + m <= Len(es) /\ 0 + m <= Len(f)
  BY <1>1
<1>3. \A j \in 1..m : es[0 + j] = f[0 + j]
  <2> TAKE j \in 1..m
  <2>1. j \in 1..n /\ 0 + j = j
    BY <1>1
  <2> QED BY <2>1
<1>4. SubSeq(es, 0 + 1, 0 + m) = SubSeq(f, 0 + 1, 0 + m)
  BY <1>1, <1>2, <1>3, SliceSame
<1>5. SubSeq(es, 1, k - 1) = SubSeq(f, 1, k - 1)
  BY <1>1, <1>4
<1> QED BY <1>5 DEF Offset

\* What one round of AppendRequires makes of a text.
Turned(s, i, R, a, T, x) ==
  IF \E t \in T : i = Named(a, t) THEN AppendAt(s, R[i], x) ELSE s

\* The texts that its rounds come to.
Rounds(f, t, R, a, T, x) ==
  \A n \in 0..Len(R) :
    f[n] = IF n = 0 THEN t ELSE Turned(f[n - 1], Len(R) + 1 - n, R, a, T, x)

LEMMA AppendUnfolds ==
  ASSUME NEW t, NEW R, Len(R) \in Nat, NEW a, NEW T, NEW x
  PROVE  \E f : Rounds(f, t, R, a, T, x) /\ AppendRequires(t, R, a, T, x) = f[Len(R)]
<1> DEFINE m == Len(R)
           Turn(s, n) == Turned(s, m + 1 - n, R, a, T, x)
           History(f, k) == f = [n \in 0..k |-> IF n = 0 THEN t ELSE Turn(f[n - 1], n)]
           S == {k \in 0..m : \E f : History(f, k)}
<1>1. 0 \in S
  <2>1. PICK f : f = [n \in 0..0 |-> t]
    OBVIOUS
  <2>2. \A n \in 0..0 : n = 0
    OBVIOUS
  <2>3. f = [n \in 0..0 |-> IF n = 0 THEN t ELSE Turn(f[n - 1], n)]
    <3> HIDE DEF Turn
    <3> QED BY <2>1, <2>2
  <2>4. \E g : History(g, 0)
    <3> HIDE DEF Turn
    <3> QED BY <2>3
  <2> QED BY <2>4
<1>2. ASSUME NEW k \in 0..m, k \in S, k < m PROVE k + 1 \in S
  <2>1. PICK f : History(f, k)
    BY <1>2
  <2>2. PICK g : g = [n \in 0..k+1 |-> IF n = k+1 THEN Turn(f[k], n) ELSE f[n]]
    OBVIOUS
  <2>3. ASSUME NEW n \in 0..k+1 PROVE g[n] = IF n = 0 THEN t ELSE Turn(g[n - 1], n)
    <3>1. CASE n = k + 1
      <4>1. n - 1 = k /\ k \in 0..k+1 /\ k # k + 1 /\ n # 0
        BY <3>1
      <4>2. g[k] = f[k] /\ g[n] = Turn(f[k], n)
        <5> HIDE DEF Turn
        <5> QED BY <2>2, <3>1, <4>1
      <4> HIDE DEF Turn
      <4> QED BY <4>1, <4>2
    <3>2. CASE n # k + 1
      <4>1. n \in 0..k /\ (n # 0 => n - 1 \in 0..k + 1 /\ n - 1 # k + 1)
        BY <3>2
      <4>2. g[n] = f[n] /\ (n # 0 => g[n - 1] = f[n - 1])
        <5> HIDE DEF Turn
        <5> QED BY <2>2, <3>2, <4>1
      <4>3. f[n] = IF n = 0 THEN t ELSE Turn(f[n - 1], n)
        <5> HIDE DEF Turn
        <5> QED BY <2>1, <4>1
      <4> HIDE DEF Turn
      <4> QED BY <4>2, <4>3
    <3> QED BY <3>1, <3>2
  <2>4. History(g, k + 1)
    <3>1. DOMAIN g = 0..k+1 /\ g = [n \in 0..k+1 |-> g[n]]
      <4> HIDE DEF Turn
      <4> QED BY <2>2
    <3> HIDE DEF Turn
    <3> QED BY <3>1, <2>3
  <2>5. \E h : History(h, k + 1)
    <3> HIDE DEF History
    <3> QED BY <2>4
  <2> HIDE DEF History
  <2> QED BY <2>5, <1>2
<1>3. m \in S
  <2> HIDE DEF S
  <2>1. m \in Nat
    OBVIOUS
  <2>2. \A k \in 0..m : k \in S /\ k < m => k + 1 \in S
    BY <1>2
  <2> HIDE DEF m
  <2>3. 0..m \subseteq S
    BY <1>1, <2>1, <2>2, Counting
  <2> QED BY <2>1, <2>3
<1> DEFINE IsIt(f) ==
             f = [n \in 0..Len(R) |->
                    IF n = 0 THEN t
                    ELSE IF \E u \in T : Len(R) + 1 - n = Named(a, u)
                         THEN AppendAt(f[n - 1], R[Len(R) + 1 - n], x) ELSE f[n - 1]]
<1>4. PICK f : IsIt(f)
  <2>1. PICK f : History(f, m)
    BY <1>3
  <2>2. IsIt(f)
    BY <2>1 DEF Turned
  <2> HIDE DEF IsIt
  <2> QED BY <2>2
<1> DEFINE texts == CHOOSE g : IsIt(g)
<1>5. IsIt(texts)
  <2> HIDE DEF IsIt
  <2> QED BY <1>4
<1>6. AppendRequires(t, R, a, T, x) = texts[Len(R)]
  BY DEF AppendRequires
<1>7. texts = [n \in 0..Len(R) |-> IF n = 0 THEN t
                                   ELSE Turned(texts[n - 1], Len(R) + 1 - n, R, a, T, x)]
  <2> HIDE DEF texts
  <2> QED BY <1>5 DEF Turned
<1>8. Rounds(texts, t, R, a, T, x)
  <2> HIDE DEF texts
  <2> QED BY <1>7 DEF Rounds
<1> HIDE DEF texts
<1> QED BY <1>6, <1>8

\* Whether a name is to be appended to an entry.
Asked(es, T, x, k) == (\E u \in T : k = Named(es, u)) /\ ~Contains(es[k].requires.items, x)

LEMMA AddedIs ==
  ASSUME NEW es, Good(es), NEW T, Patchable(es, T), NEW x \in Words, NEW k \in DOMAIN es
  PROVE  /\ AppendTo(es, T, x)[k] = (IF Asked(es, T, x, k) THEN Gained(es[k], x) ELSE es[k])
         /\ Asked(es, T, x, k) => es[k].requires.form \in {"inline", "block"}
         /\ AppendTo(es, T, x)[k] \in Entry /\ Sound(AppendTo(es, T, x)[k])
         /\ AppendTo(es, T, x)[k].marked
<1>1. es[k] \in Entry /\ Sound(es[k]) /\ es[k].marked
  BY DEF Good
<1>2. AppendTo(es, T, x)[k] = (IF Asked(es, T, x, k) THEN Gained(es[k], x) ELSE es[k])
  BY DEF AppendTo, Asked, Gained
<1>3. Asked(es, T, x, k) => es[k].requires.form \in {"inline", "block"}
  BY DEF Patchable, Asked, Appendable
<1>4. CASE Asked(es, T, x, k)
  <2>1. PICK e, g : e = es[k] /\ g = Gained(e, x)
    OBVIOUS
  <2>2. g \in Entry /\ g.requires.form = e.requires.form /\ g.marked = e.marked
        /\ g.requires.items = Append(e.requires.items, x)
        /\ g.params = e.params /\ g.extras = e.extras
    BY <1>1, <2>1, GainedIs
  <2>3. e.requires.form \in {"inline", "block"}
    BY <1>3, <1>4, <2>1
  <2>4. e.requires.items \in Seq(Words)
    BY <1>1, <2>1, EntryTyped
  <2>5. Append(e.requires.items, x) # <<>>
    BY <2>4
  <2>6. Sound(g)
    <3>1. g.extras.nested # <<>> => g.params # <<>>
      BY <1>1, <2>1, <2>2 DEF Sound
    <3> QED BY <2>2, <2>3, <2>5, <3>1 DEF Sound
  <2> QED BY <1>1, <1>2, <1>3, <1>4, <2>1, <2>2, <2>6
<1> QED BY <1>1, <1>2, <1>3, <1>4

\* The entries above the m-th have been gone through.
Partly(es, T, x, m) ==
  [k \in DOMAIN es |-> IF k > m THEN AppendTo(es, T, x)[k] ELSE es[k]]

LEMMA PartlyGood ==
  ASSUME NEW es, Good(es), NEW T, Patchable(es, T), NEW x \in Words, NEW m
  PROVE  /\ Good(Partly(es, T, x, m)) /\ DOMAIN Partly(es, T, x, m) = DOMAIN es
         /\ Len(Partly(es, T, x, m)) = Len(es)
<1>1. PICK n, f : n = Len(es) /\ f = Partly(es, T, x, m)
  OBVIOUS
<1>2. es \in Seq(Entry)
  BY DEF Good
<1>3. n \in Nat /\ DOMAIN es = 1..n
  BY <1>1, <1>2, Places
<1>4. DOMAIN f = 1..n /\ f = [k \in 1..n |-> f[k]]
  BY <1>1, <1>3 DEF Partly
<1>5. ASSUME NEW k \in 1..n PROVE f[k] \in Entry /\ Sound(f[k]) /\ f[k].marked
  <2>1. k \in DOMAIN es
    BY <1>3
  <2>2. es[k] \in Entry /\ Sound(es[k]) /\ es[k].marked
    BY <2>1 DEF Good
  <2>3. f[k] = IF k > m THEN AppendTo(es, T, x)[k] ELSE es[k]
    BY <2>1, <1>1 DEF Partly
  <2>4. /\ AppendTo(es, T, x)[k] \in Entry /\ Sound(AppendTo(es, T, x)[k])
        /\ AppendTo(es, T, x)[k].marked
    BY <2>1, AddedIs
  <2> QED BY <2>2, <2>3, <2>4
<1>6. f \in Seq(Entry) /\ Len(f) = n
  BY <1>3, <1>4, <1>5
<1>7. Good(f)
  BY <1>4, <1>5, <1>6 DEF Good
<1> QED BY <1>1, <1>3, <1>4, <1>6, <1>7

LEMMA PartlyEnds ==
  ASSUME NEW es, Good(es), NEW T, NEW x
  PROVE  /\ Partly(es, T, x, Len(es)) = es
         /\ Partly(es, T, x, 0) = AppendTo(es, T, x)
<1>1. PICK n : n = Len(es)
  OBVIOUS
<1>2. es \in Seq(Entry)
  BY DEF Good
<1>3. n \in Nat /\ DOMAIN es = 1..n
  BY <1>1, <1>2, Places
<1>4. Partly(es, T, x, n) = es
  <2>1. \A k \in 1..n : ~(k > n)
    BY <1>3
  <2>2. es = [k \in 1..n |-> es[k]]
    BY <1>2, <1>3
  <2>3. Partly(es, T, x, n) = [k \in 1..n |-> es[k]]
    BY <2>1, <1>3 DEF Partly
  <2> QED BY <2>2, <2>3
<1>5. Partly(es, T, x, 0) = AppendTo(es, T, x)
  <2>1. PICK g : g = AppendTo(es, T, x)
    OBVIOUS
  <2>2. DOMAIN g = 1..n /\ g = [k \in 1..n |-> g[k]]
    BY <2>1, <1>3 DEF AppendTo
  <2>3. \A k \in 1..n : k > 0
    BY <1>3
  <2>4. Partly(es, T, x, 0) = [k \in 1..n |-> g[k]]
    BY <2>1, <2>3, <1>3 DEF Partly
  <2> QED BY <2>1, <2>2, <2>4
<1> QED BY <1>1, <1>4, <1>5

LEMMA PartlyTurned ==
  ASSUME NEW es, Good(es), NEW T, NEW x, NEW m \in 1..Len(es),
         NEW f, f = Partly(es, T, x, m), NEW h, h = Partly(es, T, x, m - 1),
         NEW g, g = AppendTo(es, T, x)
  PROVE  /\ Replaced(f, m, g[m], h)
         /\ \A k \in 1..m : f[k] = es[k]
         /\ \A k \in 1..m - 1 : h[k] = es[k]
<1>1. PICK n : n = Len(es)
  OBVIOUS
<1>2. es \in Seq(Entry)
  BY DEF Good
<1>3. n \in Nat /\ DOMAIN es = 1..n /\ m \in 1..n
  BY <1>1, <1>2, Places
<1>4. g = AppendTo(es, T, x) /\ f = Partly(es, T, x, m) /\ h = Partly(es, T, x, m - 1)
  OBVIOUS
<1>5. f = [k \in 1..n |-> IF k > m THEN g[k] ELSE es[k]]
  BY <1>3, <1>4 DEF Partly
<1>6. h = [k \in 1..n |-> IF k > m - 1 THEN g[k] ELSE es[k]]
  BY <1>3, <1>4 DEF Partly
<1>7. h = [f EXCEPT ![m] = g[m]]
  <2>1. [f EXCEPT ![m] = g[m]] = [k \in 1..n |-> IF k = m THEN g[m] ELSE f[k]]
    BY <1>3, <1>5
  <2>2. \A k \in 1..n : (IF k = m THEN g[m] ELSE f[k]) = (IF k > m - 1 THEN g[k] ELSE es[k])
    <3> TAKE k \in 1..n
    <3>1. f[k] = IF k > m THEN g[k] ELSE es[k]
      BY <1>5
    <3>2. CASE k = m
      BY <3>2, <1>3
    <3>3. CASE k # m
      <4>1. k > m <=> k > m - 1
        BY <3>3, <1>3
      <4> QED BY <3>1, <3>3, <4>1
    <3> QED BY <3>2, <3>3
  <2>3. [k \in 1..n |-> IF k = m THEN g[m] ELSE f[k]]
          = [k \in 1..n |-> IF k > m - 1 THEN g[k] ELSE es[k]]
    BY <2>2
  <2> QED BY <2>1, <2>3, <1>6
<1>8. \A k \in 1..m : f[k] = es[k]
  <2> TAKE k \in 1..m
  <2>1. k \in 1..n /\ ~(k > m)
    BY <1>3
  <2> QED BY <2>1, <1>5
<1>9. \A k \in 1..m - 1 : h[k] = es[k]
  <2> TAKE k \in 1..m - 1
  <2>1. k \in 1..n /\ ~(k > m - 1)
    BY <1>3
  <2> QED BY <2>1, <1>6
<1>10. Replaced(f, m, g[m], h)
  BY <1>7 DEF Replaced
<1> QED BY <1>8, <1>9, <1>10

LEMMA RefittedTwice ==
  ASSUME NEW c, Proper(c), NEW w \in DOMAIN c.workflows, NEW es, Good(es), NEW f, Good(f), NEW p
  PROVE  /\ Refitted(Refitted(c, w, es), w, f) = Refitted(c, w, f)
         /\ Refitted(c, w, es).workflows[w] = es
         /\ w \in DOMAIN Refitted(c, w, es).workflows
         /\ Ahead(Refitted(c, w, es), p, w) = Ahead(c, p, w)
         /\ Refitted(c, w, c.workflows[w]) = c
<1>1. PICK W : c \in Content(W)
  BY DEF Proper
<1>2. PICK P, h, F : P = c.pins /\ h = c.hasOrbs /\ F = c.workflows
  OBVIOUS
<1>3. c = [pins |-> P, hasOrbs |-> h, workflows |-> F] /\ F \in [W -> Seq(Entry)]
  BY <1>1, <1>2 DEF Content
<1>4. DOMAIN F = W /\ w \in W /\ F = [v \in W |-> F[v]]
  BY <1>2, <1>3
<1>5. \A g : [[pins |-> P, hasOrbs |-> h, workflows |-> F] EXCEPT !.workflows[w] = g]
               = [pins |-> P, hasOrbs |-> h, workflows |-> [F EXCEPT ![w] = g]]
  OBVIOUS
<1>6. \A g : Refitted(c, w, g) = [pins |-> P, hasOrbs |-> h, workflows |-> [F EXCEPT ![w] = g]]
  BY <1>3, <1>5 DEF Refitted
<1>7. PICK H : H = [F EXCEPT ![w] = es]
  OBVIOUS
<1>8. H[w] = es /\ w \in DOMAIN H /\ [H EXCEPT ![w] = f] = [F EXCEPT ![w] = f]
  BY <1>4, <1>7
<1>9. Refitted(c, w, es) = [pins |-> P, hasOrbs |-> h, workflows |-> H]
  BY <1>6, <1>7
<1>10. [[pins |-> P, hasOrbs |-> h, workflows |-> H] EXCEPT !.workflows[w] = f]
         = [pins |-> P, hasOrbs |-> h, workflows |-> [H EXCEPT ![w] = f]]
  OBVIOUS
<1>11. Refitted(Refitted(c, w, es), w, f) = Refitted(c, w, f)
  <2>1. Refitted(Refitted(c, w, es), w, f)
          = [pins |-> P, hasOrbs |-> h, workflows |-> [H EXCEPT ![w] = f]]
    BY <1>9, <1>10 DEF Refitted
  <2> QED BY <2>1, <1>6, <1>8
<1>12. Refitted(c, w, es).workflows = H /\ Refitted(c, w, es).hasOrbs = h
  BY <1>9
<1>13. Ahead(Refitted(c, w, es), p, w) = Ahead(c, p, w)
  <2>1. Above(H, w) = Above(F, w)
    <3>1. Flows(F) /\ w \in DOMAIN F
      BY <1>2, ProperIs
    <3>2. es \in Seq(Entry)
      BY DEF Good
    <3>3. Above([F EXCEPT ![w] = es], w) = Above(F, w)
      BY <3>1, <3>2, FlowExcept
    <3> QED BY <3>3, <1>7
  <2> QED BY <2>1, <1>2, <1>12 DEF Ahead
<1>14. Refitted(c, w, c.workflows[w]) = c
  <2>1. [F EXCEPT ![w] = F[w]] = F
    BY <1>4
  <2> QED BY <2>1, <1>2, <1>3, <1>6
<1> QED BY <1>8, <1>11, <1>12, <1>13, <1>14

LEMMA RefittedHolds ==
  ASSUME NEW c, Proper(c), NEW w \in DOMAIN c.workflows, NEW es, Good(es)
  PROVE  Refitted(c, w, es).workflows[w] = es /\ w \in DOMAIN Refitted(c, w, es).workflows
<1>1. PICK p : p = <<>>
  OBVIOUS
<1>2. /\ Refitted(c, w, es).workflows[w] = es /\ w \in DOMAIN Refitted(c, w, es).workflows
      /\ Ahead(Refitted(c, w, es), p, w) = Ahead(c, p, w)
  BY RefittedTwice
<1> QED BY <1>2

LEMMA RefittedAgain ==
  ASSUME NEW c, Proper(c), NEW w \in DOMAIN c.workflows, NEW es, Good(es), NEW f, Good(f)
  PROVE  Refitted(Refitted(c, w, es), w, f) = Refitted(c, w, f)
<1>1. PICK p : p = <<>>
  OBVIOUS
<1>2. /\ Refitted(Refitted(c, w, es), w, f) = Refitted(c, w, f)
      /\ Ahead(Refitted(c, w, es), p, w) = Ahead(c, p, w)
  BY RefittedTwice
<1> QED BY <1>2

\* A text whose entries above the m-th have been gone through.
Stage(s, c, p, w, es, T, x, R, m) ==
  /\ Fits(s, Refitted(c, w, Partly(es, T, x, m)), p)
  /\ \A k \in 1..m : Ranged(s, R[k], Ahead(c, p, w), Partly(es, T, x, m), k, Len(s) + 1)

LEMMA AppendAtIs ==
  ASSUME NEW s, NEW r, NEW x, NEW i, RequiresShape(Body(s, r)).items = i, Contains(i, x)
  PROVE  AppendAt(s, r, x) = s
  BY DEF AppendAt, Extended

\* A name is appended to an entry, or is there.
LEMMA AppendsAll ==
  ASSUME NEW s, s \in Seq(Lines), Tidy(s), Nested(s), NEW r, NEW G, NEW f, NEW m,
         Ranged(s, r, G, f, m, Len(s) + 1), NEW e, e = f[m], e \in Entry, Sound(e),
         NEW x \in Words
  PROVE  /\ Contains(e.requires.items, x) => AppendAt(s, r, x) = s
         /\ ~Contains(e.requires.items, x) /\ e.requires.form \in {"inline", "block"}
              => Appends(s, r, e, x)
<1>1. PICK z : z = Len(s) + 1 /\ z \in 1..Len(s) + 1
  OBVIOUS
<1>2. Ranged(s, r, G, f, m, z)
  BY <1>1
<1>3. ASSUME Contains(e.requires.items, x) PROVE AppendAt(s, r, x) = s
  <2>1. Writes(Body(s, r), e) /\ Nested(Body(s, r))
    BY <1>1, <1>2, RangeRead
  <2>2. RequiresShape(Body(s, r)).items = e.requires.items
    BY <2>1, ShapeRead
  <2> QED BY <2>2, <1>3, AppendAtIs
<1>4. ASSUME ~Contains(e.requires.items, x), e.requires.form = "block" PROVE Appends(s, r, e, x)
  BY <1>1, <1>2, <1>4, BlockAppends
<1>5. ASSUME ~Contains(e.requires.items, x), e.requires.form = "inline" PROVE Appends(s, r, e, x)
  BY <1>1, <1>2, <1>5, InlineAppends
<1> QED BY <1>3, <1>4, <1>5

\* An entry ends before a later one begins.
LEMMA RangedBefore ==
  ASSUME NEW s, s \in Seq(Lines), NEW G, G \in Seq(Sayings), NEW f, f \in Seq(Entry),
         NEW m, m \in 1..Len(f), NEW k, k \in 1..m - 1,
         NEW q, NEW r, Ranged(s, q, G, f, k, Len(s) + 1), Ranged(s, r, G, f, m, Len(s) + 1)
  PROVE  q.last + 1 <= r.first
<1>1. PICK a, b, n : a = r.first /\ b = q.last + 1 /\ n = Len(s)
  OBVIOUS
<1>2. /\ a \in DOMAIN s /\ Significant(s[a]) /\ Rank(s, a) = Len(G) + 3 + Offset(f, m)
      /\ q.last \in Nat /\ q.last < Len(s) + 1 /\ Rank(s, b) = Len(G) + 3 + Offset(f, k + 1)
  BY <1>1 DEF Ranged, Opener
<1>3. PICK g, o, v : g = Len(G) /\ o = Offset(f, m) /\ v = Offset(f, k + 1)
  OBVIOUS
<1>4. g \in Nat /\ o \in Nat /\ v \in Nat /\ v <= o
  <2>1. PICK N : N = Len(f)
    OBVIOUS
  <2>2. N \in Nat /\ m \in 1..N + 1 /\ m \in 1..N
    BY <2>1
  <2>3. k + 1 \in 1..m - 1 \/ k + 1 = m
    BY <2>2
  <2>4. CASE k + 1 = m
    <3>1. Offset(f, m) \in Nat
      BY OffsetNext
    <3>2. v = o
      BY <1>3, <2>4
    <3> QED BY <3>1, <3>2, <1>3
  <2>5. CASE k + 1 \in 1..m - 1
    <3>1. m \in 1..Len(f) + 1
      BY <2>1, <2>2
    <3>2. Offset(f, k + 1) < Offset(f, m) /\ Offset(f, k + 1) \in Nat /\ Offset(f, m) \in Nat
      BY <3>1, <2>5, OffsetGrows
    <3>3. v < o /\ v \in Nat /\ o \in Nat
      BY <3>2, <1>3
    <3> QED BY <3>3, <1>3
  <2> QED BY <2>3, <2>4, <2>5
<1>5. b \in Nat /\ a \in 1..n /\ n \in Nat /\ b <= n + 1
  <2>1. PICK l : l = q.last
    OBVIOUS
  <2>2. l \in Nat /\ l < n + 1 /\ b = l + 1 /\ n \in Nat
    BY <2>1, <1>1, <1>2
  <2>3. a \in 1..n
    BY <1>1, <1>2
  <2> QED BY <2>2, <2>3
<1>6. ~(a < b)
  <2>1. ASSUME a < b PROVE FALSE
    <3>1. b \in 1..Len(s) + 1
      BY <2>1, <1>1, <1>5
    <3>2. Rank(s, a) < Rank(s, b)
      BY <2>1, <3>1, <1>2, RankLess
    <3>3. g + 3 + o < g + 3 + v
      BY <3>2, <1>2, <1>3
    <3> QED BY <3>3, <1>4
  <2> QED BY <2>1
<1>7. b <= a
  BY <1>5, <1>6
<1> QED BY <1>1, <1>7

LEMMA PartlyKept ==
  ASSUME NEW es, Good(es), NEW T, NEW x, NEW m \in 1..Len(es), NEW k, k \in 1..m,
         NEW f, f = Partly(es, T, x, m)
  PROVE  f[k] = es[k]
<1>1. PICK h, g : h = Partly(es, T, x, m - 1) /\ g = AppendTo(es, T, x)
  OBVIOUS
<1>2. \A j \in 1..m : f[j] = es[j]
  BY <1>1, PartlyTurned
<1> QED BY <1>2

\* Nothing is to be added to the m-th.
LEMMA TurnNone ==
  ASSUME NEW s, NEW c, NEW p, NEW w, NEW es, Good(es), NEW T, Patchable(es, T), NEW x \in Words,
         NEW R, NEW m \in 1..Len(es), Stage(s, c, p, w, es, T, x, R, m), ~Asked(es, T, x, m)
  PROVE  Stage(s, c, p, w, es, T, x, R, m - 1)
<1>1. PICK f, g, h : f = Partly(es, T, x, m) /\ g = AppendTo(es, T, x)[m] /\ h = Partly(es, T, x, m - 1)
  OBVIOUS
<1>2. m \in DOMAIN es /\ es \in Seq(Entry) /\ DOMAIN f = DOMAIN es
  <2>1. es \in Seq(Entry)
    BY DEF Good
  <2> QED BY <2>1, <1>1, PartlyGood
<1>3. g = es[m] /\ f[m] = es[m]
  <2>1. m \in 1..m
    OBVIOUS
  <2>2. f[m] = es[m]
    BY <2>1, <1>1, PartlyKept
  <2>3. g = es[m]
    BY <1>1, <1>2, AddedIs
  <2> QED BY <2>2, <2>3
<1>4. h = [f EXCEPT ![m] = g]
  <2>1. PICK y : y = AppendTo(es, T, x)
    OBVIOUS
  <2>2. Replaced(f, m, y[m], h)
    BY <2>1, <1>1, PartlyTurned
  <2> QED BY <2>1, <2>2, <1>1 DEF Replaced
<1>5. f \in Seq(Entry)
  BY <1>1, PartlyGood DEF Good
<1>6. h = f
  BY <1>2, <1>3, <1>4, <1>5
<1>7. /\ Fits(s, Refitted(c, w, f), p)
      /\ \A k \in 1..m : Ranged(s, R[k], Ahead(c, p, w), f, k, Len(s) + 1)
  BY <1>1 DEF Stage
<1>8. \A k \in 1..m - 1 : k \in 1..m
  OBVIOUS
<1>9. \A k \in 1..m - 1 : Ranged(s, R[k], Ahead(c, p, w), h, k, Len(s) + 1)
  BY <1>6, <1>7, <1>8
<1> QED BY <1>1, <1>6, <1>7, <1>9 DEF Stage

\* A name is appended to the m-th, and no line above it moves.
LEMMA TurnChange ==
  ASSUME NEW s, NEW c, NEW p, Proper(c), NEW w \in DOMAIN c.workflows,
         NEW es, Good(es), NEW T, Patchable(es, T), NEW x \in Words,
         NEW R, NEW m \in 1..Len(es), Stage(s, c, p, w, es, T, x, R, m),
         Asked(es, T, x, m), Appends(s, R[m], es[m], x)
  PROVE  Stage(AppendAt(s, R[m], x), c, p, w, es, T, x, R, m - 1)
<1>1. PICK f, g, h, d, G : /\ f = Partly(es, T, x, m) /\ g = Gained(es[m], x)
                           /\ h = Partly(es, T, x, m - 1) /\ d = Refitted(c, w, f)
                           /\ G = Ahead(c, p, w)
  OBVIOUS
<1>2. PICK r, u, a, b, v : /\ r = R[m] /\ Changed(s, r, a, b, es[m], g, u)
                           /\ v = AppendAt(s, r, x) /\ v = Splice(s, a, b - 1, u) /\ r.first < a
  BY <1>1 DEF Appends
<1>3. Fits(s, d, p) /\ \A k \in 1..m : Ranged(s, R[k], G, f, k, Len(s) + 1)
  BY <1>1 DEF Stage
<1>4. Good(f) /\ Good(h) /\ Len(f) = Len(es) /\ Len(h) = Len(es)
  BY <1>1, PartlyGood
<1>5. /\ Refitted(d, w, h) = Refitted(c, w, h) /\ d.workflows[w] = f
      /\ w \in DOMAIN d.workflows /\ Ahead(d, p, w) = G
  BY <1>1, <1>4, RefittedTwice
<1>6. m \in DOMAIN es /\ m \in 1..Len(f) /\ f[m] = es[m] /\ Len(f) \in Nat
  <2>1. es \in Seq(Entry)
    BY DEF Good
  <2>2. m \in 1..m
    OBVIOUS
  <2>3. f[m] = es[m]
    BY <2>2, <1>1, PartlyKept
  <2> QED BY <2>1, <2>3, <1>4
<1>7. AppendTo(es, T, x)[m] = g /\ g \in Entry /\ Sound(g) /\ g.marked
  BY <1>1, <1>6, AddedIs
<1>8. h = [f EXCEPT ![m] = g] /\ \A k \in 1..m - 1 : h[k] = es[k]
  <2>1. PICK y : y = AppendTo(es, T, x)
    OBVIOUS
  <2>2. Replaced(f, m, y[m], h) /\ \A k \in 1..m - 1 : h[k] = es[k]
    BY <2>1, <1>1, PartlyTurned
  <2> QED BY <2>1, <2>2, <1>7 DEF Replaced
<1>9. s \in Seq(Lines) /\ Len(s) \in Nat
  BY <1>3 DEF Fits
<1>10. Fits(v, Refitted(d, w, h), p)
  <2>1. PICK z : z = Len(s) + 1 /\ z <= Len(s) + 1 /\ z \in Nat
    BY <1>9
  <2>2. m \in 1..m
    OBVIOUS
  <2>3. Ranged(s, r, Ahead(d, p, w), f, m, z)
    BY <2>1, <2>2, <1>2, <1>3, <1>5
  <2>4. Changed(s, r, a, b, f[m], g, u)
    BY <1>2, <1>6
  <2>5. f = d.workflows[w]
    BY <1>5
  <2>6. Fits(Splice(s, a, b - 1, u), Refitted(d, w, [f EXCEPT ![m] = g]), p)
    BY <2>1, <2>3, <2>4, <2>5, <1>3, <1>5, <1>6, <1>7, ChangeFits
  <2> QED BY <2>6, <1>2, <1>8
<1>11. ASSUME NEW k \in 1..m - 1 PROVE Ranged(v, R[k], G, h, k, Len(v) + 1)
  <2>1. PICK q, e : q = R[k] /\ e = q.last + 1
    OBVIOUS
  <2>2. k \in 1..m /\ m \in 1..m
    OBVIOUS
  <2>3. Ranged(s, q, G, f, k, Len(s) + 1) /\ Ranged(s, r, G, f, m, Len(s) + 1)
    BY <2>1, <2>2, <1>2, <1>3
  <2>4. G \in Seq(Sayings)
    BY <1>3, <1>5, FitsSays
  <2>5. f \in Seq(Entry) /\ h \in Seq(Entry)
    BY <1>4 DEF Good
  <2>6. e <= r.first
    BY <2>1, <2>3, <2>4, <2>5, <1>6, <1>9, RangedBefore
  <2>7. e \in Nat /\ r.first \in Nat /\ r.last \in Nat /\ r.last < Len(s) + 1 /\ r.first \in DOMAIN s
    BY SMTT(40), <2>1, <2>3 DEF Ranged, Opener
  <2>8. a \in r.first..r.last + 1 /\ b \in a..r.last + 1 /\ u \in Seq(Lines)
    BY <1>2, SaidSelf DEF Changed
  <2>9. e \in Nat /\ e < a /\ a \in 1..Len(s) + 1 /\ b \in a..Len(s) + 1
    <3>1. PICK i, l, n : i = r.first /\ l = r.last /\ n = Len(s)
      OBVIOUS
    <3>2. i \in Nat /\ l \in Nat /\ n \in Nat /\ l < n + 1 /\ i \in 1..n /\ a \in i..l + 1
          /\ b \in a..l + 1 /\ i < a /\ e <= i /\ e \in Nat
      BY <3>1, <2>6, <2>7, <2>8, <1>2, <1>9
    <3>3. e < a /\ a \in 1..n + 1 /\ b \in a..n + 1
      BY <3>2
    <3> QED BY <3>1, <3>2, <3>3
  <2>10. Same(s, Splice(s, a, b - 1, u), e)
    BY <2>8, <2>9, <1>9, SameSplice
  <2>11. Same(s, v, e)
    BY <2>10, <1>2
  <2>12. \A j \in 1..m - 1 : f[j] = es[j] /\ h[j] = es[j]
    <3>1. \A j \in 1..m - 1 : j \in 1..m
      OBVIOUS
    <3> QED BY <3>1, <1>1, <1>8, PartlyKept
  <2>13. Offset(f, k) = Offset(h, k) /\ Offset(f, k + 1) = Offset(h, k + 1)
    <3>1. PICK n, N : n = m - 1 /\ N = Len(es)
      OBVIOUS
    <3>2. N \in Nat /\ m \in 1..N
      BY <3>1, <1>4, <1>6
    <3>3. n \in Nat /\ n <= N /\ k \in 1..n + 1 /\ k + 1 \in 1..n + 1
      BY <3>1, <3>2
    <3>4. n <= Len(f) /\ n <= Len(h) /\ \A j \in 1..n : f[j] = h[j]
      BY <3>1, <3>3, <2>12, <1>4
    <3>5. Offset(f, k) = Offset(h, k)
      BY SMTT(40), <3>3, <3>4, <2>5, OffsetSame
    <3>6. Offset(f, k + 1) = Offset(h, k + 1)
      BY SMTT(40), <3>3, <3>4, <2>5, OffsetSame
    <3> QED BY <3>5, <3>6
  <2>14. h[k] = f[k]
    BY <2>12
  <2>15. Ranged(s, q, G, f, k, Len(s) + 1) /\ q.last + 1 <= e
    BY <2>1, <2>3, <2>7
  <2>16. Offset(h, k) = Offset(f, k) /\ Offset(h, k + 1) = Offset(f, k + 1)
    BY <2>13
  <2>17. Ranged(v, q, G, h, k, Len(v) + 1)
    BY <2>11, <2>14, <2>15, <2>16, SameRanged
  <2> QED BY <2>1, <2>17
<1>12. Stage(v, c, p, w, es, T, x, R, m - 1)
  <2>1. Fits(v, Refitted(c, w, h), p)
    BY <1>5, <1>10
  <2> QED BY <2>1, <1>1, <1>11 DEF Stage
<1> QED BY <1>2, <1>12

LEMMA TurnFits ==
  ASSUME NEW s, NEW c, NEW p, Proper(c), NEW w \in DOMAIN c.workflows,
         NEW es, Good(es), NEW a, Alike(a, es), NEW T, Patchable(es, T), NEW x \in Words,
         NEW R, NEW m \in 1..Len(es), Stage(s, c, p, w, es, T, x, R, m)
  PROVE  Stage(Turned(s, m, R, a, T, x), c, p, w, es, T, x, R, m - 1)
<1>1. es \in Seq(Entry) /\ m \in DOMAIN es /\ es[m] \in Entry /\ Sound(es[m])
  <2>1. es \in Seq(Entry)
    BY DEF Good
  <2>2. m \in DOMAIN es
    BY <2>1
  <2>3. es[m] \in Entry
    BY <2>1, <2>2
  <2> QED BY <2>1, <2>2, <2>3 DEF Good
<1>2. (\E u \in T : m = Named(a, u)) <=> (\E u \in T : m = Named(es, u))
  BY <1>1, AlikeNamed
<1>3. PICK f, G : f = Partly(es, T, x, m) /\ G = Ahead(c, p, w)
  OBVIOUS
<1>4. f[m] = es[m]
  <2>1. m \in 1..m
    OBVIOUS
  <2> QED BY <2>1, <1>3, PartlyKept
<1>5. Ranged(s, R[m], G, f, m, Len(s) + 1) /\ s \in Seq(Lines) /\ Tidy(s) /\ Nested(s)
  <2>1. m \in 1..m
    OBVIOUS
  <2> QED BY <2>1, <1>3 DEF Stage, Fits
<1>6. /\ Contains(es[m].requires.items, x) => AppendAt(s, R[m], x) = s
      /\ ~Contains(es[m].requires.items, x) /\ es[m].requires.form \in {"inline", "block"}
           => Appends(s, R[m], es[m], x)
  BY <1>1, <1>4, <1>5, AppendsAll
<1>7. CASE Asked(es, T, x, m)
  <2>1. es[m].requires.form \in {"inline", "block"} /\ ~Contains(es[m].requires.items, x)
    BY <1>1, <1>7, AddedIs DEF Asked
  <2>2. Appends(s, R[m], es[m], x)
    BY <2>1, <1>6
  <2>3. Turned(s, m, R, a, T, x) = AppendAt(s, R[m], x)
    BY <1>2, <1>7 DEF Turned, Asked
  <2> QED BY <2>2, <2>3, <1>7, TurnChange
<1>8. CASE ~Asked(es, T, x, m)
  <2>1. Turned(s, m, R, a, T, x) = s
    BY <1>2, <1>6, <1>8 DEF Turned, Asked
  <2> QED BY <2>1, <1>8, TurnNone
<1> QED BY <1>7, <1>8

LEMMA RangedWider ==
  ASSUME NEW t, NEW r, NEW G, NEW es, NEW k, NEW z, z \in Nat, Ranged(t, r, G, es, k, z),
         NEW y, y \in Nat, z <= y
  PROVE  Ranged(t, r, G, es, k, y)
<1>1. PICK l : l = r.last
  OBVIOUS
<1>2. l \in Nat /\ l < z
  BY <1>1 DEF Ranged
<1>3. l < y
  BY <1>2
<1> QED BY <1>1, <1>3 DEF Ranged

LEMMA StageBegins ==
  ASSUME NEW t, NEW c, NEW p, Fits(t, c, p), NEW w \in DOMAIN c.workflows, NEW es,
         es = c.workflows[w], NEW T, NEW x, NEW R, R = Ranges(t, w)
  PROVE  Stage(t, c, p, w, es, T, x, R, Len(es)) /\ Len(R) = Len(es) /\ Len(es) \in Nat
<1>1. PICK G, Z : G = Ahead(c, p, w) /\ Z = Below(c.workflows, w)
  OBVIOUS
<1>2. LaidOut(t, G, w, es, Z)
  BY <1>1, FitsLaid
<1>3. Good(es) /\ Proper(c) /\ t \in Seq(Lines) /\ es \in Seq(Entry)
  BY FitsSays
<1>4. Partly(es, T, x, Len(es)) = es
  BY <1>3, PartlyEnds
<1>5. Refitted(c, w, es) = c
  BY <1>3, RefittedTwice
<1>6. PICK z, y : z = JobsEnd(t, w) /\ y = Len(t) + 1
  OBVIOUS
<1>7. z \in Nat /\ y \in Nat /\ z <= y
  <2>1. Laid(t, G, w, JobsText(es), Z)
    BY <1>2 DEF LaidOut
  <2>2. z \in JobsLine(t, w) + 1..Len(t) + 1 /\ JobsLine(t, w) \in DOMAIN t
    BY <2>1, <1>6, JobsEndIs, JobsLineIs
  <2>3. PICK j, n : j = JobsLine(t, w) /\ n = Len(t)
    OBVIOUS
  <2>4. n \in Nat /\ j \in 1..n /\ z \in j + 1..n + 1
    BY <2>2, <2>3, <1>3
  <2>5. z \in Nat /\ n + 1 \in Nat /\ z <= n + 1
    BY <2>4
  <2> QED BY <2>3, <2>5, <1>6
<1>8. Len(R) = Len(es) /\ \A k \in 1..Len(es) : Ranged(t, R[k], G, es, k, z)
  BY <1>2, <1>6, RangesAre
<1>9. \A k \in 1..Len(es) : Ranged(t, R[k], G, es, k, y)
  BY <1>7, <1>8, RangedWider
<1>10. Len(es) \in Nat
  BY <1>3
<1> QED BY <1>1, <1>4, <1>5, <1>6, <1>8, <1>9, <1>10 DEF Stage

\* What append_requires makes of a file says what AppendTo makes of its entries.
LEMMA AppendRequiresFits ==
  ASSUME NEW t, NEW c, NEW p, Fits(t, c, p), NEW w \in DOMAIN c.workflows, NEW es,
         es = c.workflows[w], NEW a, Alike(a, es), NEW T, Patchable(es, T), NEW x \in Words
  PROVE  Fits(AppendRequires(t, Ranges(t, w), a, T, x), Refitted(c, w, AppendTo(es, T, x)), p)
<1>1. PICK R, N : R = Ranges(t, w) /\ N = Len(es)
  OBVIOUS
<1>2. Stage(t, c, p, w, es, T, x, R, N) /\ Len(R) = N /\ N \in Nat
  BY <1>1, StageBegins
<1>3. Good(es) /\ Proper(c)
  BY FitsSays
<1>4. PICK f : Rounds(f, t, R, a, T, x) /\ AppendRequires(t, R, a, T, x) = f[Len(R)]
  <2>1. Len(R) \in Nat
    BY <1>2
  <2> QED BY <2>1, AppendUnfolds
<1>5. \A n \in 0..N : f[n] = IF n = 0 THEN t ELSE Turned(f[n - 1], N + 1 - n, R, a, T, x)
  BY <1>2, <1>4 DEF Rounds
<1> DEFINE S == {n \in 0..N : Stage(f[n], c, p, w, es, T, x, R, N - n)}
<1>6. 0 \in S
  <2>1. f[0] = t /\ N - 0 = N /\ 0 \in 0..N
    BY <1>2, <1>5
  <2> QED BY <2>1, <1>2
<1>7. ASSUME NEW n \in 0..N, n \in S, n < N PROVE n + 1 \in S
  <2>1. PICK m : m = N - n
    OBVIOUS
  <2>2. m \in 1..N /\ n + 1 \in 0..N /\ n + 1 # 0 /\ n + 1 - 1 = n /\ N + 1 - (n + 1) = m
        /\ N - (n + 1) = m - 1
    BY <2>1, <1>2, <1>7
  <2>3. f[n + 1] = Turned(f[n], m, R, a, T, x)
    BY <2>2, <1>5
  <2>4. Stage(f[n], c, p, w, es, T, x, R, m)
    BY <2>1, <1>7
  <2>5. m \in 1..Len(es)
    BY <2>2, <1>1
  <2>6. Stage(Turned(f[n], m, R, a, T, x), c, p, w, es, T, x, R, m - 1)
    BY <2>4, <2>5, <1>3, TurnFits
  <2>7. Stage(f[n + 1], c, p, w, es, T, x, R, N - (n + 1))
    BY <2>2, <2>3, <2>6
  <2> QED BY <2>2, <2>7
<1>8. N \in S
  <2> HIDE DEF S
  <2>1. 0..N \subseteq S
    BY <1>2, <1>6, <1>7, Counting
  <2> QED BY <2>1, <1>2
<1>9. Stage(f[N], c, p, w, es, T, x, R, 0)
  <2>1. N - N = 0
    BY <1>2
  <2> QED BY <2>1, <1>8
<1>10. Partly(es, T, x, 0) = AppendTo(es, T, x)
  BY <1>3, PartlyEnds
<1>11. Fits(f[N], Refitted(c, w, AppendTo(es, T, x)), p)
  BY <1>9, <1>10 DEF Stage
<1> QED BY <1>1, <1>2, <1>4, <1>11

LEMMA NotesAre ==
  ASSUME NEW old, NEW new
  PROVE  ResyncNotes(old, new) \subseteq NoteNames
<1>1. Differences(old, new) \subseteq NoteNames
  BY DEF Differences, NoteNames
<1>2. {"markers"} \subseteq NoteNames /\ {"order"} \subseteq NoteNames
  BY DEF NoteNames
<1> QED BY <1>1, <1>2 DEF ResyncNotes

Noted(n) == n \subseteq Words \X NoteNames

LEMMA NotedMore ==
  ASSUME NEW n, Noted(n), NEW x \in Words, NEW m, m \subseteq NoteNames
  PROVE  Noted(n \cup ({x} \X m))
<1>1. {x} \X m \subseteq Words \X NoteNames
  OBVIOUS
<1> QED BY <1>1 DEF Noted

WrittenBuffer(q, s, v) == q = [text |-> s, notes |-> v] /\ Noted(v)

LEMMA RewrittenBuffer ==
  ASSUME NEW t, NEW n, Noted(n), NEW x \in Words, NEW r, NEW old, NEW new, NEW b
  PROVE  \E s, v : WrittenBuffer(Rewritten(t, n, x, r, old, new, b), s, v)
<1>1. PICK m : m = n \cup ({x} \X ResyncNotes(old, new)) /\ Noted(m)
  BY NotesAre, NotedMore
<1>2. CASE Body(t, r) = b /\ old.marked
  <2>1. Rewritten(t, n, x, r, old, new, b) = [text |-> t, notes |-> n]
    BY <1>2 DEF Rewritten
  <2>2. WrittenBuffer(Rewritten(t, n, x, r, old, new, b), t, n)
    BY <2>1 DEF WrittenBuffer
  <2> QED BY <2>2
<1>3. CASE ~(Body(t, r) = b /\ old.marked)
  <2>1. PICK s : s = Splice(t, r.first, r.last, IF old.marked THEN b ELSE Wrapped(b))
    OBVIOUS
  <2>2. Rewritten(t, n, x, r, old, new, b) = [text |-> s, notes |-> m]
    BY <2>1, <1>1, <1>3 DEF Rewritten
  <2>3. WrittenBuffer(Rewritten(t, n, x, r, old, new, b), s, m)
    BY <2>2, <1>1 DEF WrittenBuffer
  <2> QED BY <2>3
<1> QED BY <1>2, <1>3

LEMMA PlaceBuffer ==
  ASSUME NEW t, NEW n, Noted(n), NEW m \in Job, NEW R, NEW E, NEW F
  PROVE  \E s, v : WrittenBuffer(Place(t, n, m, R, E, F), s, v)
<1>1. CASE F = {}
  <2>1. Place(t, n, m, R, E, F) = [text |-> InsertEntry(t, m), notes |-> n]
    BY <1>1 DEF Place
  <2>2. WrittenBuffer(Place(t, n, m, R, E, F), InsertEntry(t, m), n)
    BY <2>1 DEF WrittenBuffer
  <2> QED BY <2>2
<1>2. CASE F # {}
  <2>1. PICK i, new : i = Min(F) /\ new = Render(m, E[i].name)
    OBVIOUS
  <2>2. NewName(m) \in Words
    BY NewNameTyped
  <2>3. Place(t, n, m, R, E, F)
          = Rewritten(t, n, NewName(m), R[i], E[i], new, EntryText(new))
    BY <2>1, <1>2 DEF Place, Resync
  <2>4. PICK x, r, old, b : x = NewName(m) /\ r = R[i] /\ old = E[i] /\ b = EntryText(new)
    OBVIOUS
  <2>5. Place(t, n, m, R, E, F) = Rewritten(t, n, x, r, old, new, b) /\ x \in Words
    BY <2>2, <2>3, <2>4
  <2>6. \E s, v : WrittenBuffer(Rewritten(t, n, x, r, old, new, b), s, v)
    BY <2>5, RewrittenBuffer
  <2> QED BY <2>5, <2>6
<1> QED BY <1>1, <1>2

\* What a refusal and what a text is told apart by.
Matches(b, d) ==
  \/ b = Refused /\ d = Refused
  \/ \E t, n, p : b = [text |-> t, notes |-> n] /\ Noted(n) /\ Fits(t, d, p)

LEMMA MatchesIs ==
  ASSUME NEW t, NEW n, Noted(n), NEW d, NEW p, Fits(t, d, p), NEW b, b = [text |-> t, notes |-> n]
  PROVE  Matches(b, d)
  BY Zenon DEF Matches

LEMMA NotRefused ==
  ASSUME NEW t, NEW n, Noted(n), NEW d, NEW p, Fits(t, d, p)
  PROVE  [text |-> t, notes |-> n] # Refused /\ d # Refused
<1>1. [text |-> t, notes |-> n] \in Buffer
  <2>1. t \in Seq(Lines) /\ n \in SUBSET (Words \X NoteNames)
    BY DEF Fits, Noted
  <2> QED BY <2>1 DEF Buffer
<1>2. \E W \in SUBSET ToSet(Workflows) : d \in Content(W)
  BY DEF Fits, Proper
<1>3. Refused \notin Buffer /\ \A W \in SUBSET ToSet(Workflows) : Refused \notin Content(W)
  BY TextAssumption
<1> QED BY <1>1, <1>2, <1>3

LEMMA MatchesRefused ==
  ASSUME NEW b, NEW d, Matches(b, d)
  PROVE  b = Refused <=> d = Refused
  BY NotRefused DEF Matches

LEMMA AddedGood ==
  ASSUME NEW es, Good(es), NEW T, Patchable(es, T), NEW x \in Words
  PROVE  Good(AppendTo(es, T, x))
<1>1. Partly(es, T, x, 0) = AppendTo(es, T, x)
  BY PartlyEnds
<1>2. Good(Partly(es, T, x, 0))
  BY PartlyGood
<1> QED BY <1>1, <1>2

\* The validation comes again with the entries as they are now.
LEMMA RequiredByFits ==
  ASSUME NEW t, NEW n, Noted(n), NEW c, NEW p, Fits(t, c, p), NEW w \in DOMAIN c.workflows,
         NEW es, es = c.workflows[w], NEW T, NEW x \in Words, NEW b, b = [text |-> t, notes |-> n]
  PROVE  Matches(RequiredBy(b, w, T, x),
                 IF Patchable(es, T) THEN Refitted(c, w, AppendTo(es, T, x)) ELSE Refused)
<1>1. PICK R, a : R = Ranges(t, w) /\ a = EntriesIn(t, R)
  OBVIOUS
<1>2. Alike(a, es) /\ es \in Seq(Entry)
  BY <1>1, ReadAlike, FitsSays DEF ReadEntries
<1>3. Patchable(a, T) <=> Patchable(es, T)
  BY <1>2, AlikePatchable
<1>4. b.text = t
  OBVIOUS
<1>5. RequiredBy(b, w, T, x) = Required(b, R, a, T, x)
  BY <1>1, <1>4 DEF RequiredBy
<1>6. CASE ~Patchable(es, T)
  <2>1. RequiredBy(b, w, T, x) = Refused
    BY <1>3, <1>5, <1>6 DEF Required
  <2> QED BY <2>1, <1>6 DEF Matches
<1>7. CASE Patchable(es, T)
  <2>1. PICK s : s = AppendRequires(t, R, a, T, x)
    OBVIOUS
  <2>2. [b EXCEPT !.text = AppendRequires(@, R, a, T, x)] = [text |-> s, notes |-> n]
    BY <2>1
  <2>3. RequiredBy(b, w, T, x) = [text |-> s, notes |-> n]
    BY <2>2, <1>3, <1>5, <1>7 DEF Required
  <2>4. Fits(s, Refitted(c, w, AppendTo(es, T, x)), p)
    BY <2>1, <1>1, <1>2, <1>7, AppendRequiresFits
  <2>5. Matches(RequiredBy(b, w, T, x), Refitted(c, w, AppendTo(es, T, x)))
    BY <2>3, <2>4, MatchesIs
  <2> QED BY <2>5, <1>7
<1> QED BY <1>6, <1>7

LEMMA MergedSame ==
  ASSUME NEW J, J \in Seq(Job), NEW j, j \in Job, NEW m, m = Merged(j, J)
  PROVE  /\ m \in Job /\ NewName(m) = NewName(j) /\ m.workflow = j.workflow
         /\ m.orbJob = j.orbJob /\ \A E : Candidates(m, E) = Candidates(j, E)
<1>1. m \in Job /\ m = [j EXCEPT !.requires = m.requires]
  <2>1. Merged(j, J) \in Job /\ Merged(j, J) = [j EXCEPT !.requires = Merged(j, J).requires]
    BY MergedIs
  <2> QED BY <2>1
<1>2. PICK q : q = m.requires
  OBVIOUS
<1>3. m = [j EXCEPT !.requires = q]
  BY <1>1, <1>2
<1>4. /\ [j EXCEPT !.requires = q].workflow = j.workflow
      /\ [j EXCEPT !.requires = q].orbJob = j.orbJob
      /\ [j EXCEPT !.requires = q].jobName = j.jobName
  BY DEF Job
<1>5. m.workflow = j.workflow /\ m.orbJob = j.orbJob /\ m.jobName = j.jobName
  BY <1>3, <1>4
<1>6. NewName(m) = NewName(j)
  BY <1>5 DEF NewName
<1>7. \A E : Exact(m, E) = Exact(j, E)
  BY <1>6 DEF Exact
<1>8. \A E : Candidates(m, E) = Candidates(j, E)
  BY <1>5, <1>7 DEF Candidates
<1> QED BY <1>1, <1>5, <1>6, <1>8

LEMMA PlacedGood ==
  ASSUME NEW es, Good(es), NEW m, m \in Job, NEW F, F \subseteq DOMAIN es
  PROVE  Good(PlacedAs(es, m, F))
<1>1. es \in Seq(Entry)
  BY DEF Good
<1>2. CASE F = {}
  <2>1. PICK e : e = Render(m, NoName)
    OBVIOUS
  <2>2. e \in Entry /\ Sound(e) /\ e.marked
    BY <2>1, RenderIs
  <2>3. Good(Append(es, e))
    BY <2>2, GoodAppend
  <2> QED BY <2>1, <2>3, <1>2 DEF PlacedAs
<1>3. CASE F # {}
  <2>1. PICK i : i = Min(F)
    OBVIOUS
  <2>2. i \in DOMAIN es
    <3>1. Len(es) \in Nat /\ DOMAIN es = 1..Len(es)
      BY <1>1, Places
    <3>2. F \subseteq Nat
      BY <3>1
    <3>3. i \in F
      BY <2>1, <3>2, <1>3, LeastOf
    <3> QED BY <3>3
  <2>3. PICK k : k = es[i].name
    OBVIOUS
  <2>4. k \in Words \cup {NoName}
    <3>1. es[i] \in Entry
      BY <2>2, <1>1
    <3> QED BY <3>1, <2>3 DEF Entry
  <2>5. PICK e : e = Render(m, k)
    OBVIOUS
  <2>6. e \in Entry /\ Sound(e) /\ e.marked
    BY <2>4, <2>5, RenderIs
  <2>7. Good([es EXCEPT ![i] = e])
    BY <2>2, <2>6, GoodExcept
  <2>8. PlacedAs(es, m, F) = [es EXCEPT ![i] = e]
    BY <2>1, <2>3, <2>5, <1>3 DEF PlacedAs
  <2> QED BY <2>7, <2>8
<1> QED BY <1>2, <1>3

\* The candidates of a job may be patched.
Fit(es, F) == Cardinality(F) <= 1 /\ \A i \in F : es[i].requires.form \in Readable

LEMMA FitIs ==
  ASSUME NEW es, es \in Seq(Entry), NEW a, Alike(a, es), NEW F, F \subseteq DOMAIN es
  PROVE  (Cardinality(F) > 1 \/ \E i \in F : a[i].requires.form \notin Readable) <=> ~Fit(es, F)
<1>1. Cardinality(F) \in Nat
  <2>1. PICK n : n = Len(es) /\ n \in Nat /\ DOMAIN es = 1..n
    BY Places
  <2>2. IsFiniteSet(1..n)
    BY <2>1, FS_Interval
  <2>3. IsFiniteSet(F)
    BY <2>1, <2>2, FS_Subset
  <2> QED BY <2>3, FS_CardinalityType
<1>2. PICK k : k = Cardinality(F)
  OBVIOUS
<1>3. k > 1 <=> ~(k <= 1)
  BY <1>1, <1>2
<1>4. \A i \in F : a[i].requires = es[i].requires
  BY AlikeNames
<1> QED BY <1>2, <1>3, <1>4 DEF Fit

\* What the rules of WireJobs make of a job's entry and its targets.
Wired(c, w, es, m, F, T, x) ==
  IF Fit(es, F) /\ Patchable(PlacedAs(es, m, F), T)
  THEN Refitted(c, w, AppendTo(PlacedAs(es, m, F), T, x)) ELSE Refused

LEMMA PlaceAmongFits ==
  ASSUME NEW t, NEW n, Noted(n), NEW c, NEW p, Fits(t, c, p), NEW w \in DOMAIN c.workflows,
         NEW es, es = c.workflows[w], NEW T, NEW m, m \in Job, m.workflow = w,
         NEW F, F \subseteq DOMAIN es, NEW R, R = Ranges(t, w), NEW a, a = EntriesIn(t, R)
  PROVE  Matches(PlaceAmong(t, n, m, T, R, a, F), Wired(c, w, es, m, F, T, NewName(m)))
<1>1. /\ Alike(a, es) /\ es \in Seq(Entry) /\ Good(es) /\ Proper(c)
      /\ a = ReadEntries(t, w)
  BY ReadAlike, FitsSays DEF ReadEntries
<1>2. PICK b, f, x, d : /\ b = Place(t, n, m, R, a, F) /\ f = PlacedAs(es, m, F) /\ x = NewName(m)
                        /\ d = Refitted(c, w, f)
  OBVIOUS
<1>3. CASE ~Fit(es, F)
  <2>1. PlaceAmong(t, n, m, T, R, a, F) = Refused
    BY <1>1, <1>3, FitIs DEF PlaceAmong
  <2>2. Wired(c, w, es, m, F, T, NewName(m)) = Refused
    BY <1>3 DEF Wired
  <2> QED BY <2>1, <2>2 DEF Matches
<1>4. CASE Fit(es, F)
  <2>1. ~(Cardinality(F) > 1 \/ \E i \in F : a[i].requires.form \notin Readable)
    BY <1>1, <1>4, FitIs
  <2>2. PlaceAmong(t, n, m, T, R, a, F) = RequiredBy(b, w, T, x)
    BY <2>1, <1>2 DEF PlaceAmong
  <2>3. PICK s, v : WrittenBuffer(b, s, v)
    BY <1>2, PlaceBuffer
  <2>4. b = [text |-> s, notes |-> v] /\ Noted(v) /\ b.text = s
    BY <2>3 DEF WrittenBuffer
  <2>5. Fits(s, d, p)
    <3>1. Fits(Place(t, n, m, Ranges(t, w), ReadEntries(t, w), F).text,
               Refitted(c, w, PlacedAs(es, m, F)), p)
      BY PlaceFits
    <3> QED BY <3>1, <2>4, <1>1, <1>2
  <2>6. Good(f)
    BY <1>1, <1>2, PlacedGood
  <2>7. d.workflows[w] = f /\ w \in DOMAIN d.workflows
    BY <2>6, <1>1, <1>2, RefittedHolds
  <2>8. x \in Words
    BY <1>2, NewNameTyped
  <2>9. f = d.workflows[w] /\ Noted(v) /\ b = [text |-> s, notes |-> v]
    BY <2>4, <2>7
  <2>10. Matches(RequiredBy(b, w, T, x),
                 IF Patchable(f, T) THEN Refitted(d, w, AppendTo(f, T, x)) ELSE Refused)
    BY <2>5, <2>7, <2>8, <2>9, RequiredByFits
  <2>11. CASE Patchable(f, T)
    <3>1. Good(AppendTo(f, T, x))
      BY <2>6, <2>8, <2>11, AddedGood
    <3>2. Refitted(d, w, AppendTo(f, T, x)) = Refitted(c, w, AppendTo(f, T, x))
      BY <3>1, <2>6, <1>1, <1>2, RefittedAgain
    <3>3. Wired(c, w, es, m, F, T, NewName(m)) = Refitted(c, w, AppendTo(f, T, x))
      BY <2>11, <1>2, <1>4 DEF Wired
    <3> QED BY <3>2, <3>3, <2>2, <2>10, <2>11
  <2>12. CASE ~Patchable(f, T)
    <3>1. Wired(c, w, es, m, F, T, NewName(m)) = Refused
      BY <2>12, <1>2 DEF Wired
    <3> QED BY <3>1, <2>2, <2>10, <2>12
  <2> QED BY <2>11, <2>12
<1> QED BY <1>3, <1>4

Rewired(c, x, w, es) == [c EXCEPT !.pins = @ \cup {x}, !.workflows[w] = es]

LEMMA PinnedRefitted ==
  ASSUME NEW c, Proper(c), NEW w \in DOMAIN c.workflows, NEW x, NEW es
  PROVE  Rewired(c, x, w, es) = Refitted(Pinned(c, x), w, es)
<1>1. PICK P, h, F : P = c.pins /\ h = c.hasOrbs /\ F = c.workflows
  OBVIOUS
<1>2. c = [pins |-> P, hasOrbs |-> h, workflows |-> F]
  BY <1>1 DEF Proper, Content
<1>3. Pinned(c, x) = [pins |-> P \cup {x}, hasOrbs |-> h, workflows |-> F]
  BY <1>2 DEF Pinned
<1>4. Refitted(Pinned(c, x), w, es)
        = [pins |-> P \cup {x}, hasOrbs |-> h, workflows |-> [F EXCEPT ![w] = es]]
  BY <1>3 DEF Refitted
<1>5. Rewired(c, x, w, es)
        = [pins |-> P \cup {x}, hasOrbs |-> h, workflows |-> [F EXCEPT ![w] = es]]
  <2>1. PICK Q : Q = P \cup {x}
    OBVIOUS
  <2>2. [c EXCEPT !.pins = Q, !.workflows[w] = es]
          = [[c EXCEPT !.pins = Q] EXCEPT !.workflows[w] = es]
    BY <1>2
  <2>3. [c EXCEPT !.pins = Q] = [pins |-> Q, hasOrbs |-> h, workflows |-> F]
    BY <1>2
  <2>4. [[pins |-> Q, hasOrbs |-> h, workflows |-> F] EXCEPT !.workflows[w] = es]
          = [pins |-> Q, hasOrbs |-> h, workflows |-> [F EXCEPT ![w] = es]]
    OBVIOUS
  <2>5. Rewired(c, x, w, es) = [c EXCEPT !.pins = Q, !.workflows[w] = es]
    BY <2>1, <1>1 DEF Rewired
  <2> QED BY <2>1, <2>2, <2>3, <2>4, <2>5
<1> QED BY <1>4, <1>5

\* WireOne, one decision after the other.
LEMMA WireOneIs ==
  ASSUME NEW c, Proper(c), NEW j, j \in Job, NEW J, J \in Seq(Job), NEW w, w = j.workflow,
         w \in DOMAIN c.workflows, NEW es, es = c.workflows[w], NEW T, T = External(j, J),
         NEW m, m = Merged(j, J), NEW o, o = Orb[j.orbJob], NEW F, F = Candidates(j, es)
  PROVE  WireOne(c, j, J) = IF Patchable(es, T) /\ Pinnable(c, j)
                            THEN Wired(Pinned(c, o), w, es, m, F, T, NewName(j)) ELSE Refused
<1>1. PICK f : f = PlacedAs(es, m, F)
  OBVIOUS
<1>2. WireOne(c, j, J) =
        IF /\ Patchable(es, T) /\ Pinnable(c, j)
           /\ Cardinality(F) <= 1 /\ \A i \in F : es[i].requires.form \in Readable
           /\ Patchable(f, T)
        THEN Rewired(c, o, w, AppendTo(f, T, NewName(j))) ELSE Refused
  BY <1>1 DEF WireOne, PlacedAs, Rewired
<1>3. PICK A : A = AppendTo(f, T, NewName(j))
  OBVIOUS
<1>4. Rewired(c, o, w, A) = Refitted(Pinned(c, o), w, A)
  BY PinnedRefitted
<1>5. WireOne(c, j, J) =
        IF Patchable(es, T) /\ Pinnable(c, j) /\ Fit(es, F) /\ Patchable(f, T)
        THEN Refitted(Pinned(c, o), w, A) ELSE Refused
  BY <1>2, <1>3, <1>4 DEF Fit
<1> QED BY <1>1, <1>3, <1>5 DEF Wired

LEMMA PinsSame ==
  ASSUME NEW t, NEW c, NEW p, Fits(t, c, p), NEW j
  PROVE  Pinnable(Pins(t), j) <=> Pinnable(c, j)
<1>1. Pins(t).hasOrbs = c.hasOrbs /\ Pins(t).pins = c.pins
  BY PinsIs
<1> QED BY <1>1 DEF Pinnable

LEMMA OrbOf ==
  ASSUME NEW c, Proper(c), NEW j, j \in Job, Pinnable(c, j), NEW o, o = Orb[j.orbJob]
  PROVE  o \in Words /\ c.hasOrbs /\ (o \in c.pins \/ c.hasOrbs)
<1>1. j.orbJob \in DOMAIN Orb
  BY DEF Job
<1>2. o \in Words
  BY <1>1, TextAssumption
<1>3. o \in c.pins \/ c.hasOrbs
  BY DEF Pinnable
<1>4. c.pins # {} => c.hasOrbs
  BY DEF Proper, IsWritable
<1> QED BY <1>2, <1>3, <1>4

\* wire_one_job makes of a file what WireOne makes of what it says, and refuses
\* it when WireOne does.
LEMMA PatchOneFits ==
  ASSUME NEW t, NEW n, Noted(n), NEW c, NEW p, Fits(t, c, p), NEW j, j \in Job,
         NEW J, J \in Seq(Job), NEW b, b = [text |-> t, notes |-> n]
  PROVE  Matches(PatchOne(b, j, J), WireOne(c, j, J))
<1>1. PICK w, T, m, o : w = j.workflow /\ T = External(j, J) /\ m = Merged(j, J) /\ o = Orb[j.orbJob]
  OBVIOUS
<1>2. b.text = t /\ b.notes = n /\ Proper(c) /\ w \in Words
  <2>1. b.text = t /\ b.notes = n
    OBVIOUS
  <2>2. Proper(c)
    BY DEF Fits
  <2>3. w \in ToSet(Workflows)
    BY <1>1 DEF Job
  <2>4. ToSet(Workflows) \subseteq Words
    BY TextAssumption DEF ToSet
  <2> QED BY <2>1, <2>2, <2>3, <2>4
<1>3. CASE w \notin DOMAIN c.workflows
  <2>1. JobsLine(t, w) = 0
    BY <1>2, <1>3, FitsNot
  <2>2. PatchOne(b, j, J) = Refused
    BY <2>1, <1>1, <1>2 DEF PatchOne
  <2>3. WireOne(c, j, J) = Refused
    BY <1>1, <1>3 DEF WireOne
  <2> QED BY <2>2, <2>3 DEF Matches
<1>4. CASE w \in DOMAIN c.workflows
  <2>1. PICK es, F, a : es = c.workflows[w] /\ F = Candidates(j, es) /\ a = ReadEntries(t, w)
    OBVIOUS
  <2>2. Alike(a, es) /\ es \in Seq(Entry)
    BY <2>1, <1>4, ReadAlike, FitsSays
  <2>3. WireOne(c, j, J) = IF Patchable(es, T) /\ Pinnable(c, j)
                           THEN Wired(Pinned(c, o), w, es, m, F, T, NewName(j)) ELSE Refused
    BY <2>1, <1>1, <1>2, <1>4, WireOneIs
  <2>4. (Patchable(a, T) <=> Patchable(es, T)) /\ (Pinnable(Pins(t), j) <=> Pinnable(c, j))
    BY <2>2, AlikePatchable, PinsSame
  <2>5. JobsLine(t, w) # 0
    <3>1. LaidOut(t, Ahead(c, p, w), w, c.workflows[w], Below(c.workflows, w))
      BY <1>4, FitsLaid
    <3>2. Laid(t, Ahead(c, p, w), w, JobsText(c.workflows[w]), Below(c.workflows, w))
      BY <3>1 DEF LaidOut
    <3>3. JobsLine(t, w) \in DOMAIN t /\ t \in Seq(Lines)
      BY <3>2, JobsLineIs DEF Fits
    <3> QED BY <3>3
  <2>6. CASE ~(Patchable(es, T) /\ Pinnable(c, j))
    <3>1. PatchOne(b, j, J) = Refused
      BY <2>1, <2>4, <2>6, <1>1, <1>2 DEF PatchOne
    <3> QED BY <3>1, <2>3, <2>6 DEF Matches
  <2>7. CASE Patchable(es, T) /\ Pinnable(c, j)
    <3>1. PICK s, R, A, d : s = SetPin(t, o) /\ R = Ranges(s, w) /\ A = EntriesIn(s, R) /\ d = Pinned(c, o)
      OBVIOUS
    <3>2. PatchOne(b, j, J) = PatchPinned(s, n, m, T, R, A)
      BY <2>1, <2>4, <2>5, <2>7, <3>1, <1>1, <1>2 DEF PatchOne
    <3>3. o \in Words /\ c.hasOrbs /\ (o \in c.pins \/ c.hasOrbs)
      BY <2>7, <1>1, <1>2, OrbOf
    <3>4. PICK q : Fits(s, d, q)
      BY <3>1, <3>3, SetPinFits
    <3>5. d.workflows = c.workflows
      BY <3>1, <3>3, <1>2, PinnedIs
    <3>6. w \in DOMAIN d.workflows /\ es = d.workflows[w]
      BY <3>5, <2>1, <1>4
    <3>7. /\ m \in Job /\ NewName(m) = NewName(j) /\ m.workflow = w
          /\ \A E : Candidates(m, E) = Candidates(j, E)
      BY <1>1, MergedSame
    <3>8. Alike(A, es)
      <4>1. Alike(ReadEntries(s, w), d.workflows[w])
        BY <3>4, <3>6, ReadAlike
      <4> QED BY <4>1, <3>1, <3>6 DEF ReadEntries
    <3>9. Candidates(m, A) = F /\ F \subseteq DOMAIN es
      BY <3>7, <3>8, <2>1, <2>2, AlikeCandidates
    <3>10. PatchPinned(s, n, m, T, R, A) = PlaceAmong(s, n, m, T, R, A, F)
      BY <3>9 DEF PatchPinned
    <3>11. Matches(PlaceAmong(s, n, m, T, R, A, F), Wired(d, w, es, m, F, T, NewName(m)))
      BY <3>1, <3>4, <3>6, <3>7, <3>9, PlaceAmongFits
    <3> QED BY <3>1, <3>2, <3>7, <3>10, <3>11, <2>3, <2>7
  <2> QED BY <2>6, <2>7
<1> QED BY <1>3, <1>4

\* The buffers that a run comes to.
Patches(f, t, J) ==
  \A n \in 0..Len(J) : f[n] = IF n = 0 THEN [text |-> t, notes |-> {}] ELSE PatchNext(f[n - 1], J[n], J)

LEMMA PatchUnfolds ==
  ASSUME NEW t, NEW J, Len(J) \in Nat
  PROVE  \E f : Patches(f, t, J) /\ Patch(t, J) = f[Len(J)]
<1> DEFINE m == Len(J)
           Turn(s, n) == PatchNext(s, J[n], J)
           History(f, k) == f = [n \in 0..k |-> IF n = 0 THEN [text |-> t, notes |-> {}] ELSE Turn(f[n - 1], n)]
           S == {k \in 0..m : \E f : History(f, k)}
<1>1. 0 \in S
  <2>1. PICK f : f = [n \in 0..0 |-> [text |-> t, notes |-> {}]]
    OBVIOUS
  <2>2. \A n \in 0..0 : n = 0
    OBVIOUS
  <2>3. f = [n \in 0..0 |-> IF n = 0 THEN [text |-> t, notes |-> {}] ELSE Turn(f[n - 1], n)]
    <3> HIDE DEF Turn
    <3> QED BY <2>1, <2>2
  <2>4. \E g : History(g, 0)
    <3> HIDE DEF Turn
    <3> QED BY <2>3
  <2> QED BY <2>4
<1>2. ASSUME NEW k \in 0..m, k \in S, k < m PROVE k + 1 \in S
  <2>1. PICK f : History(f, k)
    BY <1>2
  <2>2. PICK g : g = [n \in 0..k+1 |-> IF n = k+1 THEN Turn(f[k], n) ELSE f[n]]
    OBVIOUS
  <2>3. ASSUME NEW n \in 0..k+1 PROVE g[n] = IF n = 0 THEN [text |-> t, notes |-> {}] ELSE Turn(g[n - 1], n)
    <3>1. CASE n = k + 1
      <4>1. n - 1 = k /\ k \in 0..k+1 /\ k # k + 1 /\ n # 0
        BY <3>1
      <4>2. g[k] = f[k] /\ g[n] = Turn(f[k], n)
        <5> HIDE DEF Turn
        <5> QED BY <2>2, <3>1, <4>1
      <4> HIDE DEF Turn
      <4> QED BY <4>1, <4>2
    <3>2. CASE n # k + 1
      <4>1. n \in 0..k /\ (n # 0 => n - 1 \in 0..k + 1 /\ n - 1 # k + 1)
        BY <3>2
      <4>2. g[n] = f[n] /\ (n # 0 => g[n - 1] = f[n - 1])
        <5> HIDE DEF Turn
        <5> QED BY <2>2, <3>2, <4>1
      <4>3. f[n] = IF n = 0 THEN [text |-> t, notes |-> {}] ELSE Turn(f[n - 1], n)
        <5> HIDE DEF Turn
        <5> QED BY <2>1, <4>1
      <4> HIDE DEF Turn
      <4> QED BY <4>2, <4>3
    <3> QED BY <3>1, <3>2
  <2>4. History(g, k + 1)
    <3>1. DOMAIN g = 0..k+1 /\ g = [n \in 0..k+1 |-> g[n]]
      <4> HIDE DEF Turn
      <4> QED BY <2>2
    <3> HIDE DEF Turn
    <3> QED BY <3>1, <2>3
  <2>5. \E h : History(h, k + 1)
    <3> HIDE DEF History
    <3> QED BY <2>4
  <2> HIDE DEF History
  <2> QED BY <2>5, <1>2
<1>3. m \in S
  <2> HIDE DEF S
  <2>1. m \in Nat
    OBVIOUS
  <2>2. \A k \in 0..m : k \in S /\ k < m => k + 1 \in S
    BY <1>2
  <2> HIDE DEF m
  <2>3. 0..m \subseteq S
    BY <1>1, <2>1, <2>2, Counting
  <2> QED BY <2>1, <2>3
<1> DEFINE IsIt(f) ==
             f = [n \in 0..Len(J) |-> IF n = 0 THEN [text |-> t, notes |-> {}] ELSE PatchNext(f[n - 1], J[n], J)]
<1>4. PICK f : IsIt(f)
  <2>1. PICK f : History(f, m)
    BY <1>3
  <2> QED BY <2>1
<1> DEFINE texts == CHOOSE g : IsIt(g)
<1>5. IsIt(texts)
  <2> HIDE DEF IsIt
  <2> QED BY <1>4
<1>6. Patch(t, J) = texts[Len(J)]
  BY DEF Patch
<1>7. Patches(texts, t, J)
  <2> HIDE DEF texts
  <2> QED BY <1>5 DEF Patches
<1> HIDE DEF texts
<1> QED BY <1>6, <1>7

\* What they are to say.
Wires(f, c, J) ==
  \A n \in 0..Len(J) : f[n] = IF n = 0 THEN c ELSE WireNext(f[n - 1], J[n], J)

LEMMA WireUnfolds ==
  ASSUME NEW c, NEW J, Len(J) \in Nat
  PROVE  \E f : Wires(f, c, J) /\ WireJobs(c, J) = f[Len(J)]
<1> DEFINE m == Len(J)
           Turn(s, n) == WireNext(s, J[n], J)
           History(f, k) == f = [n \in 0..k |-> IF n = 0 THEN c ELSE Turn(f[n - 1], n)]
           S == {k \in 0..m : \E f : History(f, k)}
<1>1. 0 \in S
  <2>1. PICK f : f = [n \in 0..0 |-> c]
    OBVIOUS
  <2>2. \A n \in 0..0 : n = 0
    OBVIOUS
  <2>3. f = [n \in 0..0 |-> IF n = 0 THEN c ELSE Turn(f[n - 1], n)]
    <3> HIDE DEF Turn
    <3> QED BY <2>1, <2>2
  <2>4. \E g : History(g, 0)
    <3> HIDE DEF Turn
    <3> QED BY <2>3
  <2> QED BY <2>4
<1>2. ASSUME NEW k \in 0..m, k \in S, k < m PROVE k + 1 \in S
  <2>1. PICK f : History(f, k)
    BY <1>2
  <2>2. PICK g : g = [n \in 0..k+1 |-> IF n = k+1 THEN Turn(f[k], n) ELSE f[n]]
    OBVIOUS
  <2>3. ASSUME NEW n \in 0..k+1 PROVE g[n] = IF n = 0 THEN c ELSE Turn(g[n - 1], n)
    <3>1. CASE n = k + 1
      <4>1. n - 1 = k /\ k \in 0..k+1 /\ k # k + 1 /\ n # 0
        BY <3>1
      <4>2. g[k] = f[k] /\ g[n] = Turn(f[k], n)
        <5> HIDE DEF Turn
        <5> QED BY <2>2, <3>1, <4>1
      <4> HIDE DEF Turn
      <4> QED BY <4>1, <4>2
    <3>2. CASE n # k + 1
      <4>1. n \in 0..k /\ (n # 0 => n - 1 \in 0..k + 1 /\ n - 1 # k + 1)
        BY <3>2
      <4>2. g[n] = f[n] /\ (n # 0 => g[n - 1] = f[n - 1])
        <5> HIDE DEF Turn
        <5> QED BY <2>2, <3>2, <4>1
      <4>3. f[n] = IF n = 0 THEN c ELSE Turn(f[n - 1], n)
        <5> HIDE DEF Turn
        <5> QED BY <2>1, <4>1
      <4> HIDE DEF Turn
      <4> QED BY <4>2, <4>3
    <3> QED BY <3>1, <3>2
  <2>4. History(g, k + 1)
    <3>1. DOMAIN g = 0..k+1 /\ g = [n \in 0..k+1 |-> g[n]]
      <4> HIDE DEF Turn
      <4> QED BY <2>2
    <3> HIDE DEF Turn
    <3> QED BY <3>1, <2>3
  <2>5. \E h : History(h, k + 1)
    <3> HIDE DEF History
    <3> QED BY <2>4
  <2> HIDE DEF History
  <2> QED BY <2>5, <1>2
<1>3. m \in S
  <2> HIDE DEF S
  <2>1. m \in Nat
    OBVIOUS
  <2>2. \A k \in 0..m : k \in S /\ k < m => k + 1 \in S
    BY <1>2
  <2> HIDE DEF m
  <2>3. 0..m \subseteq S
    BY <1>1, <2>1, <2>2, Counting
  <2> QED BY <2>1, <2>3
<1> DEFINE IsIt(f) ==
             f = [n \in 0..Len(J) |-> IF n = 0 THEN c ELSE WireNext(f[n - 1], J[n], J)]
<1>4. PICK f : IsIt(f)
  <2>1. PICK f : History(f, m)
    BY <1>3
  <2> QED BY <2>1
<1> DEFINE texts == CHOOSE g : IsIt(g)
<1>5. IsIt(texts)
  <2> HIDE DEF IsIt
  <2> QED BY <1>4
<1>6. WireJobs(c, J) = texts[Len(J)]
  BY DEF WireJobs
<1>7. Wires(texts, c, J)
  <2> HIDE DEF texts
  <2> QED BY <1>5 DEF Wires
<1> HIDE DEF texts
<1> QED BY <1>6, <1>7

LEMMA MatchesNext ==
  ASSUME NEW b, NEW d, Matches(b, d), NEW j, j \in Job, NEW J, J \in Seq(Job)
  PROVE  Matches(PatchNext(b, j, J), WireNext(d, j, J))
<1>1. CASE b = Refused /\ d = Refused
  <2>1. PatchNext(b, j, J) = Refused /\ WireNext(d, j, J) = Refused
    BY <1>1 DEF PatchNext, WireNext
  <2> QED BY <2>1 DEF Matches
<1>2. CASE ~(b = Refused /\ d = Refused)
  <2>1. PICK s, v, q : b = [text |-> s, notes |-> v] /\ Noted(v) /\ Fits(s, d, q)
    BY <1>2 DEF Matches
  <2>2. b # Refused /\ d # Refused
    BY <2>1, NotRefused
  <2>3. Matches(PatchOne(b, j, J), WireOne(d, j, J))
    BY <2>1, PatchOneFits
  <2>4. PatchNext(b, j, J) = PatchOne(b, j, J) /\ WireNext(d, j, J) = WireOne(d, j, J)
    BY <2>2 DEF PatchNext, WireNext
  <2> QED BY <2>3, <2>4
<1> QED BY <1>1, <1>2

\* Patching a text for a list of jobs, one splice after the other with every
\* line number looked up anew, makes of it what WireJobs makes of what it says,
\* and is refused exactly when WireJobs refuses that (wire_ci.rs:1811-2087).
THEOREM PatchFits ==
  ASSUME NEW t, NEW c, NEW p, Fits(t, c, p), NEW J, J \in Seq(Job)
  PROVE  Matches(Patch(t, J), WireJobs(c, J))
<1>1. PICK N : N = Len(J) /\ N \in Nat
  OBVIOUS
<1>2. PICK f : Patches(f, t, J) /\ Patch(t, J) = f[N]
  BY <1>1, PatchUnfolds
<1>3. PICK g : Wires(g, c, J) /\ WireJobs(c, J) = g[N]
  BY <1>1, WireUnfolds
<1> DEFINE S == {n \in 0..N : Matches(f[n], g[n])}
<1>4. 0 \in S
  <2>1. 0 \in 0..N
    BY <1>1
  <2>2. f[0] = [text |-> t, notes |-> {}] /\ g[0] = c
    BY <2>1, <1>1, <1>2, <1>3 DEF Patches, Wires
  <2>3. Noted({})
    BY DEF Noted
  <2>4. Matches(f[0], c)
    BY <2>2, <2>3, MatchesIs
  <2> QED BY <2>1, <2>2, <2>4
<1>5. ASSUME NEW n \in 0..N, n \in S, n < N PROVE n + 1 \in S
  <2>1. n + 1 \in 0..N /\ n + 1 # 0 /\ n + 1 - 1 = n /\ n + 1 \in 1..N
    BY <1>1, <1>5
  <2>2. PICK j, k : j = J[k] /\ k = n + 1
    OBVIOUS
  <2>3. j \in Job
    BY <2>1, <2>2, <1>1
  <2>4. f[n + 1] = PatchNext(f[n], j, J) /\ g[n + 1] = WireNext(g[n], j, J)
    BY <2>1, <2>2, <1>1, <1>2, <1>3 DEF Patches, Wires
  <2>5. Matches(f[n], g[n])
    BY <1>5
  <2>6. Matches(PatchNext(f[n], j, J), WireNext(g[n], j, J))
    <3>1. PICK b, d : b = f[n] /\ d = g[n]
      OBVIOUS
    <3>2. Matches(PatchNext(b, j, J), WireNext(d, j, J))
      BY <2>3, <2>5, <3>1, MatchesNext
    <3> QED BY <3>1, <3>2
  <2> QED BY <2>1, <2>4, <2>6
<1>6. N \in S
  <2> HIDE DEF S
  <2>1. 0..N \subseteq S
    BY <1>1, <1>4, <1>5, Counting
  <2> QED BY <2>1, <1>1
<1> QED BY <1>2, <1>3, <1>6

Beneath(t, a, y, rest) ==
  /\ t \in Seq(Lines) /\ Tidy(t) /\ a \in 1..Len(t) + 1 /\ y = SubSeq(t, a, Len(t))
  /\ rest = {j \in a..Len(t) : t[j].key # ""}

\* The first line that is not blank from line a on is as deep as what comes next.
LEMMA NextBelow ==
  ASSUME NEW t, NEW a, NEW y, NEW rest, Beneath(t, a, y, rest)
  PROVE  /\ rest = {} => Said(y) = <<>>
         /\ rest # {} => Starting(Said(y), t[Min(rest)].depth)
<1>0. /\ t \in Seq(Lines) /\ Tidy(t) /\ a \in 1..Len(t) + 1 /\ y = SubSeq(t, a, Len(t))
      /\ \A j : j \in rest <=> j \in a..Len(t) /\ t[j].key # ""
  BY DEF Beneath
<1>1. PICK k, n : k = Rank(t, a) /\ n = Len(t)
  OBVIOUS
<1>2. /\ Said(y) = <<>> <=> k = Len(Said(t)) + 1
      /\ k # Len(Said(t)) + 1 => k \in DOMAIN Said(t) /\ Said(y)[1] = Said(t)[k]
  <2>1. /\ Said(SubSeq(t, a, Len(t))) = <<>> <=> Rank(t, a) = Len(Said(t)) + 1
        /\ Rank(t, a) # Len(Said(t)) + 1 =>
             /\ Rank(t, a) \in DOMAIN Said(t)
             /\ Said(SubSeq(t, a, Len(t)))[1] = Said(t)[Rank(t, a)]
    BY <1>0, SaidFrom
  <2> QED BY <2>1, <1>0, <1>1
<1>3. CASE k = Len(Said(t)) + 1
  <2>1. Said(y) = <<>>
    BY <1>2, <1>3
  <2> QED BY <2>1 DEF Starting
<1>4. CASE k # Len(Said(t)) + 1
  <2>1. k \in DOMAIN Said(t) /\ Said(y)[1] = Said(t)[k]
    BY <1>2, <1>4
  <2>2. PICK b \in DOMAIN t : Significant(t[b]) /\ Rank(t, b) = k
    BY <2>1, <1>0, Spots
  <2>3. n \in Nat /\ DOMAIN t = 1..n /\ b \in 1..n /\ a \in 1..n + 1
    BY <1>0, <1>1, Places
  <2>4. k \in Nat
    <3>1. Rank(t, a) \in Nat
      BY <1>0, RankIs
    <3> QED BY <3>1, <1>1
  <2>5. ~(b < a)
    <3>1. ASSUME b < a PROVE FALSE
      <4>1. Rank(t, b) < Rank(t, a)
        BY <3>1, <2>2, <1>0, RankLess
      <4>2. k < k
        BY <4>1, <2>2, <1>1
      <4> QED BY <4>2, <2>4
    <3> QED BY <3>1
  <2>6. b \in a..n
    BY <2>3, <2>5
  <2>7. b \in rest
    <3>1. t[b].key # ""
      BY <2>2 DEF Significant
    <3> QED BY <3>1, <2>6, <1>0, <1>1
  <2>8. PICK m : m = Min(rest)
    OBVIOUS
  <2>9. m \in rest /\ m <= b
    <3>0. \A j \in a..n : j \in Nat
      BY <2>3
    <3>1. \A j \in rest : j \in Nat
      BY <3>0, <1>0, <1>1
    <3>2. Min(rest) \in rest /\ \A j \in rest : Min(rest) <= j
      BY <3>1, <2>7, LeastOf
    <3> QED BY <3>2, <2>7, <2>8
  <2>10. m \in a..n /\ t[m].key # "" /\ m \in DOMAIN t
    <3>1. m \in a..n /\ t[m].key # ""
      BY <2>9, <1>0, <1>1
    <3>2. a..n \subseteq 1..n
      BY <2>3
    <3>3. m \in 1..n
      BY <3>1, <3>2
    <3>4. m \in DOMAIN t
      BY <3>3, <2>3
    <3> QED BY <3>1, <3>4
  <2>11. k <= Rank(t, m) /\ Rank(t, m) <= k /\ Rank(t, m) \in Nat
    <3>0. m \in a..n
      BY <2>10
    <3>4. m \in 1..n + 1 /\ b \in 1..n + 1 /\ a <= m
      BY <3>0, <2>3
    <3>1. m \in 1..Len(t) + 1 /\ b \in 1..Len(t) + 1 /\ a <= m
      BY <3>4, <1>1
    <3>2. Rank(t, a) <= Rank(t, m) /\ Rank(t, m) \in Nat
      BY <3>1, <1>0, Cuts
    <3>3. Rank(t, m) <= Rank(t, b)
      BY <3>1, <2>9, <1>0, Cuts
    <3> QED BY <3>2, <3>3, <2>2, <1>1
  <2>12. Rank(t, m) = k
    <3>1. PICK q : q = Rank(t, m)
      OBVIOUS
    <3>2. k <= q /\ q <= k /\ q \in Nat
      BY <3>1, <2>11
    <3> QED BY <3>1, <3>2, <2>4
  <2>13. Said(t)[k].depth <= t[m].depth
    <3>1. CASE Significant(t[m])
      <4>1. Said(t)[Rank(t, m)] = t[m]
        BY <3>1, <2>10, <1>0, RankNext
      <4>2. t[m] \in Lines
        <5>1. m \in DOMAIN t /\ t \in Seq(Lines)
          BY <2>10, <1>0
        <5> QED BY <5>1
      <4>3. t[m].depth \in Nat
        BY <4>2, LineDepth
      <4>4. Said(t)[k].depth = t[m].depth
        BY <4>1, <2>12
      <4> QED BY <4>3, <4>4
    <3>2. CASE ~Significant(t[m])
      <4>1. Remark(t[m])
        BY <3>2, <2>10 DEF Remark
      <4>2. Leads(SubSeq(t, m, Len(t)), t[m].depth)
        BY <4>1, <2>10, <1>0 DEF Tidy
      <4>3. m \in 1..Len(t) + 1
        <5>1. m \in a..n
          BY <2>10
        <5>2. m \in 1..n + 1
          BY <5>1, <2>3
        <5> QED BY <5>2, <1>1
      <4>4. /\ Said(SubSeq(t, m, Len(t))) = <<>> <=> Rank(t, m) = Len(Said(t)) + 1
            /\ Rank(t, m) # Len(Said(t)) + 1 =>
                 /\ Rank(t, m) \in DOMAIN Said(t)
                 /\ Said(SubSeq(t, m, Len(t)))[1] = Said(t)[Rank(t, m)]
        BY <4>3, <1>0, SaidFrom
      <4>5. /\ Said(SubSeq(t, m, Len(t))) # <<>>
            /\ Said(SubSeq(t, m, Len(t)))[1] = Said(t)[k]
        BY <4>4, <2>12, <1>4
      <4> QED BY <4>2, <4>5 DEF Leads
    <3> QED BY <3>1, <3>2
  <2>14. Starting(Said(y), t[m].depth)
    BY <2>1, <2>13 DEF Starting
  <2> QED BY <2>7, <2>8, <2>14
<1> QED BY <1>3, <1>4

Marking(y, l) ==
  /\ y = <<>> \/ ~Deep(y[1])
  /\ l \in Lines /\ ~Significant(l) /\ ~Deep(l) /\ (l.key = "" \/ Starting(Said(y), l.depth))

\* A line that says nothing, and is as deep as what follows it.
LEMMA PutMark ==
  ASSUME NEW t, NEW a, NEW x, NEW y, CutAt(t, a, x, y), NEW l, Marking(y, l),
         NEW s, Joins(s, x, <<l>>, y)
  PROVE  s \in Seq(Lines) /\ Tidy(s) /\ Nested(s) /\ Said(s) = Said(t)
<1>0. PICK u : u = <<l>>
  OBVIOUS
<1>1. /\ x \in Seq(Lines) /\ y \in Seq(Lines) /\ t = x \o y
      /\ TidyTo(x, Said(y)) /\ Tidy(y) /\ Nested(x) /\ NestedTo(x, y)
  BY SpliceAt
<1>2. /\ u \in Seq(Lines) /\ Said(u) = <<>> /\ Nested(u)
      /\ \A r \in Seq(Sayings) : Starting(r, l.depth) => TidyTo(u, r)
  BY <1>0, MarkIs DEF Marking
<1>3. Said(y) \in Seq(Sayings)
  BY <1>1, SaidType
<1>4. TidyTo(u, Said(y))
  <2>0. l.key = "" \/ Starting(Said(y), l.depth)
    BY DEF Marking
  <2>1. CASE Starting(Said(y), l.depth)
    BY <2>1, <1>2, <1>3
  <2>2. CASE l.key = ""
    <3>1. DOMAIN u = {1} /\ u[1] = l
      BY <1>0
    <3>2. ~Remark(l)
      BY <2>2 DEF Remark
    <3> QED BY <3>1, <3>2 DEF TidyTo
  <2> QED BY <2>0, <2>1, <2>2
<1>5. PICK v : v = u \o y
  OBVIOUS
<1>6. v \in Seq(Lines) /\ Said(v) = Said(y)
  <2>1. u \o y \in Seq(Lines) /\ Said(u \o y) = Said(u) \o Said(y)
    BY <1>1, <1>2, SaidPair
  <2>2. <<>> \o Said(y) = Said(y)
    BY <1>3
  <2> QED BY <2>1, <2>2, <1>2, <1>5
<1>7. Tidy(v)
  BY <1>1, <1>2, <1>4, <1>5, TidyConcat
<1>8. s = x \o v
  <2>1. (x \o u) \o y = x \o (u \o y)
    BY SMTT(40), <1>1, <1>2, Associates
  <2> QED BY <2>1, <1>0, <1>5 DEF Joins
<1>9. s \in Seq(Lines) /\ Said(s) = Said(t)
  <2>1. x \o v \in Seq(Lines) /\ Said(x \o v) = Said(x) \o Said(v)
    BY <1>1, <1>6, SaidPair
  <2>2. Said(x \o y) = Said(x) \o Said(y)
    BY <1>1, SaidPair
  <2> QED BY <2>1, <2>2, <1>1, <1>6, <1>8
<1>10. Tidy(s)
  <2>1. TidyTo(x, Said(v))
    BY <1>1, <1>6
  <2> QED BY <2>1, <1>1, <1>6, <1>7, <1>8, TidyConcat
<1>11. s = (x \o u) \o y
  BY <1>0 DEF Joins
<1>12. Nested(s)
  <2>1. PICK q : q = x \o u
    OBVIOUS
  <2>2. q \in Seq(Lines)
    BY <2>1, <1>1, <1>2
  <2>3. NestedTo(x, u)
    BY <1>2, NestedAlone
  <2>4. Nested(q)
    BY <2>1, <2>3, <1>1, <1>2, NestedConcat
  <2>8. y = <<>> \/ ~Deep(y[1])
    BY DEF Marking
  <2>5. Nested(y)
    BY <2>8, <1>1, NestedAlone
  <2>6. NestedTo(q, y)
    BY <2>5, <1>1, NestedAlone
  <2>7. Nested(q \o y)
    BY <2>2, <2>4, <2>6, <1>1, NestedConcat
  <2> QED BY <2>1, <2>7, <1>11
<1> QED BY <1>9, <1>10, <1>12

Laying(t, a, rest, d, l) ==
  /\ rest = {j \in a..Len(t) : t[j].key # ""}
  /\ d = (IF rest = {} THEN 0 ELSE t[Min(rest)].depth) /\ d <= 10
  /\ l \in {Blank, Line(d, "#", <<>>)}

\* Layout leaves what a file says as it is.
LEMMA LayoutFits ==
  ASSUME NEW t, NEW c, NEW p, Fits(t, c, p), NEW a, a \in 1..Len(t) + 1,
         NEW rest, NEW d, NEW l, Laying(t, a, rest, d, l)
  PROVE  Fits(Splice(t, a, a - 1, <<l>>), c, p)
<1>0. /\ \A j : j \in rest <=> j \in a..Len(t) /\ t[j].key # ""
      /\ d = (IF rest = {} THEN 0 ELSE t[Min(rest)].depth)
      /\ d <= 10 /\ (l = Blank \/ l = Line(d, "#", <<>>))
  BY DEF Laying
<1>1. t \in Seq(Lines) /\ Tidy(t) /\ Nested(t)
  BY DEF Fits
<1>2. PICK x, y, u, n : /\ x = SubSeq(t, 1, a - 1) /\ y = SubSeq(t, a, Len(t)) /\ u = <<l>>
                        /\ n = Len(t)
  OBVIOUS
<1>3. n \in Nat /\ DOMAIN t = 1..n /\ a \in 1..n + 1
  BY <1>1, <1>2, Places
<1>4. CutAt(t, a, x, y)
  BY <1>1, <1>2 DEF CutAt
<1>5. /\ rest = {} => Said(y) = <<>>
      /\ rest # {} => Starting(Said(y), t[Min(rest)].depth)
  <2>1. Beneath(t, a, y, rest)
    BY <1>1, <1>2 DEF Beneath, Laying
  <2> QED BY <2>1, NextBelow
<1>6. rest # {} => Min(rest) \in rest /\ \A j \in rest : Min(rest) <= j
  <2>0. \A j \in a..n : j \in Nat
    BY <1>3
  <2>1. \A j \in rest : j \in Nat
    BY <2>0, <1>0, <1>2
  <2> QED BY <2>1, LeastOf
<1>7. d \in Depths
  <2>1. CASE rest = {}
    BY <2>1, <1>0 DEF Depths
  <2>2. CASE rest # {}
    <3>1. Min(rest) \in DOMAIN t
      <4>1. Min(rest) \in a..n
        BY <2>2, <1>0, <1>2, <1>6
      <4>2. a..n \subseteq 1..n
        BY <1>3
      <4> QED BY <4>1, <4>2, <1>3
    <3>2. t[Min(rest)] \in Lines
      BY <3>1, <1>1
    <3>3. t[Min(rest)].depth \in Depths
      BY <3>2, LineDepth
    <3> QED BY <3>3, <2>2, <1>0
  <2> QED BY <2>1, <2>2
<1>8. Starting(Said(y), d)
  BY <1>0, <1>5 DEF Starting
<1>9. l \in Lines /\ ~Significant(l) /\ ~Deep(l) /\ (l.key = "" \/ Starting(Said(y), l.depth))
  <2>1. CASE l = Blank
    <3>1. Blank.key = ""
      BY DEF Blank, Line
    <3> QED BY <3>1, <2>1, MarksAre
  <2>2. CASE l = Line(d, "#", <<>>)
    <3>6. "#" \in KeyNames
      BY DEF KeyNames
    <3>7. <<>> \in Seq(Words)
      OBVIOUS
    <3>1. PICK k, e : k = "#" /\ e = <<>> /\ k \in KeyNames /\ e \in Seq(Words)
      BY <3>6, <3>7
    <3>2. Line(d, k, e) \in Lines
      BY <3>1, <1>7, LineTyped
    <3>3. l.depth = d /\ l.key = "#"
      BY <2>2 DEF Line
    <3>4. ~Significant(l)
      BY <3>3 DEF Significant
    <3>5. ~Deep(l)
      <4>1. d \in Nat
        BY <1>7 DEF Depths
      <4>2. ~(d > 10)
        <5>1. d <= 10
          BY <1>0
        <5> QED BY <4>1, <5>1
      <4>3. "#" # "#:"
        OBVIOUS
      <4> QED BY <4>2, <4>3, <3>3 DEF Deep
    <3> QED BY <3>1, <3>2, <3>3, <3>4, <3>5, <2>2, <1>8
  <2> QED BY <2>1, <2>2, <1>0
<1>10. y = <<>> \/ ~Deep(y[1])
  <2>1. /\ a = Len(t) + 1 => y = <<>>
        /\ a # Len(t) + 1 => y # <<>> /\ y[1] = t[a]
    BY <1>4, SpliceAt
  <2>2. CASE a # Len(t) + 1
    <3>1. a \in DOMAIN t /\ a \in a..n
      BY <2>2, <1>2, <1>3
    <3>2. CASE t[a].key = ""
      <4>1. ~Significant(t[a])
        BY <3>2 DEF Significant
      <4>2. ~Deep(t[a])
        BY <4>1, <3>1, <1>1 DEF Nested
      <4> QED BY <4>2, <2>1, <2>2
    <3>3. CASE t[a].key # ""
      <4>1. a \in rest
        BY <3>1, <3>3, <1>0, <1>2
      <4>2. Min(rest) <= a /\ Min(rest) \in a..n
        BY <4>1, <1>0, <1>2, <1>6
      <4>3. Min(rest) = a
        <5>1. PICK m : m = Min(rest)
          OBVIOUS
        <5>2. m <= a /\ m \in a..n
          BY <5>1, <4>2
        <5>3. m = a
          BY <5>2, <1>3
        <5> QED BY <5>1, <5>3
      <4>4. d = t[a].depth
        BY <4>1, <4>3, <1>0
      <4>5. d \in Nat
        BY <1>7 DEF Depths
      <4>6. ~(d > 10)
        <5>1. d <= 10
          BY <1>0
        <5> QED BY <4>5, <5>1
      <4>7. ~Deep(t[a])
        <5>1. Deep(t[a]) => Significant(t[a])
          BY <3>1, <1>1 DEF Nested
        <5>2. Significant(t[a]) => t[a].key # "#:"
          BY DEF Significant
        <5> QED BY <5>1, <5>2, <4>4, <4>6 DEF Deep
      <4> QED BY <4>7, <2>1, <2>2
    <3> QED BY <3>2, <3>3
  <2> QED BY <2>1, <2>2
<1>11. PICK s : s = (x \o u) \o y
  OBVIOUS
<1>12. s \in Seq(Lines) /\ Tidy(s) /\ Nested(s) /\ Said(s) = Said(t)
  <2>1. Marking(y, l)
    BY <1>9, <1>10 DEF Marking
  <2>2. Joins(s, x, <<l>>, y)
    BY <1>2, <1>11 DEF Joins
  <2> QED BY <2>1, <2>2, <1>4, PutMark
<1>13. Splice(t, a, a - 1, u) = s
  <2>1. a \in a..Len(t) + 1 /\ a - 1 + 1 = a
    BY <1>2, <1>3
  <2>2. Cut(t, a, a - 1 + 1, x, y)
    BY <2>1, <1>1, <1>2 DEF Cut
  <2>3. Joins(Splice(t, a, a - 1, u), x, u, y)
    BY <2>2, CutSplice
  <2> QED BY <2>3, <1>11 DEF Joins
<1>14. Fits(s, c, p)
  BY <1>12 DEF Fits
<1> QED BY <1>2, <1>13, <1>14

-----------------------------------------------------------------------------
(* What a file says at first, and which workflows it has *)

LEMMA WrittenTyped ==
  ASSUME NEW c, Proper(c), NEW p \in Seq(Words)
  PROVE  Written(c, p) \in Seq(Sayings) /\ (Written(c, p) = <<>> \/ ~Deep(Written(c, p)[1]))
<1>1. PICK O, W : /\ O = OrbsText(c.hasOrbs, p) /\ W = WorkflowsText(c.workflows)
                  /\ O \in Seq(Sayings) /\ W \in Seq(Inward) /\ W \in Seq(Sayings)
                  /\ Written(c, p) = (O \o <<TopLine>>) \o W
  BY WrittenParts
<1>2. TopLine \in Sayings /\ TopLine.depth = 0 /\ OrbsLine.depth = 0 /\ OrbsLine \in Sayings
  BY OrbLines
<1>3. PICK S : S = (O \o <<TopLine>>) \o W
  OBVIOUS
<1>4. /\ S \in Seq(Sayings) /\ Len(O) \in Nat
      /\ \A y \in 1..Len(O) : S[y] = O[y]
      /\ S[Len(O) + 1] = TopLine
  <2>1. O \in Seq(Sayings) /\ W \in Seq(Sayings)
    BY <1>1
  <2> QED BY <2>1, <1>2, <1>3, ThreeParts
<1>5. O = <<>> \/ (Len(O) # 0 /\ O[1] = OrbsLine)
  <2>1. c.hasOrbs \in BOOLEAN
    BY ProperIs
  <2>2. PICK E : E = Each(2, "pin:", p)
    OBVIOUS
  <2>3. /\ c.hasOrbs => O = <<OrbsLine>> \o E
        /\ ~c.hasOrbs => O = <<>>
        /\ E \in Seq(Sayings)
    BY <1>1, <2>1, <2>2, OrbsAre
  <2>4. <<OrbsLine>> \o E \in Seq(Sayings) /\ Len(<<OrbsLine>> \o E) = 1 + Len(E) /\ (<<OrbsLine>> \o E)[1] = OrbsLine
    BY <1>2, <2>3, ConsIs
  <2>5. Len(E) \in Nat
    BY <2>3
  <2> QED BY <2>1, <2>3, <2>4, <2>5
<1>6. S[1].depth = 0
  <2>1. CASE O = <<>>
    <3>1. Len(O) = 0
      BY <2>1
    <3> QED BY <3>1, <1>2, <1>4
  <2>2. CASE Len(O) # 0 /\ O[1] = OrbsLine
    <3>1. 1 \in 1..Len(O)
      BY <2>2, <1>4
    <3> QED BY <3>1, <2>2, <1>2, <1>4
  <2> QED BY <2>1, <2>2, <1>5
<1>7. ~Deep(S[1])
  <2>1. S[1] \in Sayings
    <3>1. Len(S) = Len(O) + 1 + Len(W) /\ Len(W) \in Nat
      <4>1. O \in Seq(Sayings) /\ W \in Seq(Sayings)
        BY <1>1
      <4> QED BY <4>1, <1>2, <1>3, ThreeParts
    <3>2. 1 \in 1..Len(S)
      BY <3>1, <1>4
    <3> QED BY <3>2, <1>4
  <2> QED BY <2>1, <1>6, NotDeep DEF Sayings
<1> QED BY <1>1, <1>3, <1>4, <1>7

\* A file as a maintainer writes it down says what it is meant to.
LEMMA InitFits ==
  ASSUME NEW c \in Contents, NEW p \in Orders(c)
  PROVE  Fits(Written(c, p), c, p)
<1>1. Proper(c)
  BY TextAssumption DEF Proper
<1>2. p \in Seq(Words)
  BY <1>1, OrderIs
<1>3. PICK t : t = Written(c, p)
  OBVIOUS
<1>4. t \in Seq(Sayings) /\ (t = <<>> \/ ~Deep(t[1]))
  BY <1>1, <1>2, <1>3, WrittenTyped
<1>5. t \in Seq(Lines) /\ Tidy(t)
  BY <1>4, TidySays
<1>6. Nested(t)
  BY <1>4, NestedSays
<1>7. Said(t) = t
  BY <1>4, SaidSelf
<1> QED BY <1>1, <1>3, <1>5, <1>6, <1>7 DEF Fits

\* The lines under `workflows:`, up to the next line that is not indented.
TopOf(t) == SubSeq(t, Section(t, "workflows:") + 1,
                   BlockEnd(t, Section(t, "workflows:"), Len(t) + 1, 1) - 1)

LEMMA InwardDeep ==
  ASSUME NEW l \in Inward PROVE l.depth > 1 /\ l # TopLine
<1>1. l \in Lines /\ l.depth # 0
  BY DEF Inward, Sayings
<1>2. l.depth \in Depths
  BY <1>1, LineDepth
<1>3. l # TopLine
  BY <1>1, OrbLines
<1> QED BY <1>1, <1>2, <1>3 DEF Depths

\* TopLine stands at one place of what is said, and what follows is indented.
Topped(S, k, W) ==
  /\ S \in Seq(Sayings) /\ k \in DOMAIN S /\ S[k] = TopLine
  /\ \A n \in DOMAIN S : S[n] = TopLine => n = k
  /\ \A n \in k + 1..Len(S) : S[n].depth > 1
  /\ SubSeq(S, k + 1, Len(S)) = W

LEMMA ToppedIs ==
  ASSUME NEW c, Proper(c), NEW p \in Seq(Words)
  PROVE  \E k : Topped(Written(c, p), k, WorkflowsText(c.workflows))
<1>1. PICK O, W : /\ O = OrbsText(c.hasOrbs, p) /\ W = WorkflowsText(c.workflows)
                  /\ O \in Seq(Sayings) /\ W \in Seq(Inward) /\ W \in Seq(Sayings)
                  /\ Written(c, p) = (O \o <<TopLine>>) \o W
  BY WrittenParts
<1>2. TopLine \in Sayings /\ TopLine.key = "workflows:"
  BY OrbLines
<1>3. PICK S, a, b : S = (O \o <<TopLine>>) \o W /\ a = Len(O) /\ b = Len(W)
  OBVIOUS
<1>4. /\ S \in Seq(Sayings) /\ a \in Nat /\ b \in Nat /\ Len(S) = a + 1 + b
      /\ \A y \in 1..a : S[y] = O[y]
      /\ S[a + 1] = TopLine
      /\ \A y \in 1..b : S[a + 1 + y] = W[y]
  <2>1. O \in Seq(Sayings) /\ W \in Seq(Sayings)
    BY <1>1
  <2> QED BY <2>1, <1>2, <1>3, ThreeParts
<1>5. \A y \in 1..a : O[y] # TopLine
  <2>1. c.hasOrbs \in BOOLEAN
    BY ProperIs
  <2>2. \A l \in Range(O) : l.key \in {"orbs:", "pin:"}
    BY <1>1, <2>1, OrbsAre
  <2>3. \A y \in 1..a : O[y] \in Range(O)
    BY <1>1, <1>3 DEF Range
  <2> QED BY <2>2, <2>3, <1>2
<1>6. \A y \in 1..b : W[y].depth > 1 /\ W[y] # TopLine
  <2>1. \A y \in 1..b : W[y] \in Inward
    BY <1>1, <1>3
  <2> QED BY <2>1, InwardDeep
<1>7. a + 1 \in DOMAIN S
  BY <1>4
<1>8. ASSUME NEW n \in DOMAIN S, n # a + 1
      PROVE  S[n] # TopLine /\ (n > a + 1 => S[n].depth > 1)
  <2>1. n \in Nat /\ n >= 1 /\ n <= a + 1 + b
    BY <1>4
  <2>2. CASE n <= a
    <3>1. n \in 1..a
      BY <2>1, <2>2, <1>4
    <3>2. ~(n > a + 1)
      BY <2>1, <2>2, <1>4
    <3> QED BY <3>1, <3>2, <1>4, <1>5
  <2>3. CASE n > a + 1
    <3>1. n - (a + 1) \in 1..b /\ a + 1 + (n - (a + 1)) = n
      BY <2>1, <2>3, <1>4
    <3>2. S[n] = W[n - (a + 1)]
      BY <3>1, <1>4
    <3> QED BY <3>1, <3>2, <1>6
  <2> QED BY <1>8, <2>1, <2>2, <2>3, <1>4
<1>9. \A n \in a + 1 + 1..Len(S) : S[n].depth > 1
  <2> SUFFICES ASSUME NEW n \in a + 1 + 1..Len(S) PROVE S[n].depth > 1
    OBVIOUS
  <2>1. n \in DOMAIN S /\ n > a + 1 /\ n # a + 1
    BY <1>4
  <2> QED BY <2>1, <1>8
<1>10. SubSeq(S, a + 1 + 1, Len(S)) = W
  <2>1. a + 1 + b <= Len(S) /\ a + 1 \in Nat
    BY <1>4
  <2>2. SubSeq(S, a + 1 + 1, a + 1 + b) = W
    <3>1. S \in Seq(Sayings) /\ W \in Seq(Sayings) /\ b = Len(W)
      BY <1>1, <1>3, <1>4
    <3>2. \A y \in 1..b : S[a + 1 + y] = W[y]
      BY <1>4
    <3>3. PICK q : q = a + 1
      OBVIOUS
    <3>4. q \in Nat /\ q + Len(W) <= Len(S) /\ \A y \in 1..Len(W) : S[q + y] = W[y]
      BY <3>1, <3>2, <3>3, <2>1
    <3>5. SubSeq(S, q + 1, q + Len(W)) = W
      BY <3>1, <3>4, SliceIs
    <3> QED BY <3>1, <3>3, <3>5
  <2> QED BY <2>2, <1>4
<1>11. Topped(S, a + 1, W)
  BY <1>4, <1>7, <1>8, <1>9, <1>10 DEF Topped
<1> QED BY <1>1, <1>3, <1>11

LEMMA TopSays ==
  ASSUME NEW t, NEW S, S = Said(t), NEW k, NEW W, Topped(S, k, W), t \in Seq(Lines), Tidy(t)
  PROVE  TopOf(t) \in Seq(Lines) /\ Said(TopOf(t)) = W
<1>1. /\ S \in Seq(Sayings) /\ k \in DOMAIN S /\ S[k] = TopLine
      /\ \A n \in DOMAIN S : S[n] = TopLine => n = k
      /\ \A n \in k + 1..Len(S) : S[n].depth > 1
      /\ SubSeq(S, k + 1, Len(S)) = W
  BY DEF Topped
<1>2. PICK h \in DOMAIN t : /\ t[h] = TopLine /\ Significant(t[h]) /\ Rank(t, h) = k
                            /\ \A j \in DOMAIN t : t[j] = TopLine => j = h
  <2>1. TopLine \in Sayings
    BY OrbLines
  <2> QED BY SMTT(40), <1>1, <2>1, OnlyOne
<1>3. Section(t, "workflows:") = h
  <2>1. Section(t, "workflows:") = FirstIn(t, {TopLine})
    BY SectionIs DEF TopLine
  <2>2. \/ FirstIn(t, {TopLine}) = 0 /\ \A i \in DOMAIN t : t[i] \notin {TopLine}
        \/ FirstIn(t, {TopLine}) \in DOMAIN t /\ t[FirstIn(t, {TopLine})] \in {TopLine}
    BY FirstInIs
  <2> QED BY <1>2, <2>1, <2>2
<1>4. PICK m, n : m = Len(t) /\ n = Len(S)
  OBVIOUS
<1>5. m \in Nat /\ n \in Nat /\ h \in Nat /\ 1 <= h /\ h <= m /\ k \in Nat /\ k <= n
  <2>1. DOMAIN t = 1..Len(t) /\ Len(t) \in Nat /\ DOMAIN S = 1..Len(S) /\ Len(S) \in Nat
    BY <1>1, Places
  <2> QED BY <2>1, <1>1, <1>2, <1>4
<1>6. PICK b : b = BlockEnd(t, h, m + 1, 1)
  OBVIOUS
<1>7. b \in h + 1..m + 1 /\ Rank(t, b) = n + 1
  <2>0. PICK lim, q : lim = m + 1 /\ q = n + 1
    OBVIOUS
  <2>1. lim \in h + 1..Len(t) + 1 /\ EndsAt(t, lim, 1) /\ 1 \in Nat
    BY <2>0, <1>4, <1>5 DEF EndsAt
  <2>2. q \in Rank(t, h) + 1..Len(Said(t)) + 1
    BY <2>0, <1>2, <1>4, <1>5
  <2>3. \A x \in Rank(t, h) + 1..q - 1 : Said(t)[x].depth > 1
    <3>1. q - 1 = n
      BY <2>0, <1>5
    <3> QED BY <3>1, <1>1, <1>2, <1>4
  <2>4. q # Len(Said(t)) + 1 => Said(t)[q].depth <= 1
    BY <2>0, <1>4
  <2>5. BlockEnd(t, h, lim, 1) \in h + 1..lim /\ Rank(t, BlockEnd(t, h, lim, 1)) = q
    BY <1>2, <2>1, <2>2, <2>3, <2>4, ScanIs
  <2> QED BY <2>0, <1>6, <2>5
<1>8. Rank(t, h + 1) = k + 1
  <2>1. Rank(t, h + 1) = Rank(t, h) + (IF Significant(t[h]) THEN 1 ELSE 0)
    BY <1>2, RankNext
  <2> QED BY <2>1, <1>2
<1>9. PICK y : y = SubSeq(t, h + 1, b - 1)
  OBVIOUS
<1>10. Said(y) = SubSeq(S, k + 1, n)
  <2>1. PICK a : a = h + 1
    OBVIOUS
  <2>2. a \in 1..Len(t) + 1 /\ b \in 1..Len(t) + 1 /\ a <= b
    BY <2>1, <1>4, <1>5, <1>7
  <2>3. Said(SubSeq(t, a, b - 1)) = SubSeq(Said(t), Rank(t, a), Rank(t, b) - 1)
    BY <2>2, Cuts
  <2>4. Rank(t, a) = k + 1 /\ Rank(t, b) - 1 = n
    BY <2>1, <1>5, <1>7, <1>8
  <2> QED BY <2>1, <2>3, <2>4, <1>9
<1>11. y \in Seq(Lines)
  <2>1. h + 1 \in 1..Len(t) + 1 /\ b \in 1..Len(t) + 1 /\ h + 1 <= b
    BY <1>4, <1>5, <1>7
  <2> QED BY <2>1, <1>9, InThree
<1>12. TopOf(t) = y
  BY <1>3, <1>4, <1>6, <1>9 DEF TopOf
<1> QED BY <1>1, <1>4, <1>10, <1>11, <1>12

\* The lines under `workflows:` in a file with these, and what their names are.
Naming(wf) == {l \in Sayings : l.depth = 2 => \E w \in DOMAIN wf : l = WLine(w)}

LEMMA FlowsNaming ==
  ASSUME NEW wf, Flows(wf)
  PROVE  WorkflowsText(wf) \in Seq(Naming(wf))
<1>0. DOMAIN wf \subseteq Words
  <2>1. Workflows \in Seq(Words)
    BY TextAssumption
  <2> QED BY <2>1 DEF Flows, ToSet
<1>1. ASSUME NEW w \in DOMAIN wf
      PROVE  WorkflowText(w, wf[w]) \in Seq(Naming(wf))
  <2>0. w \in Words /\ wf[w] \in Seq(Entry)
    BY <1>0 DEF Flows
  <2>1. PICK a, b : a = <<WLine(w), JLine>> /\ b = JobsText(wf[w])
    OBVIOUS
  <2>2. WLine(w) \in Naming(wf) /\ JLine \in Naming(wf)
    <3>1. WLine(w) \in Sayings /\ JLine \in Sayings /\ JLine.depth # 2
      BY <2>0, HeaderLines
    <3> QED BY <3>1 DEF Naming
  <2>3. a \in Seq(Naming(wf))
    BY <2>1, <2>2
  <2>4. {l \in Sayings : l.depth \in {6, 10, 12, 16, 18}} \subseteq Naming(wf)
    BY DEF Naming
  <2>5. b \in Seq(Naming(wf))
    <3>1. b \in Seq({l \in Sayings : l.depth \in {6, 10, 12, 16, 18}})
      BY <2>0, <2>1, JobsInside
    <3> QED BY <3>1, <2>4, SeqWithin
  <2>6. a \o b \in Seq(Naming(wf))
    BY <2>3, <2>5
  <2> QED BY <2>0, <2>1, <2>6, WorkflowHas
<1>2. <<>> \in Seq(Naming(wf))
  OBVIOUS
<1>3. ASSUME NEW w \in Words
      PROVE  If(w \in DOMAIN wf, WorkflowText(w, wf[w])) \in Seq(Naming(wf))
  BY <1>1, <1>2 DEF If
<1>4. Maps(FlowText(wf), Words, Naming(wf))
  <2> DEFINE V == Seq(Naming(wf))
  <2>1. \A w \in Words : If(w \in DOMAIN wf, WorkflowText(w, wf[w])) \in V
    BY <1>3
  <2> HIDE DEF V
  <2>2. FlowText(wf) \in [Words -> V]
    BY <2>1 DEF FlowText
  <2> QED BY <2>2 DEF V, Maps
<1>5. Workflows \in Seq(Words)
  BY TextAssumption
<1>6. Through(FlowText(wf), Workflows) \in Seq(Naming(wf))
  BY <1>4, <1>5, ThroughType
<1> QED BY <1>6, FlowsIs

LEMMA ThroughAlike ==
  ASSUME NEW T, NEW t \in Seq(T), NEW m, NEW k,
         \A x \in T : m[x] = k[x]
  PROVE  Through(m, t) = Through(k, t)
<1>1. \A i \in DOMAIN t : t[i] \in T
  OBVIOUS
<1>2. [i \in DOMAIN t |-> m[t[i]]] = [i \in DOMAIN t |-> k[t[i]]]
  BY <1>1
<1> QED BY <1>2 DEF Through

LEMMA NamesWithin ==
  ASSUME NEW wf, Flows(wf), NEW W, W \in Seq(Naming(wf))
  PROVE  Values(W, 2, "workflow:") \in Seq(DOMAIN wf)
<1> DEFINE N == Naming(wf)
           k == PickOf(2, "workflow:")
           m == [l \in N |-> k[l]]
<1>1. N \subseteq Lines
  BY DEF Naming, Sayings
<1>2. ASSUME NEW l \in N PROVE k[l] \in Seq(DOMAIN wf)
  <2>1. l \in Lines
    BY <1>1, <1>2
  <2>2. k[l] = If(l.depth = 2 /\ l.key = "workflow:", <<l.value[1]>>)
    BY <2>1 DEF PickOf
  <2>3. CASE l.depth = 2 /\ l.key = "workflow:"
    <3>1. PICK w \in DOMAIN wf : l = WLine(w)
      BY <2>3, <1>2 DEF Naming
    <3>2. l.value = <<w>>
      BY <3>1 DEF WLine, Line
    <3>3. l.value[1] = w
      BY <3>2
    <3>4. k[l] = <<w>>
      BY <2>2, <2>3, <3>3 DEF If
    <3> HIDE DEF k
    <3>5. <<w>> \in Seq(DOMAIN wf)
      BY <3>1, Single
    <3> QED BY <3>4, <3>5
  <2>4. CASE ~(l.depth = 2 /\ l.key = "workflow:")
    <3>1. k[l] = <<>>
      BY <2>2, <2>4 DEF If
    <3> HIDE DEF k
    <3>2. <<>> \in Seq(DOMAIN wf)
      OBVIOUS
    <3> QED BY <3>1, <3>2
  <2> QED BY <2>3, <2>4
<1> HIDE DEF N, k
<1>3. Maps(m, N, DOMAIN wf)
  <2> DEFINE V == Seq(DOMAIN wf)
  <2>1. \A l \in N : k[l] \in V
    BY <1>2
  <2> HIDE DEF V
  <2>2. m \in [N -> V]
    BY <2>1
  <2> QED BY <2>2 DEF V, Maps
<1>4. W \in Seq(N)
  BY DEF N
<1>5. Through(m, W) \in Seq(DOMAIN wf)
  BY <1>3, <1>4, ThroughType
<1>6. Through(m, W) = Through(k, W)
  <2>1. \A x \in N : m[x] = k[x]
    OBVIOUS
  <2> HIDE DEF m
  <2> QED BY <1>4, <2>1, ThroughAlike
<1>7. Values(W, 2, "workflow:") = Through(k, W)
  <2>1. W \in Seq(Lines)
    BY <1>1, <1>4, SeqWithin
  <2> QED BY <2>1, ValuesIs DEF k
<1> QED BY <1>5, <1>6, <1>7

LEMMA ValuesWorkflow ==
  ASSUME NEW w \in Words, NEW es \in Seq(Entry)
  PROVE  1 \in DOMAIN Values(WorkflowText(w, es), 2, "workflow:")
         /\ Values(WorkflowText(w, es), 2, "workflow:")[1] = w
<1>1. PICK a, b, u : a = <<WLine(w)>> /\ b = <<JLine>> \o JobsText(es) /\ u = WorkflowText(w, es)
  OBVIOUS
<1>2. WLine(w) \in Lines /\ JLine \in Lines /\ JobsText(es) \in Seq(Lines)
  BY HeaderLines, JobsType DEF Sayings
<1>3. a \in Seq(Lines) /\ b \in Seq(Lines)
  <2>1. <<JLine>> \in Seq(Lines) /\ <<WLine(w)>> \in Seq(Lines)
    BY <1>2, Single
  <2>2. <<JLine>> \o JobsText(es) \in Seq(Lines)
    BY <1>2, ConsIs
  <2> QED BY <1>1, <2>1, <2>2
<1>4. u = a \o b
  <2>1. \A x \in Lines, y \in Lines, s \in Seq(Lines) : <<x, y>> \o s = <<x>> \o (<<y>> \o s)
    <3> TAKE x \in Lines
    <3> TAKE y \in Lines
    <3> TAKE s \in Seq(Lines)
    <3>1. <<x>> \in Seq(Lines) /\ <<y>> \in Seq(Lines)
      OBVIOUS
    <3>2. <<x, y>> = <<x>> \o <<y>>
      OBVIOUS
    <3>3. <<x>> \o (<<y>> \o s) = (<<x>> \o <<y>>) \o s
      BY <3>1, Regroup
    <3> QED BY <3>2, <3>3
  <2>2. <<WLine(w), JLine>> \o JobsText(es) = <<WLine(w)>> \o (<<JLine>> \o JobsText(es))
    BY <2>1, <1>2
  <2>3. u = <<WLine(w), JLine>> \o JobsText(es)
    BY <1>1, WorkflowHas
  <2> QED BY <1>1, <2>2, <2>3
<1>5. Values(a, 2, "workflow:") = <<w>>
  <2>1. Values(a, 2, "workflow:") = Through(PickOf(2, "workflow:"), a)
    BY <1>3, ValuesIs
  <2>2. Through(PickOf(2, "workflow:"), <<WLine(w)>>) = PickOf(2, "workflow:")[WLine(w)]
    BY <1>2, PickMaps, ThroughOne
  <2>3. WLine(w).depth = 2 /\ WLine(w).key = "workflow:" /\ WLine(w).value = <<w>>
    BY HeaderLines
  <2>4. WLine(w).value[1] = w
    BY <2>3
  <2>5. PickOf(2, "workflow:")[WLine(w)] = <<w>>
    BY <1>2, <2>3, <2>4 DEF PickOf, If
  <2> QED BY <1>1, <2>1, <2>2, <2>5
<1>6. Values(a \o b, 2, "workflow:") = <<w>> \o Values(b, 2, "workflow:")
  <2>1. Values(a \o b, 2, "workflow:") = Values(a, 2, "workflow:") \o Values(b, 2, "workflow:")
    BY <1>3, ValuesConcat
  <2> QED BY <2>1, <1>5
<1>7. PICK v : v = Values(b, 2, "workflow:")
  OBVIOUS
<1>8. v \in Seq(Firsts)
  BY <1>3, <1>7, ValuesIs
<1>9. w \in Firsts
  <2>1. WLine(w).value[1] = w
    BY HeaderLines
  <2> QED BY <2>1, <1>2 DEF Firsts
<1>10. /\ <<w>> \o v \in Seq(Firsts) /\ Len(<<w>> \o v) = 1 + Len(v) /\ (<<w>> \o v)[1] = w
       /\ Len(v) \in Nat
  BY <1>8, <1>9, ConsIs
<1>11. DOMAIN (<<w>> \o v) = 1..(1 + Len(v))
  BY <1>10
<1>12. Values(u, 2, "workflow:") = <<w>> \o v
  BY <1>4, <1>6, <1>7
<1>13. PICK x : x = <<w>> \o v
  OBVIOUS
<1>14. 1 \in DOMAIN x /\ x[1] = w
  BY <1>10, <1>11, <1>13
<1>15. Values(u, 2, "workflow:") = x
  BY <1>12, <1>13
<1> QED BY <1>1, <1>14, <1>15

LEMMA SetJoin ==
  ASSUME NEW T, NEW a \in Seq(T), NEW b \in Seq(T)
  PROVE  ToSet(a \o b) = ToSet(a) \cup ToSet(b)
<1>1. Range(a \o b) = Range(a) \cup Range(b)
  BY RangeConcatenation
<1> QED BY <1>1 DEF Range, ToSet

\* A concatenation has what any of its parts has.
Gathers(s, ss) == \A x : x \in ToSet(s) <=> \E i \in DOMAIN ss : x \in ToSet(ss[i])

LEMMA FlatSet ==
  ASSUME NEW T, NEW ss \in Seq(Seq(T))
  PROVE  Gathers(FlattenSeq(ss), ss)
<1> DEFINE V == Seq(T)
<1>0. ss \in Seq(V) /\ Len(ss) \in Nat /\ DOMAIN ss = 1..Len(ss)
  OBVIOUS
<1>1. CASE ss = <<>>
  <2>1. FlattenSeq(ss) = <<>> /\ DOMAIN ss = {}
    BY <1>1, FlatEmpty
  <2> QED BY <2>1 DEF Gathers, ToSet
<1>2. CASE ss # <<>>
  <2>1. PICK f : /\ f \in [DOMAIN ss -> Seq(T)] /\ Flattens(f, ss)
                 /\ FlattenSeq(ss) = f[Len(ss)]
    BY <1>2, FlatHas
  <2>2. PICK m : m = Len(ss)
    OBVIOUS
  <2> HIDE DEF V
  <2>3. m \in Nat /\ m # 0 /\ DOMAIN ss = 1..m
    BY <1>0, <1>2, <2>2
  <2> DEFINE So(n) == \A x : x \in ToSet(f[n]) <=> \E i \in 1..n : x \in ToSet(ss[i])
             S == {n \in 0..m : n = 0 \/ So(n)}
  <2>4. 0 \in S
    BY <2>3
  <2>5. ASSUME NEW n \in 0..m, n \in S, n < m PROVE n + 1 \in S
    <3>1. n + 1 \in 1..m /\ n + 1 \in 0..m /\ n + 1 # 0
      BY <2>3, <2>5
    <3>2. /\ n = 0 => f[n + 1] = ss[n + 1]
          /\ n # 0 => f[n + 1] = f[n] \o ss[n + 1]
      <4>1. PICK k : k = n + 1
        OBVIOUS
      <4>2. k \in DOMAIN ss /\ k - 1 = n /\ (k = 1 <=> n = 0)
        BY <4>1, <2>3, <2>5, <3>1
      <4>3. f[k] = IF k = 1 THEN ss[k] ELSE f[k - 1] \o ss[k]
        <5>1. Flattens(f, ss)
          BY <2>1
        <5> QED BY <5>1, <4>2 DEF Flattens
      <4> QED BY <4>1, <4>2, <4>3
    <3>3. So(n + 1)
      <4>1. CASE n = 0
        <5>1. f[n + 1] = ss[n + 1] /\ 1..n + 1 = {n + 1}
          BY <3>2, <4>1
        <5> QED BY <5>1
      <4>2. CASE n # 0
        <5>1. f[n + 1] = f[n] \o ss[n + 1]
          BY <3>2, <4>2
        <5>2. f[n] \in Seq(T) /\ ss[n + 1] \in Seq(T)
          <6>1. n \in 1..m
            BY <2>3, <2>5, <4>2
          <6>2. f[n] \in Seq(T)
            BY <6>1, <2>1, <2>3
          <6>3. ss[n + 1] \in V
            BY <1>0, <2>2, <3>1
          <6> QED BY <6>2, <6>3 DEF V
        <5>3. ToSet(f[n + 1]) = ToSet(f[n]) \cup ToSet(ss[n + 1])
          BY <5>1, <5>2, SetJoin
        <5>4. So(n)
          BY <2>5, <4>2
        <5>5. 1..n + 1 = 1..n \cup {n + 1}
          BY <2>3, <2>5
        <5> QED BY <5>3, <5>4, <5>5
      <4> QED BY <4>1, <4>2
    <3> QED BY <3>1, <3>3
  <2> HIDE DEF So
  <2>6. 0..m \subseteq S
    <3> HIDE DEF S
    <3> QED BY <2>3, <2>4, <2>5, Counting
  <2>7. So(m)
    BY <2>3, <2>6
  <2> QED BY <2>1, <2>2, <2>3, <2>7 DEF Gathers, So
<1> QED BY <1>1, <1>2

\* The values under `workflows:` are the names of the workflows.
LEMMA FlowsNamed ==
  ASSUME NEW wf, Flows(wf)
  PROVE  /\ Values(WorkflowsText(wf), 2, "workflow:") \in Seq(DOMAIN wf)
         /\ ToSet(Values(WorkflowsText(wf), 2, "workflow:")) = DOMAIN wf
<1>1. PICK W, v : W = WorkflowsText(wf) /\ v = Values(W, 2, "workflow:")
  OBVIOUS
<1>2. v \in Seq(DOMAIN wf)
  BY <1>1, FlowsNaming, NamesWithin
<1>3. ToSet(v) \subseteq DOMAIN wf
  BY <1>2 DEF ToSet
<1>4. ASSUME NEW w \in DOMAIN wf PROVE w \in ToSet(v)
  <2>1. PICK a, u, b : a = Above(wf, w) /\ u = WorkflowText(w, wf[w]) /\ b = Below(wf, w)
    OBVIOUS
  <2>2. /\ w \in Words /\ wf[w] \in Seq(Entry)
        /\ a \in Seq(Outside(w)) /\ b \in Seq(Outside(w)) /\ W = (a \o u) \o b
    BY <1>1, <2>1, FlowSplit
  <2>3. Outside(w) \subseteq Lines /\ Sayings \subseteq Lines
    BY DEF Outside, Sayings
  <2>4. a \in Seq(Lines) /\ b \in Seq(Lines)
    BY <2>2, <2>3, SeqWithin
  <2>5. u \in Seq(Lines)
    <3>1. u \in Seq(Sayings)
      BY <2>1, <2>2, WorkflowHas
    <3> QED BY <3>1, <2>3, SeqWithin
  <2>6. PICK p, q, r : /\ p = Values(a, 2, "workflow:") /\ q = Values(u, 2, "workflow:")
                       /\ r = Values(b, 2, "workflow:")
    OBVIOUS
  <2>7. p \in Seq(Firsts) /\ q \in Seq(Firsts) /\ r \in Seq(Firsts)
    BY <2>4, <2>5, <2>6, ValuesIs
  <2>8. a \o u \in Seq(Lines)
    BY <2>4, <2>5, ConcatProperties
  <2>9. Values((a \o u) \o b, 2, "workflow:") = (p \o q) \o r
    <3>1. Values(a \o u, 2, "workflow:") = Values(a, 2, "workflow:") \o Values(u, 2, "workflow:")
      BY <2>4, <2>5, ValuesConcat
    <3>2. Values(a \o u, 2, "workflow:") = p \o q
      BY <3>1, <2>6
    <3>3. PICK z : z = a \o u
      OBVIOUS
    <3>4. z \in Seq(Lines)
      BY <2>8, <3>3
    <3>5. Values(z \o b, 2, "workflow:") = Values(z, 2, "workflow:") \o Values(b, 2, "workflow:")
      BY <2>4, <3>4, ValuesConcat
    <3>6. Values(z \o b, 2, "workflow:") = (p \o q) \o r
      BY <2>6, <3>2, <3>3, <3>5
    <3> QED BY <3>3, <3>6
  <2>10. 1 \in DOMAIN q /\ q[1] = w
    BY <2>1, <2>2, <2>6, ValuesWorkflow
  <2>11. w \in ToSet(q)
    BY <2>10 DEF ToSet
  <2>12. ToSet((p \o q) \o r) = ToSet(p \o q) \cup ToSet(r) /\ ToSet(p \o q) = ToSet(p) \cup ToSet(q)
    <3>1. p \o q \in Seq(Firsts)
      BY <2>7
    <3> QED BY ZenonT(60), <3>1, <2>7, SetJoin
  <2>13. v = (p \o q) \o r
    BY <1>1, <2>2, <2>9
  <2> QED BY <2>11, <2>12, <2>13
<1> QED BY <1>1, <1>2, <1>3, <1>4

\* What a scan of the file takes for its workflows.
LEMMA NamesAre ==
  ASSUME NEW t, NEW c, NEW p, Fits(t, c, p)
  PROVE  /\ WorkflowNames(t) \in Seq(DOMAIN c.workflows)
         /\ ToSet(WorkflowNames(t)) = DOMAIN c.workflows
<1>1. Proper(c) /\ p \in Seq(Words) /\ t \in Seq(Lines) /\ Tidy(t) /\ Said(t) = Written(c, p)
  BY OrderIs DEF Fits
<1>2. PICK S, W, k : S = Said(t) /\ W = WorkflowsText(c.workflows) /\ Topped(S, k, W)
  BY <1>1, ToppedIs
<1>3. TopOf(t) \in Seq(Lines) /\ Said(TopOf(t)) = W
  BY <1>1, <1>2, TopSays
<1>4. WorkflowNames(t) = Values(TopOf(t), 2, "workflow:")
  BY DEF WorkflowNames, TopOf
<1>5. Values(TopOf(t), 2, "workflow:") = Values(W, 2, "workflow:")
  BY <1>3, ValuesSaid
<1>6. Flows(c.workflows)
  BY <1>1, ProperIs
<1> QED BY <1>2, <1>4, <1>5, <1>6, FlowsNamed

-----------------------------------------------------------------------------
(* Discovery *)

\* The entries of a list that nobody declared and that can be read.
Undone(es, w, J) ==
  {i \in DOMAIN es : IsUndeclared(w, es[i], J) /\ es[i].requires.form \in Readable}

LEMMA CapturedTyped ==
  ASSUME NEW w \in ToSet(Workflows), NEW e \in Entry
  PROVE  Captured(w, e) \in Job
<1>1. NoExtras \in Declarable /\ <<>> \in Seq(Words)
  BY Nil, TextAssumption DEF TextAssumption
<1>2. /\ e.orbJob \in DOMAIN Orb /\ e.name \in Words \cup {NoName}
      /\ e.requires.items \in Seq(Words) /\ e.params \in Seq(Words)
  BY DEF Entry
<1>3. PICK o, n, r, p, x : /\ o = e.orbJob /\ n = e.name /\ r = e.requires.items
                           /\ p = e.params /\ x = NoExtras
  OBVIOUS
<1>4. Captured(w, e) = [workflow |-> w, orbJob |-> o, versioned |-> FALSE, jobName |-> n,
                        requires |-> r, requiredBy |-> <<>>, params |-> p, extras |-> x]
  BY <1>3 DEF Captured
<1>5. /\ o \in DOMAIN Orb /\ n \in Words \cup {NoName} /\ r \in Seq(Words) /\ p \in Seq(Words)
      /\ x \in Declarable
  BY <1>1, <1>2, <1>3
<1>6. FALSE \in BOOLEAN
  OBVIOUS
<1> QED BY <1>1, <1>4, <1>5, <1>6 DEF Job

LEMMA AlikeCaptured ==
  ASSUME NEW es, NEW a, Alike(a, es), NEW w, NEW J, NEW i \in DOMAIN es
  PROVE  /\ Captured(w, a[i]) = Captured(w, es[i])
         /\ i \in Undone(a, w, J) <=> i \in Undone(es, w, J)
<1>1. /\ a[i].orbJob = es[i].orbJob /\ a[i].name = es[i].name
      /\ a[i].requires = es[i].requires /\ a[i].params = es[i].params
      /\ DOMAIN a = DOMAIN es
  BY DEF Alike
<1>2. Captured(w, a[i]) = Captured(w, es[i])
  BY <1>1 DEF Captured
<1>3. IsUndeclared(w, a[i], J) <=> IsUndeclared(w, es[i], J)
  BY <1>1 DEF IsUndeclared, Identifies, EffectiveName, NameOr
<1> QED BY <1>1, <1>2, <1>3 DEF Undone

\* A list of those, or one more part.
LEMMA OneOrNone ==
  ASSUME NEW T, NEW b, NEW x, b => x \in T, NEW s, s = If(b, <<x>>)
  PROVE  s \in Seq(T) /\ (\A y : y \in ToSet(s) <=> b /\ y = x)
<1>1. CASE b
  <2>1. s = <<x>> /\ x \in T
    BY <1>1 DEF If
  <2>2. s \in Seq(T) /\ DOMAIN s = {1} /\ s[1] = x
    <3>1. <<x>> \in Seq(T) /\ Len(<<x>>) = 1 /\ <<x>>[1] = x
      BY <2>1, Single
    <3>2. DOMAIN <<x>> = 1..1 /\ 1..1 = {1}
      BY <3>1
    <3> QED BY <2>1, <3>1, <3>2
  <2> QED BY <1>1, <2>2 DEF ToSet
<1>2. CASE ~b
  <2>1. s = <<>>
    BY <1>2 DEF If
  <2>2. s \in Seq(T) /\ DOMAIN s = {}
    BY <2>1
  <2> QED BY <1>2, <2>2 DEF ToSet
<1> QED BY <1>1, <1>2

\* What a scan captures of one workflow.
Gets(s, es, w, J) == \A y : y \in ToSet(s) <=> \E i \in Undone(es, w, J) : y = Captured(w, es[i])

LEMMA CapturesAre ==
  ASSUME NEW es \in Seq(Entry), NEW a, Alike(a, es), NEW w \in ToSet(Workflows), NEW J
  PROVE  Captures(w, a, J) \in Seq(Job) /\ Gets(Captures(w, a, J), es, w, J)
<1> DEFINE B(i) == /\ IsUndeclared(w, a[i], J)
                   /\ a[i].requires.form \in Readable
           g == [i \in DOMAIN a |-> If(B(i), <<Captured(w, a[i])>>)]
           V == Seq(Job)
<1>1. DOMAIN a = DOMAIN es /\ DOMAIN es = 1..Len(es) /\ Len(es) \in Nat
  BY DEF Alike
<1>2. ASSUME NEW i \in DOMAIN es
      PROVE  /\ Captured(w, a[i]) = Captured(w, es[i]) /\ Captured(w, es[i]) \in Job
             /\ (B(i) <=> i \in Undone(es, w, J))
  <2>1. es[i] \in Entry
    OBVIOUS
  <2>2. Captured(w, es[i]) \in Job
    BY <2>1, CapturedTyped
  <2>3. /\ Captured(w, a[i]) = Captured(w, es[i])
        /\ i \in Undone(a, w, J) <=> i \in Undone(es, w, J)
    BY AlikeCaptured
  <2>4. B(i) <=> i \in Undone(a, w, J)
    BY <1>1, <1>2 DEF Undone
  <2> QED BY <2>2, <2>3, <2>4
<1>3. Captures(w, a, J) = FlattenSeq(g)
  BY DEF Captures
<1> HIDE DEF B
<1>4. ASSUME NEW i \in DOMAIN es
      PROVE  /\ g[i] \in Seq(Job)
             /\ \A y : y \in ToSet(g[i]) <=> i \in Undone(es, w, J) /\ y = Captured(w, es[i])
  <2>1. PICK s, x : s = g[i] /\ x = Captured(w, a[i])
    OBVIOUS
  <2>2. s = If(B(i), <<x>>)
    BY <2>1, <1>1
  <2>3. x \in Job /\ x = Captured(w, es[i])
    BY <2>1, <1>2
  <2>4. s \in Seq(Job) /\ (\A y : y \in ToSet(s) <=> B(i) /\ y = x)
    BY <2>2, <2>3, OneOrNone
  <2> QED BY <2>1, <2>3, <2>4, <1>2
<1>5. DOMAIN g = 1..Len(es) /\ DOMAIN g = DOMAIN es
  BY <1>1
<1> HIDE DEF g
<1>6. g \in Seq(V)
  <2> HIDE DEF V
  <2>1. \A i \in 1..Len(es) : g[i] \in V
    BY <1>1, <1>4 DEF V
  <2>2. g = [i \in 1..Len(es) |-> g[i]]
    BY <1>3, <1>5 DEF g
  <2> QED BY <1>1, <2>1, <2>2
<1>7. FlattenSeq(g) \in Seq(Job) /\ Gathers(FlattenSeq(g), g)
  <2>1. g \in Seq(Seq(Job))
    BY <1>6
  <2> QED BY <2>1, FlatType, FlatSet
<1>8. Gets(FlattenSeq(g), es, w, J)
  <2>1. \A y : y \in ToSet(FlattenSeq(g)) <=> \E i \in DOMAIN g : y \in ToSet(g[i])
    BY <1>7 DEF Gathers
  <2>2. Undone(es, w, J) \subseteq DOMAIN es
    BY DEF Undone
  <2> QED BY <2>1, <2>2, <1>4, <1>5 DEF Gets
<1> QED BY <1>3, <1>7, <1>8

\* A finite set's elements, one by one.
LEMMA ListingIs ==
  ASSUME NEW S, IsFiniteSet(S)
  PROVE  /\ Cardinality(S) \in Nat /\ SetToSeq(S) \in [1..Cardinality(S) -> S]
         /\ \A x \in S : \E n \in 1..Cardinality(S) : SetToSeq(S)[n] = x
<1> DEFINE D == 1..Cardinality(S)
           f == SetToSeq(S)
<1>1. Cardinality(S) \in Nat /\ ExistsBijection(D, S)
  BY FS_CardinalityType
<1>2. \E g \in [D -> S] : IsInjective(g)
  BY <1>1 DEF ExistsBijection, Bijection, Injection
<1>3. f \in [D -> S] /\ IsInjective(f)
  BY <1>2 DEF SetToSeq
<1>4. IsFiniteSet(D) /\ Cardinality(D) = Cardinality(S)
  BY <1>1, FS_Interval
<1>5. f \in Injection(D, S)
  BY <1>3 DEF Injection
<1> HIDE DEF f, D
<1>6. f \in Surjection(D, S)
  BY <1>4, <1>5, FS_Injection
<1> QED BY <1>1, <1>3, <1>6 DEF Surjection, f, D

\* Where the entries are that discovery captures: finitely many.
Undones(wf, J) == UNION {{w} \X Undone(wf[w], w, J) : w \in DOMAIN wf}

LEMMA UndonesAre ==
  ASSUME NEW wf, Flows(wf), NEW J
  PROVE  /\ IsFiniteSet(Undones(wf, J))
         /\ \A x \in Undones(wf, J) : x[1] \in DOMAIN wf /\ x[2] \in Undone(wf[x[1]], x[1], J)
         /\ \A w \in DOMAIN wf : \A i \in Undone(wf[w], w, J) : <<w, i>> \in Undones(wf, J)
<1> DEFINE D == DOMAIN wf
           Pairs(w) == {w} \X Undone(wf[w], w, J)
           F == [w \in D |-> Pairs(w)]
           T == {Pairs(w) : w \in D}
<1>1. ASSUME NEW w \in D PROVE wf[w] \in Seq(Entry)
  BY <1>1 DEF Flows
<1>2. IsFiniteSet(D)
  <2>1. Workflows \in Seq(Words) /\ D \subseteq ToSet(Workflows)
    BY TextAssumption DEF Flows
  <2>2. PICK f, I, R : f = Workflows /\ I = DOMAIN Workflows /\ R = ToSet(Workflows)
    OBVIOUS
  <2>3. I = 1..Len(f) /\ Len(f) \in Nat
    BY <2>1, <2>2
  <2>4. IsFiniteSet(I)
    BY <2>3, FS_Interval
  <2>5. f \in [I -> R] /\ \A r \in R : \E i \in I : f[i] = r
    BY <2>1, <2>2 DEF ToSet
  <2>6. f \in Surjection(I, R)
    BY <2>5 DEF Surjection
  <2>7. IsFiniteSet(R)
    BY <2>4, <2>6, FS_Surjection
  <2> QED BY <2>1, <2>2, <2>7, FS_Subset
<1>3. ASSUME NEW w \in D PROVE IsFiniteSet(Pairs(w))
  <2>1. Undone(wf[w], w, J) \subseteq 1..Len(wf[w]) /\ Len(wf[w]) \in Int
    BY <1>1 DEF Undone
  <2>2. IsFiniteSet(1..Len(wf[w]))
    BY <2>1, FS_Interval
  <2>3. IsFiniteSet(Undone(wf[w], w, J))
    BY <2>1, <2>2, FS_Subset
  <2> QED BY <2>3, FS_Singleton, FS_Product
<1>4. F \in Surjection(D, T)
  BY DEF Surjection
<1>5. IsFiniteSet(T)
  <2> HIDE DEF F, T, D
  <2> QED BY <1>2, <1>4, FS_Surjection
<1>6. IsFiniteSet(UNION T)
  <2>1. \A X \in T : IsFiniteSet(X)
    BY <1>3
  <2> HIDE DEF T
  <2> QED BY <1>5, <2>1, FS_UNION
<1>7. Undones(wf, J) = UNION T
  BY DEF Undones
<1> QED BY <1>6, <1>7

\* What discovery makes of a content.
CapturedFrom(s, wf, J) ==
  \A y : y \in ToSet(s)
           <=> \E w \in DOMAIN wf : \E i \in Undone(wf[w], w, J) : y = Captured(w, wf[w][i])

LEMMA DiscoverHas ==
  ASSUME NEW c, Proper(c), NEW J
  PROVE  CapturedFrom(Discover(c, J), c.workflows, J)
<1>1. PICK wf, P : wf = c.workflows /\ P = Undones(wf, J)
  OBVIOUS
<1>2. Flows(wf)
  BY <1>1, ProperIs
<1>3. /\ IsFiniteSet(P)
      /\ \A x \in P : x[1] \in DOMAIN wf /\ x[2] \in Undone(wf[x[1]], x[1], J)
      /\ \A w \in DOMAIN wf : \A i \in Undone(wf[w], w, J) : <<w, i>> \in P
  BY <1>1, <1>2, UndonesAre
<1>4. PICK f, m : f = SetToSeq(P) /\ m = Cardinality(P)
  OBVIOUS
<1>5. m \in Nat /\ f \in [1..m -> P] /\ \A x \in P : \E n \in 1..m : f[n] = x
  BY <1>3, <1>4, ListingIs
<1>6. Discover(c, J) = [n \in DOMAIN f |-> Captured(f[n][1], wf[f[n][1]][f[n][2]])]
  BY <1>1, <1>4 DEF Discover, Undones, Undone
<1>7. PICK s : s = [n \in DOMAIN f |-> Captured(f[n][1], wf[f[n][1]][f[n][2]])]
  OBVIOUS
<1>8. DOMAIN s = 1..m /\ \A n \in 1..m : s[n] = Captured(f[n][1], wf[f[n][1]][f[n][2]])
  BY <1>5, <1>7
<1>9. ASSUME NEW n \in 1..m
      PROVE  \E w \in DOMAIN wf : \E i \in Undone(wf[w], w, J) : s[n] = Captured(w, wf[w][i])
  <2>1. f[n] \in P
    BY <1>5
  <2> QED BY <2>1, <1>3, <1>8
<1>10. ASSUME NEW w \in DOMAIN wf, NEW i \in Undone(wf[w], w, J)
       PROVE  \E n \in 1..m : s[n] = Captured(w, wf[w][i])
  <2>1. PICK n \in 1..m : f[n] = <<w, i>>
    BY <1>3, <1>5
  <2>2. s[n] = Captured(w, wf[w][i])
    BY <2>1, <1>8
  <2> QED BY <2>2
<1>11. CapturedFrom(s, wf, J)
  BY <1>8, <1>9, <1>10 DEF CapturedFrom, ToSet
<1> QED BY <1>1, <1>6, <1>7, <1>11

LEMMA JobsLineThere ==
  ASSUME NEW t, NEW c, NEW p, Fits(t, c, p), NEW w \in DOMAIN c.workflows
  PROVE  JobsLine(t, w) # 0 /\ w \in ToSet(Workflows) /\ c.workflows[w] \in Seq(Entry)
<1>1. Proper(c) /\ t \in Seq(Lines)
  BY DEF Fits
<1>2. PICK G, J, Z : Laid(t, G, w, J, Z)
  BY FitsLaid DEF LaidOut
<1>3. JobsLine(t, w) \in DOMAIN t
  BY <1>2, JobsLineIs
<1>4. JobsLine(t, w) # 0
  BY <1>1, <1>3
<1> QED BY <1>1, <1>4, ProperIs

\* A scan of the file captures what discovery does, whatever stands between.
LEMMA UndeclaredIs ==
  ASSUME NEW t, NEW c, NEW p, Fits(t, c, p), NEW J
  PROVE  /\ Undeclared(t, J) \in Seq(Job)
         /\ ToSet(Undeclared(t, J)) = ToSet(Discover(c, J))
<1>1. PICK wf, s : wf = c.workflows /\ s = WorkflowNames(t)
  OBVIOUS
<1>2. s \in Seq(DOMAIN wf) /\ ToSet(s) = DOMAIN wf
  BY <1>1, NamesAre
<1>3. DOMAIN s = 1..Len(s) /\ Len(s) \in Nat /\ \A k \in DOMAIN s : s[k] \in DOMAIN wf
  BY <1>2
<1> DEFINE Part(w) == If(JobsLine(t, w) # 0, Captures(w, ReadEntries(t, w), J))
           g == [k \in DOMAIN s |-> Part(s[k])]
           V == Seq(Job)
<1>4. Undeclared(t, J) = FlattenSeq(g)
  BY <1>1 DEF Undeclared
<1>5. ASSUME NEW w \in DOMAIN wf PROVE Part(w) \in Seq(Job) /\ Gets(Part(w), wf[w], w, J)
  <2>1. JobsLine(t, w) # 0 /\ w \in ToSet(Workflows) /\ wf[w] \in Seq(Entry)
    BY <1>1, JobsLineThere
  <2>2. Alike(ReadEntries(t, w), wf[w])
    BY <1>1, ReadAlike
  <2>3. PICK a, es : a = ReadEntries(t, w) /\ es = wf[w]
    OBVIOUS
  <2>4. Captures(w, a, J) \in Seq(Job) /\ Gets(Captures(w, a, J), es, w, J)
    BY <2>1, <2>2, <2>3, CapturesAre
  <2>5. Part(w) = Captures(w, a, J)
    BY <2>1, <2>3 DEF If
  <2> HIDE DEF Part
  <2> QED BY <2>3, <2>4, <2>5
<1> HIDE DEF Part
<1>6. DOMAIN g = DOMAIN s /\ \A k \in DOMAIN s : g[k] = Part(s[k])
  OBVIOUS
<1>7. g \in Seq(V)
  <2> HIDE DEF V
  <2>1. \A k \in 1..Len(s) : Part(s[k]) \in V
    BY <1>3, <1>5 DEF V
  <2>2. g = [k \in 1..Len(s) |-> Part(s[k])]
    BY <1>3
  <2> HIDE DEF g
  <2> QED BY <1>3, <2>1, <2>2
<1> HIDE DEF g
<1>8. FlattenSeq(g) \in Seq(Job) /\ Gathers(FlattenSeq(g), g)
  <2>1. g \in Seq(Seq(Job))
    BY <1>7
  <2> QED BY <2>1, FlatType, FlatSet
<1>9. \A y : y \in ToSet(FlattenSeq(g)) <=> \E k \in DOMAIN s : y \in ToSet(Part(s[k]))
  BY <1>6, <1>8 DEF Gathers
<1>10. \A w : w \in DOMAIN wf <=> \E k \in DOMAIN s : s[k] = w
  BY <1>2 DEF ToSet
<1>11. \A y : y \in ToSet(FlattenSeq(g)) <=> \E w \in DOMAIN wf : y \in ToSet(Part(w))
  BY <1>9, <1>10
<1>12. \A y : y \in ToSet(FlattenSeq(g))
              <=> \E w \in DOMAIN wf : \E i \in Undone(wf[w], w, J) : y = Captured(w, wf[w][i])
  BY <1>5, <1>11 DEF Gets
<1>13. \A y : y \in ToSet(Discover(c, J))
              <=> \E w \in DOMAIN wf : \E i \in Undone(wf[w], w, J) : y = Captured(w, wf[w][i])
  <2>1. Proper(c)
    BY DEF Fits
  <2>2. CapturedFrom(Discover(c, J), wf, J)
    BY <1>1, <2>1, DiscoverHas
  <2> QED BY <2>2 DEF CapturedFrom
<1>14. ToSet(FlattenSeq(g)) = ToSet(Discover(c, J))
  BY <1>12, <1>13
<1> QED BY <1>4, <1>8, <1>14

-----------------------------------------------------------------------------
(* Runs *)

\* The invariant: a text whose comments can hide nothing says the content.
TextInv ==
  /\ jobs \in Seq(Job)
  /\ \E p : Fits(lines, content, p)
  /\ outcome = due

LEMMA TextInit == Init => TextInv
<1> SUFFICES ASSUME Init PROVE TextInv
  OBVIOUS
<1>1. PICK p \in Orders(content) : lines = Written(content, p)
  BY DEF Init
<1>2. Fits(lines, content, p)
  BY <1>1, InitFits DEF Init
<1>3. jobs \in Seq(Job)
  BY TextAssumption DEF Init
<1> QED BY <1>2, <1>3 DEF Init, TextInv

LEMMA TextWire == TextInv /\ Wire => TextInv'
<1> SUFFICES ASSUME TextInv, Wire PROVE TextInv'
  OBVIOUS
<1>1. PICK p : Fits(lines, content, p)
  BY DEF TextInv
<1>2. PICK J : J = jobs \o Undeclared(lines, jobs)
  OBVIOUS
<1>3. Undeclared(lines, jobs) \in Seq(Job)
  BY <1>1, UndeclaredIs
<1>4. J \in Seq(Job)
  BY <1>2, <1>3 DEF TextInv
<1>5. PICK b, d : b = Patch(lines, J) /\ d = WireJobs(content, J)
  OBVIOUS
<1>6. Matches(b, d)
  BY <1>1, <1>4, <1>5, PatchFits
<1>7. Finish(J, b, d)
  BY <1>2, <1>5 DEF Wire, Attempt
<1>8. CASE b = Refused
  <2>1. d = Refused
    BY <1>6, <1>8, MatchesRefused
  <2>2. /\ outcome' = "refused" /\ UNCHANGED <<lines, jobs>>
        /\ due' = "refused" /\ UNCHANGED content
    BY <1>7, <1>8, <2>1 DEF Finish
  <2>3. lines' = lines /\ jobs' = jobs /\ content' = content /\ outcome' = due'
    BY <2>2
  <2>4. jobs' \in Seq(Job)
    BY <2>3 DEF TextInv
  <2>5. Fits(lines', content', p)
    BY <1>1, <2>3
  <2> QED BY <2>3, <2>4, <2>5 DEF TextInv
<1>9. CASE b # Refused
  <2>1. d # Refused
    BY <1>6, <1>9, MatchesRefused
  <2>2. PICK t, n, q : b = [text |-> t, notes |-> n] /\ Fits(t, d, q)
    BY <1>6, <1>9 DEF Matches
  <2>3. /\ outcome' = "wired" /\ lines' = b.text /\ jobs' = J
        /\ due' = "wired" /\ content' = d
    BY <1>7, <1>9, <2>1 DEF Finish
  <2>4. Fits(lines', content', q)
    BY <2>2, <2>3
  <2> QED BY <1>4, <2>3, <2>4 DEF TextInv
<1> QED BY <1>8, <1>9

\* A comment in a nested list would hide what follows it (MCWireTextLists), and one
\* with a colon would be read as a parameter (MCWireTextColons).
LEMMA TextLayout ==
  ASSUME ~InLists, Remarks = {}
  PROVE  TextInv /\ Layout => TextInv'
<1> SUFFICES ASSUME TextInv, Layout PROVE TextInv'
  OBVIOUS
<1>1. PICK p : Fits(lines, content, p)
  BY DEF TextInv
<1>2. PICK a \in 1..Len(lines) + 1 :
        LET rest == {j \in a..Len(lines) : lines[j].key # ""}
            depth == IF rest = {} THEN 0 ELSE lines[Min(rest)].depth
        IN /\ depth <= 10 \/ InLists
           /\ \E l \in {Blank, Line(depth, "#", <<>>)}
                         \cup {Line(10, "#:", <<w>>) : w \in {r \in Remarks : depth = 10}} :
                lines' = Splice(lines, a, a - 1, <<l>>)
  BY DEF Layout
<1>3. PICK rest : rest = {j \in a..Len(lines) : lines[j].key # ""}
  OBVIOUS
<1>4. PICK d : d = IF rest = {} THEN 0 ELSE lines[Min(rest)].depth
  OBVIOUS
<1>5. /\ d <= 10 \/ InLists
      /\ \E l \in {Blank, Line(d, "#", <<>>)}
                    \cup {Line(10, "#:", <<w>>) : w \in {r \in Remarks : d = 10}} :
           lines' = Splice(lines, a, a - 1, <<l>>)
  BY <1>2, <1>3, <1>4
<1>6. PICK l \in {Blank, Line(d, "#", <<>>)} : lines' = Splice(lines, a, a - 1, <<l>>)
  BY <1>5
<1>7. Laying(lines, a, rest, d, l)
  BY <1>3, <1>4, <1>5, <1>6 DEF Laying
<1>8. Fits(Splice(lines, a, a - 1, <<l>>), content, p)
  BY <1>1, <1>7, LayoutFits
<1>9. jobs' = jobs /\ content' = content /\ outcome' = due'
  BY DEF Layout
<1>10. jobs' \in Seq(Job)
  BY <1>9 DEF TextInv
<1>11. Fits(lines', content', p)
  BY <1>6, <1>8, <1>9
<1> QED BY <1>9, <1>10, <1>11 DEF TextInv

LEMMA TextMeans == TextInv => SaysWhatIsMeant
<1> SUFFICES ASSUME TextInv PROVE SaysWhatIsMeant
  OBVIOUS
<1>1. PICK p : Fits(lines, content, p)
  BY DEF TextInv
<1>2. p \in Orders(content) /\ Said(lines) = Written(content, p)
  BY <1>1 DEF Fits
<1>3. ToSet(Undeclared(lines, jobs)) = ToSet(Discover(content, jobs))
  BY <1>1, UndeclaredIs
<1> QED BY <1>2, <1>3 DEF TextInv, SaysWhatIsMeant, CapturesAreReal

\* However blank lines and comments without a colon are strewn in front of the
\* lines of a file, but those of its nested lists, whatever stands below the
\* parameters and among the post-steps, and whatever is declared, wire-ci reads what
\* the file says and writes what WireJobs makes of it; it refuses a file when WireJobs
\* does (wire_ci.rs:87-92).
THEOREM TextSays ==
  ASSUME ~InLists, Remarks = {}
  PROVE  Spec => []SaysWhatIsMeant
<1>1. Init => TextInv
  BY TextInit
<1>2. TextInv /\ [Next]_vars => TextInv'
  <2>1. TextInv /\ UNCHANGED vars => TextInv'
    <3> SUFFICES ASSUME TextInv, UNCHANGED vars PROVE TextInv'
      OBVIOUS
    <3>1. jobs' = jobs /\ lines' = lines /\ content' = content /\ outcome' = outcome /\ due' = due
      BY DEF vars
    <3> QED BY <3>1 DEF TextInv
  <2> QED BY <2>1, TextWire, TextLayout DEF Next
<1>3. TextInv => SaysWhatIsMeant
  BY TextMeans
<1> QED BY <1>1, <1>2, <1>3, PTL DEF Spec

-----------------------------------------------------------------------------
(* What a run takes out of an entry *)

LEMMA LostIs ==
  ASSUME NEW f, NEW a, NEW b
  PROVE  f \in Lost(a, b) <=>
           \/ f = "params" /\ ~(ToSet(a.params) \subseteq ToSet(b.params))
           \/ f = "requires" /\ ~(ToSet(a.requires.items) \subseteq ToSet(b.requires.items))
           \/ f = "context" /\ ~(ToSet(a.extras.context) \subseteq ToSet(b.extras.context))
           \/ f = "attach" /\ a.extras.attach /\ ~b.extras.attach
           \/ f = "store" /\ ~(ToSet(a.extras.store) \subseteq ToSet(b.extras.store))
           \/ f = "persist" /\ ~(ToSet(a.extras.persist) \subseteq ToSet(b.extras.persist))
  BY DEF Lost

\* What is lost over two steps is lost in one of them.
LEMMA LostOver ==
  ASSUME NEW a, NEW b, NEW c
  PROVE  Lost(a, c) \subseteq Lost(a, b) \cup Lost(b, c)
<1> SUFFICES ASSUME NEW f \in Lost(a, c) PROVE f \in Lost(a, b) \/ f \in Lost(b, c)
  OBVIOUS
<1>1. \A X, Y, Z : ~(X \subseteq Z) => ~(X \subseteq Y) \/ ~(Y \subseteq Z)
  OBVIOUS
<1>2. CASE f = "params" /\ ~(ToSet(a.params) \subseteq ToSet(c.params))
  BY <1>1, <1>2, LostIs
<1>3. CASE f = "requires" /\ ~(ToSet(a.requires.items) \subseteq ToSet(c.requires.items))
  BY <1>1, <1>3, LostIs
<1>4. CASE f = "context" /\ ~(ToSet(a.extras.context) \subseteq ToSet(c.extras.context))
  BY <1>1, <1>4, LostIs
<1>5. CASE f = "attach" /\ a.extras.attach /\ ~c.extras.attach
  BY <1>5, LostIs
<1>6. CASE f = "store" /\ ~(ToSet(a.extras.store) \subseteq ToSet(c.extras.store))
  BY <1>1, <1>6, LostIs
<1>7. CASE f = "persist" /\ ~(ToSet(a.extras.persist) \subseteq ToSet(c.extras.persist))
  BY <1>1, <1>7, LostIs
<1> QED BY <1>2, <1>3, <1>4, <1>5, <1>6, <1>7, LostIs

\* Entries of which a scan reads the same but for their names.
Equal(a, b) == a.params = b.params /\ a.requires = b.requires /\ Twins(a.extras, b.extras)

LEMMA LostNone ==
  ASSUME NEW a, NEW b, Equal(a, b) PROVE Lost(a, b) = {}
  BY LostIs DEF Equal, Twins

\* A note names whatever is lost.
LEMMA LostDiffers ==
  ASSUME NEW a, NEW b PROVE Lost(a, b) \subseteq Differences(a, b)
<1> SUFFICES ASSUME NEW f \in Lost(a, b) PROVE f \in Differences(a, b)
  OBVIOUS
<1>1. \A X, Y : ~(ToSet(X) \subseteq ToSet(Y)) => X # Y /\ ToSet(X) # ToSet(Y)
  OBVIOUS
<1>2. CASE f = "params" /\ ~(ToSet(a.params) \subseteq ToSet(b.params))
  BY <1>1, <1>2 DEF Differences
<1>3. CASE f = "requires" /\ ~(ToSet(a.requires.items) \subseteq ToSet(b.requires.items))
  BY <1>1, <1>3 DEF Differences
<1>4. CASE f = "context" /\ ~(ToSet(a.extras.context) \subseteq ToSet(b.extras.context))
  BY <1>1, <1>4 DEF Differences
<1>5. CASE f = "attach" /\ a.extras.attach /\ ~b.extras.attach
  BY <1>5 DEF Differences
<1>6. CASE f = "store" /\ ~(ToSet(a.extras.store) \subseteq ToSet(b.extras.store))
  BY <1>1, <1>6 DEF Differences
<1>7. CASE f = "persist" /\ ~(ToSet(a.extras.persist) \subseteq ToSet(b.extras.persist))
  BY <1>1, <1>7 DEF Differences
<1> QED BY <1>2, <1>3, <1>4, <1>5, <1>6, <1>7, LostIs

LEMMA LostNotes ==
  ASSUME NEW a, NEW e, Equal(a, e), NEW b PROVE Lost(e, b) \subseteq ResyncNotes(a, b)
<1>1. Lost(a, e) = {} /\ Lost(e, a) = {}
  <2>1. Equal(e, a)
    BY DEF Equal, Twins
  <2> QED BY <2>1, LostNone
<1>2. Lost(e, b) \subseteq Lost(a, b)
  BY <1>1, LostOver
<1>3. Lost(e, b) \subseteq Differences(a, b)
  BY <1>2, LostDiffers
<1>4. CASE Lost(e, b) = {}
  BY <1>4
<1>5. CASE Lost(e, b) # {}
  BY <1>3, <1>5 DEF ResyncNotes
<1> QED BY <1>4, <1>5

\* An entry whose requires grows.
Gains(e, g) ==
  /\ ToSet(e.requires.items) \subseteq ToSet(g.requires.items)
  /\ e.params = g.params /\ e.extras = g.extras

LEMMA GainsKeep ==
  ASSUME NEW e, NEW g, Gains(e, g) PROVE Lost(e, g) = {}
  BY LostIs DEF Gains

\* Nothing is lost when a name is appended.
LEMMA LostAppend ==
  ASSUME NEW e \in Entry, NEW x \in Words, NEW g, g = [e EXCEPT !.requires.items = Append(@, x)]
  PROVE  Lost(e, g) = {} /\ g.orbJob = e.orbJob /\ g.name = e.name
<1>1. PICK o, n, r, p, s, k :
        e = [orbJob |-> o, name |-> n, requires |-> r, params |-> p, extras |-> s, marked |-> k]
  BY DEF Entry
<1>2. PICK f, l : r = [form |-> f, items |-> l] /\ l \in Seq(Words)
  <2>1. e.requires \in [form : Readable \cup {"odd"}, items : Seq(Words)]
    BY DEF Entry
  <2>2. r \in [form : Readable \cup {"odd"}, items : Seq(Words)]
    BY <1>1, <2>1
  <2> QED BY <2>2
<1>3. PICK h : h = Append(l, x)
  OBVIOUS
<1>4. PICK q : q = [form |-> f, items |-> h]
  OBVIOUS
<1>5. g = [orbJob |-> o, name |-> n, requires |-> q, params |-> p, extras |-> s, marked |-> k]
  <2>1. e.requires.items = l
    BY <1>1, <1>2
  <2>2. g = [e EXCEPT !.requires.items = h]
    BY <1>1, <1>2, <1>3, <2>1
  <2> QED BY <2>2, <1>1, <1>2, <1>4
<1>6. ToSet(l) \subseteq ToSet(h)
  BY <1>2, <1>3, AppendSet
<1>7. /\ e.requires.items = l /\ g.requires.items = h /\ g.params = e.params /\ g.extras = e.extras
      /\ g.orbJob = e.orbJob /\ g.name = e.name
  <2>1. e.requires = r /\ e.params = p /\ e.extras = s /\ e.orbJob = o /\ e.name = n
    BY <1>1
  <2>2. g.requires = q /\ g.params = p /\ g.extras = s /\ g.orbJob = o /\ g.name = n
    BY <1>5
  <2>3. r.items = l /\ q.items = h
    BY <1>2, <1>4
  <2> QED BY <2>1, <2>2, <2>3
<1>8. ToSet(e.requires.items) \subseteq ToSet(g.requires.items) /\ e.params = g.params /\ e.extras = g.extras
  BY <1>6, <1>7
<1>9. Gains(e, g)
  BY <1>8 DEF Gains
<1> QED BY <1>7, <1>9, GainsKeep

\* Two entries of one text read the same.
LEMMA TextTells ==
  ASSUME NEW e, e \in Entry, Sound(e), NEW g, g \in Entry, Sound(g), EntryText(g) = EntryText(e)
  PROVE  Equal(e, g)
<1>1. PICK t : t = EntryText(e)
  OBVIOUS
<1>2. t \in Seq(Sayings) /\ t # <<>> /\ ~Deep(t[1]) /\ Said(t) = t /\ t \in Seq(Lines)
  BY <1>1, EntryFirst
<1>3. Writes(t, e) /\ Writes(t, g)
  BY <1>1, <1>2 DEF Writes
<1>4. Nested(t)
  BY <1>2, NestedSays
<1>5. 1 \in DOMAIN t /\ Significant(t[1])
  <2>1. 1 \in DOMAIN t /\ t[1] \in Sayings
    BY <1>2
  <2> QED BY <2>1 DEF Sayings
<1>6. EntryOf(t, RequiresShape(t), TRUE) = Seen(e, TRUE)
  BY <1>3, <1>4, <1>5, EntryRead
<1>7. EntryOf(t, RequiresShape(t), TRUE) = Seen(g, TRUE)
  BY <1>3, <1>4, <1>5, EntryRead
<1>8. Seen(e, TRUE) = Seen(g, TRUE)
  BY <1>6, <1>7
<1>9. PICK k, m : k = TRUE /\ Seen(e, k) = m /\ Seen(g, k) = m
  BY <1>8
<1>11. m.params = e.params /\ m.requires = e.requires /\ Twins(m.extras, e.extras)
  <2>1. /\ Seen(e, k).params = e.params /\ Seen(e, k).requires = e.requires
        /\ Twins(Seen(e, k).extras, e.extras)
    BY SeenIs
  <2> QED BY <2>1, <1>9
<1>12. m.params = g.params /\ m.requires = g.requires /\ Twins(m.extras, g.extras)
  <2>1. /\ Seen(g, k).params = g.params /\ Seen(g, k).requires = g.requires
        /\ Twins(Seen(g, k).extras, g.extras)
    BY SeenIs
  <2> QED BY <2>1, <1>9
<1>10. Twins(e.extras, g.extras)
  BY <1>11, <1>12 DEF Twins
<1> QED BY <1>10, <1>11, <1>12 DEF Equal

\* Every loss is among the notes v, under the name x.
Tells(e, g, x, v) == \A f \in Lost(e, g) : <<x, f>> \in v

LEMMA RewrittenTells ==
  ASSUME NEW e, e \in Entry, Sound(e), NEW g, g \in Entry, Sound(g), NEW a, Equal(a, e),
         NEW t, NEW r, Said(Body(t, r)) = EntryText(e), NEW n, NEW x, NEW v,
         v = Rewritten(t, n, x, r, a, g, EntryText(g)).notes
  PROVE  n \subseteq v /\ Tells(e, g, x, v)
<1>1. CASE Body(t, r) = EntryText(g) /\ a.marked
  <2>1. v = n
    BY <1>1 DEF Rewritten
  <2>2. Said(EntryText(g)) = EntryText(g)
    BY EntryFirst
  <2>3. EntryText(g) = EntryText(e)
    BY <2>2, <1>1
  <2>4. Lost(e, g) = {}
    BY <2>3, TextTells, LostNone
  <2> QED BY <2>1, <2>4 DEF Tells
<1>2. CASE ~(Body(t, r) = EntryText(g) /\ a.marked)
  <2>1. v = n \cup ({x} \X ResyncNotes(a, g))
    BY <1>2 DEF Rewritten
  <2>2. Lost(e, g) \subseteq ResyncNotes(a, g)
    BY LostNotes
  <2>3. \A f \in Lost(e, g) : <<x, f>> \in {x} \X ResyncNotes(a, g)
    BY <2>2
  <2> QED BY <2>1, <2>3 DEF Tells
<1> QED BY <1>1, <1>2

\* What becomes of an entry when the job j is wired: it stays, or is the job's.
Stays(e, g) == g.orbJob = e.orbJob /\ g.name = e.name /\ Lost(e, g) = {}

Becomes(e, g, j, v) ==
  /\ Identifies(j, e) /\ g.orbJob = j.orbJob
  /\ g.name = IF j.jobName = NoName THEN e.name ELSE j.jobName
  /\ Tells(e, g, NewName(j), v)

Follows(e, g, j, v) == Stays(e, g) \/ Becomes(e, g, j, v)

LEMMA FollowsStays ==
  ASSUME NEW e, NEW g, NEW h, NEW j, NEW v, Follows(e, g, j, v), Stays(g, h)
  PROVE  Follows(e, h, j, v)
<1>1. h.orbJob = g.orbJob /\ h.name = g.name /\ Lost(e, h) \subseteq Lost(e, g)
  BY LostOver DEF Stays
<1>2. CASE Stays(e, g)
  BY <1>1, <1>2 DEF Stays, Follows
<1>3. CASE Becomes(e, g, j, v)
  BY <1>1, <1>3 DEF Becomes, Tells, Follows
<1> QED BY <1>2, <1>3 DEF Follows

LEMMA StaysSame ==
  ASSUME NEW e PROVE Stays(e, e)
  BY LostNone DEF Stays, Equal, Twins

LEMMA MergedFollows ==
  ASSUME NEW J, J \in Seq(Job), NEW j, j \in Job, NEW m, m = Merged(j, J), NEW e, NEW g, NEW v,
         Follows(e, g, m, v)
  PROVE  Follows(e, g, j, v)
<1>1. NewName(m) = NewName(j) /\ m.orbJob = j.orbJob
  BY MergedSame
<1>2. m.jobName = j.jobName
  <2>1. m = [j EXCEPT !.requires = m.requires]
    BY MergedIs
  <2>2. PICK q : q = m.requires
    OBVIOUS
  <2>3. [j EXCEPT !.requires = q].jobName = j.jobName
    BY DEF Job
  <2> QED BY <2>1, <2>2, <2>3
<1>3. Identifies(m, e) <=> Identifies(j, e)
  BY <1>1 DEF Identifies
<1> QED BY <1>1, <1>2, <1>3 DEF Follows, Becomes

LEMMA CandidateIdentifies ==
  ASSUME NEW es, es \in Seq(Entry), NEW m, NEW i, i \in Candidates(m, es)
  PROVE  Identifies(m, es[i]) /\ i \in DOMAIN es
<1>1. CASE Exact(m, es) # {}
  <2>1. Exact(m, es) \subseteq DOMAIN es
    BY DEF Exact
  <2>2. Exact(m, es) \subseteq Nat
    BY <2>1
  <2>3. Min(Exact(m, es)) \in Exact(m, es)
    BY <1>1, <2>2, LeastOf
  <2>4. i \in Exact(m, es)
    BY <1>1, <2>3 DEF Candidates
  <2> QED BY <2>4 DEF Exact, Identifies
<1>2. CASE Exact(m, es) = {}
  BY <1>2 DEF Candidates, Identifies
<1> QED BY <1>1, <1>2

\* Each entry of a workflow stays, or is the job's.
FollowAll(es, f, j, v) == \A i \in DOMAIN es : i \in DOMAIN f /\ Follows(es[i], f[i], j, v)

\* What is read of a workflow before its job is placed.
PlacedIn(t, c, p, w, es, m, F, R, a) ==
  /\ Fits(t, c, p) /\ w \in DOMAIN c.workflows /\ es = c.workflows[w]
  /\ m \in Job /\ m.workflow = w /\ F = Candidates(m, es)
  /\ R = Ranges(t, w) /\ a = EntriesIn(t, R)

\* The job's own entry is the only one that is written over, and the notes of
\* it name what it lost.
LEMMA PlaceNotes ==
  ASSUME NEW t, NEW c, NEW p, NEW w, NEW es, NEW m, NEW F, NEW R, NEW a,
         PlacedIn(t, c, p, w, es, m, F, R, a), NEW n, NEW v, v = Place(t, n, m, R, a, F).notes
  PROVE  n \subseteq v /\ FollowAll(es, PlacedAs(es, m, F), m, v)
<1>0. /\ Fits(t, c, p) /\ w \in DOMAIN c.workflows /\ es = c.workflows[w]
      /\ m \in Job /\ m.workflow = w /\ F = Candidates(m, es)
      /\ R = Ranges(t, w) /\ a = EntriesIn(t, R)
  BY DEF PlacedIn
<1> USE <1>0
<1>1. Good(es) /\ es \in Seq(Entry)
  BY FitsSays
<1>2. CASE F = {}
  <2>1. v = n
    BY <1>2 DEF Place
  <2>2. PICK e : e = Render(m, NoName)
    OBVIOUS
  <2>3. PlacedAs(es, m, F) = Append(es, e)
    BY <2>2, <1>2 DEF PlacedAs
  <2>4. \A i \in DOMAIN es : i \in DOMAIN Append(es, e) /\ Append(es, e)[i] = es[i]
    BY <1>1
  <2>5. \A i \in DOMAIN es : Follows(es[i], es[i], m, v)
    BY StaysSame DEF Follows
  <2> QED BY <2>1, <2>3, <2>4, <2>5 DEF FollowAll
<1>3. CASE F # {}
  <2>1. PICK i : i = Min(F)
    OBVIOUS
  <2>2. i \in F
    <3>1. F \subseteq DOMAIN es
      BY <1>1, CandidateIdentifies
    <3>2. F \subseteq Nat
      BY <3>1, <1>1
    <3> QED BY <2>1, <3>2, <1>3, LeastOf
  <2>3. Identifies(m, es[i]) /\ i \in DOMAIN es /\ i \in 1..Len(es)
    BY <2>2, <1>1, CandidateIdentifies
  <2>4. Alike(a, es)
    BY ReadAlike DEF ReadEntries
  <2>5. PICK o, x, r : o = a[i] /\ x = es[i] /\ r = R[i]
    OBVIOUS
  <2>6. o.name = x.name /\ x \in Entry /\ Sound(x) /\ Equal(o, x)
    <3>1. x \in Entry /\ Sound(x)
      BY <2>3, <2>5, <1>1 DEF Good
    <3>2. /\ o.name = x.name /\ o.params = x.params /\ o.requires = x.requires
          /\ Twins(o.extras, x.extras)
      BY <2>3, <2>4, <2>5 DEF Alike
    <3> QED BY <3>1, <3>2 DEF Equal
  <2>7. PICK e : e = Render(m, x.name)
    OBVIOUS
  <2>8. /\ e \in Entry /\ Sound(e) /\ e.orbJob = m.orbJob
        /\ e.name = IF m.jobName = NoName THEN x.name ELSE m.jobName
    <3>1. x.name \in Words \cup {NoName}
      BY <2>6 DEF Entry
    <3> QED BY <3>1, <2>7, RenderIs
  <2>9. Said(Body(t, r)) = EntryText(x)
    <3>1. LaidOut(t, Ahead(c, p, w), w, es, Below(c.workflows, w))
      BY FitsLaid
    <3>2. Ranged(t, R[i], Ahead(c, p, w), es, i, JobsEnd(t, w))
      BY <2>3, <3>1, RangesAre
    <3> QED BY <3>2, <2>5 DEF Ranged
  <2>10. v = Rewritten(t, n, NewName(m), r, o, e, EntryText(e)).notes
    BY <2>1, <2>5, <2>6, <2>7, <1>3 DEF Place, Resync
  <2>11. PICK y : y = NewName(m)
    OBVIOUS
  <2>12. n \subseteq v /\ Tells(x, e, y, v)
    BY <2>6, <2>8, <2>9, <2>10, <2>11, RewrittenTells
  <2>13. Becomes(x, e, m, v)
    BY <2>3, <2>5, <2>8, <2>11, <2>12 DEF Becomes
  <2>14. PICK g : g = [es EXCEPT ![i] = e]
    OBVIOUS
  <2>15. PlacedAs(es, m, F) = g
    BY <2>1, <2>5, <2>7, <2>14, <1>3 DEF PlacedAs
  <2>16. DOMAIN g = DOMAIN es /\ g[i] = e /\ \A k \in DOMAIN es : k # i => g[k] = es[k]
    BY <2>3, <2>14, <1>1
  <2>17. \A k \in DOMAIN es : Follows(es[k], g[k], m, v)
    <3>1. Follows(es[i], g[i], m, v)
      BY <2>5, <2>13, <2>16 DEF Follows
    <3>2. \A k \in DOMAIN es : k # i => Follows(es[k], g[k], m, v)
      BY <2>16, StaysSame DEF Follows
    <3> QED BY <3>1, <3>2
  <2> QED BY <2>12, <2>15, <2>16, <2>17 DEF FollowAll
<1> QED BY <1>2, <1>3

\* A requirement that is appended takes nothing away.
LEMMA AppendToStays ==
  ASSUME NEW es, es \in Seq(Entry), NEW T, NEW x, x \in Words, NEW i, i \in DOMAIN es
  PROVE  i \in DOMAIN AppendTo(es, T, x) /\ Stays(es[i], AppendTo(es, T, x)[i])
<1>1. i \in DOMAIN AppendTo(es, T, x)
  BY DEF AppendTo
<1>2. PICK e, g : e = es[i] /\ g = AppendTo(es, T, x)[i] /\ e \in Entry
  OBVIOUS
<1>3. g = e \/ g = [e EXCEPT !.requires.items = Append(@, x)]
  BY <1>2 DEF AppendTo
<1>4. CASE g = e
  BY <1>1, <1>2, <1>4, StaysSame
<1>5. CASE g = [e EXCEPT !.requires.items = Append(@, x)]
  <2>1. Lost(e, g) = {} /\ g.orbJob = e.orbJob /\ g.name = e.name
    BY <1>2, <1>5, LostAppend
  <2> QED BY <2>1, <1>1, <1>2 DEF Stays
<1> QED BY <1>3, <1>4, <1>5

LEMMA FollowAppend ==
  ASSUME NEW es, NEW f, f \in Seq(Entry), NEW T, NEW x, x \in Words, NEW j, NEW v,
         FollowAll(es, f, j, v)
  PROVE  FollowAll(es, AppendTo(f, T, x), j, v)
<1> SUFFICES ASSUME NEW i \in DOMAIN es
             PROVE  i \in DOMAIN AppendTo(f, T, x) /\ Follows(es[i], AppendTo(f, T, x)[i], j, v)
  BY DEF FollowAll
<1>1. PICK e, g, h : e = es[i] /\ g = f[i] /\ h = AppendTo(f, T, x)[i]
  OBVIOUS
<1>2. i \in DOMAIN f /\ Follows(e, g, j, v)
  BY <1>1 DEF FollowAll
<1>3. i \in DOMAIN AppendTo(f, T, x) /\ Stays(g, h)
  BY <1>1, <1>2, AppendToStays
<1>4. Follows(e, h, j, v)
  BY <1>2, <1>3, FollowsStays
<1> QED BY <1>1, <1>3, <1>4

\* What one job does to a content: only its own workflow's entries follow it.
Moves(c, d, j, v) ==
  /\ DOMAIN d.workflows = DOMAIN c.workflows
  /\ \A w \in DOMAIN c.workflows : w # j.workflow => d.workflows[w] = c.workflows[w]
  /\ \A w \in DOMAIN c.workflows :
       w = j.workflow => FollowAll(c.workflows[w], d.workflows[w], j, v)

LEMMA RefittedMoves ==
  ASSUME NEW c, Proper(c), NEW w, w \in DOMAIN c.workflows, NEW f, Good(f), NEW j,
         w = j.workflow, NEW v, FollowAll(c.workflows[w], f, j, v)
  PROVE  Moves(c, Refitted(c, w, f), j, v)
<1>1. PICK P, h, F : P = c.pins /\ h = c.hasOrbs /\ F = c.workflows
  OBVIOUS
<1>2. c = [pins |-> P, hasOrbs |-> h, workflows |-> F] /\ F = [u \in DOMAIN F |-> F[u]]
  BY <1>1 DEF Proper, Content
<1>3. PICK G : G = [F EXCEPT ![w] = f]
  OBVIOUS
<1>4. Refitted(c, w, f) = [pins |-> P, hasOrbs |-> h, workflows |-> G]
  BY <1>2, <1>3 DEF Refitted
<1>5. Refitted(c, w, f).workflows = G
  BY <1>4
<1>6. DOMAIN G = DOMAIN F /\ G[w] = f /\ \A u \in DOMAIN F : u # w => G[u] = F[u]
  BY <1>1, <1>2, <1>3
<1> QED BY <1>1, <1>5, <1>6 DEF Moves

LEMMA RequiredKeepsNotes ==
  ASSUME NEW b, NEW s, NEW v, WrittenBuffer(b, s, v), NEW w, NEW T, NEW x,
         RequiredBy(b, w, T, x) # Refused
  PROVE  RequiredBy(b, w, T, x).notes = v
<1>1. b = [text |-> s, notes |-> v]
  BY DEF WrittenBuffer
<1>2. PICK R, a : R = Ranges(b.text, w) /\ a = EntriesIn(b.text, R)
  OBVIOUS
<1>3. RequiredBy(b, w, T, x) = Required(b, R, a, T, x)
  BY <1>2 DEF RequiredBy
<1>4. Required(b, R, a, T, x) = [b EXCEPT !.text = AppendRequires(@, R, a, T, x)]
  BY <1>3 DEF Required
<1>5. [b EXCEPT !.text = AppendRequires(@, R, a, T, x)].notes = v
  BY <1>1
<1> QED BY <1>3, <1>4, <1>5

\* wire_one_job takes nothing out of an entry that is not the job's, and notes
\* what it takes out of that one.
LEMMA PatchOneMoves ==
  ASSUME NEW b, NEW t, NEW n, WrittenBuffer(b, t, n), NEW c, NEW p, Fits(t, c, p), NEW j, j \in Job,
         NEW J, J \in Seq(Job), PatchOne(b, j, J) # Refused
  PROVE  n \subseteq PatchOne(b, j, J).notes /\ Moves(c, WireOne(c, j, J), j, PatchOne(b, j, J).notes)
<1>0. PICK g, d : g = PatchOne(b, j, J) /\ d = WireOne(c, j, J) /\ g # Refused
  OBVIOUS
<1>01. b = [text |-> t, notes |-> n] /\ Noted(n)
  BY DEF WrittenBuffer
<1> USE <1>0, <1>01
<1>1. PICK w, T, m, o, x : /\ w = j.workflow /\ T = External(j, J) /\ m = Merged(j, J)
                           /\ o = Orb[j.orbJob] /\ x = NewName(j)
  OBVIOUS
<1>2. b.text = t /\ b.notes = n /\ Proper(c)
  BY DEF Fits
<1>3. d # Refused
  <2>1. Matches(g, d)
    BY PatchOneFits
  <2> QED BY <2>1, MatchesRefused
<1>4. w \in DOMAIN c.workflows
  BY <1>1, <1>3 DEF WireOne
<1>5. PICK es, F : es = c.workflows[w] /\ F = Candidates(j, es)
  OBVIOUS
<1>6. PICK e, f : e = Pinned(c, o) /\ f = PlacedAs(es, m, F)
  OBVIOUS
<1>7. d = IF Patchable(es, T) /\ Pinnable(c, j) THEN Wired(e, w, es, m, F, T, x) ELSE Refused
  BY <1>1, <1>2, <1>4, <1>5, <1>6, WireOneIs
<1>8. Patchable(es, T) /\ Pinnable(c, j) /\ d = Wired(e, w, es, m, F, T, x)
  BY <1>3, <1>7
<1>9. Patchable(f, T) /\ d = Refitted(e, w, AppendTo(f, T, x))
  BY <1>3, <1>6, <1>8 DEF Wired
<1>10. PICK s, R, A : s = SetPin(t, o) /\ R = Ranges(s, w) /\ A = EntriesIn(s, R)
  OBVIOUS
<1>11. g = PatchPinned(s, n, m, T, R, A)
  BY <1>1, <1>2, <1>10 DEF PatchOne
<1>12. o \in Words /\ c.hasOrbs /\ (o \in c.pins \/ c.hasOrbs)
  BY <1>1, <1>2, <1>8, OrbOf
<1>13. PICK q : Fits(s, e, q)
  BY <1>6, <1>10, <1>12, SetPinFits
<1>14. e.workflows = c.workflows /\ Proper(e)
  BY <1>2, <1>6, <1>12, PinnedIs
<1>15. w \in DOMAIN e.workflows /\ es = e.workflows[w]
  BY <1>4, <1>5, <1>14
<1>16. /\ m \in Job /\ NewName(m) = x /\ m.workflow = w
       /\ \A E : Candidates(m, E) = Candidates(j, E)
  BY <1>1, MergedSame
<1>17. Good(es) /\ es \in Seq(Entry)
  BY <1>13, <1>15, FitsSays
<1>18. Alike(A, es)
  <2>1. Alike(ReadEntries(s, w), e.workflows[w])
    BY <1>13, <1>15, ReadAlike
  <2> QED BY <2>1, <1>10, <1>15 DEF ReadEntries
<1>19. Candidates(m, A) = F /\ F \subseteq DOMAIN es /\ F = Candidates(m, es)
  BY <1>5, <1>16, <1>17, <1>18, AlikeCandidates
<1>20. g = PlaceAmong(s, n, m, T, R, A, F)
  BY <1>11, <1>19 DEF PatchPinned
<1>21. PICK h : h = Place(s, n, m, R, A, F)
  OBVIOUS
<1>22. g = RequiredBy(h, w, T, x)
  BY <1>16, <1>20, <1>21 DEF PlaceAmong
<1>23. PICK u, v : WrittenBuffer(h, u, v)
  BY <1>16, <1>21, PlaceBuffer
<1>24. g.notes = v /\ h.notes = v
  <2>1. RequiredBy(h, w, T, x) # Refused
    BY <1>22
  <2>2. RequiredBy(h, w, T, x).notes = v
    BY <1>23, <2>1, RequiredKeepsNotes
  <2> QED BY <2>2, <1>22, <1>23 DEF WrittenBuffer
<1>25. n \subseteq v /\ FollowAll(es, f, m, v)
  <2>1. v = Place(s, n, m, R, A, F).notes
    BY <1>21, <1>24
  <2>2. Fits(s, e, q) /\ w \in DOMAIN e.workflows /\ es = e.workflows[w]
    BY <1>13, <1>15
  <2>3. /\ m \in Job /\ m.workflow = w /\ F = Candidates(m, es) /\ R = Ranges(s, w)
        /\ A = EntriesIn(s, R)
    BY <1>10, <1>16, <1>19
  <2>4. n \subseteq v /\ FollowAll(es, PlacedAs(es, m, F), m, v)
    <3>1. PlacedIn(s, e, q, w, es, m, F, R, A)
      BY <2>2, <2>3 DEF PlacedIn
    <3> QED BY <2>1, <3>1, PlaceNotes
  <2> QED BY <2>4, <1>6
<1>26. x \in Words /\ Good(f)
  BY <1>6, <1>16, <1>17, <1>19, NewNameTyped, PlacedGood
<1>27. PICK k : k = AppendTo(f, T, x)
  OBVIOUS
<1>28. Good(k)
  BY <1>9, <1>26, <1>27, AddedGood
<1>29. FollowAll(es, k, m, v)
  <2>1. f \in Seq(Entry)
    BY <1>26 DEF Good
  <2> QED BY <2>1, <1>25, <1>26, <1>27, FollowAppend
<1>30. FollowAll(es, k, j, v)
  <2>1. \A i \in DOMAIN es : Follows(es[i], k[i], m, v) => Follows(es[i], k[i], j, v)
    BY <1>1, MergedFollows
  <2> QED BY <2>1, <1>29 DEF FollowAll
<1>31. Moves(e, d, j, v)
  BY <1>1, <1>9, <1>14, <1>15, <1>27, <1>28, <1>30, RefittedMoves
<1>32. Moves(c, d, j, v)
  BY <1>14, <1>31 DEF Moves
<1> QED BY <1>24, <1>25, <1>32

DeclaredIn(w, J) == {j \in ToSet(J) : j.workflow = w}

\* Among the jobs of a workflow, a name belongs to one orb job, and a job that
\* shares its orb job with another one does not take an entry from a third by
\* its name alone: two jobs would write over that entry, and the second would be
\* none that it was ever known by.
Distinct(e, W) ==
  \A j, k \in W :
    /\ NewName(j) = NewName(k) => j.orbJob = k.orbJob
    /\ j.orbJob = k.orbJob /\ NewName(j) # NewName(k) /\ EffectiveName(e) = NewName(j)
       => e.orbJob = j.orbJob

\* Whoever an entry is known by now, knew what it was at first.
Known(a, e, W) ==
  \A k \in W : Identifies(k, e) => \E i \in W : NewName(i) = NewName(k) /\ Identifies(i, a)

\* An entry has a job's name by that job, or had it at first.
Titled(a, e, W) ==
  \A k \in W : EffectiveName(e) = NewName(k) =>
    \/ e.orbJob = k.orbJob
    \/ EffectiveName(a) = NewName(k) /\ e.orbJob = a.orbJob

Blamed(a, e, W, v) ==
  \A f \in Lost(a, e) : \E i \in W : Identifies(i, a) /\ <<NewName(i), f>> \in v

Mentioned(a, e, W, v) == \A f \in Lost(a, e) : \E i \in W : <<NewName(i), f>> \in v

\* What is known, after some jobs, of an entry e that was a at first.
Trace(a, e, W, v) ==
  /\ Mentioned(a, e, W, v)
  /\ Distinct(a, W) => Known(a, e, W) /\ Titled(a, e, W) /\ Blamed(a, e, W, v)

LEMMA TraceBegins ==
  ASSUME NEW a, NEW W, NEW v PROVE Trace(a, a, W, v)
<1>1. Lost(a, a) = {}
  BY LostNone DEF Equal, Twins
<1> QED BY <1>1 DEF Trace, Mentioned, Known, Titled, Blamed

LEMMA TraceMore ==
  ASSUME NEW a, NEW e, NEW W, NEW n, Trace(a, e, W, n), NEW v, n \subseteq v
  PROVE  Trace(a, e, W, v)
  BY DEF Trace, Mentioned, Blamed

LEMMA TraceStays ==
  ASSUME NEW a, NEW e, NEW W, NEW v, Trace(a, e, W, v), NEW g, Stays(e, g)
  PROVE  Trace(a, g, W, v)
<1>1. EffectiveName(g) = EffectiveName(e) /\ g.orbJob = e.orbJob
  BY DEF Stays, EffectiveName
<1>2. Lost(a, g) \subseteq Lost(a, e)
  BY LostOver DEF Stays
<1>3. \A k : Identifies(k, g) <=> Identifies(k, e)
  BY <1>1 DEF Identifies
<1>4. Mentioned(a, g, W, v)
  BY <1>2 DEF Trace, Mentioned
<1>5. ASSUME Distinct(a, W) PROVE Known(a, g, W) /\ Titled(a, g, W) /\ Blamed(a, g, W, v)
  <2>1. Known(a, g, W)
    BY <1>3, <1>5 DEF Trace, Known
  <2>2. Titled(a, g, W)
    BY <1>1, <1>5 DEF Trace, Titled
  <2>3. Blamed(a, g, W, v)
    BY <1>2, <1>5 DEF Trace, Blamed
  <2> QED BY <2>1, <2>2, <2>3
<1> QED BY <1>4, <1>5 DEF Trace

LEMMA BecomesName ==
  ASSUME NEW e, NEW g, NEW j, NEW v, Becomes(e, g, j, v)
  PROVE  EffectiveName(g) \in {NewName(j), EffectiveName(e)}
<1>1. g.orbJob = j.orbJob /\ g.name = IF j.jobName = NoName THEN e.name ELSE j.jobName
  BY DEF Becomes
<1> QED BY <1>1 DEF EffectiveName, NewName, NameOr

LEMMA TraceBecomes ==
  ASSUME NEW a, NEW e, NEW W, NEW v, Trace(a, e, W, v), NEW j, j \in W, NEW g, Becomes(e, g, j, v)
  PROVE  Trace(a, g, W, v)
<1>1. Lost(a, g) \subseteq Lost(a, e) \cup Lost(e, g) /\ \A f \in Lost(e, g) : <<NewName(j), f>> \in v
  BY LostOver DEF Becomes, Tells
<1>2. EffectiveName(g) \in {NewName(j), EffectiveName(e)} /\ g.orbJob = j.orbJob /\ Identifies(j, e)
  BY BecomesName DEF Becomes
<1>3. Mentioned(a, g, W, v)
  BY <1>1 DEF Trace, Mentioned
<1>4. ASSUME Distinct(a, W) PROVE Known(a, g, W) /\ Titled(a, g, W) /\ Blamed(a, g, W, v)
  <2>1. Known(a, e, W) /\ Titled(a, e, W) /\ Blamed(a, e, W, v)
    BY <1>4 DEF Trace
  <2>2. \A i, k \in W : NewName(i) = NewName(k) => i.orbJob = k.orbJob
    BY <1>4 DEF Distinct
  <2>3. PICK i \in W : NewName(i) = NewName(j) /\ Identifies(i, a)
    BY <1>2, <2>1 DEF Known
  <2>4. ASSUME NEW k \in W, Identifies(k, g)
        PROVE  \E h \in W : NewName(h) = NewName(k) /\ Identifies(h, a)
    <3>1. CASE NewName(k) = NewName(j)
      BY <2>3, <3>1
    <3>2. CASE NewName(k) # NewName(j) /\ Identifies(k, e)
      BY <2>1, <3>2 DEF Known
    <3>3. CASE NewName(k) # NewName(j) /\ ~Identifies(k, e)
      <4>1. EffectiveName(e) # NewName(k) /\ e.orbJob # k.orbJob
        BY <3>3 DEF Identifies
      <4>2. g.orbJob = k.orbJob
        BY <1>2, <2>4, <3>3, <4>1 DEF Identifies
      <4>3. k.orbJob = j.orbJob /\ e.orbJob # j.orbJob
        BY <1>2, <4>1, <4>2
      <4>4. EffectiveName(e) = NewName(j)
        BY <1>2, <4>3 DEF Identifies
      <4>5. EffectiveName(a) = NewName(j) /\ e.orbJob = a.orbJob
        BY <2>1, <4>3, <4>4 DEF Titled
      <4>6. a.orbJob = j.orbJob
        BY <1>4, <3>3, <4>3, <4>5 DEF Distinct
      <4> QED BY <4>3, <4>5, <4>6
    <3> QED BY <3>1, <3>2, <3>3
  <2>5. ASSUME NEW k \in W, EffectiveName(g) = NewName(k)
        PROVE  g.orbJob = k.orbJob \/ (EffectiveName(a) = NewName(k) /\ g.orbJob = a.orbJob)
    <3>1. CASE NewName(k) = NewName(j)
      BY <1>2, <2>2, <3>1
    <3>2. CASE NewName(k) # NewName(j)
      <4>1. EffectiveName(e) = NewName(k) /\ EffectiveName(e) # NewName(j)
        BY <1>2, <2>5, <3>2
      <4>2. e.orbJob = j.orbJob
        BY <1>2, <4>1 DEF Identifies
      <4>3. e.orbJob = k.orbJob \/ (EffectiveName(a) = NewName(k) /\ e.orbJob = a.orbJob)
        BY <2>1, <4>1 DEF Titled
      <4> QED BY <1>2, <4>2, <4>3
    <3> QED BY <3>1, <3>2
  <2>6. ASSUME NEW f \in Lost(a, g) PROVE \E h \in W : Identifies(h, a) /\ <<NewName(h), f>> \in v
    <3>1. CASE f \in Lost(a, e)
      BY <2>1, <3>1 DEF Blamed
    <3>2. CASE f \in Lost(e, g)
      BY <1>1, <2>3, <3>2
    <3> QED BY <1>1, <3>1, <3>2
  <2>7. Known(a, g, W)
    BY <2>4 DEF Known
  <2>8. Titled(a, g, W)
    BY <2>5 DEF Titled
  <2>9. Blamed(a, g, W, v)
    BY <2>6 DEF Blamed
  <2> QED BY <2>7, <2>8, <2>9
<1> QED BY <1>3, <1>4 DEF Trace

\* What is known of every entry that the content c had, once it is d.
Traces(c, d, J, v) ==
  /\ DOMAIN d.workflows = DOMAIN c.workflows
  /\ \A w \in DOMAIN c.workflows : \A i \in DOMAIN c.workflows[w] :
       /\ i \in DOMAIN d.workflows[w]
       /\ Trace(c.workflows[w][i], d.workflows[w][i], DeclaredIn(w, J), v)

LEMMA TracesMove ==
  ASSUME NEW c, NEW d, NEW J, NEW n, Traces(c, d, J, n), NEW j, j \in ToSet(J), NEW e, NEW v,
         n \subseteq v, Moves(d, e, j, v)
  PROVE  Traces(c, e, J, v)
<1>1. DOMAIN e.workflows = DOMAIN c.workflows /\ DOMAIN d.workflows = DOMAIN c.workflows
  BY DEF Moves, Traces
<1>2. ASSUME NEW w \in DOMAIN c.workflows, NEW i \in DOMAIN c.workflows[w]
      PROVE  /\ i \in DOMAIN e.workflows[w]
             /\ Trace(c.workflows[w][i], e.workflows[w][i], DeclaredIn(w, J), v)
  <2>1. PICK a, x, W : a = c.workflows[w][i] /\ x = d.workflows[w][i] /\ W = DeclaredIn(w, J)
    OBVIOUS
  <2>2. i \in DOMAIN d.workflows[w] /\ Trace(a, x, W, n)
    BY <1>2, <2>1 DEF Traces
  <2>3. Trace(a, x, W, v)
    BY <2>2, TraceMore
  <2>4. CASE w # j.workflow
    <3>1. e.workflows[w] = d.workflows[w]
      BY <1>1, <2>4 DEF Moves
    <3> QED BY <2>1, <2>2, <2>3, <3>1
  <2>5. CASE w = j.workflow
    <3>1. FollowAll(d.workflows[w], e.workflows[w], j, v)
      BY <1>1, <2>5 DEF Moves
    <3>2. PICK g : g = e.workflows[w][i]
      OBVIOUS
    <3>3. i \in DOMAIN e.workflows[w] /\ Follows(x, g, j, v)
      BY <2>1, <2>2, <3>1, <3>2 DEF FollowAll
    <3>4. j \in W
      BY <2>1, <2>5 DEF DeclaredIn
    <3>5. Trace(a, g, W, v)
      BY <2>3, <3>3, <3>4, TraceStays, TraceBecomes DEF Follows
    <3> QED BY <2>1, <3>2, <3>3, <3>5
  <2> QED BY <2>4, <2>5
<1> QED BY <1>1, <1>2 DEF Traces

LEMMA TracesBegin ==
  ASSUME NEW c, NEW J, NEW v PROVE Traces(c, c, J, v)
  BY TraceBegins DEF Traces

\* A buffer that says the content d, and what became of c's entries in it.
Tracked(b, c, d, J) ==
  b # Refused => \E t, n, p : /\ b = [text |-> t, notes |-> n] /\ Noted(n) /\ Fits(t, d, p)
                              /\ Traces(c, d, J, n)

LEMMA TrackedIs ==
  ASSUME NEW b, NEW t, NEW n, b = [text |-> t, notes |-> n], Noted(n), NEW d, NEW p, Fits(t, d, p),
         NEW c, NEW J, Traces(c, d, J, n)
  PROVE  Tracked(b, c, d, J)
  BY Zenon DEF Tracked

LEMMA TrackedNext ==
  ASSUME NEW b, NEW c, NEW d, NEW J, Tracked(b, c, d, J), J \in Seq(Job), NEW j, j \in ToSet(J),
         Matches(b, d)
  PROVE  Tracked(PatchNext(b, j, J), c, WireNext(d, j, J), J)
<1>1. CASE b = Refused
  BY <1>1 DEF PatchNext, Tracked
<1>2. CASE b # Refused
  <2>1. PICK t, n, p : /\ b = [text |-> t, notes |-> n] /\ Noted(n) /\ Fits(t, d, p)
                       /\ Traces(c, d, J, n)
    BY <1>2 DEF Tracked
  <2>2. d # Refused
    BY <1>2, MatchesRefused
  <2>3. PICK g, e : g = PatchOne(b, j, J) /\ e = WireOne(d, j, J)
    OBVIOUS
  <2>4. PatchNext(b, j, J) = g /\ WireNext(d, j, J) = e
    BY <1>2, <2>2, <2>3 DEF PatchNext, WireNext
  <2>5. CASE g = Refused
    BY <2>4, <2>5 DEF Tracked
  <2>6. CASE g # Refused
    <3>1. j \in Job
      BY DEF ToSet
    <3>2. Matches(g, e)
      BY <2>1, <2>3, <3>1, PatchOneFits
    <3>3. PICK s, v, q : g = [text |-> s, notes |-> v] /\ Noted(v) /\ Fits(s, e, q)
      BY <2>6, <3>2 DEF Matches
    <3>4. n \subseteq g.notes /\ Moves(d, e, j, g.notes)
      <4>1. WrittenBuffer(b, t, n) /\ Fits(t, d, p)
        BY <2>1 DEF WrittenBuffer
      <4> QED BY <2>3, <2>6, <3>1, <4>1, PatchOneMoves
    <3>5. g.notes = v
      BY <3>3
    <3>6. Traces(c, e, J, v)
      BY <2>1, <3>4, <3>5, TracesMove
    <3>7. Tracked(g, c, e, J)
      BY <3>3, <3>6, TrackedIs
    <3> QED BY <2>4, <3>7
  <2> QED BY <2>5, <2>6
<1> QED BY <1>1, <1>2

LEMMA PatchTraces ==
  ASSUME NEW t, NEW c, NEW p, Fits(t, c, p), NEW J, J \in Seq(Job), Patch(t, J) # Refused
  PROVE  Traces(c, WireJobs(c, J), J, Patch(t, J).notes)
<1>1. PICK N : N = Len(J) /\ N \in Nat
  OBVIOUS
<1>2. PICK f : Patches(f, t, J) /\ Patch(t, J) = f[N]
  BY <1>1, PatchUnfolds
<1>3. PICK g : Wires(g, c, J) /\ WireJobs(c, J) = g[N]
  BY <1>1, WireUnfolds
<1> DEFINE S == {n \in 0..N : Matches(f[n], g[n]) /\ Tracked(f[n], c, g[n], J)}
<1>4. 0 \in S
  <2>1. 0 \in 0..N
    BY <1>1
  <2>2. f[0] = [text |-> t, notes |-> {}] /\ g[0] = c
    BY <2>1, <1>1, <1>2, <1>3 DEF Patches, Wires
  <2>3. Noted({})
    BY DEF Noted
  <2>4. Matches(f[0], c)
    BY <2>2, <2>3, MatchesIs
  <2>5. Tracked(f[0], c, c, J)
    BY <2>2, <2>3, TracesBegin, TrackedIs
  <2> QED BY <2>1, <2>2, <2>4, <2>5
<1>5. ASSUME NEW n \in 0..N, n \in S, n < N PROVE n + 1 \in S
  <2>1. n + 1 \in 0..N /\ n + 1 # 0 /\ n + 1 - 1 = n /\ n + 1 \in 1..N
    BY <1>1, <1>5
  <2>2. PICK j, k : j = J[k] /\ k = n + 1
    OBVIOUS
  <2>3. j \in Job /\ j \in ToSet(J)
    <3>1. k \in DOMAIN J
      BY <2>1, <2>2, <1>1
    <3> QED BY <2>2, <3>1 DEF ToSet
  <2>4. f[n + 1] = PatchNext(f[n], j, J) /\ g[n + 1] = WireNext(g[n], j, J)
    BY <2>1, <2>2, <1>1, <1>2, <1>3 DEF Patches, Wires
  <2>5. PICK b, d : b = f[n] /\ d = g[n]
    OBVIOUS
  <2>6. Matches(b, d) /\ Tracked(b, c, d, J)
    BY <1>5, <2>5
  <2>7. Matches(PatchNext(b, j, J), WireNext(d, j, J))
    BY <2>3, <2>6, MatchesNext
  <2>8. Tracked(PatchNext(b, j, J), c, WireNext(d, j, J), J)
    BY <2>3, <2>6, TrackedNext
  <2> QED BY <2>1, <2>4, <2>5, <2>7, <2>8
<1>6. N \in S
  <2> HIDE DEF S
  <2>1. 0..N \subseteq S
    BY <1>1, <1>4, <1>5, Counting
  <2> QED BY <2>1, <1>1
<1>7. Tracked(Patch(t, J), c, WireJobs(c, J), J)
  BY <1>2, <1>3, <1>6
<1>8. PICK b, d : b = Patch(t, J) /\ d = WireJobs(c, J)
  OBVIOUS
<1>9. PICK s, v, q : b = [text |-> s, notes |-> v] /\ Traces(c, d, J, v)
  BY <1>7, <1>8 DEF Tracked
<1>10. b.notes = v
  BY <1>9
<1> QED BY <1>8, <1>9, <1>10

-----------------------------------------------------------------------------
(* Notes *)

\* The invariant of the notes: what became of every entry of the file as it was
\* before the run, where TextInv only knows what the file is now.
NotesInv ==
  /\ TextInv
  /\ outcome = "wired" => Traces(before.content, content, jobs, notes)

LEMMA NotesInit == Init => NotesInv
<1> SUFFICES ASSUME Init PROVE NotesInv
  OBVIOUS
<1>1. outcome # "wired"
  BY DEF Init
<1> QED BY <1>1, TextInit DEF NotesInv

LEMMA NotesWire == NotesInv /\ Wire => NotesInv'
<1> SUFFICES ASSUME NotesInv, Wire PROVE NotesInv'
  OBVIOUS
<1>1. TextInv /\ TextInv'
  BY TextWire DEF NotesInv
<1>2. PICK p : Fits(lines, content, p)
  BY <1>1 DEF TextInv
<1>3. PICK J : J = jobs \o Undeclared(lines, jobs)
  OBVIOUS
<1>4. J \in Seq(Job)
  <2>1. Undeclared(lines, jobs) \in Seq(Job)
    BY <1>2, UndeclaredIs
  <2> QED BY <2>1, <1>1, <1>3 DEF TextInv
<1>5. PICK b, d : b = Patch(lines, J) /\ d = WireJobs(content, J)
  OBVIOUS
<1>6. Finish(J, b, d)
  BY <1>3, <1>5 DEF Wire, Attempt
<1>7. before'.content = content
  BY DEF Wire
<1>8. CASE b = Refused
  <2>1. outcome' # "wired"
    BY <1>6, <1>8 DEF Finish
  <2> QED BY <2>1, <1>1 DEF NotesInv
<1>9. CASE b # Refused
  <2>1. Matches(b, d)
    BY <1>2, <1>4, <1>5, PatchFits
  <2>2. d # Refused
    BY <2>1, <1>9, MatchesRefused
  <2>3. notes' = b.notes /\ jobs' = J /\ content' = d
    BY <1>6, <1>9, <2>2 DEF Finish
  <2>4. Traces(content, d, J, b.notes)
    BY <1>2, <1>4, <1>5, <1>9, PatchTraces
  <2>5. Traces(before'.content, content', jobs', notes')
    BY <2>3, <2>4, <1>7
  <2> QED BY <2>5, <1>1 DEF NotesInv
<1> QED BY <1>8, <1>9

LEMMA NotesLayout ==
  ASSUME ~InLists, Remarks = {}
  PROVE  NotesInv /\ Layout => NotesInv'
<1> SUFFICES ASSUME NotesInv, Layout PROVE NotesInv'
  OBVIOUS
<1>1. outcome' # "wired"
  BY DEF Layout
<1>2. TextInv'
  BY TextLayout DEF NotesInv
<1> QED BY <1>1, <1>2 DEF NotesInv

LEMMA NotesNext ==
  ASSUME ~InLists, Remarks = {}
  PROVE  NotesInv /\ [Next]_vars => NotesInv'
<1>1. NotesInv /\ UNCHANGED vars => NotesInv'
  <2> SUFFICES ASSUME NotesInv, UNCHANGED vars PROVE NotesInv'
    OBVIOUS
  <2>1. /\ jobs' = jobs /\ lines' = lines /\ content' = content /\ outcome' = outcome /\ due' = due
        /\ before' = before /\ notes' = notes
    BY DEF vars
  <2> QED BY <2>1 DEF NotesInv, TextInv
<1> QED BY <1>1, NotesWire, NotesLayout DEF Next

\* Who stands for an entry is not in doubt.
Sole(c, J) == \A w \in DOMAIN c.workflows : \A e \in ToSet(c.workflows[w]) : Distinct(e, DeclaredIn(w, J))

LEMMA NotesTell ==
  ASSUME NotesInv, Sole(before.content, jobs) PROVE LossIsNoted
<1> SUFFICES ASSUME outcome = "wired", NEW w \in DOMAIN content.workflows,
                    NEW i \in DOMAIN before.content.workflows[w],
                    NEW f \in Lost(before.content.workflows[w][i], content.workflows[w][i])
             PROVE  \E j \in ToSet(jobs) : /\ j.workflow = w
                                           /\ Identifies(j, before.content.workflows[w][i])
                                           /\ <<NewName(j), f>> \in notes
  BY DEF LossIsNoted
<1>1. PICK c, a, e, W : /\ c = before.content /\ a = c.workflows[w][i] /\ e = content.workflows[w][i]
                        /\ W = DeclaredIn(w, jobs)
  OBVIOUS
<1>2. Traces(c, content, jobs, notes)
  BY <1>1 DEF NotesInv
<1>3. w \in DOMAIN c.workflows /\ Trace(a, e, W, notes)
  BY <1>1, <1>2 DEF Traces
<1>4. a \in ToSet(c.workflows[w])
  BY <1>1 DEF ToSet
<1>5. Distinct(a, W)
  BY <1>1, <1>3, <1>4 DEF Sole
<1>6. \E j \in W : Identifies(j, a) /\ <<NewName(j), f>> \in notes
  BY <1>1, <1>3, <1>5 DEF Trace, Blamed
<1> QED BY <1>1, <1>6 DEF DeclaredIn

\* Whatever a resync takes out of what a scan reads of an entry
\* (wire_ci.rs:1643-1702) is noted, under a job that the entry was known by before
\* the run: for every declaration and file in which it is clear which job stands for
\* which entry, and whatever blank lines and comments without a colon stand outside
\* the nested lists.
THEOREM LossNoted ==
  ASSUME ~InLists, Remarks = {}
  PROVE  Spec => [](Sole(before.content, jobs) => LossIsNoted)
<1>1. NotesInv => (Sole(before.content, jobs) => LossIsNoted)
  BY NotesTell
<1> QED BY <1>1, NotesInit, NotesNext, PTL DEF Spec

\* Whichever jobs are declared, one of the workflow's that are is named.
LossIsNamed ==
  outcome = "wired" =>
    \A w \in DOMAIN content.workflows : \A i \in DOMAIN before.content.workflows[w] :
      \A f \in Lost(before.content.workflows[w][i], content.workflows[w][i]) :
        \E j \in ToSet(jobs) : j.workflow = w /\ <<NewName(j), f>> \in notes

LEMMA NotesName == NotesInv => LossIsNamed
<1> SUFFICES ASSUME NotesInv, outcome = "wired", NEW w \in DOMAIN content.workflows,
                    NEW i \in DOMAIN before.content.workflows[w],
                    NEW f \in Lost(before.content.workflows[w][i], content.workflows[w][i])
             PROVE  \E j \in ToSet(jobs) : j.workflow = w /\ <<NewName(j), f>> \in notes
  BY DEF LossIsNamed
<1>1. PICK c, a, e, W : /\ c = before.content /\ a = c.workflows[w][i] /\ e = content.workflows[w][i]
                        /\ W = DeclaredIn(w, jobs)
  OBVIOUS
<1>2. Traces(c, content, jobs, notes)
  BY <1>1 DEF NotesInv
<1>3. Trace(a, e, W, notes)
  BY <1>1, <1>2 DEF Traces
<1>4. \E j \in W : <<NewName(j), f>> \in notes
  BY <1>1, <1>3 DEF Trace, Mentioned
<1> QED BY <1>1, <1>4 DEF DeclaredIn

\* Whatever is declared, nothing of what a scan reads is taken out of an entry
\* without a note under some job of its workflow (wire_ci.rs:1495-1601), in a file
\* whose nested lists hold no comment or blank line, and that has none with a colon.
THEOREM LossNamed ==
  ASSUME ~InLists, Remarks = {}
  PROVE  Spec => []LossIsNamed
<1> QED BY NotesInit, NotesNext, NotesName, PTL DEF Spec

=============================================================================
