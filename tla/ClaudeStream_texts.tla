------------------------- MODULE ClaudeStream_texts -------------------------
(***************************************************************************)
(* What a Claude client is shown is what the upstream said, in that order:  *)
(* the proof of ContentComplete for any tools, payloads and lengths of     *)
(* streams.                                                                *)
(*                                                                         *)
(* TextsInv adds to StreamInv that the texts heard lie in the blocks one    *)
(* after the other without a gap, counting what the client already has of  *)
(* each block and the deltas on their way to it; and that the converter's  *)
(* open block lies at their end (AtEnd), where the next text goes.  When   *)
(* nothing is on its way any more, the blocks put one behind the other are *)
(* the texts (Flattened, an induction over the blocks with SetInduction).  *)
(***************************************************************************)
EXTENDS ClaudeStream_proofs

\* Induction over the natural numbers.  With a number missing in S there would be more k
\* below it in S than there are k + 1.
LEMMA SetInduction ==
  ASSUME NEW S, 0 \in S, \A n \in Nat : n \in S => n + 1 \in S
  PROVE  Nat \subseteq S
<1> SUFFICES ASSUME NEW n \in Nat, n \notin S PROVE FALSE
  OBVIOUS
<1> DEFINE D == {k \in 0..n : k \in S}
           E == D \ {0}
           f == [k \in D |-> k + 1]
<1>1. IsFiniteSet(D) /\ 0 \in D
  <2>1. IsFiniteSet(0..n)
    BY FS_Interval
  <2> QED
    BY <2>1, FS_Subset
<1>2. \A k \in D : k + 1 \in E
  <2> SUFFICES ASSUME NEW k \in D PROVE k + 1 \in E
    OBVIOUS
  <2>1. k \in Nat /\ k # n /\ k <= n /\ k + 1 \in S
    OBVIOUS
  <2> QED
    BY <2>1
<1>3. f \in Injection(D, E)
  <2>1. f \in [D -> E]
    BY <1>2
  <2>2. \A j, k \in D : f[j] = f[k] => j = k
    OBVIOUS
  <2> QED
    BY <2>1, <2>2 DEF Injection, IsInjective
<1>4. IsFiniteSet(E) /\ Cardinality(E) = Cardinality(D) - 1
  BY <1>1, FS_RemoveElement
<1>5. Cardinality(D) <= Cardinality(E)
  BY <1>1, <1>3, <1>4, FS_Injection
<1>6. Cardinality(D) \in Nat
  BY <1>1, FS_CardinalityType
<1> QED
  BY <1>4, <1>5, <1>6
-----------------------------------------------------------------------------
(* The concatenation of a sequence of sequences.                           *)

\* The sequence q is what h has behind its first m elements, as far as q goes.
PartOf(q, m, h) == \A k \in 1..Len(q) : q[k] = h[m + k]

\* The first m elements of a sequence.
FirstOf(h, m) == [k \in 1..m |-> h[k]]

LEMMA FirstOnes ==
  ASSUME NEW S, NEW h \in Seq(S), NEW m \in 0..Len(h)
  PROVE  FirstOf(h, m) \in Seq(S) /\ Len(FirstOf(h, m)) = m
<1>1. m \in Nat /\ \A k \in 1..m : k \in 1..Len(h) /\ h[k] \in S
  OBVIOUS
<1>2. FirstOf(h, m) \in [1..m -> S]
  BY <1>1 DEF FirstOf
<1> QED
  BY <1>1, <1>2

\* Sequences are equal if their lengths and elements are.
LEMMA SameElements ==
  ASSUME NEW S, NEW s \in Seq(S), NEW t \in Seq(S), Len(s) = Len(t),
         \A k \in 1..Len(s) : s[k] = t[k]
  PROVE  s = t
  OBVIOUS

\* One part more.
LEMMA OnePartMore ==
  ASSUME NEW S, NEW h \in Seq(S), NEW m \in 0..Len(h), NEW q \in Seq(S),
         NEW l \in 0..Len(h), l = m + Len(q), PartOf(q, m, h)
  PROVE  FirstOf(h, l) = FirstOf(h, m) \o q
<1> DEFINE p == FirstOf(h, m)
           r == FirstOf(h, l)
<1>1. /\ p \in Seq(S) /\ Len(p) = m /\ \A k \in 1..m : p[k] = h[k]
      /\ r \in Seq(S) /\ Len(r) = l /\ \A k \in 1..l : r[k] = h[k]
  <2>1. p \in Seq(S) /\ Len(p) = m /\ r \in Seq(S) /\ Len(r) = l
    BY FirstOnes
  <2> QED
    BY <2>1 DEF FirstOf
<1> HIDE DEF p, r
<1>2. p \o q \in Seq(S) /\ Len(p \o q) = l
  BY <1>1
<1>3. \A k \in 1..l : (p \o q)[k] = h[k]
  <2> SUFFICES ASSUME NEW k \in 1..l PROVE (p \o q)[k] = h[k]
    OBVIOUS
  <2>1. CASE k <= m
    BY <1>1, <2>1
  <2>2. CASE ~(k <= m)
    <3> DEFINE j == k - m
    <3>1. j \in 1..Len(q) /\ m + j = k /\ (p \o q)[k] = q[j]
      BY <1>1, <2>2
    <3> HIDE DEF j
    <3>2. q[j] = h[m + j]
      BY <3>1 DEF PartOf
    <3> QED
      BY <3>1, <3>2
  <2> QED
    BY <2>1, <2>2
<1>4. r = p \o q
  <2> DEFINE c == p \o q
  <2>1. c \in Seq(S) /\ Len(c) = l /\ \A k \in 1..l : c[k] = h[k]
    BY <1>2, <1>3
  <2> HIDE DEF c
  <2>2. \A k \in 1..Len(r) : r[k] = c[k]
    BY <1>1, <2>1
  <2>3. r = c
    BY <1>1, <2>1, <2>2, SameElements
  <2> QED
    BY <2>3 DEF c
<1> QED
  BY <1>4 DEF p, r

\* FlattenSeq of sequences each of which is what h has behind those before it.
LEMMA Flattened ==
  ASSUME NEW S, NEW n \in Nat, NEW ss \in [1..n -> Seq(S)], NEW h \in Seq(S),
         NEW at \in [0..n -> 0..Len(h)], at[0] = 0, at[n] = Len(h),
         \A i \in 1..n : at[i] = at[i - 1] + Len(ss[i]) /\ PartOf(ss[i], at[i - 1], h)
  PROVE  FlattenSeq(ss) = h
<1>1. Len(ss) = n
  OBVIOUS
<1>2. CASE n = 0
  <2>1. FlattenSeq(ss) = ss
    BY <1>1, <1>2 DEF FlattenSeq
  <2>2. ss = <<>> /\ h = <<>>
    BY <1>2
  <2> QED
    BY <2>1, <2>2
<1>3. CASE n # 0
  <2> DEFINE F(f) == f = [i \in 1..n |-> IF i = 1 THEN ss[i] ELSE f[i - 1] \o ss[i]]
             g == [i \in 1..n |-> FirstOf(h, at[i])]
             f == CHOOSE x : F(x)
  <2>1. FlattenSeq(ss) = f[n]
    BY <1>1, <1>3 DEF FlattenSeq
  <2>2. \A i \in 1..n : FirstOf(h, at[i]) = FirstOf(h, at[i - 1]) \o ss[i]
    <3> SUFFICES ASSUME NEW i \in 1..n PROVE FirstOf(h, at[i]) = FirstOf(h, at[i - 1]) \o ss[i]
      OBVIOUS
    <3>1. at[i] \in 0..Len(h) /\ at[i - 1] \in 0..Len(h) /\ ss[i] \in Seq(S)
      OBVIOUS
    <3> QED
      BY <3>1, OnePartMore
  <2>3. FirstOf(h, at[0]) \o ss[1] = ss[1]
    <3> DEFINE q == ss[1]
               none == FirstOf(h, at[0])
    <3>1. q \in Seq(S)
      BY <1>3
    <3>2. none \in Seq(S) /\ Len(none) = 0
      <4>1. 0 \in 0..Len(h)
        OBVIOUS
      <4> QED
        BY <4>1, FirstOnes
    <3> HIDE DEF q, none
    <3> HIDE DEF F, g, f
    <3>3. none \o q \in Seq(S) /\ Len(none \o q) = Len(q) /\ \A k \in 1..Len(q) : (none \o q)[k] = q[k]
      BY <3>1, <3>2
    <3>4. none \o q = q
      BY <3>1, <3>3, SameElements
    <3> QED
      BY <3>4 DEF q, none
  <2>4. \A i \in 1..n : g[i] = IF i = 1 THEN ss[i] ELSE g[i - 1] \o ss[i]
    <3> SUFFICES ASSUME NEW i \in 1..n
                 PROVE  g[i] = IF i = 1 THEN ss[i] ELSE g[i - 1] \o ss[i]
      OBVIOUS
    <3>1. g[i] = FirstOf(h, at[i])
      OBVIOUS
    <3>2. i # 1 => i - 1 \in 1..n /\ g[i - 1] = FirstOf(h, at[i - 1])
      OBVIOUS
    <3>3. i = 1 => at[i - 1] = at[0]
      OBVIOUS
    <3> HIDE DEF g, F, f
    <3>4. FirstOf(h, at[i]) = FirstOf(h, at[i - 1]) \o ss[i]
      BY <2>2
    <3> QED
      BY <2>3, <3>1, <3>2, <3>3, <3>4, Zenon
  <2>5. F(g)
    <3>1. DOMAIN g = 1..n /\ g = [i \in 1..n |-> g[i]]
      OBVIOUS
    <3> HIDE DEF g
    <3> QED
      BY <2>4, <3>1, Zenon
  <2>6. F(f)
    BY <2>5
  <2> HIDE DEF f
  <2>7. \A i \in 1..n : f[i] = IF i = 1 THEN ss[i] ELSE f[i - 1] \o ss[i]
    BY <2>6
  <2> HIDE DEF g, F
  <2> DEFINE I == {i \in Nat : i \in 1..n => f[i] = g[i]}
  <2>8. Nat \subseteq I
    <3>1. 0 \in I
      OBVIOUS
    <3>2. ASSUME NEW i \in Nat, i \in I PROVE i + 1 \in I
      <4> SUFFICES ASSUME i + 1 \in 1..n PROVE f[i + 1] = g[i + 1]
        OBVIOUS
      <4>1. CASE i = 0
        BY <2>4, <2>7, <4>1
      <4>2. CASE i # 0
        <5>1. i \in 1..n /\ (i + 1) - 1 = i /\ i + 1 # 1
          BY <4>2
        <5>2. f[i + 1] = f[i] \o ss[i + 1] /\ g[i + 1] = g[i] \o ss[i + 1]
          BY <2>4, <2>7, <5>1
        <5> QED
          BY <3>2, <5>1, <5>2
      <4> QED
        BY <4>1, <4>2
    <3> HIDE DEF I
    <3> QED
      BY <3>1, <3>2, SetInduction
  <2>9. f[n] = g[n]
    BY <1>3, <2>8
  <2>10. g[n] = h
    BY <1>3 DEF g, FirstOf
  <2> QED
    BY <2>1, <2>9, <2>10
<1> QED
  BY <1>2, <1>3
-----------------------------------------------------------------------------
(* The texts in their blocks.                                              *)

TextKinds == {"thinking", "text"}

\* The deltas that block i still gets, and what it holds with them if each is 1.
DeltasOf(i, es) == {m \in DOMAIN es : IsDelta(es[m]) /\ es[m].index = i}

SizeOf(bl, i) == IF i \in DOMAIN bl THEN bl[i].size ELSE 0

Holds(bl, i, es) == SizeOf(bl, i) + Cardinality(DeltasOf(i, es))

\* With the events es the client will have n blocks, of the kinds ks; the texts h are
\* laid out in these without a gap, those of block i from at[i] to at[i + 1].
Laid(bl, n, es, h, ks, at) ==
  /\ h \in Seq(TextKinds) /\ ks \in [0..(n - 1) -> TextKinds \cup {"tool"}]
  /\ at \in [0..n -> 0..Len(h)] /\ at[0] = 0 /\ at[n] = Len(h)
  /\ \A i \in DOMAIN bl : i \in 0..(n - 1) /\ bl[i].kind.kind = ks[i] /\ bl[i].size \in Nat
  /\ \A m \in DOMAIN es :
       /\ IsStart(es[m]) => es[m].kind.kind = ks[es[m].index]
       /\ IsDelta(es[m]) /\ ks[es[m].index] # "tool" => es[m].size = 1
  /\ \A i \in 0..(n - 1) :
       /\ at[i + 1] = at[i] + IF ks[i] = "tool" THEN 0 ELSE Holds(bl, i, es)
       /\ \A k \in (at[i] + 1)..at[i + 1] : h[k] = ks[i]

\* What the converter adds to goes to the end of the texts.
AtEnd(s, h, ks, at) ==
  /\ \A i \in {s.text, s.thinking} \ {NoBlock} : \A j \in (i + 1)..s.next : at[j] = Len(h)
  /\ s.text # NoBlock => ks[s.text] = "text"
  /\ s.thinking # NoBlock => ks[s.thinking] = "thinking"
  /\ \A t \in Tools : s.opened[t] # NoBlock => ks[s.opened[t]] = "tool"

TextsLink(bl, s, es, h) ==
  \E ks, at : Laid(bl, s.next, es, h, ks, at) /\ AtEnd(s, h, ks, at)

\* The deltas of a block are finitely many.
LEMMA DeltasFinite ==
  ASSUME NEW i, NEW es \in Seq(Event)
  PROVE  IsFiniteSet(DeltasOf(i, es)) /\ Cardinality(DeltasOf(i, es)) \in Nat
<1>1. IsFiniteSet(1..Len(es)) /\ DeltasOf(i, es) \subseteq 1..Len(es)
  BY FS_Interval DEF DeltasOf
<1> QED
  BY <1>1, FS_Subset, FS_CardinalityType

\* Events that are no deltas of block i.
LEMMA DeltasStay ==
  ASSUME NEW i, NEW es \in Seq(Event), NEW more \in Seq(Event),
         \A m \in DOMAIN more : ~(IsDelta(more[m]) /\ more[m].index = i)
  PROVE  DeltasOf(i, es \o more) = DeltasOf(i, es)
<1> DEFINE t == es \o more
<1>1. /\ \A m \in DOMAIN es : m \in DOMAIN t /\ t[m] = es[m]
      /\ \A m \in DOMAIN t : \/ m \in DOMAIN es
                             \/ m - Len(es) \in DOMAIN more /\ t[m] = more[m - Len(es)]
  BY Appended
<1> HIDE DEF t
<1>2. DeltasOf(i, t) = DeltasOf(i, es)
  BY <1>1 DEF DeltasOf
<1> QED
  BY <1>2 DEF t

\* One delta more.
LEMMA DeltaMore ==
  ASSUME NEW i \in Nat, NEW es \in Seq(Event)
  PROVE  LET t == es \o <<Delta(i, 1)>>
         IN  /\ Cardinality(DeltasOf(i, t)) = Cardinality(DeltasOf(i, es)) + 1
             /\ \A j : j # i => DeltasOf(j, t) = DeltasOf(j, es)
<1> DEFINE e == Delta(i, 1)
           t == es \o <<e>>
           n == Len(es) + 1
<1>1. e \in Event /\ IsDelta(e) /\ e.index = i
  <2>1. 1 \in Nat \ {0}
    OBVIOUS
  <2> QED
    BY <2>1, BlockEvent
<1> HIDE DEF e
<1>2. /\ DOMAIN t = 1..n /\ DOMAIN es = 1..(n - 1) /\ t[n] = e /\ n \in 1..n
      /\ \A m \in 1..(n - 1) : t[m] = es[m] /\ m \in 1..n
      /\ \A m \in 1..n : m \in 1..(n - 1) \/ m = n
      /\ n \notin 1..(n - 1)
  BY <1>1
<1> HIDE DEF t, n
<1>3. DeltasOf(i, t) = DeltasOf(i, es) \cup {n} /\ n \notin DeltasOf(i, es)
  BY <1>1, <1>2 DEF DeltasOf
<1>4. \A j : j # i => DeltasOf(j, t) = DeltasOf(j, es)
  BY <1>1, <1>2 DEF DeltasOf
<1>5. Cardinality(DeltasOf(i, t)) = Cardinality(DeltasOf(i, es)) + 1
  BY <1>3, DeltasFinite, FS_AddElement
<1> QED
  BY <1>4, <1>5 DEF t, e

\* One delta less: the first event is seen.
LEMMA DeltaLess ==
  ASSUME NEW i, NEW es \in Seq(Event), es # <<>>
  PROVE  Cardinality(DeltasOf(i, es)) =
           Cardinality(DeltasOf(i, Tail(es)))
             + IF IsDelta(es[1]) /\ es[1].index = i THEN 1 ELSE 0
<1> DEFINE t == Tail(es)
           D == DeltasOf(i, t)
           E == DeltasOf(i, es) \ {1}
           f == [m \in D |-> m + 1]
<1>1. /\ t \in Seq(Event) /\ DOMAIN es = 1..Len(es) /\ Len(es) \in Nat /\ Len(es) >= 1
      /\ DOMAIN t = 1..(Len(es) - 1)
      /\ \A m \in DOMAIN t : m + 1 \in DOMAIN es /\ t[m] = es[m + 1]
  BY Rest
<1> HIDE DEF t
<1>2. D \subseteq Nat \ {0} /\ E \subseteq Nat \ {0, 1}
  BY <1>1 DEF DeltasOf
<1>3. \A m \in Nat \ {0} : m \in D <=> m + 1 \in E
  <2> SUFFICES ASSUME NEW m \in Nat \ {0} PROVE m \in D <=> m + 1 \in E
    OBVIOUS
  <2>1. m \in DOMAIN t <=> m + 1 \in DOMAIN es
    BY <1>1
  <2> QED
    BY <1>1, <2>1 DEF DeltasOf
<1> HIDE DEF D, E
<1>4. f \in Bijection(D, E)
  <2>1. f \in [D -> E]
    BY <1>2, <1>3
  <2>2. \A j, k \in D : f[j] = f[k] => j = k
    BY <1>2
  <2>3. \A e \in E : \E d \in D : f[d] = e
    <3> SUFFICES ASSUME NEW e \in E PROVE \E d \in D : f[d] = e
      OBVIOUS
    <3>1. e - 1 \in Nat \ {0} /\ (e - 1) + 1 = e
      BY <1>2
    <3>2. e - 1 \in D /\ f[e - 1] = e
      BY <1>3, <3>1
    <3> QED
      BY <3>2
  <2> QED
    BY <2>1, <2>2, <2>3 DEF Bijection, Injection, Surjection, IsInjective
<1>5. IsFiniteSet(D) /\ Cardinality(D) = Cardinality(E) /\ IsFiniteSet(E)
  <2>1. IsFiniteSet(D)
    BY <1>1, DeltasFinite DEF D
  <2> QED
    BY <1>4, <2>1, FS_Bijection DEF ExistsBijection
<1>6. IsFiniteSet(DeltasOf(i, es)) /\ Cardinality(DeltasOf(i, es)) \in Nat
  BY DeltasFinite
<1>7. CASE IsDelta(es[1]) /\ es[1].index = i
  <2>1. 1 \in DeltasOf(i, es)
    BY <1>1, <1>7 DEF DeltasOf
  <2>2. Cardinality(E) = Cardinality(DeltasOf(i, es)) - 1
    BY <1>6, <2>1, FS_RemoveElement DEF E
  <2> QED
    BY <1>5, <1>6, <1>7, <2>2 DEF D, t
<1>8. CASE ~(IsDelta(es[1]) /\ es[1].index = i)
  <2>1. E = DeltasOf(i, es)
    BY <1>8 DEF DeltasOf, E
  <2>2. Cardinality(D) \in Nat
    BY <1>5, FS_CardinalityType
  <2> QED
    BY <1>5, <1>8, <2>1, <2>2 DEF D, t
<1> QED
  BY <1>7, <1>8

\* Nothing is said: no block starts, and only blocks of tool calls get something.
LEMMA NothingSaid ==
  ASSUME NEW bl, NEW s \in ConvType, NEW u, NEW more \in Seq(Event), NEW h,
         TextsLink(bl, s, s.events, h),
         u.next = s.next, u.opened = s.opened,
         u.text \in {s.text, NoBlock}, u.thinking \in {s.thinking, NoBlock},
         \A m \in DOMAIN more :
           /\ ~IsStart(more[m])
           /\ IsDelta(more[m]) =>
                \E t \in Tools : s.opened[t] # NoBlock /\ more[m].index = s.opened[t],
         \A t \in Tools : s.opened[t] # NoBlock => s.opened[t] \in 0..(s.next - 1)
  PROVE  TextsLink(bl, u, s.events \o more, h)
<1> DEFINE es == s.events
           n == s.next
           c == es \o more
<1>1. PICK ks, at : Laid(bl, n, es, h, ks, at) /\ AtEnd(s, h, ks, at)
  BY DEF TextsLink
<1>2. es \in Seq(Event) /\ n \in Nat
  BY ConvFields
<1>3. /\ \A m \in DOMAIN es : m \in DOMAIN c /\ c[m] = es[m]
      /\ \A m \in DOMAIN c : \/ m \in DOMAIN es
                             \/ m - Len(es) \in DOMAIN more /\ c[m] = more[m - Len(es)]
  BY <1>2, Appended
<1>4. \A m \in DOMAIN more : IsDelta(more[m]) => ks[more[m].index] = "tool"
  BY <1>1 DEF AtEnd
<1>5. \A i \in 0..(n - 1) : ks[i] # "tool" => Holds(bl, i, c) = Holds(bl, i, es)
  <2> SUFFICES ASSUME NEW i \in 0..(n - 1), ks[i] # "tool"
               PROVE  Holds(bl, i, c) = Holds(bl, i, es)
    OBVIOUS
  <2>1. \A m \in DOMAIN more : ~(IsDelta(more[m]) /\ more[m].index = i)
    BY <1>4
  <2>2. DeltasOf(i, c) = DeltasOf(i, es)
    BY <1>2, <2>1, DeltasStay
  <2> QED
    BY <2>2 DEF Holds, SizeOf
<1> HIDE DEF c, es, n
<1>6. Laid(bl, n, c, h, ks, at)
  <2>1. \A m \in DOMAIN c :
          /\ IsStart(c[m]) => c[m].kind.kind = ks[c[m].index]
          /\ IsDelta(c[m]) /\ ks[c[m].index] # "tool" => c[m].size = 1
    <3>1. \A m \in DOMAIN es :
            /\ IsStart(es[m]) => es[m].kind.kind = ks[es[m].index]
            /\ IsDelta(es[m]) /\ ks[es[m].index] # "tool" => es[m].size = 1
      BY <1>1 DEF Laid
    <3> QED
      BY <1>3, <1>4, <3>1
  <2>2. \A i \in 0..(n - 1) :
          /\ at[i + 1] = at[i] + IF ks[i] = "tool" THEN 0 ELSE Holds(bl, i, c)
          /\ \A k \in (at[i] + 1)..at[i + 1] : h[k] = ks[i]
    BY <1>1, <1>5 DEF Laid
  <2> QED
    BY <1>1, <2>1, <2>2 DEF Laid
<1>7. AtEnd(u, h, ks, at)
  BY <1>1 DEF AtEnd
<1> QED
  BY <1>6, <1>7 DEF TextsLink, c, n, es

\* A block starts.
LEMMA BlockBegun ==
  ASSUME NEW bl, NEW b, NEW s \in ConvType, NEW u, NEW k \in Kinds, NEW h,
         BlockLink(bl, b, s.next, Open(s), s.events), Distinct(s),
         TextsLink(bl, s, s.events, h),
         u.next = s.next + 1, u.text \in {NoBlock, s.next}, u.thinking \in {NoBlock, s.next},
         u.text = s.next => k.kind = "text",
         u.thinking = s.next => k.kind = "thinking",
         \A t \in Tools : u.opened[t] = s.opened[t] \/ (u.opened[t] = s.next /\ k.kind = "tool")
  PROVE  TextsLink(bl, u, s.events \o <<Start(s.next, k)>>, h)
<1> DEFINE es == s.events
           n == s.next
           e == Start(n, k)
           c == es \o <<e>>
<1>1. PICK ks, at : Laid(bl, n, es, h, ks, at) /\ AtEnd(s, h, ks, at)
  BY DEF TextsLink
<1>2. es \in Seq(Event) /\ n \in Nat
  BY ConvFields
<1>3. /\ DOMAIN bl \subseteq 0..(n - 1)
      /\ \A m \in DOMAIN es : OfBlock(es[m]) => es[m].index \in 0..(n - 1)
  BY <1>1, <1>2 DEF BlockLink, Laid
<1>4. e \in Event /\ IsStart(e) /\ ~IsDelta(e) /\ e.index = n /\ e.kind = k
  BY <1>2, BlockEvent
<1> DEFINE ks2 == [i \in 0..n |-> IF i = n THEN k.kind ELSE ks[i]]
           at2 == [i \in 0..(n + 1) |-> IF i = n + 1 THEN Len(h) ELSE at[i]]
<1>5. /\ ks2 \in [0..n -> TextKinds \cup {"tool"}] /\ ks2[n] = k.kind
      /\ \A i \in 0..(n - 1) : i # n /\ i \in 0..n /\ ks2[i] = ks[i]
  <2>1. k.kind \in TextKinds \cup {"tool"}
    BY DEF Kinds, Kind, TextKinds
  <2>2. ks \in [0..(n - 1) -> TextKinds \cup {"tool"}]
    BY <1>1 DEF Laid
  <2> QED
    BY <1>2, <2>1, <2>2
<1>6. /\ at2 \in [0..(n + 1) -> 0..Len(h)] /\ at2[n + 1] = Len(h) /\ at2[0] = 0 /\ at2[n] = Len(h)
      /\ \A i \in 0..n : at2[i] = at[i]
  <2>1. at \in [0..n -> 0..Len(h)] /\ at[0] = 0 /\ at[n] = Len(h)
    BY <1>1 DEF Laid
  <2>2. Len(h) \in 0..Len(h)
    BY <1>1 DEF Laid
  <2> QED
    BY <1>2, <2>1, <2>2
<1> HIDE DEF ks2, at2, e, n, es
<1>7. c \in Seq(Event) /\ \A m \in DOMAIN c : (m \in DOMAIN es /\ c[m] = es[m]) \/ c[m] = e
  BY <1>2, <1>4
<1>8. /\ \A i \in 0..(n - 1) : Holds(bl, i, c) = Holds(bl, i, es)
      /\ Holds(bl, n, c) = 0
  <2>1. <<e>> \in Seq(Event) /\ \A m \in DOMAIN <<e>> : ~IsDelta(<<e>>[m])
    BY <1>4
  <2>2. \A i \in Nat : DeltasOf(i, c) = DeltasOf(i, es)
    BY <1>2, <2>1, DeltasStay
  <2>3. \A i \in Nat : Holds(bl, i, c) = Holds(bl, i, es)
    BY <2>2 DEF Holds, SizeOf
  <2>4. DeltasOf(n, es) = {} /\ n \notin DOMAIN bl
    BY <1>2, <1>3 DEF DeltasOf, OfBlock
  <2>5. Holds(bl, n, es) = 0
    BY <2>4, FS_EmptySet DEF Holds, SizeOf
  <2> QED
    BY <1>2, <2>3, <2>5
<1> HIDE DEF c
<1>9. Laid(bl, n + 1, c, h, ks2, at2)
  <2>1. \A i \in DOMAIN bl : i \in 0..n /\ bl[i].kind.kind = ks2[i] /\ bl[i].size \in Nat
    BY <1>1, <1>3, <1>5 DEF Laid
  <2>2. \A m \in DOMAIN c :
          /\ IsStart(c[m]) => c[m].kind.kind = ks2[c[m].index]
          /\ IsDelta(c[m]) /\ ks2[c[m].index] # "tool" => c[m].size = 1
    <3> SUFFICES ASSUME NEW m \in DOMAIN c
                 PROVE  /\ IsStart(c[m]) => c[m].kind.kind = ks2[c[m].index]
                        /\ IsDelta(c[m]) /\ ks2[c[m].index] # "tool" => c[m].size = 1
      OBVIOUS
    <3>1. CASE m \in DOMAIN es /\ c[m] = es[m]
      BY <1>1, <1>3, <1>5, <3>1 DEF Laid, OfBlock
    <3>2. CASE c[m] = e
      BY <1>4, <1>5, <3>2
    <3> QED
      BY <1>7, <3>1, <3>2
  <2>3. ASSUME NEW i \in 0..n
        PROVE  /\ at2[i + 1] = at2[i] + IF ks2[i] = "tool" THEN 0 ELSE Holds(bl, i, c)
               /\ \A j \in (at2[i] + 1)..at2[i + 1] : h[j] = ks2[i]
    <3>1. CASE i = n
      BY <1>6, <1>8, <3>1
    <3>2. CASE i # n
      <4>1. i \in 0..(n - 1) /\ i + 1 \in 0..n
        BY <1>2, <3>2
      <4>2. at2[i] = at[i] /\ at2[i + 1] = at[i + 1] /\ ks2[i] = ks[i]
        BY <1>5, <1>6, <4>1
      <4> QED
        BY <1>1, <1>8, <4>1, <4>2 DEF Laid
    <3> QED
      BY <3>1, <3>2
  <2>4. (n + 1) - 1 = n
    BY <1>2
  <2>5. h \in Seq(TextKinds)
    BY <1>1 DEF Laid
  <2> QED
    BY <1>5, <1>6, <2>1, <2>2, <2>3, <2>4, <2>5 DEF Laid
<1>10. AtEnd(u, h, ks2, at2)
  <2>1. n \in Nat /\ n # NoBlock
    BY <1>2 DEF NoBlock
  <2>2. \A i \in {u.text, u.thinking} \ {NoBlock} : \A j \in (i + 1)..(n + 1) : at2[j] = Len(h)
    BY <1>6, <2>1 DEF n
  <2>3. u.text # NoBlock => ks2[u.text] = "text"
    BY <1>5 DEF n
  <2>4. u.thinking # NoBlock => ks2[u.thinking] = "thinking"
    BY <1>5 DEF n
  <2>5. \A t \in Tools : u.opened[t] # NoBlock => ks2[u.opened[t]] = "tool"
    <3> SUFFICES ASSUME NEW t \in Tools, u.opened[t] # NoBlock PROVE ks2[u.opened[t]] = "tool"
      OBVIOUS
    <3>1. CASE u.opened[t] = s.opened[t]
      BY <1>1, <1>5, <3>1 DEF AtEnd, Distinct, n
    <3>2. CASE u.opened[t] = s.next /\ k.kind = "tool"
      BY <1>5, <3>2 DEF n
    <3> QED
      BY <3>1, <3>2
  <2> QED
    BY <2>2, <2>3, <2>4, <2>5 DEF AtEnd, n
<1> QED
  BY <1>9, <1>10 DEF TextsLink, c, e, n, es

\* A text or reasoning text is said: it goes to the end of the current block.
LEMMA TextSaid ==
  ASSUME NEW bl, NEW s \in ConvType, NEW u, NEW h, TextsLink(bl, s, s.events, h), Distinct(s),
         NEW i \in {s.text, s.thinking} \ {NoBlock}, NEW q \in TextKinds,
         i = s.text => q = "text", i = s.thinking => q = "thinking",
         u.next = s.next, u.text = s.text, u.thinking = s.thinking, u.opened = s.opened
  PROVE  TextsLink(bl, u, s.events \o <<Delta(i, 1)>>, h \o <<q>>)
<1> DEFINE es == s.events
           n == s.next
           e == Delta(i, 1)
           c == es \o <<e>>
           h2 == h \o <<q>>
           l == Len(h)
<1>1. PICK ks, at : Laid(bl, n, es, h, ks, at) /\ AtEnd(s, h, ks, at)
  BY DEF TextsLink
<1>2. es \in Seq(Event) /\ n \in Nat /\ i \in 0..(n - 1) /\ i \in Nat
  BY ConvFields DEF Distinct
<1>3. e \in Event /\ ~IsStart(e) /\ e.index = i /\ e.size = 1
  <2>1. 1 \in Nat \ {0}
    OBVIOUS
  <2> QED
    BY <1>2, <2>1, BlockEvent
<1>4. /\ h \in Seq(TextKinds) /\ h2 \in Seq(TextKinds) /\ l \in Nat /\ Len(h2) = l + 1
      /\ \A j \in 1..l : h2[j] = h[j]
      /\ h2[l + 1] = q
  BY <1>1 DEF Laid
<1> DEFINE at2 == [j \in 0..n |-> IF j <= i THEN at[j] ELSE at[j] + 1]
<1>5. /\ at \in [0..n -> 0..l] /\ at[0] = 0 /\ at[n] = l
      /\ \A j \in (i + 1)..n : at[j] = l
  BY <1>1 DEF Laid, AtEnd
<1>6. /\ at2 \in [0..n -> 0..(l + 1)] /\ at2[0] = 0 /\ at2[n] = l + 1
      /\ \A j \in (i + 1)..n : at2[j] = l + 1
      /\ \A j \in 0..i : at2[j] = at[j]
  BY <1>2, <1>4, <1>5
<1>7. ks[i] = q
  BY <1>1 DEF AtEnd, Distinct
<1> HIDE DEF at2, e, n, es, h2, l
<1>8. c \in Seq(Event) /\ \A m \in DOMAIN c : (m \in DOMAIN es /\ c[m] = es[m]) \/ c[m] = e
  BY <1>2, <1>3
<1>9. /\ Holds(bl, i, c) = Holds(bl, i, es) + 1
      /\ \A j \in 0..(n - 1) : j # i => Holds(bl, j, c) = Holds(bl, j, es)
  <2>1. /\ Cardinality(DeltasOf(i, c)) = Cardinality(DeltasOf(i, es)) + 1
        /\ \A j : j # i => DeltasOf(j, c) = DeltasOf(j, es)
    BY <1>2, DeltaMore DEF e
  <2>2. Cardinality(DeltasOf(i, es)) \in Nat
    BY <1>2, DeltasFinite
  <2>3. i \in DOMAIN bl => bl[i].size \in Nat
    BY <1>1 DEF Laid
  <2> HIDE DEF c
  <2> QED
    BY <2>1, <2>2, <2>3 DEF Holds, SizeOf
<1> HIDE DEF c
<1>10. Laid(bl, n, c, h2, ks, at2)
  <2>1. \A m \in DOMAIN c :
          /\ IsStart(c[m]) => c[m].kind.kind = ks[c[m].index]
          /\ IsDelta(c[m]) /\ ks[c[m].index] # "tool" => c[m].size = 1
    BY <1>1, <1>3, <1>8 DEF Laid
  <2>2. ASSUME NEW j \in 0..(n - 1)
        PROVE  /\ at2[j + 1] = at2[j] + IF ks[j] = "tool" THEN 0 ELSE Holds(bl, j, c)
               /\ \A k \in (at2[j] + 1)..at2[j + 1] : h2[k] = ks[j]
    <3>1. /\ at[j + 1] = at[j] + IF ks[j] = "tool" THEN 0 ELSE Holds(bl, j, es)
          /\ \A k \in (at[j] + 1)..at[j + 1] : h[k] = ks[j]
      BY <1>1 DEF Laid
    <3>2. j + 1 \in 0..n /\ j \in 0..n /\ j \in Nat
      BY <1>2
    <3>3. at[j] \in 0..l /\ at[j + 1] \in 0..l
      BY <1>5, <3>2
    <3>4. CASE j < i
      <4>1. at2[j] = at[j] /\ at2[j + 1] = at[j + 1]
        <5>1. j \in 0..i /\ j + 1 \in 0..i
          BY <1>2, <3>2, <3>4
        <5> QED
          BY <1>6, <5>1
      <4>2. Holds(bl, j, c) = Holds(bl, j, es)
        BY <1>2, <1>9, <3>2, <3>4
      <4>3. \A k \in (at[j] + 1)..at[j + 1] : k \in 1..l
        BY <1>4, <3>3
      <4> QED
        BY <1>4, <3>1, <4>1, <4>2, <4>3
    <3>5. CASE j = i
      <4>1. at2[j] = at[j] /\ at2[j + 1] = l + 1 /\ at[j + 1] = l
        BY <1>2, <1>5, <1>6, <3>2, <3>5
      <4>2. ks[j] # "tool" /\ ks[j] = q
        BY <1>7, <3>5 DEF TextKinds
      <4>3. at[j + 1] = at[j] + Holds(bl, j, es)
        BY <3>1, <4>2
      <4>4. Holds(bl, j, c) = Holds(bl, j, es) + 1 /\ Holds(bl, j, es) \in Nat
        <5>1. Cardinality(DeltasOf(j, es)) \in Nat
          BY <1>2, DeltasFinite
        <5>2. j \in DOMAIN bl => bl[j].size \in Nat
          BY <1>1 DEF Laid
        <5> QED
          BY <1>9, <3>5, <5>1, <5>2 DEF Holds, SizeOf
      <4>5. \A k \in (at[j] + 1)..(l + 1) : h2[k] = q
        <5> SUFFICES ASSUME NEW k \in (at[j] + 1)..(l + 1) PROVE h2[k] = q
          OBVIOUS
        <5>1. CASE k = l + 1
          BY <1>4, <5>1
        <5>2. CASE k # l + 1
          <6>1. k \in (at[j] + 1)..l /\ k \in 1..l
            BY <1>4, <3>3, <5>2
          <6> QED
            BY <1>4, <3>1, <4>1, <4>2, <6>1
        <5> QED
          BY <5>1, <5>2
      <4>6. at2[j + 1] = at2[j] + Holds(bl, j, c)
        BY <1>4, <3>3, <4>1, <4>3, <4>4
      <4> QED
        BY <4>1, <4>2, <4>5, <4>6
    <3>6. CASE j > i
      <4>1. /\ at2[j] = l + 1 /\ at2[j + 1] = l + 1 /\ at[j] = l /\ at[j + 1] = l
        BY <1>2, <1>5, <1>6, <3>2, <3>6
      <4>2. Holds(bl, j, c) = Holds(bl, j, es)
        BY <1>2, <1>9, <3>6
      <4>3. ((l + 1) + 1)..(l + 1) = {}
        BY <1>4
      <4>4. Holds(bl, j, es) \in Nat
        <5>1. Cardinality(DeltasOf(j, es)) \in Nat
          BY <1>2, DeltasFinite
        <5>2. j \in DOMAIN bl => bl[j].size \in Nat
          BY <1>1 DEF Laid
        <5> QED
          BY <5>1, <5>2 DEF Holds, SizeOf
      <4>5. ks[j] = "tool" \/ Holds(bl, j, es) = 0
        BY <1>4, <3>1, <4>1, <4>4
      <4> QED
        BY <1>4, <4>1, <4>2, <4>3, <4>5
    <3> QED
      BY <1>2, <3>2, <3>4, <3>5, <3>6
  <2>3. at2 \in [0..n -> 0..Len(h2)] /\ at2[n] = Len(h2)
    BY <1>4, <1>6
  <2> QED
    BY <1>1, <1>4, <1>6, <2>1, <2>2, <2>3 DEF Laid
<1>11. AtEnd(u, h2, ks, at2)
  <2>1. \A x \in {s.text, s.thinking} \ {NoBlock} : x = i
    BY DEF Distinct
  <2>2. \A x \in {u.text, u.thinking} \ {NoBlock} : \A j \in (x + 1)..n : at2[j] = Len(h2)
    BY <1>4, <1>6, <2>1
  <2> QED
    BY <1>1, <2>2 DEF AtEnd, n
<1> QED
  BY <1>10, <1>11 DEF TextsLink, c, e, n, es, h2

\* The client sees the first event.
LEMMA LaidSeen ==
  ASSUME NEW bl, NEW n \in Nat, NEW es \in Seq(Event), es # <<>>, NEW h, NEW ks, NEW at,
         Laid(bl, n, es, h, ks, at), NEW now,
         \A i \in DOMAIN now :
           i \in 0..(n - 1) /\ now[i].kind.kind = ks[i] /\ now[i].size \in Nat,
         \A i \in 0..(n - 1) : SizeOf(now, i) =
           SizeOf(bl, i) + IF IsDelta(es[1]) /\ es[1].index = i THEN es[1].size ELSE 0
  PROVE  Laid(now, n, Tail(es), h, ks, at)
<1> DEFINE t == Tail(es)
<1>1. /\ t \in Seq(Event) /\ 1 \in DOMAIN es
      /\ \A m \in DOMAIN t : m + 1 \in DOMAIN es /\ t[m] = es[m + 1]
  BY Rest
<1>2. \A m \in DOMAIN es :
        /\ IsStart(es[m]) => es[m].kind.kind = ks[es[m].index]
        /\ IsDelta(es[m]) /\ ks[es[m].index] # "tool" => es[m].size = 1
  BY DEF Laid
<1>3. \A i \in 0..(n - 1) : ks[i] # "tool" => Holds(now, i, t) = Holds(bl, i, es)
  <2> SUFFICES ASSUME NEW i \in 0..(n - 1), ks[i] # "tool"
               PROVE  Holds(now, i, t) = Holds(bl, i, es)
    OBVIOUS
  <2> DEFINE d == IF IsDelta(es[1]) /\ es[1].index = i THEN 1 ELSE 0
  <2>1. SizeOf(now, i) = SizeOf(bl, i) + d
    BY <1>1, <1>2
  <2>2. Cardinality(DeltasOf(i, es)) = Cardinality(DeltasOf(i, t)) + d
    BY DeltaLess
  <2>3. SizeOf(bl, i) \in Nat /\ Cardinality(DeltasOf(i, t)) \in Nat /\ d \in Nat
    BY <1>1, DeltasFinite DEF SizeOf, Laid
  <2> HIDE DEF d, t
  <2> QED
    BY <2>1, <2>2, <2>3 DEF Holds
<1> HIDE DEF t
<1>4. \A m \in DOMAIN t :
        /\ IsStart(t[m]) => t[m].kind.kind = ks[t[m].index]
        /\ IsDelta(t[m]) /\ ks[t[m].index] # "tool" => t[m].size = 1
  BY <1>1, <1>2
<1>5. \A i \in 0..(n - 1) :
        /\ at[i + 1] = at[i] + IF ks[i] = "tool" THEN 0 ELSE Holds(now, i, t)
        /\ \A k \in (at[i] + 1)..at[i + 1] : h[k] = ks[i]
  BY <1>3 DEF Laid
<1>6. Laid(now, n, t, h, ks, at)
  BY <1>4, <1>5 DEF Laid
<1> QED
  BY <1>6 DEF t

\* The same for what the client makes of it.
LEMMA TextsSeen ==
  ASSUME ConvOK(conv), NEW b \in Nat, BlockLink(blocks, b, conv.next, Open(conv), pending),
         NEW h, TextsLink(blocks, conv, pending, h), WriteEvent
  PROVE  TextsLink(blocks', conv, pending', h)
<1> DEFINE e == pending[1]
           n == conv.next
<1>1. conv \in ConvType /\ n \in Nat
  BY ConvFields DEF ConvOK
<1>2. /\ DOMAIN blocks = 0..(b - 1) /\ pending \in Seq(Event) /\ b \in 0..n
      /\ \A i \in 0..(b - 1) : i \in Nat /\ i < b /\ blocks[i].size \in Nat
      /\ blocks \in [0..(b - 1) -> BlockType]
  <2>1. b \in 0..n
    BY DEF BlockLink
  <2> QED
    BY <1>1, <2>1, BlocksTyped
<1>3. pending # <<>> /\ pending' = Tail(pending)
  BY DEF WriteEvent
<1>4. e = Head(pending) /\ e \in Event /\ 1 \in DOMAIN pending
  BY <1>2, <1>3, Rest
<1>5. Sees(e)
  BY <1>4 DEF WriteEvent
<1>6. PICK ks, at : Laid(blocks, n, pending, h, ks, at) /\ AtEnd(conv, h, ks, at)
  BY DEF TextsLink
<1>7. \A i \in DOMAIN blocks :
        i \in 0..(n - 1) /\ blocks[i].kind.kind = ks[i] /\ blocks[i].size \in Nat
  BY <1>6 DEF Laid
<1>8. IsStart(e) => e.kind.kind = ks[e.index] /\ e.index \in 0..(n - 1) /\ e.index >= b
  <2>1. IsStart(e) => e.kind.kind = ks[e.index]
    BY <1>4, <1>6 DEF Laid
  <2>2. IsStart(e) => e.index \in 0..(n - 1) /\ e.index >= b
    BY <1>4 DEF BlockLink, OfBlock
  <2> QED
    BY <2>1, <2>2
<1>9. IsDelta(e) \/ IsStop(e) => e.index \in 0..(b - 1)
  BY <1>1, <1>2, <1>3, <1>4, HeadIsOpen DEF OfBlock, IsStart, IsDelta, IsStop
<1> HIDE DEF e, n
<1>10. /\ \A i \in DOMAIN blocks' :
            i \in 0..(n - 1) /\ blocks'[i].kind.kind = ks[i] /\ blocks'[i].size \in Nat
       /\ \A i \in 0..(n - 1) : SizeOf(blocks', i) =
            SizeOf(blocks, i) + IF IsDelta(e) /\ e.index = i THEN e.size ELSE 0
  <2>1. CASE IsStart(e)
    <3>1. blocks' = WithStart(blocks, e) /\ ~IsDelta(e)
      BY <1>5, <2>1 DEF Sees, IsStart, IsDelta, WithStart
    <3>2. e.index \notin DOMAIN blocks
      BY <1>2, <1>8, <2>1
    <3>3. /\ DOMAIN blocks' = DOMAIN blocks \cup {e.index}
          /\ blocks'[e.index].kind = e.kind /\ blocks'[e.index].size = 0
          /\ \A i \in DOMAIN blocks : blocks'[i] = blocks[i]
      BY <3>1, <3>2 DEF WithStart
    <3>4. \A i \in 0..(n - 1) : SizeOf(blocks, i) \in Nat
      BY <1>7 DEF SizeOf
    <3>5. \A i \in 0..(n - 1) : SizeOf(blocks', i) = SizeOf(blocks, i)
      BY <3>2, <3>3 DEF SizeOf
    <3> QED
      BY <1>7, <1>8, <2>1, <3>1, <3>3, <3>4, <3>5
  <2>2. CASE IsDelta(e)
    <3>1. blocks' = WithDelta(blocks, e)
      BY <1>5, <2>2 DEF Sees, IsDelta, WithDelta
    <3>2. e.size \in Nat
      BY <1>4, <2>2 DEF Event, IsDelta
    <3>3. e.index \in 0..(b - 1)
      BY <1>9, <2>2
    <3>4. /\ DOMAIN blocks' = 0..(b - 1)
          /\ \A i \in 0..(b - 1) :
               /\ blocks'[i].kind = blocks[i].kind
               /\ blocks'[i].size = blocks[i].size + IF i = e.index THEN e.size ELSE 0
      BY <1>2, <3>1, <3>2, <3>3 DEF WithDelta, BlockType
    <3> QED
      BY <1>2, <1>7, <2>2, <3>2, <3>3, <3>4 DEF SizeOf
  <2>3. CASE ~IsStart(e) /\ ~IsDelta(e)
    <3>1. /\ DOMAIN blocks' = DOMAIN blocks
          /\ \A i \in DOMAIN blocks : blocks'[i].kind = blocks[i].kind /\ blocks'[i].size = blocks[i].size
      <4>1. CASE IsStop(e)
        <5>1. blocks' = WithStop(blocks, e)
          BY <1>5, <4>1 DEF Sees, IsStop, WithStop
        <5> QED
          BY <1>2, <1>9, <4>1, <5>1 DEF WithStop, BlockType
      <4>2. CASE ~IsStop(e)
        <5>1. e.type \in {"message_start", "message_delta", "message_stop"}
          BY <1>4, <2>3, <4>2 DEF Event, IsStart, IsDelta, IsStop
        <5>2. blocks' = blocks
          BY <1>5, <5>1 DEF Sees
        <5> QED
          BY <5>2
      <4> QED
        BY <4>1, <4>2
    <3>2. \A i \in 0..(n - 1) : SizeOf(blocks, i) \in Nat /\ SizeOf(blocks', i) = SizeOf(blocks, i)
      BY <1>7, <3>1 DEF SizeOf
    <3> QED
      BY <1>7, <2>3, <3>1, <3>2
  <2> QED
    BY <2>1, <2>2, <2>3
<1>11. Laid(blocks', n, Tail(pending), h, ks, at)
  BY <1>1, <1>2, <1>3, <1>6, <1>10, LaidSeen DEF e
<1> QED
  BY <1>3, <1>6, <1>11 DEF TextsLink, n
-----------------------------------------------------------------------------
(* The conversion says what the payload says.                              *)

Said(bl, s, h) == TextsLink(bl, s, s.events, h)

\* The blocks of tool calls are there.
LEMMA ToolBlocks ==
  ASSUME NEW s, ConvOK(s)
  PROVE  /\ s \in ConvType /\ s.next \in Nat /\ s.events \in Seq(Event)
         /\ \A t \in Tools : s.opened[t] # NoBlock => s.opened[t] \in 0..(s.next - 1)
  BY ConvFields DEF ConvOK, Distinct

\* StopThinking and StopText.
LEMMA StopSays ==
  ASSUME NEW bl, NEW s, ConvOK(s), NEW h, Said(bl, s, h)
  PROVE  Said(bl, StopThinking(s), h) /\ Said(bl, StopText(s), h)
<1>1. /\ s \in ConvType /\ s.text \in Nat \cup {NoBlock} /\ s.thinking \in Nat \cup {NoBlock}
      /\ \A t \in Tools : s.opened[t] # NoBlock => s.opened[t] \in 0..(s.next - 1)
  BY ToolBlocks, ConvFields
<1>2. ASSUME NEW i \in Nat, NEW u, u.events = s.events \o <<Stop(i)>>,
             u.next = s.next, u.opened = s.opened,
             u.text \in {s.text, NoBlock}, u.thinking \in {s.thinking, NoBlock}
      PROVE  Said(bl, u, h)
  <2> DEFINE more == <<Stop(i)>>
  <2>1. more \in Seq(Event) /\ \A m \in DOMAIN more : ~IsStart(more[m]) /\ ~IsDelta(more[m])
    BY BlockEvent
  <2> HIDE DEF more
  <2>2. TextsLink(bl, u, s.events \o more, h)
    BY <1>1, <1>2, <2>1, NothingSaid DEF Said
  <2> QED
    BY <1>2, <2>2 DEF Said, more
<1>3. Said(bl, StopThinking(s), h)
  <2>1. CASE s.thinking = NoBlock
    BY <2>1 DEF StopThinking
  <2>2. CASE s.thinking # NoBlock
    <3> DEFINE u == StopThinking(s)
    <3>1. u = [s EXCEPT !.events = s.events \o <<Stop(s.thinking)>>, !.thinking = NoBlock]
      BY <1>1, <2>2 DEF StopThinking, Emit, ConvType
    <3> HIDE DEF u
    <3>2. /\ u.events = s.events \o <<Stop(s.thinking)>> /\ u.next = s.next
          /\ u.opened = s.opened /\ u.text = s.text /\ u.thinking = NoBlock
      BY <1>1, <3>1 DEF ConvType
    <3>3. Said(bl, u, h)
      BY <1>1, <1>2, <2>2, <3>2
    <3> QED
      BY <3>3 DEF u
  <2> QED
    BY <2>1, <2>2
<1>4. Said(bl, StopText(s), h)
  <2>1. CASE s.text = NoBlock
    BY <2>1 DEF StopText
  <2>2. CASE s.text # NoBlock
    <3> DEFINE u == StopText(s)
    <3>1. u = [s EXCEPT !.events = s.events \o <<Stop(s.text)>>, !.text = NoBlock]
      BY <1>1, <2>2 DEF StopText, Emit, ConvType
    <3> HIDE DEF u
    <3>2. /\ u.events = s.events \o <<Stop(s.text)>> /\ u.next = s.next
          /\ u.opened = s.opened /\ u.text = NoBlock /\ u.thinking = s.thinking
      BY <1>1, <3>1 DEF ConvType
    <3>3. Said(bl, u, h)
      BY <1>1, <1>2, <2>2, <3>2
    <3> QED
      BY <3>3 DEF u
  <2> QED
    BY <2>1, <2>2
<1> QED
  BY <1>3, <1>4

\* The message starts.
LEMMA MessageStartedSays ==
  ASSUME NEW bl, NEW s, ConvOK(s), NEW h, Said(bl, s, h)
  PROVE  Said(bl, MessageStarted(s), h)
<1>1. /\ s \in ConvType
      /\ \A t \in Tools : s.opened[t] # NoBlock => s.opened[t] \in 0..(s.next - 1)
  BY ToolBlocks
<1>2. CASE s.started
  BY <1>2 DEF MessageStarted
<1>3. CASE ~s.started
  <2> DEFINE e == [type |-> "message_start"]
             more == <<e>>
             u == MessageStarted(s)
  <2>1. u = [s EXCEPT !.events = s.events \o more, !.started = TRUE]
    BY <1>1, <1>3 DEF MessageStarted, Emit, ConvType
  <2>2. e \in Event /\ ~IsStart(e) /\ ~IsDelta(e)
    BY DEF Event, IsStart, IsDelta
  <2> HIDE DEF u, e
  <2>3. more \in Seq(Event) /\ \A m \in DOMAIN more : ~IsStart(more[m]) /\ ~IsDelta(more[m])
    BY <2>2
  <2> HIDE DEF more
  <2>4. /\ u.events = s.events \o more /\ u.next = s.next
        /\ u.opened = s.opened /\ u.text = s.text /\ u.thinking = s.thinking
    BY <1>1, <2>1 DEF ConvType
  <2>5. TextsLink(bl, u, s.events \o more, h)
    BY <1>1, <2>3, <2>4, NothingSaid DEF Said
  <2>6. Said(bl, u, h)
    BY <2>4, <2>5 DEF Said
  <2> QED
    BY <2>6 DEF u
<1> QED
  BY <1>2, <1>3

\* The message ends.
LEMMA DeltaAndStopSays ==
  ASSUME NEW bl, NEW s, ConvOK(s), NEW h, Said(bl, s, h)
  PROVE  Said(bl, DeltaAndStop(s), h)
<1>1. /\ s \in ConvType
      /\ \A t \in Tools : s.opened[t] # NoBlock => s.opened[t] \in 0..(s.next - 1)
  BY ToolBlocks
<1> DEFINE d == [type |-> "message_delta", reason |-> StopReason(s)]
           e == [type |-> "message_stop"]
           delta == IF s.deltaSent THEN <<>> ELSE <<d>>
           stop == IF s.stopSent THEN <<>> ELSE <<e>>
           more == delta \o stop
           u == DeltaAndStop(s)
<1>2. u = [s EXCEPT !.events = s.events \o more, !.deltaSent = TRUE, !.stopSent = TRUE]
  BY <1>1 DEF DeltaAndStop, Emit, ConvType
<1>3. d \in Event /\ ~IsStart(d) /\ ~IsDelta(d) /\ e \in Event /\ ~IsStart(e) /\ ~IsDelta(e)
  BY StopReasonType DEF Event, IsStart, IsDelta
<1> HIDE DEF u, d, e
<1>4. /\ delta \in Seq(Event) /\ \A m \in DOMAIN delta : ~IsStart(delta[m]) /\ ~IsDelta(delta[m])
      /\ stop \in Seq(Event) /\ \A m \in DOMAIN stop : ~IsStart(stop[m]) /\ ~IsDelta(stop[m])
  BY <1>3
<1> HIDE DEF delta, stop
<1>5. more \in Seq(Event) /\ \A m \in DOMAIN more : ~IsStart(more[m]) /\ ~IsDelta(more[m])
  BY <1>4, Appended
<1> HIDE DEF more
<1>6. /\ u.events = s.events \o more /\ u.next = s.next
      /\ u.opened = s.opened /\ u.text = s.text /\ u.thinking = s.thinking
  BY <1>1, <1>2 DEF ConvType
<1>7. TextsLink(bl, u, s.events \o more, h)
  BY <1>1, <1>5, <1>6, NothingSaid DEF Said
<1>8. Said(bl, u, h)
  BY <1>6, <1>7 DEF Said
<1> QED
  BY <1>8 DEF u

\* A block starts, unless the right one is open, and gets the text.
LEMMA TextSays ==
  ASSUME NEW bl, NEW b, NEW ph, NEW rs, NEW s, Converting(bl, b, ph, rs, s), NEW h,
         Said(bl, s, h), NEW q \in TextKinds, NEW v \in ConvType, Distinct(v),
         \/ v = s
         \/ /\ v.events = s.events \o <<Start(s.next, Kind(q, NoTool))>>
            /\ v.next = s.next + 1 /\ v.opened = s.opened
            /\ v.text \in {NoBlock, s.next} /\ v.thinking \in {NoBlock, s.next},
         v.text # NoBlock => q = "text", v.thinking # NoBlock => q = "thinking",
         NEW i \in {v.text, v.thinking} \ {NoBlock}, NEW u,
         u.events = v.events \o <<Delta(i, 1)>>, u.next = v.next, u.text = v.text,
         u.thinking = v.thinking, u.opened = v.opened
  PROVE  Said(bl, u, h \o <<q>>)
<1> DEFINE k == Kind(q, NoTool)
<1>1. k \in Kinds /\ k.kind = q
  BY DEF Kinds, Kind, TextKinds
<1> HIDE DEF k
<1>2. s \in ConvType /\ Distinct(s) /\ BlockLink(bl, b, s.next, Open(s), s.events) /\ s.next \in Nat
  BY ConvFields DEF Converting, ConvOK, Link
<1>3. Said(bl, v, h)
  <2>1. CASE v = s
    BY <2>1
  <2>2. CASE v # s
    <3>1. /\ v.events = s.events \o <<Start(s.next, k)>> /\ v.next = s.next + 1
          /\ v.opened = s.opened
          /\ v.text \in {NoBlock, s.next} /\ v.thinking \in {NoBlock, s.next}
      BY <2>2 DEF k
    <3>2. s.next # NoBlock
      BY <1>2 DEF NoBlock
    <3>3. (v.text = s.next => k.kind = "text") /\ (v.thinking = s.next => k.kind = "thinking")
      BY <1>1, <3>2
    <3>4. TextsLink(bl, s, s.events, h)
      BY DEF Said
    <3>5. \A t \in Tools : v.opened[t] = s.opened[t] \/ (v.opened[t] = s.next /\ k.kind = "tool")
      BY <3>1
    <3>6. TextsLink(bl, v, s.events \o <<Start(s.next, k)>>, h)
      BY <1>1, <1>2, <3>1, <3>3, <3>4, <3>5, BlockBegun
    <3> QED
      BY <3>1, <3>6 DEF Said
  <2> QED
    BY <2>1, <2>2
<1>4. (i = v.text => q = "text") /\ (i = v.thinking => q = "thinking")
  OBVIOUS
<1>5. TextsLink(bl, u, v.events \o <<Delta(i, 1)>>, h \o <<q>>)
  BY <1>3, <1>4, TextSaid DEF Said
<1> QED
  BY <1>5 DEF Said

\* A reasoning text.
LEMMA ThinkingSays ==
  ASSUME NEW bl, NEW b, NEW ph, NEW rs, NEW s, Converting(bl, b, ph, rs, s),
         ~s.closed, s.started, NEW h, Said(bl, s, h)
  PROVE  Said(bl, Thinking(s), h \o <<"thinking">>)
<1> DEFINE s1 == StopText(s)
           k == Kind("thinking", NoTool)
           s2 == IF s1.thinking # NoBlock THEN s1
                 ELSE [Emit(s1, <<Start(s1.next, k)>>)
                         EXCEPT !.thinking = s1.next, !.next = @ + 1]
           s3 == Emit(s2, <<Delta(s2.thinking, 1)>>)
<1>1. Thinking(s) = s3
  BY DEF Thinking
<1>2. Converting(bl, b, ph, rs, s3)
  BY <1>1, ThinkingLink
<1>3. Converting(bl, b, ph, rs, s1) /\ s1.text = NoBlock
  BY StopTextLink
<1>4. Said(bl, s1, h)
  BY StopSays DEF Converting
<1> HIDE DEF s1
<1>5. s1 \in ConvType /\ s1.next \in Nat /\ s1.next # NoBlock /\ s1.events \in Seq(Event)
  BY <1>3, ToolBlocks DEF Converting, NoBlock
<1>6. /\ s2 \in ConvType /\ s2.text = NoBlock /\ s2.thinking # NoBlock
      /\ \/ s2 = s1
         \/ /\ s2.events = s1.events \o <<Start(s1.next, k)>>
            /\ s2.next = s1.next + 1 /\ s2.opened = s1.opened /\ s2.thinking = s1.next
  <2>1. CASE s1.thinking # NoBlock
    BY <1>3, <1>5, <2>1
  <2>2. CASE s1.thinking = NoBlock
    <3> DEFINE es == s1.events \o <<Start(s1.next, k)>>
    <3>1. es \in Seq(Event) /\ s1.next \in BlockNo /\ s1.next + 1 \in Nat
      <4>1. k \in Kinds
        BY DEF Kinds, Kind
      <4>2. Start(s1.next, k) \in Event
        BY <1>5, <4>1, BlockEvent
      <4> QED
        BY <1>5, <4>2 DEF BlockNo
    <3>2. s2 = [s1 EXCEPT !.events = es, !.thinking = s1.next, !.next = s1.next + 1]
      BY <1>5, <2>2 DEF Emit, ConvType
    <3> HIDE DEF es, s2, k
    <3>3. s2 \in ConvType
      BY <1>5, <3>1, <3>2 DEF ConvType
    <3>4. /\ s2.events = es /\ s2.text = s1.text /\ s2.thinking = s1.next
          /\ s2.next = s1.next + 1 /\ s2.opened = s1.opened
      BY <1>5, <3>2 DEF ConvType
    <3> QED
      BY <1>3, <1>5, <3>3, <3>4 DEF es
  <2> QED
    BY <2>1, <2>2
<1> HIDE DEF s2
<1>7. /\ s3.events = s2.events \o <<Delta(s2.thinking, 1)>> /\ s3.next = s2.next
      /\ s3.text = s2.text /\ s3.thinking = s2.thinking /\ s3.opened = s2.opened
  BY <1>6 DEF Emit, ConvType
<1> HIDE DEF s3
<1>8. Distinct(s2)
  BY <1>2, <1>7, ZenonT(60) DEF Converting, ConvOK, Distinct
<1>9. /\ \/ s2 = s1
         \/ /\ s2.events = s1.events \o <<Start(s1.next, k)>>
            /\ s2.next = s1.next + 1 /\ s2.opened = s1.opened
            /\ s2.text \in {NoBlock, s1.next} /\ s2.thinking \in {NoBlock, s1.next}
      /\ s2.thinking \in {s2.text, s2.thinking} \ {NoBlock}
  BY <1>6
<1>10. Said(bl, s3, h \o <<"thinking">>)
  <2>1. "thinking" \in TextKinds
    BY DEF TextKinds
  <2> HIDE DEF k
  <2> QED
    BY <1>3, <1>4, <1>6, <1>7, <1>8, <1>9, <2>1, TextSays DEF k
<1> QED
  BY <1>1, <1>10

\* A text.
LEMMA TextOnlySays ==
  ASSUME NEW bl, NEW b, NEW ph, NEW rs, NEW s, Converting(bl, b, ph, rs, s),
         ~s.closed, s.started, NEW h, Said(bl, s, h)
  PROVE  Said(bl, Text(s), h \o <<"text">>)
<1> DEFINE s1 == StopThinking(s)
           k == Kind("text", NoTool)
           s2 == IF s1.text # NoBlock THEN s1
                 ELSE [Emit(s1, <<Start(s1.next, k)>>)
                         EXCEPT !.text = s1.next, !.next = @ + 1]
           s3 == Emit(s2, <<Delta(s2.text, 1)>>)
<1>1. Text(s) = s3
  BY DEF Text
<1>2. Converting(bl, b, ph, rs, s3)
  BY <1>1, TextLink
<1>3. Converting(bl, b, ph, rs, s1) /\ s1.thinking = NoBlock
  BY StopThinkingLink
<1>4. Said(bl, s1, h)
  BY StopSays DEF Converting
<1> HIDE DEF s1
<1>5. s1 \in ConvType /\ s1.next \in Nat /\ s1.next # NoBlock /\ s1.events \in Seq(Event)
  BY <1>3, ToolBlocks DEF Converting, NoBlock
<1>6. /\ s2 \in ConvType /\ s2.thinking = NoBlock /\ s2.text # NoBlock
      /\ \/ s2 = s1
         \/ /\ s2.events = s1.events \o <<Start(s1.next, k)>>
            /\ s2.next = s1.next + 1 /\ s2.opened = s1.opened /\ s2.text = s1.next
  <2>1. CASE s1.text # NoBlock
    BY <1>3, <1>5, <2>1
  <2>2. CASE s1.text = NoBlock
    <3> DEFINE es == s1.events \o <<Start(s1.next, k)>>
    <3>1. es \in Seq(Event) /\ s1.next \in BlockNo /\ s1.next + 1 \in Nat
      <4>1. k \in Kinds
        BY DEF Kinds, Kind
      <4>2. Start(s1.next, k) \in Event
        BY <1>5, <4>1, BlockEvent
      <4> QED
        BY <1>5, <4>2 DEF BlockNo
    <3>2. s2 = [s1 EXCEPT !.events = es, !.text = s1.next, !.next = s1.next + 1]
      BY <1>5, <2>2 DEF Emit, ConvType
    <3> HIDE DEF es, s2, k
    <3>3. s2 \in ConvType
      BY <1>5, <3>1, <3>2 DEF ConvType
    <3>4. /\ s2.events = es /\ s2.thinking = s1.thinking /\ s2.text = s1.next
          /\ s2.next = s1.next + 1 /\ s2.opened = s1.opened
      BY <1>5, <3>2 DEF ConvType
    <3> QED
      BY <1>3, <1>5, <3>3, <3>4 DEF es
  <2> QED
    BY <2>1, <2>2
<1> HIDE DEF s2
<1>7. /\ s3.events = s2.events \o <<Delta(s2.text, 1)>> /\ s3.next = s2.next
      /\ s3.text = s2.text /\ s3.thinking = s2.thinking /\ s3.opened = s2.opened
  BY <1>6 DEF Emit, ConvType
<1> HIDE DEF s3
<1>8. Distinct(s2)
  BY <1>2, <1>7, ZenonT(60) DEF Converting, ConvOK, Distinct
<1>9. /\ \/ s2 = s1
         \/ /\ s2.events = s1.events \o <<Start(s1.next, k)>>
            /\ s2.next = s1.next + 1 /\ s2.opened = s1.opened
            /\ s2.text \in {NoBlock, s1.next} /\ s2.thinking \in {NoBlock, s1.next}
      /\ s2.text \in {s2.text, s2.thinking} \ {NoBlock}
  BY <1>6
<1>10. Said(bl, s3, h \o <<"text">>)
  <2>1. "text" \in TextKinds
    BY DEF TextKinds
  <2> HIDE DEF k
  <2> QED
    BY <1>3, <1>4, <1>6, <1>7, <1>8, <1>9, <2>1, TextSays DEF k
<1> QED
  BY <1>1, <1>10

\* What is said does not depend on the rest of the converter's state.
LEMMA SaidStill ==
  ASSUME NEW bl, NEW s, NEW u, NEW es, NEW h, u.next = s.next, u.text = s.text,
         u.thinking = s.thinking, u.opened = s.opened
  PROVE  TextsLink(bl, s, es, h) => TextsLink(bl, u, es, h)
<1>1. ASSUME NEW ks, NEW at, AtEnd(s, h, ks, at) PROVE AtEnd(u, h, ks, at)
  BY <1>1 DEF AtEnd
<1> QED
  BY <1>1 DEF TextsLink

\* A tool call: what follows it starts a block of its own.
LEMMA ToolCallSays ==
  ASSUME NEW bl, NEW b, NEW ph, NEW rs, NEW s, Converting(bl, b, ph, rs, s),
         ~s.closed, NEW c \in CallType, NEW h, Said(bl, s, h)
  PROVE  Said(bl, ToolCall(s, c), h)
<1> DEFINE s0 == StopThinking(s)
           s1 == StopText(s0)
           s2 == [s1 EXCEPT !.sawTool = TRUE, !.args[c.tool] = IF c.args THEN @ + 1 ELSE @]
           k == Kind("tool", c.tool)
           u == [Emit(s2, <<Start(s2.next, k)>>)
                   EXCEPT !.opened[c.tool] = s2.next, !.next = @ + 1]
<1>1. c.tool \in Tools /\ k \in Kinds /\ k.kind = "tool"
  BY DEF CallType, Kinds, Kind
<1>2. /\ Converting(bl, b, ph, rs, s0) /\ s0.thinking = NoBlock /\ ~s0.closed
      /\ Said(bl, s0, h)
  <2>1. Converting(bl, b, ph, rs, s0) /\ Same(s, s0) /\ s0.thinking = NoBlock
    BY StopThinkingLink
  <2>2. Said(bl, s0, h)
    BY StopSays DEF Converting
  <2> QED
    BY <2>1, <2>2 DEF Same, Kept
<1> HIDE DEF s0
<1>3. /\ Converting(bl, b, ph, rs, s1) /\ s1.thinking = NoBlock /\ s1.text = NoBlock
      /\ Said(bl, s1, h)
  <2>1. Converting(bl, b, ph, rs, s1) /\ s1.text = NoBlock /\ s1.thinking = NoBlock
    BY <1>2, StopTextLink
  <2>2. Said(bl, s1, h)
    BY <1>2, StopSays DEF Converting
  <2> QED
    BY <2>1, <2>2
<1>4. ToolCall(s, c) = IF c.named /\ s2.opened[c.tool] = NoBlock THEN u ELSE s2
  BY DEF ToolCall, s0
<1> HIDE DEF s1, k
<1>5. /\ s1 \in ConvType /\ s1.next # NoBlock /\ Distinct(s1)
      /\ BlockLink(bl, b, s1.next, Open(s1), s1.events)
  <2>1. s1 \in ConvType /\ Distinct(s1) /\ BlockLink(bl, b, s1.next, Open(s1), s1.events)
    BY <1>3 DEF Converting, ConvOK, Link
  <2>2. s1.next # NoBlock
    <3>1. s1.next \in Nat
      BY <2>1, ConvFields
    <3> QED
      BY <3>1 DEF NoBlock
  <2> QED
    BY <2>1, <2>2
<1>6. /\ s2.events = s1.events /\ s2.next = s1.next /\ s2.text = s1.text
      /\ s2.thinking = s1.thinking /\ s2.opened = s1.opened
  BY <1>5 DEF ConvType
<1> HIDE DEF u
<1>7. Said(bl, s2, h)
  BY <1>3, <1>6, SaidStill DEF Said
<1>8. CASE c.named /\ s2.opened[c.tool] = NoBlock
  <2>1. /\ u.events = s1.events \o <<Start(s1.next, k)>> /\ u.next = s1.next + 1
        /\ u.text = s1.text /\ u.thinking = s1.thinking
        /\ u.opened = [s1.opened EXCEPT ![c.tool] = s1.next]
    BY <1>5, <1>6 DEF Emit, ConvType, u
  <2> HIDE DEF s2
  <2>2. \A t \in Tools : u.opened[t] = s1.opened[t] \/ (u.opened[t] = s1.next /\ k.kind = "tool")
    <3>1. s1.opened \in [Tools -> BlockNo]
      BY <1>5, ConvFields
    <3> QED
      BY <1>1, <2>1, <3>1
  <2>3. TextsLink(bl, u, s1.events \o <<Start(s1.next, k)>>, h)
    <3>1. u.text = NoBlock /\ u.thinking = NoBlock /\ TextsLink(bl, s1, s1.events, h)
      BY <1>3, <2>1 DEF Said
    <3> QED
      BY <1>1, <1>5, <2>1, <2>2, <3>1, BlockBegun
  <2> QED
    BY <1>4, <1>8, <2>1, <2>3 DEF Said
<1>9. CASE ~(c.named /\ s2.opened[c.tool] = NoBlock)
  BY <1>4, <1>7, <1>9
<1> QED
  BY <1>8, <1>9

\* The end of the content: only the blocks of tool calls get something.
LEMMA FinalContentSays ==
  ASSUME NEW bl, NEW b, NEW ph, NEW rs, NEW s, Converting(bl, b, ph, rs, s),
         NEW h, Said(bl, s, h)
  PROVE  Said(bl, FinalContent(s), h)
<1>1. CASE s.closed
  BY <1>1 DEF FinalContent
<1>2. CASE ~s.closed
  <2> DEFINE s0 == StopThinking(s)
             s1 == StopText(s0)
             more == ToolEnds(s1)
             u == FinalContent(s)
  <2>1. Converting(bl, b, ph, rs, s0) /\ ~s0.closed /\ Said(bl, s0, h)
    <3>1. Converting(bl, b, ph, rs, s0) /\ Same(s, s0)
      BY <1>2, StopThinkingLink
    <3>2. Said(bl, s0, h)
      BY StopSays DEF Converting
    <3> QED
      BY <1>2, <3>1, <3>2 DEF Same, Kept
  <2> HIDE DEF s0
  <2>2. Converting(bl, b, ph, rs, s1) /\ Said(bl, s1, h)
    <3>1. Converting(bl, b, ph, rs, s1)
      BY <2>1, StopTextLink
    <3>2. Said(bl, s1, h)
      BY <2>1, StopSays DEF Converting
    <3> QED
      BY <3>1, <3>2
  <2>3. u = [Emit(s1, more) EXCEPT !.closed = TRUE]
    BY <1>2 DEF FinalContent, s0
  <2> HIDE DEF s1, u
  <2>4. /\ s1 \in ConvType /\ Distinct(s1)
        /\ \A t \in Tools : s1.opened[t] # NoBlock => s1.opened[t] \in 0..(s1.next - 1)
    BY <2>2, ToolBlocks DEF Converting, ConvOK
  <2>5. /\ more \in Seq(Event)
        /\ \A m \in DOMAIN more :
             \E t \in Tools :
               /\ s1.opened[t] # NoBlock /\ more[m].index = s1.opened[t]
               /\ \/ IsStop(more[m])
                  \/ IsDelta(more[m]) /\ more[m].size = s1.args[t]
    BY <2>4, ToolEndsWork
  <2> HIDE DEF more
  <2>6. \A m \in DOMAIN more :
          /\ ~IsStart(more[m])
          /\ IsDelta(more[m]) =>
               \E t \in Tools : s1.opened[t] # NoBlock /\ more[m].index = s1.opened[t]
    BY <2>5 DEF IsStart, IsStop, IsDelta
  <2>7. /\ u.events = s1.events \o more /\ u.next = s1.next /\ u.opened = s1.opened
        /\ u.text = s1.text /\ u.thinking = s1.thinking
    BY <2>3, <2>4 DEF Emit, ConvType
  <2>8. TextsLink(bl, u, s1.events \o more, h)
    BY <2>2, <2>4, <2>5, <2>6, <2>7, NothingSaid DEF Said
  <2>9. Said(bl, u, h)
    BY <2>7, <2>8 DEF Said
  <2> QED
    BY <2>9 DEF u
<1> QED
  BY <1>1, <1>2

\* Nothing more.
LEMMA NothingMore ==
  ASSUME NEW S, NEW q \in Seq(S)
  PROVE  q \o <<>> = q
  OBVIOUS

\* What there is to hear in a payload.
HeardWith(h, p) == h \o (IF p.thinking THEN <<"thinking">> ELSE <<>>)
                     \o (IF p.text THEN <<"text">> ELSE <<>>)

\* A chunk of the upstream's stream says what is heard in it.
LEMMA ConvertSays ==
  ASSUME NEW bl, NEW b \in Nat, NEW ph, NEW rs, NEW s, Converting(bl, b, ph, rs, s),
         s.events = <<>>, s.finish # "" <=> s.closed, NEW p \in PayloadType,
         s.finish # "" => ~p.thinking /\ ~p.text /\ p.calls = <<>> /\ p.finish = "",
         NEW h, Said(bl, s, h)
  PROVE  Said(bl, Convert(s, p), HeardWith(h, p))
<1> DEFINE s1 == MessageStarted(s)
           s2 == IF p.thinking THEN Thinking(s1) ELSE s1
           s3 == IF p.text THEN Text(s2) ELSE s2
           s4 == IF p.calls = <<>> THEN s3 ELSE ToolCall(s3, p.calls[1])
           s5 == IF p.finish = "" THEN s4 ELSE FinalContent([s4 EXCEPT !.finish = p.finish])
           h2 == h \o (IF p.thinking THEN <<"thinking">> ELSE <<>>)
           h3 == h2 \o (IF p.text THEN <<"text">> ELSE <<>>)
           u == Convert(s, p)
<1>1. s \in ConvType /\ (s.closed => s.started) /\ ConvOK(s)
  BY DEF Converting, ConvOK
<1>2. u = IF s5.finish # "" /\ p.usage THEN DeltaAndStop(s5) ELSE s5
  <2>1. [s EXCEPT !.events = <<>>] = s
    BY <1>1 DEF ConvType
  <2> QED
    BY <2>1 DEF Convert
<1>3. /\ Converting(bl, b, ph, rs, s1) /\ s1.started /\ s1.closed = s.closed
      /\ s1.finish = s.finish /\ Said(bl, s1, h)
  <2>1. Converting(bl, b, ph, rs, s1) /\ s1.started /\ Same([s EXCEPT !.started = TRUE], s1)
    BY <1>1, MessageStartedLink
  <2>2. s1.closed = s.closed /\ s1.finish = s.finish
    BY <1>1, <2>1 DEF Same, Kept, ConvType
  <2>3. Said(bl, s1, h)
    BY <1>1, MessageStartedSays
  <2> QED
    BY <2>1, <2>2, <2>3
<1> HIDE DEF s1, u
<1>4. h \in Seq(TextKinds)
  BY DEF Said, TextsLink, Laid
<1>5. Converting(bl, b, ph, rs, s5) /\ Said(bl, s5, h3)
  <2>1. CASE s.closed
    <3>1. s5 = s1 /\ h2 = h \o <<>> /\ h3 = h2 \o <<>>
      BY <2>1
    <3>2. h3 = h
      BY <1>4, <3>1, NothingMore
    <3> HIDE DEF s5, h3
    <3> QED
      BY <1>3, <3>1, <3>2
  <2>2. CASE ~s.closed
    <3>1. /\ Converting(bl, b, ph, rs, s2) /\ ~s2.closed /\ s2.started /\ s2.finish = ""
          /\ Said(bl, s2, h2)
      <4>1. CASE p.thinking
        <5>1. Converting(bl, b, ph, rs, s2) /\ Same(s1, s2)
          BY <1>3, <2>2, <4>1, ThinkingLink
        <5>2. Said(bl, s2, h2)
          BY <1>3, <2>2, <4>1, ThinkingSays
        <5> QED
          BY <1>3, <2>2, <5>1, <5>2 DEF Same, Kept
      <4>2. CASE ~p.thinking
        <5>1. h2 = h
          <6>1. h2 = h \o <<>>
            BY <4>2
          <6> QED
            BY <1>4, <6>1, NothingMore
        <5>2. s2 = s1
          BY <4>2
        <5> HIDE DEF h2, s2
        <5> QED
          BY <1>3, <2>2, <5>1, <5>2
      <4> QED
        BY <4>1, <4>2
    <3>2. h2 \in Seq(TextKinds)
      BY <3>1 DEF Said, TextsLink, Laid
    <3> HIDE DEF s2, h2
    <3>3. /\ Converting(bl, b, ph, rs, s3) /\ ~s3.closed /\ s3.started /\ s3.finish = ""
          /\ Said(bl, s3, h3)
      <4>1. CASE p.text
        <5>1. Converting(bl, b, ph, rs, s3) /\ Same(s2, s3)
          BY <3>1, <4>1, TextLink
        <5>2. Said(bl, s3, h3)
          BY <3>1, <4>1, TextOnlySays
        <5> QED
          BY <3>1, <5>1, <5>2 DEF Same, Kept
      <4>2. CASE ~p.text
        <5>1. h3 = h2
          <6>1. h3 = h2 \o <<>>
            BY <4>2
          <6> QED
            BY <3>2, <6>1, NothingMore
        <5>2. s3 = s2
          BY <4>2
        <5> HIDE DEF h3, s3
        <5> QED
          BY <3>1, <5>1, <5>2
      <4> QED
        BY <4>1, <4>2
    <3> HIDE DEF s3, h3
    <3>4. /\ Converting(bl, b, ph, rs, s4) /\ ~s4.closed /\ s4.started /\ Said(bl, s4, h3)
      <4>1. CASE p.calls = <<>>
        BY <3>3, <4>1
      <4>2. CASE p.calls # <<>>
        <5> DEFINE c == p.calls[1]
        <5>1. c \in CallType
          <6>1. PICK x \in CallType : p.calls = <<x>>
            BY <4>2 DEF PayloadType
          <6>2. <<x>>[1] = x /\ c = <<x>>[1]
            BY <6>1
          <6> QED
            BY <6>2
        <5>2. s4 = ToolCall(s3, c)
          BY <4>2
        <5> HIDE DEF c, s4
        <5>3. Converting(bl, b, ph, rs, s4) /\ Kept(s3, s4)
          BY <3>3, <5>1, <5>2, ToolCallLink
        <5>4. Said(bl, s4, h3)
          BY <3>3, <5>1, <5>2, ToolCallSays
        <5> QED
          BY <3>3, <5>3, <5>4 DEF Kept
      <4> QED
        BY <4>1, <4>2
    <3> HIDE DEF s4
    <3>5. CASE p.finish = ""
      BY <3>4, <3>5
    <3>6. CASE p.finish # ""
      <4> DEFINE f == [s4 EXCEPT !.finish = p.finish]
      <4>1. p.finish \in {"stop", "length", "tool_calls"}
        BY <3>6 DEF PayloadType
      <4>2. Converting(bl, b, ph, rs, f) /\ Said(bl, f, h3)
        <5>1. s4 \in ConvType
          BY <3>4 DEF Converting, ConvOK
        <5>2. f \in ConvType
          BY <4>1, <5>1 DEF ConvType
        <5>3. /\ f.events = s4.events /\ f.text = s4.text /\ f.thinking = s4.thinking
              /\ f.next = s4.next /\ f.opened = s4.opened /\ f.args = s4.args
              /\ f.sawTool = s4.sawTool /\ f.started = s4.started /\ f.closed = s4.closed
              /\ f.deltaSent = s4.deltaSent /\ f.stopSent = s4.stopSent
          BY <5>1 DEF ConvType
        <5> HIDE DEF f
        <5>4. Converting(bl, b, ph, rs, f)
          BY <3>4, <5>2, <5>3, FinishSaid
        <5>5. Said(bl, f, h3)
          BY <3>4, <5>3, SaidStill DEF Said
        <5> QED
          BY <5>4, <5>5
      <4>3. s5 = FinalContent(f)
        BY <3>6
      <4> HIDE DEF f, s5
      <4>4. Converting(bl, b, ph, rs, s5)
        BY <4>2, <4>3, FinalContentLink
      <4>5. Said(bl, s5, h3)
        BY <4>2, <4>3, FinalContentSays
      <4> QED
        BY <4>4, <4>5
    <3> QED
      BY <3>5, <3>6
  <2> QED
    BY <2>1, <2>2
<1>6. h3 = HeardWith(h, p)
  BY DEF HeardWith
<1> HIDE DEF s5, h3
<1>7. Said(bl, u, h3)
  <2>1. CASE s5.finish # "" /\ p.usage
    BY <1>2, <1>5, <2>1, DeltaAndStopSays DEF Converting
  <2>2. CASE ~(s5.finish # "" /\ p.usage)
    BY <1>2, <1>5, <2>2
  <2> QED
    BY <2>1, <2>2
<1> QED
  BY <1>6, <1>7 DEF u

\* The end of the upstream's stream says nothing more.
LEMMA FinalizeSays ==
  ASSUME NEW bl, NEW b, NEW ph, NEW rs, NEW s, Converting(bl, b, ph, rs, s), s.events = <<>>,
         NEW h, Said(bl, s, h)
  PROVE  Said(bl, Finalize(s), h)
<1> DEFINE f == FinalContent(s)
<1>1. Finalize(s) = DeltaAndStop(f)
  <2>1. s \in ConvType
    BY DEF Converting, ConvOK
  <2>2. [s EXCEPT !.events = <<>>] = s
    BY <2>1 DEF ConvType
  <2> QED
    BY <2>2 DEF Finalize
<1>2. Converting(bl, b, ph, rs, f)
  BY FinalContentLink
<1>3. Said(bl, f, h)
  BY FinalContentSays
<1> HIDE DEF f
<1> QED
  BY <1>1, <1>2, <1>3, DeltaAndStopSays DEF Converting
-----------------------------------------------------------------------------
(* The invariant, and what is left of it when the message has ended.       *)

TextsInv == StreamInv /\ TextsLink(blocks, conv, pending, heard)

\* Nothing is said yet.
LEMMA InitSilent == Init => TextsInv
<1> SUFFICES ASSUME Init PROVE TextsLink(blocks, conv, pending, heard)
  BY InitLinked DEF TextsInv
<1> DEFINE at == [i \in 0..0 |-> 0]
<1>1. /\ pending = <<>> /\ blocks = <<>> /\ heard = <<>> /\ conv.next = 0
      /\ conv.text = NoBlock /\ conv.thinking = NoBlock
      /\ \A t \in Tools : conv.opened[t] = NoBlock
  BY DEF Init, Conv0
<1>2. /\ <<>> \in Seq(TextKinds) /\ DOMAIN <<>> = {} /\ Len(<<>>) = 0 /\ 0..(0 - 1) = {}
      /\ <<>> \in [0..(0 - 1) -> TextKinds \cup {"tool"}]
  OBVIOUS
<1>3. at \in [0..0 -> 0..Len(<<>>)] /\ at[0] = 0
  BY <1>2
<1> HIDE DEF at
<1>4. Laid(<<>>, 0, <<>>, <<>>, <<>>, at)
  BY <1>2, <1>3 DEF Laid
<1>5. AtEnd(conv, <<>>, <<>>, at)
  BY <1>1 DEF AtEnd
<1> QED
  BY <1>1, <1>4, <1>5 DEF TextsLink

\* A payload is heard and converted at once; what is said of it is not lost on the way.
LEMMA StepSays == TextsInv /\ [Next]_vars => TextsInv'
<1> SUFFICES ASSUME TextsInv, [Next]_vars PROVE TextsLink(blocks, conv, pending, heard)'
  BY StepLinked DEF TextsInv
<1>1. ConvOK(conv) /\ LoopInv /\ TextsLink(blocks, conv, pending, heard)
  BY DEF TextsInv, StreamInv
<1>2. PICK b \in Nat : Link(blocks, b, phase, reason, conv, pending)
  BY DEF TextsInv, StreamInv
<1>3. ASSUME pc = "read"
      PROVE  /\ Converting(blocks, b, phase, reason, conv) /\ conv.events = <<>>
             /\ Said(blocks, conv, heard)
  BY <1>1, <1>2, <1>3 DEF LoopInv, Converting, Said
<1>4. ASSUME NEW s, s \in ConvType, NEW h, Said(blocks, s, h), Converted(s),
             heard' = h, UNCHANGED clientVars
      PROVE  TextsLink(blocks, conv, pending, heard)'
  <2>1. blocks' = blocks /\ pending' = s.events /\ conv' = [s EXCEPT !.events = <<>>]
    BY <1>4 DEF clientVars, Converted
  <2>2. /\ conv'.next = s.next /\ conv'.text = s.text /\ conv'.thinking = s.thinking
        /\ conv'.opened = s.opened
    BY <1>4, <2>1 DEF ConvType
  <2>3. TextsLink(blocks, conv', s.events, h)
    BY <1>4, <2>2, SaidStill DEF Said
  <2> QED
    BY <1>4, <2>1, <2>3
<1>5. ASSUME NEW p \in Payloads, ReadPayload(p)
      PROVE  TextsLink(blocks, conv, pending, heard)'
  <2> DEFINE u == Convert(conv, p)
             h == HeardWith(heard, p)
  <2>1. /\ pc = "read" /\ ~sawDone /\ UNCHANGED clientVars /\ Converted(u) /\ heard' = h
        /\ conv.finish # "" => ~p.thinking /\ ~p.text /\ p.calls = <<>> /\ p.finish = ""
    BY <1>5 DEF ReadPayload, HeardWith
  <2>2. p \in PayloadType /\ (conv.finish # "" <=> conv.closed)
    BY <1>1, <2>1, StreamAssumption DEF LoopInv
  <2>3. u \in ConvType
    <3>1. ChunkConverted(blocks, b, phase, reason, conv, p, u)
      BY <1>3, <2>1, <2>2, ConvertLink
    <3> QED
      BY <3>1 DEF ChunkConverted, Converting, ConvOK
  <2>4. Said(blocks, u, h)
    BY <1>3, <2>1, <2>2, ConvertSays
  <2> HIDE DEF u, h
  <2> QED
    BY <1>4, <2>1, <2>3, <2>4
<1>6. ASSUME pc = "read" PROVE Finalize(conv) \in ConvType /\ Said(blocks, Finalize(conv), heard)
  <2>1. Converting(blocks, b, phase, reason, Finalize(conv))
    BY <1>3, <1>6, FinalizeLink
  <2>2. Said(blocks, Finalize(conv), heard)
    BY <1>3, <1>6, FinalizeSays
  <2> QED
    BY <2>1, <2>2 DEF Converting, ConvOK
<1>7. ASSUME ReadDone PROVE TextsLink(blocks, conv, pending, heard)'
  <2>1. pc = "read" /\ Converted(Finalize(conv)) /\ heard' = heard /\ UNCHANGED clientVars
    BY <1>7 DEF ReadDone, heardVars
  <2> QED
    BY <1>4, <1>6, <2>1
<1>8. ASSUME ReadEOF PROVE TextsLink(blocks, conv, pending, heard)'
  <2> DEFINE u == IF sawDone THEN conv ELSE Finalize(conv)
  <2>1. pc = "read" /\ Converted(u) /\ heard' = heard /\ UNCHANGED clientVars
    BY <1>8 DEF ReadEOF, heardVars
  <2>2. u \in ConvType /\ Said(blocks, u, heard)
    BY <1>1, <1>3, <1>6, <2>1 DEF ConvOK
  <2> HIDE DEF u
  <2> QED
    BY <1>4, <2>1, <2>2
<1>9. ASSUME WriteEvent PROVE TextsLink(blocks, conv, pending, heard)'
  <2>1. conv' = conv /\ heard' = heard
    BY <1>9 DEF WriteEvent, heardVars
  <2>2. BlockLink(blocks, b, conv.next, Open(conv), pending)
    BY <1>2 DEF Link
  <2>3. TextsLink(blocks', conv, pending', heard)
    BY <1>1, <1>9, <2>2, TextsSeen
  <2> QED
    BY <2>1, <2>3
<1>10. ASSUME ReadFails \/ WriteFails \/ WriteDone \/ UNCHANGED vars
       PROVE  TextsLink(blocks, conv, pending, heard)'
  <2>1. conv' = conv /\ heard' = heard /\ blocks' = blocks /\ pending' = pending
    BY <1>10 DEF ReadFails, WriteFails, WriteDone, vars, heardVars, clientVars
  <2> QED
    BY <1>1, <2>1
<1> QED
  BY <1>5, <1>7, <1>8, <1>9, <1>10 DEF Next

\* However texts, reasoning texts and tool calls alternate, and wherever reading and
\* writing stop: the texts converted so far lie in the blocks one after the other, without
\* a gap, in the order in which the upstream sent them.
THEOREM StreamTextsInOrder == Spec => []TextsInv
<1> QED
  BY InitSilent, StepSays, PTL DEF Spec

\* What the client shows once all events are written.
LEMMA AllShown ==
  ASSUME TextsInv, pending = <<>>
  PROVE  Shown = heard
<1> DEFINE n == Cardinality(DOMAIN blocks)
           ss == [k \in 1..n |->
                    IF blocks[k - 1].kind.kind = "tool" THEN <<>>
                    ELSE [m \in 1..blocks[k - 1].size |-> blocks[k - 1].kind.kind]]
<1>1. PICK ks, at : Laid(blocks, conv.next, <<>>, heard, ks, at)
  BY DEF TextsInv, TextsLink
<1>2. conv.next \in Nat
  BY ConvFields DEF TextsInv, StreamInv, ConvOK
<1>3. DOMAIN blocks = 0..(conv.next - 1)
  <2>1. PICK b \in Nat : BlockLink(blocks, b, conv.next, Open(conv), <<>>)
    BY DEF TextsInv, StreamInv, Link
  <2>2. b \in 0..conv.next /\ DOMAIN blocks = 0..(b - 1) /\ b..(conv.next - 1) = {}
    BY <2>1 DEF BlockLink
  <2>3. b < conv.next => b \in b..(conv.next - 1)
    BY <1>2
  <2>4. b = conv.next
    BY <1>2, <2>2, <2>3
  <2> QED
    BY <2>2, <2>4
<1>4. n = conv.next
  <2>1. Cardinality(0..(conv.next - 1)) =
          IF 0 > conv.next - 1 THEN 0 ELSE (conv.next - 1) - 0 + 1
    BY <1>2, FS_Interval
  <2> QED
    BY <1>2, <1>3, <2>1
<1> HIDE DEF n
<1>5. /\ heard \in Seq(TextKinds) /\ n \in Nat
      /\ ks \in [0..(n - 1) -> TextKinds \cup {"tool"}]
      /\ at \in [0..n -> 0..Len(heard)] /\ at[0] = 0 /\ at[n] = Len(heard)
      /\ \A i \in 0..(n - 1) : blocks[i].kind.kind = ks[i] /\ blocks[i].size \in Nat
  BY <1>1, <1>2, <1>3, <1>4 DEF Laid
<1>6. \A i \in 0..(n - 1) :
        /\ at[i + 1] = at[i] + IF ks[i] = "tool" THEN 0 ELSE blocks[i].size
        /\ \A k \in (at[i] + 1)..at[i + 1] : heard[k] = ks[i]
  <2> SUFFICES ASSUME NEW i \in 0..(n - 1)
               PROVE  /\ at[i + 1] = at[i] + IF ks[i] = "tool" THEN 0 ELSE blocks[i].size
                      /\ \A k \in (at[i] + 1)..at[i + 1] : heard[k] = ks[i]
    OBVIOUS
  <2>1. /\ at[i + 1] = at[i] + IF ks[i] = "tool" THEN 0 ELSE Holds(blocks, i, <<>>)
        /\ \A k \in (at[i] + 1)..at[i + 1] : heard[k] = ks[i]
    BY <1>1, <1>4 DEF Laid
  <2>2. Holds(blocks, i, <<>>) = blocks[i].size
    <3>1. DeltasOf(i, <<>>) = {}
      BY DEF DeltasOf
    <3>2. SizeOf(blocks, i) = blocks[i].size /\ blocks[i].size \in Nat
      BY <1>3, <1>4, <1>5 DEF SizeOf
    <3>3. Cardinality(DeltasOf(i, <<>>)) = 0
      BY <3>1, FS_EmptySet
    <3> QED
      BY <3>2, <3>3 DEF Holds
  <2> QED
    BY <2>1, <2>2
<1>7. ASSUME NEW i \in 1..n
      PROVE  /\ ss[i] \in Seq(TextKinds) /\ at[i] = at[i - 1] + Len(ss[i])
             /\ PartOf(ss[i], at[i - 1], heard)
  <2> DEFINE j == i - 1
             m == blocks[j].size
             q == ss[i]
  <2>1. j \in 0..(n - 1) /\ j + 1 = i /\ j \in 0..n
    BY <1>5
  <2>2. /\ ks[j] \in TextKinds \cup {"tool"} /\ m \in Nat /\ at[j] \in 0..Len(heard)
        /\ at[i] = at[j] + IF ks[j] = "tool" THEN 0 ELSE m
        /\ \A k \in (at[j] + 1)..at[i] : heard[k] = ks[j]
    BY <1>5, <1>6, <2>1
  <2>3. q = IF ks[j] = "tool" THEN <<>> ELSE [k \in 1..m |-> ks[j]]
    BY <1>5, <2>1
  <2> HIDE DEF q, m, j
  <2>4. CASE ks[j] = "tool"
    <3>1. q = <<>>
      BY <2>3, <2>4
    <3>2. q \in Seq(TextKinds) /\ Len(q) = 0
      BY <3>1
    <3>3. PartOf(q, at[j], heard) /\ at[i] = at[j] + Len(q)
      BY <2>2, <2>4, <3>2 DEF PartOf
    <3> QED
      BY <3>2, <3>3 DEF q, j
  <2>5. CASE ks[j] # "tool"
    <3>1. q = [k \in 1..m |-> ks[j]] /\ ks[j] \in TextKinds
      BY <2>2, <2>3, <2>5
    <3>2. q \in Seq(TextKinds) /\ Len(q) = m
      BY <2>2, <3>1
    <3>3. \A k \in 1..m : q[k] = heard[at[j] + k]
      BY <2>2, <2>5, <3>1
    <3> QED
      BY <2>2, <2>5, <3>2, <3>3 DEF PartOf, q, j
  <2> QED
    BY <2>4, <2>5
<1>8. ss \in [1..n -> Seq(TextKinds)]
  BY <1>7
<1> HIDE DEF ss
<1>9. \A i \in 1..n : at[i] = at[i - 1] + Len(ss[i]) /\ PartOf(ss[i], at[i - 1], heard)
  BY <1>7
<1>10. FlattenSeq(ss) = heard
  BY <1>5, <1>8, <1>9, Flattened
<1> QED
  BY <1>10 DEF Shown, ss, n

\* A client that saw the message end has been shown every text and reasoning text the
\* upstream sent, once and in that order, and has all arguments of its tool calls.
THEOREM StreamContentComplete == Spec => []ContentComplete
<1>1. TextsInv => (phase = "ended" => Shown = heard)
  <2> SUFFICES ASSUME TextsInv, phase = "ended" PROVE Shown = heard
    OBVIOUS
  <2>1. PICK b \in Nat : Link(blocks, b, phase, reason, conv, pending)
    BY DEF TextsInv, StreamInv
  <2>2. pending = <<>>
    BY <2>1, Ended DEF TextsInv
  <2> QED
    BY <2>2, AllShown
<1>2. TextsInv /\ ArgumentsComplete => ContentComplete
  BY <1>1 DEF ContentComplete
<1> QED
  BY <1>2, StreamTextsInOrder, StreamArgumentsComplete, PTL
=============================================================================
