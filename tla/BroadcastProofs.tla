--------------------------- MODULE BroadcastProofs ---------------------------
(***************************************************************************)
(* What BroadcastRecv guarantees for any receivers, events, sizes and      *)
(* limits: the ring is contiguous and within its budget, no receiver has a *)
(* silent gap or sleeps through an event, nothing is retained for nobody,  *)
(* and only a receiver told of everything is told of the close.            *)
(***************************************************************************)
EXTENDS BroadcastRecv, SequenceTheorems, FiniteSetTheorems, WellFoundedInduction, TLAPS

\* Positions count the events sent, and every cursor lies between where its
\* receiver subscribed and the last event sent.
Positions ==
  /\ next = Len(sent)
  /\ Len(values) <= next
  /\ \A r \in DOMAIN receivers : start[r] <= receivers[r] /\ receivers[r] <= next

\* A receiver id that was never handed out was told nothing.
UnbornUntold == \A r \in Receivers \ born : account[r] = << >>

IInv ==
  /\ TypeOK
  /\ Positions
  /\ UnbornUntold
  /\ RingContiguous
  /\ NoSilentGap
  /\ ReleasedOnceConsumed

\* The shape of the ring alone, without who reads it.
Ring ==
  /\ values \in Seq(Entry)
  /\ next \in Nat
  /\ next = Len(sent)
  /\ Len(values) <= next
  /\ RingContiguous

-----------------------------------------------------------------------------
(* Lemmas about the queue's operations *)

\* Where the i-th entry of a ring stands among the events sent.
LEMMA RingEntry ==
  ASSUME Ring, NEW i \in 1..Len(values)
  PROVE  /\ values[i].seq = next - Len(values) + i - 1
         /\ values[i].seq \in Nat
         /\ values[i].seq + 1 \in 1..next
         /\ values[i].event = sent[values[i].seq + 1]
  <1>1. Len(values) \in Nat /\ next \in Nat /\ Len(values) <= next
    BY DEF Ring
  <1>2. /\ values[i].seq = next - Len(values) + i - 1
        /\ values[i].event = sent[values[i].seq + 1]
    BY DEF Ring, RingContiguous
  <1> QED
    BY <1>1, <1>2

\* Popping entries from the front of a ring leaves a ring.
LEMMA PopKeepsRing ==
  ASSUME Ring, NEW n \in 0..Len(values),
         values' = SubSeq(values, n + 1, Len(values)),
         UNCHANGED <<next, sent>>
  PROVE  Ring'
  <1>1. /\ values' \in Seq(Entry)
        /\ Len(values') = Len(values) - n
        /\ \A i \in 1..Len(values') : values'[i] = values[n + i]
    BY DEF Ring
  <1>2. Len(values') <= next'
    BY <1>1 DEF Ring
  <1>3. ASSUME NEW i \in 1..Len(values')
        PROVE  /\ values'[i].seq = next' - Len(values') + i - 1
               /\ values'[i].event = sent'[values'[i].seq + 1]
    <2>1. /\ n + i \in 1..Len(values)
          /\ values'[i] = values[n + i]
          /\ Len(values) \in Nat /\ next \in Nat
      BY <1>1 DEF Ring
    <2>2. /\ values[n + i].seq = next - Len(values) + (n + i) - 1
          /\ values[n + i].event = sent[values[n + i].seq + 1]
      BY <2>1, RingEntry
    <2>3. values'[i].seq = next' - Len(values') + i - 1
      <3>1. /\ values'[i].seq = next - Len(values) + (n + i) - 1
            /\ Len(values') = Len(values) - n
            /\ next' = next
        BY <1>1, <2>1, <2>2
      <3>2. Len(values) \in Nat /\ next \in Nat /\ n \in Nat /\ i \in Nat
        BY <1>1, <2>1
      <3> DEFINE a == values'[i].seq
                 b == Len(values')
                 c == Len(values)
                 d == next'
      <3>3. a = next - c + (n + i) - 1 /\ b = c - n /\ d = next
            /\ c \in Nat /\ next \in Nat /\ n \in Nat /\ i \in Nat
        BY <3>1, <3>2
      <3> HIDE DEF a, b, c, d
      <3>4. a = d - b + i - 1
        BY <3>3
      <3> QED
        BY <3>4 DEF a, b, d
    <2>4. values'[i].event = sent'[values'[i].seq + 1]
      BY <2>1, <2>2
    <2> QED
      BY <2>3, <2>4
  <1> QED
    BY <1>1, <1>2, <1>3 DEF Ring, RingContiguous

\* release_consumed leaves a ring whose oldest entry some cursor has yet to
\* reach.
LEMMA ReleaseKeepsRing ==
  ASSUME Ring, NEW cs, Release(cs), UNCHANGED <<next, sent>>,
         \A r \in DOMAIN cs : cs[r] \in Nat
  PROVE  /\ Ring'
         /\ values' # << >> => \E r \in DOMAIN cs : cs[r] <= values'[1].seq
  <1>1. PICK n \in 0..Len(values) :
          /\ n < Len(values) => ~Passed(n + 1, cs)
          /\ values' = SubSeq(values, n + 1, Len(values))
    BY DEF Release
  <1>2. Ring'
    BY <1>1, PopKeepsRing
  <1>3. ASSUME values' # << >>
        PROVE  \E r \in DOMAIN cs : cs[r] <= values'[1].seq
    <2>1. n < Len(values) /\ values'[1] = values[n + 1]
      BY <1>1, <1>3 DEF Ring
    <2>2. PICK r \in DOMAIN cs : ~(values[n + 1].seq < cs[r])
      BY <1>1, <2>1 DEF Passed
    <2>3. values[n + 1].seq \in Nat
      BY <2>1, n + 1 \in 1..Len(values), RingEntry
    <2> QED
      BY <2>1, <2>2, <2>3
  <1> QED
    BY <1>2, <1>3

\* send leaves a ring: what survives the eviction is a suffix, and an event
\* that takes a position without being kept empties the ring.
LEMMA SendKeepsRing ==
  ASSUME Ring, NEW e \in Events, Send(e), sent' = Append(sent, e),
         sent \in Seq(Events)
  PROVE  /\ Ring'
         /\ next' = next + 1
         /\ values' # << >> =>
              \/ values'[1].seq = next
              \/ values # << >> /\ values'[1].seq >= values[1].seq
  <1>1. PICK k \in 0..Len(values) :
          /\ Evicts(k, e)
          /\ values' = SubSeq(values, k + 1, Len(values)) \o Retained(e)
    BY DEF Send
  <1> DEFINE kept == SubSeq(values, k + 1, Len(values))
  <1>2. /\ kept \in Seq(Entry)
        /\ Len(kept) = Len(values) - k
        /\ \A i \in 1..Len(kept) : kept[i] = values[k + i]
    BY <1>1 DEF Ring
  <1>3. /\ next' = next + 1
        /\ Len(sent') = next + 1
        /\ sent'[next + 1] = e
        /\ \A p \in 1..next : sent'[p] = sent[p]
    BY DEF Send, Ring
  <1>4. ASSUME NEW i \in 1..Len(kept)
        PROVE  /\ kept[i].seq = next - Len(kept) + i - 1
               /\ kept[i].event = sent'[kept[i].seq + 1]
    <2>0. k + i \in 1..Len(values) /\ kept[i] = values[k + i]
      BY <1>2
    <2>1. /\ values[k + i].seq = next - Len(values) + (k + i) - 1
          /\ values[k + i].event = sent[values[k + i].seq + 1]
          /\ values[k + i].seq + 1 \in 1..next
      BY <2>0, RingEntry
    <2>2. kept[i].event = sent'[kept[i].seq + 1]
      BY <1>3, <2>0, <2>1
    <2>3. kept[i].seq = next - (Len(values) - k) + i - 1
      BY <2>0, <2>1 DEF Ring
    <2> QED
      BY <1>2, <2>2, <2>3
  <1>a. Len(kept) \in Nat /\ Len(values) \in Nat /\ next \in Nat
    BY <1>2 DEF Ring
  <1>5. CASE Size(e) <= ByteLimit
    <2> DEFINE entry == [seq |-> next, event |-> e]
    <2>1. values' = Append(kept, entry)
      <3>1. values' = kept \o <<entry>>
        BY <1>1, <1>5 DEF Retained
      <3>2. entry \in Entry
        BY DEF Ring, Entry
      <3> HIDE DEF kept, entry
      <3> QED
        BY <3>1, <3>2, <1>2
    <2>2. entry \in Entry /\ entry.seq = next /\ entry.event = e
      BY DEF Ring, Entry
    <2>a. values' \in Seq(Entry) /\ Len(values') = Len(kept) + 1
      <3> HIDE DEF kept, entry
      <3> QED
        BY <2>1, <2>2, <1>2
    <2>3. ASSUME NEW i \in 1..Len(values')
          PROVE  /\ values'[i].seq = next' - Len(values') + i - 1
                 /\ values'[i].event = sent'[values'[i].seq + 1]
      <3>1. CASE i = Len(kept) + 1
        <4>1. values'[i] = entry
          <5> HIDE DEF kept, entry
          <5> QED BY <2>1, <2>2, <3>1, <1>2
        <4> HIDE DEF kept, entry
        <4> QED BY <4>1, <2>a, <2>2, <3>1, <1>2, <1>3 DEF Ring
      <3>2. CASE i \in 1..Len(kept)
        <4>1. values'[i] = kept[i]
          <5> HIDE DEF kept, entry
          <5> QED BY <2>1, <2>2, <3>2, <1>2
        <4>2. /\ kept[i].seq = next - Len(kept) + i - 1
              /\ kept[i].event = sent'[kept[i].seq + 1]
          BY <3>2, <1>4
        <4> HIDE DEF kept, entry
        <4> QED BY <4>1, <4>2, <2>a, <1>3, <1>a
      <3> QED
        <4>1. i \in 1..(Len(kept) + 1)
          BY <2>a
        <4>2. i = Len(kept) + 1 \/ i \in 1..Len(kept)
          <5> HIDE DEF kept
          <5> QED BY <4>1, <1>a
        <4> HIDE DEF kept, entry
        <4> QED BY <3>1, <3>2, <4>2
    <2>4. Len(values') <= next'
      <3>1. Len(kept) <= Len(values) /\ Len(kept) \in Nat
        BY <1>1, <1>2 DEF Ring
      <3> HIDE DEF kept, entry
      <3> QED BY <2>a, <3>1, <1>3 DEF Ring
    <2>5. Ring'
      <3>1. next' \in Nat /\ next' = Len(sent')
        BY <1>3, <1>a
      <3> QED BY <2>a, <2>3, <2>4, <3>1 DEF Ring, RingContiguous
    <2>6. \/ values'[1].seq = next
          \/ values # << >> /\ values'[1].seq >= values[1].seq
      <3>1. CASE k = Len(values)
        BY <2>a, <2>3, <1>2, <1>3, <3>1, 1 \in 1..Len(values') DEF Ring
      <3>2. CASE k < Len(values)
        <4>1. Len(values') = Len(values) - k + 1
          BY <2>a, <1>2
        <4>2. 1 \in 1..Len(values') /\ 1 \in 1..Len(values)
          BY <3>2, <4>1, <1>a
        <4>3. values'[1].seq = next' - Len(values') + 1 - 1
          BY <2>3, <4>2
        <4>4. values[1].seq = next - Len(values) + 1 - 1
          BY <4>2, RingEntry
        <4>5. values # << >> /\ values'[1].seq >= values[1].seq
          BY <4>1, <4>2, <4>3, <4>4, <1>3, <1>a
        <4> QED BY <4>5
      <3>3. k = Len(values) \/ k < Len(values)
        BY <1>a
      <3> QED BY <3>1, <3>2, <3>3
    <2> QED BY <2>5, <2>6, <1>3
  <1>6. CASE ~(Size(e) <= ByteLimit)
    <2>1. k = Len(values)
      BY <1>1, <1>6 DEF Evicts, Fits, Ring
    <2>2. values' = << >>
      BY <1>1, <1>6, <2>1 DEF Retained, Ring
    <2> QED
      BY <2>2, <1>3 DEF Ring, RingContiguous
  <1> QED
    BY <1>5, <1>6

\* The entry a readable cursor indexes is the event sent at that position.
LEMMA EventAtIsSent ==
  ASSUME Ring, NEW r \in DOMAIN receivers, receivers[r] \in Nat, Readable(r)
  PROVE  EventAt(r) = sent[receivers[r] + 1]
  <1>1. values # << >>
    BY DEF Readable, Lagging, First, Ring
  <1>2. First = next - Len(values)
    BY <1>1, 1 \in 1..Len(values) DEF First, Ring, RingContiguous
  <1>3. receivers[r] - First + 1 \in 1..Len(values)
    BY <1>2 DEF Readable, Lagging, Ring
  <1> DEFINE i == receivers[r] - First + 1
  <1>4. values[i].seq = next - Len(values) + i - 1 /\ values[i].event = sent[values[i].seq + 1]
    BY <1>3 DEF Ring, RingContiguous
  <1>5. next - Len(values) + i - 1 = receivers[r]
    BY <1>2 DEF Ring
  <1> QED
    BY <1>4, <1>5 DEF EventAt

\* The oldest position kept is a position no later than the next.
LEMMA FirstInRange ==
  ASSUME Ring
  PROVE  First \in Nat /\ First <= next
  <1>1. CASE values = << >>
    BY <1>1 DEF First, Ring
  <1>2. CASE values # << >>
    BY <1>2, 1 \in 1..Len(values) DEF First, Ring, RingContiguous
  <1> QED
    BY <1>1, <1>2

-----------------------------------------------------------------------------
(* Induction, for a set in the place of a predicate.                       *)

LEMMA LeastNatural ==
  ASSUME NEW S \in SUBSET Nat, S # {}
  PROVE  \E m \in S : \A k \in S : m <= k
  <1>1. PICK m \in S : \A k \in S : ~(<<k, m>> \in OpToRel(<, Nat))
    BY NatLessThanWellFounded, WFMin
  <1>2. \A k \in S : ~(k < m)
    BY <1>1 DEF OpToRel
  <1> QED
    BY <1>2

LEMMA SetInduction ==
  ASSUME NEW S, 0 \in S, \A n \in Nat : n \in S => n + 1 \in S
  PROVE  \A n \in Nat : n \in S
  <1> SUFFICES ASSUME Nat \ S # {} PROVE FALSE
    OBVIOUS
  <1>1. PICK m \in Nat \ S : \A k \in Nat \ S : m <= k
    BY LeastNatural
  <1>2. m # 0 /\ m - 1 \in Nat
    BY <1>1
  <1>3. m - 1 \in S
    BY <1>1, <1>2
  <1> QED
    BY <1>1, <1>2, <1>3

-----------------------------------------------------------------------------
(* The bytes of a ring: what the fold of Weight computes.                  *)

Bytes(v, i) == Size(v[i].event)
Pick(s) == CHOOSE x \in s : TRUE
Indices(v) == SUBSET (DOMAIN v)

\* The fold over every set of indices of v, and what it is meant to satisfy.
Sums(v) ==
  LET iter[s \in SUBSET (DOMAIN v)] ==
        IF s = {} THEN 0 ELSE LET x == CHOOSE x \in s : TRUE IN Size(v[x].event) + iter[s \ {x}]
  IN  iter

Folded(v, g, s) == IF s = {} THEN 0 ELSE Bytes(v, Pick(s)) + g[s \ {Pick(s)}]

LEMMA WeightIsSum ==
  ASSUME NEW v
  PROVE  Weight(v) = Sums(v)[DOMAIN v]
  BY DEF Weight, FoldSeq, FoldFunction, FoldFunctionOnSet, MapThenFoldSet, Sums

\* A set of indices, and what is left when one is taken out.
LEMMA TakeIndex ==
  ASSUME NEW v \in Seq(Entry), NEW s \in Indices(v)
  PROVE  /\ IsFiniteSet(s) /\ Cardinality(s) \in Nat /\ Cardinality(s) <= Len(v)
         /\ Cardinality(s) = 0 <=> s = {}
         /\ s # {} => Pick(s) \in s
         /\ \A x \in s : /\ s \ {x} \in Indices(v)
                         /\ Cardinality(s \ {x}) = Cardinality(s) - 1
                         /\ Bytes(v, x) \in Nat
  <1>1. DOMAIN v = 1 .. Len(v) /\ Len(v) \in Nat
    OBVIOUS
  <1>2. IsFiniteSet(1 .. Len(v)) /\ Cardinality(1 .. Len(v)) = Len(v)
    <2> DEFINE n == Len(v)
    <2>1. n \in Nat /\ n \in Int /\ 1 \in Int
      BY <1>1
    <2> HIDE DEF n
    <2>2. IsFiniteSet(1 .. n) /\ Cardinality(1 .. n) = IF 1 > n THEN 0 ELSE n - 1 + 1
      BY ONLY <2>1, FS_Interval
    <2>3. IsFiniteSet(1 .. n) /\ Cardinality(1 .. n) = n
      BY ONLY <2>1, <2>2
    <2> QED
      BY <2>3 DEF n
  <1>3. IsFiniteSet(s) /\ Cardinality(s) <= Len(v)
    BY <1>1, <1>2, FS_Subset DEF Indices
  <1>4. Cardinality(s) \in Nat /\ (Cardinality(s) = 0 <=> s = {})
    BY <1>3, FS_CardinalityType, FS_EmptySet
  <1>5. s # {} => Pick(s) \in s
    BY DEF Pick
  <1>6. ASSUME NEW x \in s
        PROVE  s \ {x} \in Indices(v) /\ Cardinality(s \ {x}) = Cardinality(s) - 1 /\ Bytes(v, x) \in Nat
    <2>1. v[x] \in Entry
      BY <1>1 DEF Indices
    <2>2. Bytes(v, x) \in Nat
      BY <2>1, SizeAssumption DEF Entry, Bytes
    <2>3. Cardinality(s \ {x}) = Cardinality(s) - 1
      BY <1>3, FS_RemoveElement
    <2> QED
      BY <2>2, <2>3 DEF Indices
  <1> QED
    BY <1>3, <1>4, <1>5, <1>6

\* The recursion has a solution: one for the sets of at most n indices is
\* extended to those of n + 1.
LEMMA SumsRecursion ==
  ASSUME NEW v \in Seq(Entry)
  PROVE  \A s \in Indices(v) : Sums(v)[s] = Folded(v, Sums(v), s)
  <1> DEFINE Solves(g, n) == \A s \in Indices(v) : Cardinality(s) <= n => g[s] = Folded(v, g, s)
             Good == {n \in Nat : \E g : g = [s \in Indices(v) |-> g[s]] /\ Solves(g, n)}
  <1>1. 0 \in Good
    <2> DEFINE g == [s \in Indices(v) |-> 0]
    <2>1. Solves(g, 0)
      <3> SUFFICES ASSUME NEW s \in Indices(v), Cardinality(s) <= 0 PROVE g[s] = Folded(v, g, s)
        OBVIOUS
      <3>1. s = {}
        BY TakeIndex
      <3> QED
        BY <3>1 DEF Folded
    <2>2. g = [s \in Indices(v) |-> g[s]]
      OBVIOUS
    <2> HIDE DEF g
    <2> QED
      BY <2>1, <2>2
  <1>2. ASSUME NEW n \in Nat, n \in Good PROVE n + 1 \in Good
    <2>1. PICK g : g = [s \in Indices(v) |-> g[s]] /\ Solves(g, n)
      BY <1>2
    <2> DEFINE h == [s \in Indices(v) |-> IF Cardinality(s) <= n THEN g[s] ELSE Folded(v, g, s)]
    <2>2. ASSUME NEW s \in Indices(v) PROVE h[s] = Folded(v, g, s)
      BY <2>1
    <2>3. ASSUME NEW s \in Indices(v), Cardinality(s) <= n + 1 PROVE Folded(v, h, s) = Folded(v, g, s)
      <3>1. CASE s = {}
        BY <3>1 DEF Folded
      <3>2. CASE s # {}
        <4>1. s \ {Pick(s)} \in Indices(v) /\ Cardinality(s \ {Pick(s)}) <= n
          BY <2>3, <3>2, TakeIndex
        <4>2. h[s \ {Pick(s)}] = g[s \ {Pick(s)}]
          BY <4>1
        <4> HIDE DEF h
        <4> QED
          BY <3>2, <4>2 DEF Folded
      <3> QED
        BY <3>1, <3>2
    <2>4. h = [s \in Indices(v) |-> h[s]]
      OBVIOUS
    <2> HIDE DEF h
    <2>5. Solves(h, n + 1)
      BY <2>2, <2>3
    <2> QED
      BY <2>4, <2>5
  <1>3. Len(v) \in Good
    <2> HIDE DEF Good
    <2> QED
      BY <1>1, <1>2, SetInduction
  <1>4. PICK g : g = [s \in Indices(v) |-> g[s]] /\ Solves(g, Len(v))
    BY <1>3
  <1>5. \A s \in Indices(v) : g[s] = Folded(v, g, s)
    BY <1>4, TakeIndex
  <1>6. g = [s \in Indices(v) |-> Folded(v, g, s)]
    BY <1>4, <1>5
  <1>7. Sums(v) = [s \in Indices(v) |-> Folded(v, Sums(v), s)]
    BY <1>6 DEF Sums, Folded, Indices, Bytes, Pick
  <1> QED
    BY <1>7

\* A sum of sizes is a natural number.
LEMMA SumsNat ==
  ASSUME NEW v \in Seq(Entry)
  PROVE  \A s \in Indices(v) : Sums(v)[s] \in Nat
  <1>0. \A s \in Indices(v) : Sums(v)[s] = Folded(v, Sums(v), s)
    BY SumsRecursion
  <1> DEFINE Good == {n \in Nat : \A s \in Indices(v) : Cardinality(s) <= n => Sums(v)[s] \in Nat}
  <1>1. 0 \in Good
    <2> SUFFICES ASSUME NEW s \in Indices(v), Cardinality(s) <= 0 PROVE Sums(v)[s] \in Nat
      OBVIOUS
    <2>1. s = {}
      BY TakeIndex
    <2>2. Folded(v, Sums(v), s) = 0
      BY <2>1 DEF Folded
    <2> QED
      BY <1>0, <2>2
  <1>2. ASSUME NEW n \in Nat, n \in Good PROVE n + 1 \in Good
    <2> SUFFICES ASSUME NEW s \in Indices(v), Cardinality(s) <= n + 1 PROVE Sums(v)[s] \in Nat
      OBVIOUS
    <2>1. CASE s = {}
      <3>1. Folded(v, Sums(v), s) = 0
        BY <2>1 DEF Folded
      <3> QED
        BY <1>0, <3>1
    <2>2. CASE s # {}
      <3>1. Cardinality(s) \in Nat /\ Pick(s) \in s
        BY <2>2, TakeIndex
      <3>2. /\ s \ {Pick(s)} \in Indices(v) /\ Cardinality(s \ {Pick(s)}) = Cardinality(s) - 1
            /\ Bytes(v, Pick(s)) \in Nat
        BY <3>1, TakeIndex
      <3>3. Sums(v)[s \ {Pick(s)}] \in Nat
        BY <1>2, <3>1, <3>2
      <3> QED
        BY <1>0, <2>2, <3>2, <3>3 DEF Folded
    <2> QED
      BY <2>1, <2>2
  <1>3. Len(v) \in Good
    <2> HIDE DEF Good
    <2> QED
      BY <1>1, <1>2, SetInduction
  <1> QED
    BY <1>3, TakeIndex

\* Any index may be taken first.
LEMMA SumsTake ==
  ASSUME NEW v \in Seq(Entry)
  PROVE  \A s \in Indices(v) : \A x \in s : Sums(v)[s] = Bytes(v, x) + Sums(v)[s \ {x}]
  <1> DEFINE Good == {n \in Nat : \A s \in Indices(v) : Cardinality(s) <= n =>
                        \A x \in s : Sums(v)[s] = Bytes(v, x) + Sums(v)[s \ {x}]}
  <1>1. 0 \in Good
    BY TakeIndex
  <1>2. ASSUME NEW n \in Nat, n \in Good PROVE n + 1 \in Good
    <2> SUFFICES ASSUME NEW s \in Indices(v), Cardinality(s) <= n + 1, NEW x \in s
                 PROVE  Sums(v)[s] = Bytes(v, x) + Sums(v)[s \ {x}]
      OBVIOUS
    <2> DEFINE c == Pick(s)
    <2>1. c \in s /\ Sums(v)[s] = Bytes(v, c) + Sums(v)[s \ {c}]
      BY TakeIndex, SumsRecursion DEF Folded
    <2>2. /\ s \ {c} \in Indices(v) /\ Cardinality(s \ {c}) <= n
          /\ s \ {x} \in Indices(v) /\ Cardinality(s \ {x}) <= n
          /\ Bytes(v, c) \in Nat /\ Bytes(v, x) \in Nat
      <3>1. Cardinality(s) \in Nat
        BY TakeIndex
      <3>2. \A y \in s : s \ {y} \in Indices(v) /\ Cardinality(s \ {y}) = Cardinality(s) - 1 /\ Bytes(v, y) \in Nat
        BY TakeIndex
      <3>3. Cardinality(s) - 1 <= n
        BY <3>1
      <3>4. c \in s
        BY <2>1
      <3> HIDE DEF c
      <3> QED
        BY <3>2, <3>3, <3>4
    <2> HIDE DEF c
    <2>3. CASE x = c
      BY <2>1, <2>3
    <2>4. CASE x # c
      <3>1. x \in s \ {c} /\ c \in s \ {x}
        BY <2>1, <2>4
      <3>2. Sums(v)[s \ {c}] = Bytes(v, x) + Sums(v)[(s \ {c}) \ {x}]
        BY <1>2, <2>2, <3>1
      <3>3. Sums(v)[s \ {x}] = Bytes(v, c) + Sums(v)[(s \ {x}) \ {c}]
        BY <1>2, <2>2, <3>1
      <3>4. (s \ {c}) \ {x} = (s \ {x}) \ {c}
        OBVIOUS
      <3>5. (s \ {c}) \ {x} \in Indices(v)
        BY <2>2, <3>1, TakeIndex
      <3>6. Sums(v)[(s \ {c}) \ {x}] \in Nat
        BY <3>5, SumsNat
      <3> DEFINE rest == Sums(v)[(s \ {c}) \ {x}]
                 all == Sums(v)[s]
                 b == Bytes(v, c)
                 d == Bytes(v, x)
      <3>7. all = b + (d + rest) /\ Sums(v)[s \ {x}] = b + rest /\ rest \in Nat /\ b \in Nat /\ d \in Nat
        BY <2>1, <2>2, <3>2, <3>3, <3>4, <3>6
      <3> HIDE DEF rest, all, b, d
      <3>8. all = d + Sums(v)[s \ {x}]
        BY <3>7
      <3> QED
        BY <3>8 DEF all, d
    <2> QED
      BY <2>3, <2>4
  <1>3. Len(v) \in Good
    <2> HIDE DEF Good
    <2> QED
      BY <1>1, <1>2, SetInduction
  <1> QED
    BY <1>3, TakeIndex

\* The sum over a set of indices depends on the entries there and on no other.
LEMMA SumsAgree ==
  ASSUME NEW u \in Seq(Entry), NEW v \in Seq(Entry), Len(u) <= Len(v),
         \A i \in 1 .. Len(u) : u[i] = v[i]
  PROVE  \A s \in Indices(u) : Sums(u)[s] = Sums(v)[s]
  <1> DEFINE Good == {n \in Nat : \A s \in Indices(u) : Cardinality(s) <= n => Sums(u)[s] = Sums(v)[s]}
  <1>0. \A s \in Indices(u) : s \in Indices(v) /\ \A x \in s : Bytes(u, x) = Bytes(v, x)
    BY DEF Indices, Bytes
  <1>1. 0 \in Good
    <2> SUFFICES ASSUME NEW s \in Indices(u), Cardinality(s) <= 0 PROVE Sums(u)[s] = Sums(v)[s]
      OBVIOUS
    <2>1. s = {}
      BY TakeIndex
    <2> QED
      BY <1>0, <2>1, SumsRecursion DEF Folded
  <1>2. ASSUME NEW n \in Nat, n \in Good PROVE n + 1 \in Good
    <2> SUFFICES ASSUME NEW s \in Indices(u), Cardinality(s) <= n + 1 PROVE Sums(u)[s] = Sums(v)[s]
      OBVIOUS
    <2>1. CASE s = {}
      BY <1>0, <2>1, SumsRecursion DEF Folded
    <2>2. CASE s # {}
      <3>1. Pick(s) \in s /\ s \ {Pick(s)} \in Indices(u) /\ Cardinality(s \ {Pick(s)}) <= n
        BY <2>2, TakeIndex
      <3>2. Sums(u)[s \ {Pick(s)}] = Sums(v)[s \ {Pick(s)}] /\ Bytes(u, Pick(s)) = Bytes(v, Pick(s))
        BY <1>0, <1>2, <3>1
      <3> QED
        BY <1>0, <2>2, <3>2, SumsRecursion DEF Folded
    <2> QED
      BY <2>1, <2>2
  <1>3. Len(u) \in Good
    <2> HIDE DEF Good
    <2> QED
      BY <1>1, <1>2, SetInduction
  <1> QED
    BY <1>3, TakeIndex

LEMMA WeightNat ==
  ASSUME NEW v \in Seq(Entry)
  PROVE  Weight(v) \in Nat
  BY SumsNat, WeightIsSum DEF Indices

LEMMA WeightEmpty == Weight(<< >>) = 0
  <1>1. << >> \in Seq(Entry) /\ {} \in Indices(<< >>) /\ DOMAIN << >> = {}
    BY DEF Indices
  <1>2. Sums(<< >>)[{}] = 0
    BY <1>1, SumsRecursion DEF Folded
  <1> QED
    BY <1>1, <1>2, WeightIsSum

\* One more entry adds its own bytes.
LEMMA WeightAppend ==
  ASSUME NEW v \in Seq(Entry), NEW x \in Entry
  PROVE  Weight(Append(v, x)) = Weight(v) + Size(x.event)
  <1> DEFINE w == Append(v, x)
             n == Len(v) + 1
  <1>1. /\ w \in Seq(Entry) /\ Len(w) = n /\ w[n] = x /\ n \in Nat
        /\ DOMAIN w = 1 .. n /\ DOMAIN v = 1 .. Len(v) /\ Len(v) <= Len(w)
        /\ \A i \in 1 .. Len(v) : v[i] = w[i]
    OBVIOUS
  <1> HIDE DEF w
  <1>2. DOMAIN w \in Indices(w) /\ DOMAIN v \in Indices(v) /\ n \in DOMAIN w
    BY <1>1 DEF Indices
  <1>3. Sums(w)[DOMAIN w] = Bytes(w, n) + Sums(w)[DOMAIN w \ {n}]
    BY <1>1, <1>2, SumsTake
  <1>4. DOMAIN w \ {n} = DOMAIN v
    BY <1>1
  <1>5. Sums(v)[DOMAIN v] = Sums(w)[DOMAIN v]
    BY <1>1, <1>2, SumsAgree
  <1>6. Sums(v)[DOMAIN v] \in Nat
    BY <1>2, SumsNat
  <1>7. Bytes(w, n) = Size(x.event) /\ Size(x.event) \in Nat
    BY <1>1, SizeAssumption DEF Bytes, Entry
  <1>8. Weight(w) = Weight(v) + Size(x.event)
    BY <1>3, <1>4, <1>5, <1>6, <1>7, WeightIsSum
  <1> QED
    BY <1>8 DEF w

\* The bytes of a ring are those of its first entries and those of the rest.
LEMMA WeightSplit ==
  ASSUME NEW v \in Seq(Entry), NEW k \in 0 .. Len(v)
  PROVE  Weight(v) = Weight(SubSeq(v, 1, k)) + Weight(SubSeq(v, k + 1, Len(v)))
  <1> DEFINE Upto(m) == SubSeq(v, 1, m)
             Past(m) == SubSeq(v, k + 1, m)
             Good == {d \in Nat : k + d <= Len(v) => Weight(Upto(k + d)) = Weight(Upto(k)) + Weight(Past(k + d))}
  <1>0. k \in Nat /\ Len(v) \in Nat
    OBVIOUS
  <1>1. 0 \in Good
    <2>1. Past(k) = << >> /\ Upto(k) \in Seq(Entry)
      OBVIOUS
    <2>2. Weight(Past(k)) = 0 /\ Weight(Upto(k)) \in Nat
      BY <2>1, WeightEmpty, WeightNat
    <2>3. Weight(Upto(k + 0)) = Weight(Upto(k)) + Weight(Past(k + 0))
      <3>1. k + 0 = k
        BY <1>0
      <3> HIDE DEF Upto, Past
      <3> QED
        BY <2>2, <3>1
    <2> QED
      BY <2>3
  <1>2. ASSUME NEW d \in Nat, d \in Good PROVE d + 1 \in Good
    <2> SUFFICES ASSUME k + (d + 1) <= Len(v)
                 PROVE  Weight(Upto(k + (d + 1))) = Weight(Upto(k)) + Weight(Past(k + (d + 1)))
      OBVIOUS
    <2> DEFINE m == k + d
    <2>1. m \in 0 .. Len(v) /\ m + 1 \in 1 .. Len(v) /\ k + (d + 1) = m + 1 /\ v[m + 1] \in Entry
      OBVIOUS
    <2>2. Weight(Upto(m)) = Weight(Upto(k)) + Weight(Past(m))
      BY <1>2, <2>1
    <2>3. Upto(m) \in Seq(Entry) /\ Past(m) \in Seq(Entry) /\ Upto(k) \in Seq(Entry)
      BY <2>1
    <2>4. Upto(m + 1) = Append(Upto(m), v[m + 1])
      BY <2>1
    <2>5. Past(m + 1) = Append(Past(m), v[m + 1])
      BY <2>1
    <2> HIDE DEF Upto, Past
    <2>6. /\ Weight(Upto(m + 1)) = Weight(Upto(m)) + Size(v[m + 1].event)
          /\ Weight(Past(m + 1)) = Weight(Past(m)) + Size(v[m + 1].event)
      BY <2>1, <2>3, <2>4, <2>5, WeightAppend
    <2>7. /\ Weight(Upto(m)) \in Nat /\ Weight(Past(m)) \in Nat /\ Weight(Upto(k)) \in Nat
          /\ Size(v[m + 1].event) \in Nat
      BY <2>1, <2>3, WeightNat, SizeAssumption DEF Entry
    <2> QED
      BY <2>1, <2>2, <2>6, <2>7
  <1>3. Len(v) - k \in Good
    <2>1. Len(v) - k \in Nat
      BY <1>0
    <2> HIDE DEF Good
    <2> QED
      BY <1>1, <1>2, <2>1, SetInduction
  <1>4. k + (Len(v) - k) = Len(v) /\ Upto(Len(v)) = v
    BY <1>0
  <1>5. Weight(Upto(k + (Len(v) - k))) = Weight(Upto(k)) + Weight(Past(k + (Len(v) - k)))
    <2> HIDE DEF Upto, Past
    <2> QED
      BY <1>0, <1>3, <1>4
  <1> QED
    BY <1>4, <1>5

-----------------------------------------------------------------------------
LEMMA InitIInv == Init => IInv
  BY FirstAssumption
  DEF Init, InitQueue, IInv, TypeOK, Positions, UnbornUntold, RingContiguous,
      NoSilentGap, ReleasedOnceConsumed

\* A poll that answers, with an event or a lag, tells the receiver of exactly
\* the positions its cursor moves over.
LEMMA MoveKeepsIInv ==
  ASSUME IInv, NEW r \in DOMAIN receivers, NEW position \in Nat,
         receivers[r] < position, position <= next,
         MoveTo(r, position),
         NEW told \in Seq(Events \union {Lost}),
         Len(told) = position - receivers[r],
         \A i \in 1..Len(told) : told[i] \in {sent[receivers[r] + i], Lost},
         account' = [account EXCEPT ![r] = @ \o told],
         UNCHANGED <<recvVars, sent, start>>
  PROVE  IInv'
  <1> DEFINE moved == [receivers EXCEPT ![r] = position]
  <1>0. r \in Receivers
    BY DEF IInv, TypeOK
  <1>1. /\ receivers' = moved
        /\ DOMAIN receivers' = DOMAIN receivers
        /\ receivers'[r] = position
        /\ \A x \in DOMAIN receivers : x # r => receivers'[x] = receivers[x]
    BY DEF MoveTo
  <1>2. \A x \in DOMAIN moved : moved[x] \in Nat
    BY DEF IInv, TypeOK
  <1>3. Ring
    BY DEF IInv, TypeOK, Positions, Ring
  <1>4. /\ Ring'
        /\ values' # << >> => \E x \in DOMAIN moved : moved[x] <= values'[1].seq
    BY <1>2, <1>3, ReleaseKeepsRing DEF MoveTo
  <1>5. /\ account[r] \in Seq(Events \union {Lost})
        /\ account'[r] = account[r] \o told
        /\ \A x \in Receivers : x # r => account'[x] = account[x]
        /\ account' \in [Receivers -> Seq(Events \union {Lost})]
    BY SMTT(30), <1>0 DEF IInv, TypeOK
  <1>6. TypeOK'
    BY <1>1, <1>4, <1>5 DEF IInv, TypeOK, Ring, MoveTo, recvVars
  <1>7. Positions'
    <2>1. \A x \in DOMAIN receivers : receivers[x] \in Nat /\ start[x] \in Nat
      BY DEF IInv, TypeOK
    <2> QED
      BY <1>1, <1>4, <2>1 DEF IInv, Positions, Ring, MoveTo
  <1>8. UnbornUntold'
    BY <1>5 DEF IInv, UnbornUntold, TypeOK, MoveTo
  <1>9. NoSilentGap'
    <2>a. DOMAIN receivers' = DOMAIN receivers /\ sent' = sent /\ start' = start
      BY <1>1
    <2>b. SUFFICES ASSUME NEW x \in DOMAIN receivers'
                   PROVE  /\ Len(account'[x]) = receivers'[x] - start'[x]
                          /\ \A i \in 1..Len(account'[x]) :
                               account'[x][i] \in {sent'[start'[x] + i], Lost}
      BY Zenon DEF NoSilentGap
    <2>c. x \in DOMAIN receivers
      BY ONLY <2>a, <2>b
    <2>0. /\ x \in Receivers /\ start[x] \in Nat /\ receivers[x] \in Nat
          /\ start[x] <= receivers[x]
      <3>1. TypeOK /\ Positions
        BY DEF IInv
      <3>2. x \in Receivers /\ start[x] \in Nat /\ receivers[x] \in Nat
        BY ONLY <3>1, x \in DOMAIN receivers DEF TypeOK
      <3>3. start[x] <= receivers[x]
        BY ONLY <3>1, x \in DOMAIN receivers DEF Positions
      <3> QED
        BY <3>2, <3>3
    <2>1. /\ Len(account[x]) = receivers[x] - start[x]
          /\ \A i \in 1..Len(account[x]) :
               account[x][i] \in {sent[start[x] + i], Lost}
      <3>1. NoSilentGap
        BY DEF IInv
      <3> QED
        BY ONLY <2>c, <3>1, Zenon DEF NoSilentGap
    <2>2. CASE x # r
      <3>1. account'[x] = account[x] /\ receivers'[x] = receivers[x]
        BY ONLY <1>1, <1>5, <2>0, <2>c, <2>2
      <3> QED
        BY ONLY <2>a, <2>1, <3>1
    <2>3. CASE x = r
      <3> DEFINE s == account[r]
                 a == start[r]
                 c == receivers[r]
                 S == Events \union {Lost}
      <3>1. /\ s \in Seq(S) /\ told \in Seq(S)
            /\ a \in Nat /\ c \in Nat /\ position \in Nat
            /\ Len(s) = c - a /\ Len(told) = position - c
            /\ \A i \in 1..Len(s) : s[i] \in {sent[a + i], Lost}
            /\ \A i \in 1..Len(told) : told[i] \in {sent[c + i], Lost}
        BY <1>5, <2>0, <2>1, <2>3
      <3> HIDE DEF s, a, c, S
      <3>a. /\ Len(s \o told) = Len(s) + Len(told)
            /\ \A i \in 1 .. Len(s) + Len(told) :
                 (s \o told)[i] = IF i <= Len(s) THEN s[i] ELSE told[i - Len(s)]
        BY ONLY <3>1, ConcatProperties
      <3>2. /\ Len(s \o told) = position - a
            /\ \A i \in 1..Len(s \o told) : (s \o told)[i] \in {sent[a + i], Lost}
        <4>0. a \in Nat /\ c \in Nat /\ Len(s) = c - a
          BY ONLY <3>1
        <4>1. Len(s) \in Nat /\ Len(told) \in Nat
          BY ONLY <3>1
        <4>2. Len(s \o told) = position - a
          BY ONLY <3>1, <3>a, <4>1
        <4>3. ASSUME NEW i \in 1..(Len(s) + Len(told))
              PROVE  (s \o told)[i] \in {sent[a + i], Lost}
          <5>1. CASE i <= Len(s)
            <6>1. i \in 1..Len(s)
              BY ONLY <4>1, <5>1, i \in 1..(Len(s) + Len(told))
            <6>2. (s \o told)[i] = s[i]
              BY ONLY <3>a, <5>1, i \in 1..(Len(s) + Len(told))
            <6> QED
              BY ONLY <3>1, <6>1, <6>2
          <5>2. CASE i > Len(s)
            <6>1. /\ i - Len(s) \in 1..Len(told)
                  /\ c + (i - Len(s)) = a + i
              BY ONLY <4>0, <4>1, <5>2, i \in 1..(Len(s) + Len(told))
            <6>2. (s \o told)[i] = told[i - Len(s)]
              BY ONLY <3>a, <4>1, <5>2, i \in 1..(Len(s) + Len(told))
            <6> QED
              BY ONLY <3>1, <6>1, <6>2
          <5>3. i <= Len(s) \/ i > Len(s)
            BY ONLY <4>1, i \in 1..(Len(s) + Len(told))
          <5> QED
            BY ONLY <5>1, <5>2, <5>3
        <4> QED
          BY <3>a, <4>2, <4>3
      <3>3. account'[x] = s \o told /\ receivers'[x] = position /\ start'[x] = a /\ sent' = sent
        BY ONLY <1>1, <1>5, <2>a, <2>3 DEF s, a
      <3> QED
        BY ONLY <3>2, <3>3
    <2> QED
      BY <2>2, <2>3
  <1> QED
    BY <1>1, <1>4, <1>6, <1>7, <1>8, <1>9 DEF IInv, Ring, ReleasedOnceConsumed

LEMMA NextIInv == IInv /\ [Next]_vars => IInv'
  <1> SUFFICES ASSUME IInv, [Next]_vars PROVE IInv'
    OBVIOUS
  <1>0. Ring
    BY DEF IInv, TypeOK, Positions, Ring
  <1>1. ASSUME NEW r \in Receivers, SenderSubscribe(r) PROVE IInv'
    <2>1. /\ r \notin born /\ r \notin DOMAIN receivers
          /\ born' = born \union {r}
          /\ DOMAIN receivers' = DOMAIN receivers \union {r}
          /\ receivers'[r] = next
          /\ \A x \in DOMAIN receivers : receivers'[x] = receivers[x]
          /\ UNCHANGED <<values, next, bytes, version, open, waiting, closed,
                         sent, account>>
      BY <1>1 DEF SenderSubscribe, Subscribe, IInv, TypeOK
    <2>2. /\ start' \in [Receivers -> Nat] /\ seen' \in [Receivers -> Nat]
          /\ start'[r] = next
          /\ \A x \in DOMAIN receivers : start'[x] = start[x]
      BY <1>1, <2>1 DEF SenderSubscribe, IInv, TypeOK
    <2>a. TypeOK'
      BY <2>1, <2>2 DEF IInv, TypeOK
    <2>b. Positions'
      BY <2>1, <2>2 DEF IInv, TypeOK, Positions
    <2>3. UnbornUntold' /\ RingContiguous'
      BY <2>1 DEF IInv, UnbornUntold, RingContiguous
    <2>4. NoSilentGap'
      <3>1. account[r] = << >>
        BY <2>1 DEF IInv, UnbornUntold
      <3>2. next \in Nat
        BY DEF IInv, TypeOK
      <3>3. ASSUME NEW x \in DOMAIN receivers
            PROVE  /\ Len(account'[x]) = receivers'[x] - start'[x]
                   /\ \A i \in 1..Len(account'[x]) :
                        account'[x][i] \in {sent'[start'[x] + i], Lost}
        BY <2>1, <2>2 DEF IInv, NoSilentGap
      <3>4. /\ Len(account'[r]) = receivers'[r] - start'[r]
            /\ \A i \in 1..Len(account'[r]) :
                 account'[r][i] \in {sent'[start'[r] + i], Lost}
        BY <2>1, <2>2, <3>1, <3>2
      <3> QED
        BY <2>1, <3>3, <3>4 DEF NoSilentGap
    <2>5. ReleasedOnceConsumed'
      BY <2>1 DEF IInv, ReleasedOnceConsumed
    <2> QED
      BY <2>a, <2>b, <2>3, <2>4, <2>5 DEF IInv
  <1>2. ASSUME NEW e \in Events, SenderSend(e) PROVE IInv'
    <2>1. /\ Ring'
          /\ next' = next + 1
          /\ values' # << >> =>
               \/ values'[1].seq = next
               \/ values # << >> /\ values'[1].seq >= values[1].seq
      BY <1>0, <1>2, SendKeepsRing DEF SenderSend, IInv, TypeOK
    <2>2. /\ sent' = Append(sent, e) /\ sent' \in Seq(Events)
          /\ Len(sent) = next
          /\ \A p \in 1..Len(sent) : sent'[p] = sent[p]
      BY <1>2 DEF SenderSend, IInv, TypeOK, Positions
    <2>3. /\ DOMAIN receivers # {} /\ version' = next'
          /\ UNCHANGED <<receivers, born, open, seen, waiting, closed, account, start>>
      BY <1>2 DEF SenderSend, Send
    <2>4. TypeOK' /\ Positions' /\ UnbornUntold'
      BY <2>1, <2>2, <2>3 DEF IInv, TypeOK, Positions, UnbornUntold, Ring
    <2>5. NoSilentGap'
      <3> SUFFICES ASSUME NEW r \in DOMAIN receivers, NEW i \in 1..Len(account[r])
                   PROVE  sent'[start[r] + i] = sent[start[r] + i]
        BY <2>3 DEF IInv, NoSilentGap
      <3>1. Len(account[r]) = receivers[r] - start[r] /\ receivers[r] <= next
            /\ receivers[r] \in Nat /\ start[r] \in Nat
        BY DEF IInv, NoSilentGap, Positions, TypeOK
      <3> QED
        BY <2>2, <3>1 DEF Ring
    <2>6. ReleasedOnceConsumed'
      <3> SUFFICES ASSUME values' # << >>
                   PROVE  \E r \in DOMAIN receivers : receivers[r] <= values'[1].seq
        BY <2>3 DEF ReleasedOnceConsumed
      <3>1. CASE values'[1].seq = next
        BY <2>3, <3>1 DEF IInv, Positions
      <3>2. CASE values # << >> /\ values'[1].seq >= values[1].seq
        <4>1. PICK r \in DOMAIN receivers : receivers[r] <= values[1].seq
          BY <3>2 DEF IInv, ReleasedOnceConsumed
        <4>2. receivers[r] \in Nat /\ values[1].seq \in Nat /\ values'[1].seq \in Nat
          <5>1. values[1] \in Entry /\ values'[1] \in Entry
            BY <3>2, <2>1 DEF Ring, IInv, TypeOK
          <5> QED BY <5>1 DEF Entry, IInv, TypeOK
        <4> QED BY <3>2, <4>1, <4>2
      <3> QED BY <2>1, <3>1, <3>2
    <2> QED
      BY <2>1, <2>4, <2>5, <2>6 DEF IInv, Ring
  <1>3. ASSUME CloseSender PROVE IInv'
    BY <1>3 DEF CloseSender, queueVars, historyVars, IInv, TypeOK, Positions,
       UnbornUntold, RingContiguous, NoSilentGap, ReleasedOnceConsumed
  <1>4. ASSUME NEW r \in Receivers, PollValue(r) PROVE IInv'
    <2> DEFINE told == <<EventAt(r)>>
    <2>1. r \in DOMAIN receivers /\ Readable(r) /\ receivers[r] \in Nat
      BY <1>4 DEF PollValue, RecvValue, IInv, TypeOK
    <2>2. EventAt(r) = sent[receivers[r] + 1]
      BY <1>0, <2>1, EventAtIsSent
    <2>3. receivers[r] + 1 \in 1..Len(sent)
      BY <2>1 DEF Readable, Ring, IInv, Positions
    <2>4. EventAt(r) \in Events
      BY <2>2, <2>3 DEF IInv, TypeOK
    <2>5. /\ told \in Seq(Events \union {Lost}) /\ Len(told) = 1
          /\ told[1] = sent[receivers[r] + 1]
      BY <2>2, <2>4
    <2>6. account' = [account EXCEPT ![r] = @ \o told]
      <3>1. account[r] \in Seq(Events \union {Lost}) /\ account' = [account EXCEPT ![r] = Append(account[r], EventAt(r))]
        BY <1>4 DEF PollValue, IInv, TypeOK
      <3>2. Append(account[r], EventAt(r)) = account[r] \o <<EventAt(r)>>
        BY <3>1, <2>4
      <3> QED BY <3>1, <3>2
    <2>7. /\ MoveTo(r, receivers[r] + 1) /\ receivers[r] + 1 <= next
          /\ UNCHANGED <<recvVars, sent, start>>
      BY <1>4, <2>1 DEF PollValue, RecvValue, Readable, IInv, TypeOK
    <2>8. /\ Len(told) = (receivers[r] + 1) - receivers[r]
          /\ \A i \in 1..Len(told) : told[i] \in {sent[receivers[r] + i], Lost}
      <3> HIDE DEF told
      <3> QED BY <2>1, <2>5
    <2>9. receivers[r] + 1 \in Nat /\ receivers[r] < receivers[r] + 1
      BY <2>1
    <2> HIDE DEF told
    <2> QED
      BY <2>1, <2>5, <2>6, <2>7, <2>8, <2>9, MoveKeepsIInv
  <1>5. ASSUME NEW r \in Receivers, PollLagged(r) PROVE IInv'
    <2> DEFINE told == [i \in 1..Missed(r) |-> Lost]
    <2>1. r \in DOMAIN receivers /\ Lagging(r) /\ receivers[r] \in Nat
      BY <1>5 DEF PollLagged, RecvLagged, IInv, TypeOK
    <2>2. First \in Nat /\ First <= next
      BY <1>0, FirstInRange
    <2>3. Missed(r) \in Nat /\ Missed(r) = First - receivers[r]
      BY <2>1, <2>2 DEF Missed, Lagging
    <2>4. /\ told \in Seq(Events \union {Lost}) /\ Len(told) = Missed(r)
          /\ \A i \in 1..Len(told) : told[i] = Lost
      BY <2>3
    <2>5. /\ MoveTo(r, First) /\ receivers[r] < First
          /\ account' = [account EXCEPT ![r] = @ \o told]
          /\ UNCHANGED <<recvVars, sent, start>>
      BY <1>5 DEF PollLagged, RecvLagged, Lagging
    <2> HIDE DEF told
    <2> QED
      BY <2>1, <2>2, <2>3, <2>4, <2>5, MoveKeepsIInv
  <1>6. ASSUME NEW r \in Receivers, PollEmpty(r) \/ Wake(r) PROVE IInv'
    <2>1. UNCHANGED <<queueVars, historyVars, version, open>>
      BY <1>6 DEF PollEmpty, Wake
    <2>2. /\ waiting' \subseteq DOMAIN receivers' /\ closed' \subseteq Receivers
          /\ seen' \in [Receivers -> Nat]
      BY <1>6 DEF PollEmpty, Wake, Polling, queueVars, IInv, TypeOK
    <2> QED
      BY <2>1, <2>2 DEF queueVars, historyVars, IInv, TypeOK, Positions,
         UnbornUntold, RingContiguous, NoSilentGap, ReleasedOnceConsumed
  <1>7. ASSUME NEW r \in Receivers, Leave(r) PROVE IInv'
    <2> DEFINE left == [x \in DOMAIN receivers \ {r} |-> receivers[x]]
    <2>1. /\ receivers' = left /\ Release(left)
          /\ waiting' = waiting \ {r}
          /\ UNCHANGED <<next, born, version, open, seen, closed, sent, account, start>>
      BY <1>7 DEF Leave, DropReceiver, historyVars
    <2>2. \A x \in DOMAIN left : left[x] \in Nat
      BY DEF IInv, TypeOK
    <2>3. /\ Ring'
          /\ values' # << >> => \E x \in DOMAIN left : left[x] <= values'[1].seq
      BY <1>0, <2>1, <2>2, ReleaseKeepsRing
    <2>4. /\ DOMAIN receivers' = DOMAIN receivers \ {r}
          /\ \A x \in DOMAIN receivers' : receivers'[x] = receivers[x]
      BY <2>1
    <2>5. TypeOK'
      BY <2>1, <2>3, <2>4 DEF Ring, IInv, TypeOK
    <2>6. Positions' /\ UnbornUntold' /\ NoSilentGap'
      BY <2>1, <2>3, <2>4 DEF Ring, IInv, Positions, UnbornUntold, NoSilentGap
    <2> QED
      BY <2>1, <2>3, <2>5, <2>6 DEF IInv, Ring, ReleasedOnceConsumed
  <1>8. ASSUME UNCHANGED vars PROVE IInv'
    BY <1>8 DEF vars, queueVars, recvVars, historyVars, IInv, TypeOK, Positions,
       UnbornUntold, RingContiguous, NoSilentGap, ReleasedOnceConsumed
  <1> QED
    BY <1>1, <1>2, <1>3, <1>4, <1>5, <1>6, <1>7, <1>8 DEF Next, ReceiverStep

LEMMA SpecIInv == Spec => []IInv
  BY InitIInv, NextIInv, PTL DEF Spec

\* Type correctness of the queue, the recv loop and their history.
THEOREM BroadcastTypeCorrect == Spec => []TypeOK
  <1>1. IInv => TypeOK
    BY DEF IInv
  <1> QED
    BY <1>1, SpecIInv, PTL

\* The ring of send and try_recv holds consecutive positions, whatever the
\* sizes of the events and the limits: try_recv's index is always right.
THEOREM BroadcastRingContiguous == Spec => []RingContiguous
  <1>1. IInv => RingContiguous
    BY DEF IInv
  <1> QED
    BY <1>1, SpecIInv, PTL

\* Every receiver of bounded_broadcast was told of each position below its
\* cursor, once and in order: a lag is explicit.
THEOREM BroadcastNoSilentGap == Spec => []NoSilentGap
  <1>1. IInv => NoSilentGap
    BY DEF IInv
  <1> QED
    BY <1>1, SpecIInv, PTL

\* release_consumed, called by every receive and every drop, is enough: the
\* ring never holds an entry that all live receivers have passed.
THEOREM BroadcastReleased == Spec => []ReleasedOnceConsumed
  <1>1. IInv => ReleasedOnceConsumed
    BY DEF IInv
  <1> QED
    BY <1>1, SpecIInv, PTL

-----------------------------------------------------------------------------
(* The byte counter and the two limits.                                    *)

\* What send retains of an event is at most its one entry.
LEMMA RetainedBytes ==
  ASSUME NEW e \in Events, next \in Nat
  PROVE  /\ Size(e) <= ByteLimit => Weight(Retained(e)) = Size(e)
         /\ ~(Size(e) <= ByteLimit) => Retained(e) = << >> /\ Weight(Retained(e)) = 0
  <1> DEFINE entry == [seq |-> next, event |-> e]
  <1>1. entry \in Entry /\ entry.event = e
    BY DEF Entry
  <1> HIDE DEF entry
  <1>2. Append(<< >>, entry) = <<entry>> /\ << >> \in Seq(Entry)
    OBVIOUS
  <1>3. Weight(<<entry>>) = 0 + Size(e)
    BY <1>1, <1>2, WeightAppend, WeightEmpty
  <1>4. Size(e) \in Nat
    BY SizeAssumption
  <1> QED
    BY <1>3, <1>4, WeightEmpty DEF Retained, entry

\* Popping entries takes their bytes off the counter.
LEMMA PopBudget ==
  ASSUME values \in Seq(Entry), WithinBudget, NEW n \in 0 .. Len(values),
         values' = SubSeq(values, n + 1, Len(values)),
         bytes' = bytes - Weight(SubSeq(values, 1, n))
  PROVE  WithinBudget'
  <1>1. /\ values' \in Seq(Entry) /\ SubSeq(values, 1, n) \in Seq(Entry)
        /\ Len(values') = Len(values) - n
    OBVIOUS
  <1>2. Weight(values') \in Nat /\ Weight(SubSeq(values, 1, n)) \in Nat /\ Weight(values) \in Nat
    BY <1>1, WeightNat
  <1>3. Weight(values) = Weight(SubSeq(values, 1, n)) + Weight(values')
    BY WeightSplit
  <1>4. Len(values) \in Nat /\ n \in Nat /\ Capacity \in Nat /\ ByteLimit \in Nat
    BY CapacityAssumption, ByteLimitAssumption
  <1> QED
    BY <1>1, <1>2, <1>3, <1>4 DEF WithinBudget

LEMMA SendBudget ==
  ASSUME values \in Seq(Entry), next \in Nat, WithinBudget, NEW e \in Events, Send(e)
  PROVE  WithinBudget'
  <1>1. PICK k \in 0 .. Len(values) :
          /\ Evicts(k, e)
          /\ values' = SubSeq(values, k + 1, Len(values)) \o Retained(e)
          /\ bytes' = bytes - Weight(SubSeq(values, 1, k)) + Weight(Retained(e))
    BY DEF Send
  <1> DEFINE kept == SubSeq(values, k + 1, Len(values))
             gone == SubSeq(values, 1, k)
             entry == [seq |-> next, event |-> e]
  <1>2. kept \in Seq(Entry) /\ gone \in Seq(Entry) /\ Len(kept) = Len(values) - k
    OBVIOUS
  <1>3. Weight(values) = Weight(gone) + Weight(kept)
    BY WeightSplit
  <1>4. entry \in Entry /\ entry.event = e
    BY DEF Entry
  <1>5. /\ Len(values) \in Nat /\ k \in Nat /\ k <= Len(values) /\ Size(e) \in Nat
        /\ Capacity \in Nat \ {0} /\ ByteLimit \in Nat \ {0}
    BY SizeAssumption, CapacityAssumption, ByteLimitAssumption
  <1>6. bytes = Weight(values) /\ Len(values) <= Capacity
    BY DEF WithinBudget
  <1>7. k = Len(values) => kept = << >>
    BY <1>2
  <1>8. k < Len(values) => /\ Size(e) <= ByteLimit /\ Len(values) - k < Capacity
                           /\ bytes - Weight(gone) + Size(e) <= ByteLimit
    BY <1>1 DEF Evicts, Fits
  <1>9. values' = kept \o Retained(e) /\ bytes' = bytes - Weight(gone) + Weight(Retained(e))
    BY <1>1
  <1>10. CASE Size(e) <= ByteLimit
    <2>1. Retained(e) = <<entry>>
      BY <1>10 DEF Retained
    <2> HIDE DEF kept, gone, entry
    <2>2. values' = Append(kept, entry)
      BY <1>2, <1>4, <1>9, <2>1
    <2>3. Weight(values') = Weight(kept) + Size(e) /\ Len(values') = Len(kept) + 1
      BY <1>2, <1>4, <2>2, WeightAppend
    <2>4. Weight(Retained(e)) = Size(e)
      BY <1>10, RetainedBytes
    <2>5. Weight(kept) \in Nat /\ Weight(gone) \in Nat
      BY <1>2, WeightNat
    <2>6. bytes' = Weight(values')
      BY <1>3, <1>5, <1>6, <1>9, <2>3, <2>4, <2>5
    <2>7. CASE k = Len(values)
      <3>1. Weight(kept) = 0 /\ Len(kept) = 0
        BY <1>7, <2>7, WeightEmpty
      <3> QED
        BY <1>5, <1>10, <2>3, <2>6, <3>1 DEF WithinBudget
    <2>8. CASE k < Len(values)
      <3>1. bytes - Weight(gone) + Size(e) <= ByteLimit /\ Len(kept) < Capacity
        BY <1>2, <1>8, <2>8
      <3>2. bytes' <= ByteLimit
        BY <1>9, <2>4, <3>1
      <3>3. Len(values') <= Capacity
        BY <1>2, <1>5, <2>3, <3>1
      <3> QED
        BY <2>6, <3>2, <3>3 DEF WithinBudget
    <2> QED
      BY <1>5, <2>7, <2>8
  <1>11. CASE ~(Size(e) <= ByteLimit)
    <2>1. k = Len(values)
      BY <1>5, <1>8, <1>11
    <2>2. Retained(e) = << >> /\ Weight(Retained(e)) = 0
      BY <1>11, RetainedBytes
    <2>3. kept = << >> /\ values' = << >>
      BY <1>7, <1>9, <2>1, <2>2
    <2>4. Weight(gone) \in Nat /\ Weight(values) = Weight(gone) + 0
      BY <1>2, <1>3, <2>3, WeightEmpty, WeightNat
    <2>5. bytes' = 0
      BY <1>6, <1>9, <2>2, <2>4
    <2> QED
      BY <1>5, <2>3, <2>5, WeightEmpty DEF WithinBudget
  <1> QED
    BY <1>10, <1>11

LEMMA BudgetStep == IInv /\ WithinBudget /\ [Next]_vars => WithinBudget'
  <1> SUFFICES ASSUME IInv, WithinBudget, [Next]_vars PROVE WithinBudget'
    OBVIOUS
  <1>0. values \in Seq(Entry) /\ next \in Nat
    BY DEF IInv, TypeOK
  <1>1. ASSUME NEW cs, Release(cs) PROVE WithinBudget'
    BY <1>0, <1>1, PopBudget DEF Release
  <1>2. ASSUME NEW e \in Events, SenderSend(e) PROVE WithinBudget'
    BY <1>0, <1>2, SendBudget DEF SenderSend
  <1>3. ASSUME NEW r \in Receivers, PollValue(r) \/ PollLagged(r) \/ Leave(r) PROVE WithinBudget'
    BY <1>1, <1>3 DEF PollValue, RecvValue, PollLagged, RecvLagged, MoveTo, Leave, DropReceiver
  <1>4. ASSUME UNCHANGED <<values, bytes>> PROVE WithinBudget'
    BY <1>4 DEF WithinBudget
  <1>5. ASSUME NEW r \in Receivers, SenderSubscribe(r) \/ PollEmpty(r) \/ Wake(r) PROVE UNCHANGED <<values, bytes>>
    BY <1>5 DEF SenderSubscribe, Subscribe, PollEmpty, Wake, queueVars
  <1>6. ASSUME CloseSender \/ UNCHANGED vars PROVE UNCHANGED <<values, bytes>>
    BY <1>6 DEF CloseSender, vars, queueVars
  <1> QED
    BY <1>2, <1>3, <1>4, <1>5, <1>6 DEF Next, ReceiverStep

\* The byte counter of bounded_broadcast equals what the ring holds after every
\* eviction, release and drop, and neither limit is ever exceeded, whatever the
\* sizes: the subtractions of send and release_consumed do not underflow.
THEOREM BroadcastWithinBudget == Spec => []WithinBudget
  <1>1. Init => WithinBudget
    BY WeightEmpty, CapacityAssumption, ByteLimitAssumption DEF Init, InitQueue, WithinBudget
  <1> QED
    BY <1>1, BudgetStep, SpecIInv, PTL DEF Spec

-----------------------------------------------------------------------------
(* Sleeping and waking.                                                    *)

\* The channel's version counts the events sent; nobody has seen a later one.
\* A receiver that sleeps at the newest version, or was told the channel closed,
\* has nothing to read.
Watch ==
  /\ version = next
  /\ \A r \in Receivers : seen[r] <= version
  /\ NoLostWakeup
  /\ closed # {} => ~open
  /\ ClosedAtEnd

LEMMA WatchStep == IInv /\ Watch /\ [Next]_vars => Watch'
  <1> SUFFICES ASSUME IInv, Watch, [Next]_vars PROVE Watch'
    OBVIOUS
  <1>0. /\ next \in Nat /\ version = next /\ seen \in [Receivers -> Nat] /\ DOMAIN receivers \subseteq born
        /\ waiting \subseteq DOMAIN receivers /\ closed \subseteq Receivers /\ DOMAIN receivers \subseteq Receivers
        /\ \A r \in DOMAIN receivers : receivers[r] \in Nat /\ receivers[r] <= next
        /\ \A r \in Receivers : seen[r] \in Nat /\ seen[r] <= version
        /\ \A r \in waiting : receivers[r] < next => seen[r] # version
        /\ closed # {} => ~open
        /\ \A r \in closed \cap DOMAIN receivers : ~open /\ receivers[r] = next
    BY DEF IInv, TypeOK, Positions, Watch, NoLostWakeup, ClosedAtEnd
  <1>1. ASSUME NEW r \in Receivers, SenderSubscribe(r) PROVE Watch'
    <2>1. /\ r \notin DOMAIN receivers /\ open
          /\ DOMAIN receivers' = DOMAIN receivers \union {r}
          /\ \A x \in DOMAIN receivers : receivers'[x] = receivers[x]
          /\ seen' = [seen EXCEPT ![r] = version]
          /\ UNCHANGED <<next, version, open, waiting, closed>>
      BY <1>0, <1>1 DEF SenderSubscribe, Subscribe
    <2>2. closed \cap DOMAIN receivers = {} /\ r \notin waiting
      BY <1>0, <2>1
    <2>3. \A x \in Receivers : seen'[x] <= version
      BY <1>0, <2>1
    <2>4. \A x \in waiting : seen'[x] = seen[x] /\ receivers'[x] = receivers[x]
      BY <1>0, <2>1, <2>2
    <2>5. ClosedAtEnd'
      <3>1. closed = {}
        BY <1>0, <2>1
      <3> QED
        BY <2>1, <3>1 DEF ClosedAtEnd
    <2> QED
      BY <1>0, <2>1, <2>3, <2>4, <2>5 DEF Watch, NoLostWakeup
  <1>2. ASSUME NEW e \in Events, SenderSend(e) PROVE Watch'
    <2>1. /\ next' = next + 1 /\ version' = next'
          /\ open /\ UNCHANGED <<receivers, open, seen, waiting, closed>>
      BY <1>2 DEF SenderSend, Send
    <2>2. closed \cap DOMAIN receivers = {}
      BY <1>0, <2>1
    <2>3. \A r \in Receivers : seen'[r] <= version' /\ seen'[r] # version'
      BY <1>0, <2>1
    <2> QED
      BY <1>0, <2>1, <2>2, <2>3 DEF Watch, NoLostWakeup, ClosedAtEnd
  <1>3. ASSUME CloseSender \/ UNCHANGED vars PROVE Watch'
    BY <1>0, <1>3 DEF CloseSender, vars, queueVars, recvVars, Watch, NoLostWakeup, ClosedAtEnd
  <1>4. ASSUME NEW r \in Receivers, PollValue(r) \/ PollLagged(r) PROVE Watch'
    <2>1. /\ r \in DOMAIN receivers /\ r \notin waiting /\ r \notin closed
          /\ DOMAIN receivers' = DOMAIN receivers
          /\ \A x \in DOMAIN receivers \ {r} : receivers'[x] = receivers[x]
          /\ UNCHANGED <<next, version, open, seen, waiting, closed>>
      BY <1>4 DEF PollValue, RecvValue, PollLagged, RecvLagged, Polling, MoveTo, recvVars
    <2> QED
      BY <1>0, <2>1 DEF Watch, NoLostWakeup, ClosedAtEnd
  <1>5. ASSUME NEW r \in Receivers, PollEmpty(r) PROVE Watch'
    <2>1. /\ r \in DOMAIN receivers /\ receivers[r] >= next
          /\ \/ open /\ waiting' = waiting \union {r} /\ UNCHANGED closed
             \/ ~open /\ closed' = closed \union {r} /\ UNCHANGED waiting
          /\ UNCHANGED <<next, receivers, version, open, seen>>
      BY <1>5 DEF PollEmpty, Polling, CaughtUp, queueVars
    <2>2. receivers[r] = next
      BY <1>0, <2>1
    <2> QED
      BY <1>0, <2>1, <2>2 DEF Watch, NoLostWakeup, ClosedAtEnd
  <1>6. ASSUME NEW r \in Receivers, Wake(r) PROVE Watch'
    <2>1. /\ waiting' = waiting \ {r} /\ seen' = [seen EXCEPT ![r] = version]
          /\ UNCHANGED <<next, receivers, version, open, closed>>
      BY <1>6 DEF Wake, queueVars
    <2>2. \A x \in Receivers : seen'[x] <= version /\ (x # r => seen'[x] = seen[x])
      BY <1>0, <2>1
    <2>3. \A x \in waiting' : x \in Receivers /\ x # r /\ x \in waiting
      BY <1>0, <2>1
    <2> QED
      BY <1>0, <2>1, <2>2, <2>3 DEF Watch, NoLostWakeup, ClosedAtEnd
  <1>7. ASSUME NEW r \in Receivers, Leave(r) PROVE Watch'
    <2>1. /\ DOMAIN receivers' = DOMAIN receivers \ {r} /\ waiting' = waiting \ {r}
          /\ \A x \in DOMAIN receivers' : receivers'[x] = receivers[x]
          /\ UNCHANGED <<next, version, open, seen, closed>>
      BY <1>7 DEF Leave, DropReceiver
    <2> QED
      BY <1>0, <2>1 DEF Watch, NoLostWakeup, ClosedAtEnd
  <1> QED
    BY <1>1, <1>2, <1>3, <1>4, <1>5, <1>6, <1>7 DEF Next, ReceiverStep

LEMMA WatchAlways == Spec => []Watch
  <1>1. Init => Watch
    BY DEF Init, InitQueue, Watch, NoLostWakeup, ClosedAtEnd
  <1> QED
    BY <1>1, WatchStep, SpecIInv, PTL DEF Spec

\* Receiver::recv never sleeps through a send: with an event there for it, also
\* one sent between its last poll and its sleep, the watch channel wakes it.
THEOREM BroadcastWakesSleepers == Spec => []NoLostWakeup
  <1>1. Watch => NoLostWakeup
    BY DEF Watch
  <1> QED
    BY <1>1, WatchAlways, PTL

\* Receiver::recv answers "closed" only after every event, read or reported
\* lost.
THEOREM BroadcastClosesAtEnd == Spec => []ClosedAtEnd
  <1>1. Watch => ClosedAtEnd
    BY DEF Watch
  <1> QED
    BY <1>1, WatchAlways, PTL
=============================================================================
