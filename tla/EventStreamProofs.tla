------------------------- MODULE EventStreamProofs -------------------------
(***************************************************************************)
(* What EventStream guarantees for any number of connections, events and   *)
(* failures, and any sizes and limits of the queue: the types, that no     *)
(* subscription is leaked but by a refusal or a call given up, and, when   *)
(* events are published in the order of the log, that the client's cursor  *)
(* passes no event it has not applied and is at the end of the log when    *)
(* nothing is under way any more.                                          *)
(***************************************************************************)
EXTENDS EventStream, SequenceTheorems, FiniteSetTheorems, TLAPS

-----------------------------------------------------------------------------
(* The shape of the state.                                                 *)

Kinds == {"response", "snapshot", "event", "ready", "lagged"}
Frames == [kind : Kinds, sub : Nat \union {None}, seq : Seqs \union {None}]

\* A frame but the lag notice belongs to a subscription and names a position.
FrameOf(f, g, h) ==
    IF f.kind = "lagged" THEN f.sub = None ELSE f.sub \in 1 .. g /\ f.seq \in 0 .. h

\* The ring holds the last positions, without a hole.
Ring(vs, n) ==
    /\ vs \in Seq(Entry) /\ n \in Nat /\ Len(vs) <= n
    /\ \A i \in 1 .. Len(vs) : vs[i].seq = n - Len(vs) + i - 1

QueueShape ==
    /\ head \in Seqs
    /\ Ring(values, next)
    /\ \A i \in 1 .. Len(values) : values[i].event \in 1 .. head
    /\ \A r \in DOMAIN receivers : receivers[r] \in 0 .. next
    /\ conn \in Receivers \union {None} /\ DOMAIN receivers = {conn} \ {None}
    /\ emitting \in [Emitters -> (1 .. MaxEvents) \union {None}]
    /\ \A e \in Emitters : emitting[e] # None => emitting[e] \in 1 .. head

CallShape(c) ==
    /\ c.kind \in {"subscribe", "unsubscribe"} /\ c.sub \in 1 .. generation
    /\ c.kind = "subscribe" => c.after \in (0 .. head) \union {None}

EstablishShape ==
    establish # None =>
        /\ establish = [sub |-> establish.sub, after |-> establish.after, head |-> establish.head, pc |-> establish.pc]
        /\ establish.sub \in 1 .. generation /\ establish.head \in 0 .. head
        /\ establish.pc \in {"respond", "replay"}
        /\ establish.after \in (0 .. head) \union {None}
        /\ establish.pc = "replay" => establish.after # None

ServerShape ==
    /\ \A s \in DOMAIN subs : s \in 1 .. generation /\ subs[s] \in Seqs
    /\ \A c \in calls : CallShape(c)
    /\ EstablishShape
    /\ hand \in (1 .. head) \union {None}

FramesShape ==
    /\ frames \in Seq(Frames)
    /\ \A i \in 1 .. Len(frames) : FrameOf(frames[i], generation, head)

ClientShape ==
    /\ lastSeq \in (0 .. head) \union {None} /\ base \in (0 .. head) \union {None}
    /\ remote \in 1 .. generation \union {None} /\ generation \in Nat
    /\ ready \in Seqs \union {None}
    /\ seen \subseteq 1 .. MaxEvents /\ failures \in 0 .. MaxFailures
    /\ stranded \subseteq 1 .. generation
    /\ remote # None => remote = generation /\ lastSeq # None
    /\ base = None <=> lastSeq = None
    /\ base # None => base <= lastSeq

\* A subscription that is refused: the connection is dropped, or, when the
\* client has given it up, the request is gone.
Declined(c) ==
    /\ c.sub # generation /\ calls' = calls \ {c}
    /\ UNCHANGED <<queueVars, head, emitting, conn, subs, establish, hand, frames, client>>

\* Nothing of a connection outlives it.
ClosedShape ==
    conn = None =>
        /\ values = << >> /\ DOMAIN subs = {} /\ calls = {} /\ establish = None
        /\ hand = None /\ frames = << >> /\ remote = None

Shape == QueueShape /\ ServerShape /\ FramesShape /\ ClientShape /\ ClosedShape

-----------------------------------------------------------------------------
(* Whose turn it is to speak for a subscription.                           *)

IsAnswer(f, s) == f.kind \in {"response", "snapshot"} /\ f.sub = s
AnswerSent(s) == \E i \in DOMAIN frames : IsAnswer(frames[i], s)
Responding(s) == establish # None /\ establish.pc = "respond" /\ establish.sub = s
Asked(s) == \E c \in calls : c.kind = "subscribe" /\ c.sub = s
GivenUp(s) == UnsubscribeCall(s) \in calls

\* A subscription the socket serves is the client's, or is about to become
\* the client's, or will be taken back, or nobody takes it back any more.
Accounted ==
    \A s \in DOMAIN subs : s = remote \/ GivenUp(s) \/ AnswerSent(s) \/ Responding(s) \/ s \in stranded

\* The client's request is on its way or has reached the socket, and is not
\* taken back, nor lost sight of.
Requested ==
    /\ conn # None => Asked(generation) \/ generation \in DOMAIN subs
    /\ \A c \in calls : c.kind = "unsubscribe" => c.sub < generation
    /\ generation \notin stranded

LeakInv == Accounted /\ Requested

-----------------------------------------------------------------------------
(* What the client will have when it has taken the frames before a place.  *)

LastHas(last, m) == last # None /\ m <= last

\* After this frame the client has m, or it has begun anew.
Covers(f, g, last, m) ==
    \/ f.kind = "lagged"
    \/ f.sub = g /\ \/ f.kind = "event" /\ f.seq = m
                    \/ f.kind = "snapshot" /\ m <= f.seq
                    \/ f.kind = "response" /\ last = None /\ m <= f.seq

Covered(fs, g, last, i, m) ==
    LastHas(last, m) \/ \E j \in 1 .. i - 1 : Covers(fs[j], g, last, m)

\* The client listens to g by then.
Answered(fs, g, r, i) ==
    r = g \/ \E j \in 1 .. i - 1 : fs[j].kind = "lagged" \/ IsAnswer(fs[j], g)

\* Every event comes after those below it, the note that all is ready after
\* all of them, and both after the answer, of which there is one.
Chain(fs, g, last, r) ==
    \A i \in 1 .. Len(fs) : fs[i].sub = g =>
        /\ fs[i].kind = "event" => \A m \in 1 .. fs[i].seq - 1 : Covered(fs, g, last, i, m)
        /\ fs[i].kind = "ready" => \A m \in 1 .. fs[i].seq : Covered(fs, g, last, i, m)
        /\ fs[i].kind \in {"event", "ready"} => Answered(fs, g, r, i)
        /\ IsAnswer(fs[i], g) => r # g /\ \A j \in 1 .. Len(fs) : IsAnswer(fs[j], g) => j = i

NoFramesOf(fs, g) == \A i \in 1 .. Len(fs) : fs[i].sub # g

\* Events are published in the order of the log: of the events appended and
\* not yet published, the oldest goes first.
InOrder ==
    \A e \in Emitters : Publish(e) =>
        \A f \in Emitters : emitting[f] # None => emitting[e] <= emitting[f]

\* What is not published is then the end of the log, each event held by one
\* emitter; Published is where that end begins.
Unpublished == {emitting[e] : e \in Emitters} \ {None}
EndOf(S, h) == CHOOSE p \in 0 .. h : S = p + 1 .. h
Published == EndOf(Unpublished, head)

Queued ==
    /\ \E p \in 0 .. head : Unpublished = p + 1 .. head
    /\ \A e, f \in Emitters : emitting[e] # None /\ emitting[e] = emitting[f] => e = f

\* The event of the log that live delivery sends next.
Upcoming == IF hand # None THEN hand ELSE receivers[conn] + Published + 1 - next

\* The ring holds the newest published events of the log, in order.
Aligned ==
    /\ Queued
    /\ \A i \in 1 .. Len(values) : values[i].event = Published + values[i].seq + 1 - next
    /\ hand # None => hand = receivers[conn] + Published - next

All == Len(frames) + 1
Establishing == establish # None /\ establish.sub = generation
Lost == \E i \in DOMAIN frames : frames[i].kind = "lagged"

\* The request for the client's subscription carries the client's cursor, and
\* nothing has been said of the subscription before its answer.
Unanswered ==
    /\ \A c \in calls : c.kind = "subscribe" /\ c.sub = generation =>
          /\ c = SubscribeCall(generation, lastSeq)
          /\ generation \notin DOMAIN subs /\ ~Establishing
    /\ Asked(generation) \/ Responding(generation) => remote = None /\ NoFramesOf(frames, generation)
    /\ Responding(generation) => establish.after = lastSeq

\* Everything up to where the socket stands with the client's subscription is
\* had or on its way.
Delivered ==
    /\ Establishing =>
          /\ generation \in DOMAIN subs /\ subs[generation] = establish.head
          /\ Upcoming - 1 <= establish.head \/ Lost
          /\ establish.pc = "replay" => \A m \in 1 .. establish.after : Covered(frames, generation, lastSeq, All, m)
    /\ conn # None /\ ~Asked(generation) /\ ~Establishing =>
          /\ \A m \in 1 .. subs[generation] : Covered(frames, generation, lastSeq, All, m)
          /\ \A m \in 1 .. Upcoming - 1 : Covered(frames, generation, lastSeq, All, m)
    /\ conn # None /\ ~Asked(generation) /\ ~Responding(generation) => Answered(frames, generation, remote, All)

Spoken == Chain(frames, generation, lastSeq, remote) /\ Unanswered /\ Delivered

GapInv == NoGap /\ Aligned /\ Spoken

-----------------------------------------------------------------------------
(* Lemmas about the ring.                                                  *)

LEMMA ConstantFacts ==
    /\ None \notin Nat /\ MaxEvents \in Nat /\ MaxFailures \in Nat /\ GapLimit \in Nat
    /\ Events = 1 .. MaxEvents
    /\ \A r \in Receivers : r # None
  <1>1. ASSUME NEW r \in Receivers PROVE r # None
    <2>1. r \in 1 .. Cardinality(Receivers)
      BY StreamAssumption
    <2>2. r \in Nat
      BY <2>1
    <2> QED BY <2>2, StreamAssumption
  <1> QED BY <1>1, StreamAssumption

\* An entry's position.
LEMMA RingEntry ==
    ASSUME NEW vs, NEW n, Ring(vs, n), NEW i \in 1 .. Len(vs)
    PROVE  /\ vs[i] \in Entry
           /\ vs[i].seq = n - Len(vs) + i - 1
           /\ vs[i].seq \in 0 .. n - 1
  <1>1. vs \in Seq(Entry) /\ n \in Nat /\ Len(vs) <= n /\ vs[i].seq = n - Len(vs) + i - 1
    BY DEF Ring
  <1>2. Len(vs) \in Nat /\ i \in Nat /\ vs[i] \in Entry
    BY <1>1
  <1> QED BY <1>1, <1>2

\* Popping from the front leaves a ring of entries that were there before.
LEMMA RingPop ==
    ASSUME NEW vs, NEW n, Ring(vs, n), NEW k \in 0 .. Len(vs)
    PROVE  LET ws == SubSeq(vs, k + 1, Len(vs)) IN
             /\ Ring(ws, n) /\ Len(ws) = Len(vs) - k
             /\ \A i \in 1 .. Len(ws) : \E j \in 1 .. Len(vs) : ws[i] = vs[j]
  <1> DEFINE ws == SubSeq(vs, k + 1, Len(vs))
  <1>1. vs \in Seq(Entry) /\ n \in Nat /\ Len(vs) <= n /\ Len(vs) \in Nat
    BY DEF Ring
  <1>2. /\ ws \in Seq(Entry)
        /\ Len(ws) = Len(vs) - k
        /\ \A i \in 1 .. Len(ws) : ws[i] = vs[k + i]
    BY <1>1
  <1>3. \A i \in 1 .. Len(ws) : k + i \in 1 .. Len(vs)
    BY <1>1, <1>2
  <1>4. ASSUME NEW i \in 1 .. Len(ws) PROVE ws[i].seq = n - Len(ws) + i - 1
    <2>1. vs[k + i].seq = n - Len(vs) + (k + i) - 1
      BY <1>3, RingEntry
    <2> DEFINE l == Len(vs)
               m == Len(ws)
    <2>2. ws[i].seq = n - l + (k + i) - 1 /\ m = l - k /\ l \in Nat /\ i \in Nat
      BY <1>1, <1>2, <2>1
    <2> HIDE DEF l, m, ws
    <2>3. ws[i].seq = n - m + i - 1
      BY <2>2, <1>1
    <2> QED BY <2>3 DEF m
  <1>5. Len(ws) <= n
    <2> HIDE DEF ws
    <2> QED BY <1>1, <1>2
  <1>6. \A i \in 1 .. Len(ws) : \E j \in 1 .. Len(vs) : ws[i] = vs[j]
    <2> HIDE DEF ws
    <2> QED BY <1>2, <1>3
  <1> QED BY <1>1, <1>2, <1>4, <1>5, <1>6 DEF Ring

\* Pushing the next position leaves a ring.
LEMMA RingPush ==
    ASSUME NEW vs, NEW n, Ring(vs, n), NEW e \in Events
    PROVE  LET entry == [seq |-> n, event |-> e] IN
             /\ Ring(vs \o <<entry>>, n + 1) /\ Len(vs \o <<entry>>) = Len(vs) + 1
             /\ \A i \in 1 .. Len(vs) + 1 :
                  (vs \o <<entry>>)[i] = IF i = Len(vs) + 1 THEN entry ELSE vs[i]
  <1> DEFINE entry == [seq |-> n, event |-> e]
             ws == vs \o <<entry>>
  <1>1. vs \in Seq(Entry) /\ n \in Nat /\ Len(vs) <= n /\ Len(vs) \in Nat
    BY DEF Ring
  <1>2. entry \in Entry /\ entry.seq = n
    BY <1>1 DEF Entry
  <1>3. /\ ws \in Seq(Entry) /\ Len(ws) = Len(vs) + 1
        /\ \A i \in 1 .. Len(ws) : ws[i] = IF i = Len(vs) + 1 THEN entry ELSE vs[i]
    <2> HIDE DEF entry
    <2> QED BY <1>1, <1>2
  <1> HIDE DEF entry, ws
  <1>4. ASSUME NEW i \in 1 .. Len(ws) PROVE ws[i].seq = n + 1 - Len(ws) + i - 1
    <2>1. CASE i = Len(vs) + 1
      BY <1>1, <1>2, <1>3, <2>1
    <2>2. CASE i # Len(vs) + 1
      <3>1. i \in 1 .. Len(vs) /\ ws[i] = vs[i]
        BY <1>1, <1>3, <2>2
      <3>2. vs[i].seq = n - Len(vs) + i - 1
        BY <3>1 DEF Ring
      <3> QED BY <1>1, <1>3, <3>1, <3>2
    <2> QED BY <2>1, <2>2
  <1>5. Ring(ws, n + 1)
    <2>1. n + 1 \in Nat /\ Len(ws) <= n + 1
      BY <1>1, <1>3
    <2> QED BY <1>3, <1>4, <2>1, SMTT(60) DEF Ring
  <1> QED BY <1>1, <1>3, <1>5 DEF entry, ws

LEMMA RingEmpty == ASSUME NEW n \in Nat PROVE Ring(<< >>, n)
  BY DEF Ring

\* What the ring keeps was there before.
Kept == \A i \in 1 .. Len(values') : \E j \in 1 .. Len(values) : values'[i] = values[j]

LEMMA ReleaseRing ==
    ASSUME Ring(values, next), NEW cs, Release(cs), next' = next
    PROVE  Ring(values', next') /\ Kept /\ (DOMAIN cs = {} => values' = << >>)
  <1>1. PICK n \in 0 .. Len(values) :
           /\ n < Len(values) => ~Passed(n + 1, cs)
           /\ values' = SubSeq(values, n + 1, Len(values))
    BY DEF Release
  <1>2. Ring(values', next) /\ Kept /\ Len(values') = Len(values) - n
    BY <1>1, RingPop DEF Kept
  <1>3. ASSUME DOMAIN cs = {} PROVE values' = << >>
    <2>1. Passed(n + 1, cs)
      BY <1>3 DEF Passed
    <2>2. n = Len(values) /\ Len(values) \in Nat
      BY <1>1, <2>1 DEF Ring
    <2>3. values' \in Seq(Entry) /\ Len(values') = 0
      BY <1>2, <2>2 DEF Ring
    <2> QED BY <2>3
  <1> QED BY <1>2, <1>3

LEMMA MoveRing ==
    ASSUME QueueShape, NEW r \in DOMAIN receivers, NEW p \in 0 .. next, MoveTo(r, p)
    PROVE  /\ Ring(values', next') /\ Kept /\ next' = next /\ born' = born
           /\ DOMAIN receivers' = DOMAIN receivers
           /\ receivers'[r] = p
           /\ \A x \in DOMAIN receivers' : receivers'[x] \in 0 .. next'
  BY ReleaseRing DEF MoveTo, QueueShape

\* Sending keeps some of the newest entries and may add one, the event sent.
LEMMA SendRing ==
    ASSUME QueueShape, NEW e \in Events, Send(e)
    PROVE  /\ Ring(values', next') /\ next' = next + 1 /\ receivers' = receivers
           /\ \A i \in 1 .. Len(values') :
                \/ \E j \in 1 .. Len(values) : values'[i] = values[j]
                \/ values'[i] = [seq |-> next, event |-> e]
  <1>1. PICK k \in 0 .. Len(values) :
           values' = SubSeq(values, k + 1, Len(values)) \o Retained(e)
           /\ Evicts(k, e)
    BY DEF Send
  <1> DEFINE ws == SubSeq(values, k + 1, Len(values))
             entry == [seq |-> next, event |-> e]
  <1>2. next' = next + 1 /\ receivers' = receivers /\ Ring(values, next) /\ next \in Nat
    BY DEF Send, QueueShape, Ring
  <1>3. /\ Ring(ws, next) /\ Len(ws) = Len(values) - k /\ Len(ws) \in Nat
        /\ \A i \in 1 .. Len(ws) : \E j \in 1 .. Len(values) : ws[i] = values[j]
    BY <1>2, RingPop DEF Ring
  <1>4. CASE Size(e) <= ByteLimit
    <2>1. values' = ws \o <<entry>>
      BY <1>1, <1>4 DEF Retained
    <2>2. /\ Ring(values', next + 1) /\ Len(values') = Len(ws) + 1
          /\ \A i \in 1 .. Len(ws) + 1 : values'[i] = IF i = Len(ws) + 1 THEN entry ELSE ws[i]
      <3> HIDE DEF ws
      <3>1. /\ Ring(ws \o <<entry>>, next + 1) /\ Len(ws \o <<entry>>) = Len(ws) + 1
            /\ \A i \in 1 .. Len(ws) + 1 :
                 (ws \o <<entry>>)[i] = IF i = Len(ws) + 1 THEN entry ELSE ws[i]
        BY <1>3, RingPush
      <3> HIDE DEF entry
      <3> QED BY <2>1, <3>1
    <2>3. ASSUME NEW i \in 1 .. Len(values')
          PROVE  (\E j \in 1 .. Len(values) : values'[i] = values[j]) \/ values'[i] = entry
      <3> HIDE DEF ws, entry
      <3>1. i \in 1 .. Len(ws) + 1 /\ values'[i] = IF i = Len(ws) + 1 THEN entry ELSE ws[i]
        BY <2>2
      <3>2. CASE i = Len(ws) + 1
        BY Zenon, <3>1, <3>2
      <3>3. CASE i # Len(ws) + 1
        <4> DEFINE n == Len(ws)
        <4>1. n \in Nat /\ i \in 1 .. n + 1 /\ i # n + 1
          BY Zenon, <1>3, <3>1, <3>3
        <4> HIDE DEF n
        <4>2. i \in 1 .. n
          BY <4>1
        <4> USE DEF n
        <4> QED BY Zenon, <1>3, <3>1, <3>3, <4>2
      <3> QED BY <3>2, <3>3
    <2> QED BY <1>2, <2>2, <2>3
  <1>5. CASE ~(Size(e) <= ByteLimit)
    <2>1. k = Len(values) /\ Len(values) \in Nat
      BY <1>1, <1>2, <1>5 DEF Evicts, Fits, Ring
    <2>2. ws \in Seq(Entry) /\ Len(ws) = 0
      BY <1>3, <2>1 DEF Ring
    <2>3. values' = << >>
      <3>1. ws = << >> /\ Retained(e) = << >>
        BY <2>2, <1>5 DEF Retained
      <3>2. values' = ws \o Retained(e)
        BY <1>1
      <3> HIDE DEF ws
      <3> QED BY <3>1, <3>2
    <2> QED BY <1>2, <2>3, RingEmpty
  <1> QED BY <1>4, <1>5

\* What a receiver that is not left behind reads.
LEMMA ReadEntry ==
    ASSUME QueueShape, NEW r \in DOMAIN receivers, Readable(r)
    PROVE  \E j \in 1 .. Len(values) : values[j].seq = receivers[r] /\ EventAt(r) = values[j].event
  <1>1. /\ values \in Seq(Entry) /\ next \in Nat /\ Len(values) \in Nat /\ Len(values) <= next
        /\ receivers[r] \in Nat /\ receivers[r] < next /\ receivers[r] >= First
    <2>1. values \in Seq(Entry) /\ next \in Nat /\ Len(values) \in Nat /\ receivers[r] \in 0 .. next /\ Len(values) <= next
      BY DEF QueueShape, Ring
    <2>2. First \in Nat
      <3>1. CASE values = << >> BY <3>1, <2>1 DEF First
      <3>2. CASE values # << >>
        <4>1. 1 \in 1 .. Len(values) BY <2>1, <3>2
        <4>2. values[1] \in Entry BY <2>1, <4>1
        <4> QED BY <4>2, <3>2 DEF First, Entry
      <3> QED BY <3>1, <3>2
    <2> QED BY <2>1, <2>2 DEF Readable, Lagging
  <1>2. values # << >>
    BY <1>1 DEF First
  <1>3. 1 \in 1 .. Len(values) /\ First = next - Len(values)
    <2>1. 1 \in 1 .. Len(values) BY <1>1, <1>2
    <2>2. values[1].seq = next - Len(values) + 1 - 1
      BY <2>1, RingEntry DEF QueueShape
    <2> QED BY <1>1, <1>2, <2>1, <2>2 DEF First
  <1> DEFINE j == receivers[r] - First + 1
  <1>4. j \in 1 .. Len(values)
    BY <1>1, <1>3
  <1>5. values[j].seq = next - Len(values) + j - 1
    BY <1>4, RingEntry DEF QueueShape
  <1>6. values[j].seq = receivers[r]
    BY <1>1, <1>3, <1>4, <1>5
  <1> QED BY <1>4, <1>6 DEF EventAt

LEMMA FirstBound ==
    ASSUME QueueShape
    PROVE  First \in 0 .. next
  <1>1. values \in Seq(Entry) /\ next \in Nat /\ Len(values) \in Nat /\ Len(values) <= next
    BY DEF QueueShape, Ring
  <1>2. CASE values = << >> BY <1>1, <1>2 DEF First
  <1>3. CASE values # << >>
    <2>1. 1 \in 1 .. Len(values) BY <1>1, <1>3
    <2>2. values[1].seq \in 0 .. next - 1
      BY <2>1, RingEntry DEF QueueShape
    <2> QED BY <1>1, <1>3, <2>2 DEF First
  <1> QED BY <1>2, <1>3

-----------------------------------------------------------------------------
(* Lemmas about the frames on their way.                                   *)

LEMMA FrameLater ==
    ASSUME NEW f, NEW g \in Nat, NEW h \in Nat, NEW g2 \in Nat, NEW h2 \in Nat,
           g <= g2, h <= h2, FrameOf(f, g, h)
    PROVE  FrameOf(f, g2, h2)
  BY DEF FrameOf

LEMMA AppendFrame ==
    ASSUME NEW fs \in Seq(Frames), NEW f \in Frames
    PROVE  /\ Append(fs, f) \in Seq(Frames) /\ Len(Append(fs, f)) = Len(fs) + 1
           /\ Len(fs) \in Nat
           /\ \A i \in 1 .. Len(fs) : Append(fs, f)[i] = fs[i]
           /\ Append(fs, f)[Len(fs) + 1] = f
  OBVIOUS

LEMMA TailFrames ==
    ASSUME NEW fs \in Seq(Frames), fs # << >>
    PROVE  /\ Tail(fs) \in Seq(Frames) /\ Len(fs) = Len(Tail(fs)) + 1
           /\ Len(Tail(fs)) \in Nat
           /\ \A i \in 1 .. Len(Tail(fs)) : Tail(fs)[i] = fs[i + 1]
           /\ 1 \in 1 .. Len(fs) /\ Head(fs) = fs[1] /\ Head(fs) \in Frames
  OBVIOUS

\* SetToSeq lists the members of a finite set.
LEMMA SetToSeqLists ==
    ASSUME NEW S, IsFiniteSet(S)
    PROVE  /\ Cardinality(S) \in Nat
           /\ SetToSeq(S) \in [1 .. Cardinality(S) -> S]
           /\ \A x \in S : \E i \in 1 .. Cardinality(S) : SetToSeq(S)[i] = x
  <1> DEFINE D == 1 .. Cardinality(S)
  <1>1. Cardinality(S) \in Nat /\ ExistsBijection(D, S)
    BY FS_CardinalityType
  <1>2. PICK b \in Bijection(D, S) : TRUE
    BY <1>1 DEF ExistsBijection
  <1>3. b \in [D -> S] /\ IsInjective(b)
    BY <1>2 DEF Bijection, Injection, IsInjective
  <1> DEFINE f == SetToSeq(S)
  <1>4. f \in [D -> S] /\ IsInjective(f)
    BY <1>3 DEF SetToSeq
  <1>5. f \in Injection(D, S)
    BY <1>4 DEF Injection, IsInjective
  <1>6. IsFiniteSet(D) /\ Cardinality(D) = Cardinality(S)
    BY <1>1, FS_Interval
  <1>7. f \in Surjection(D, S)
    BY <1>5, <1>6, FS_Injection
  <1>8. \A x \in S : \E i \in D : f[i] = x
    BY <1>7 DEF Surjection
  <1> QED BY <1>1, <1>4, <1>8

\* One event frame for each subscription of T, after the frames before.
Sent(T, h) == [i \in 1 .. Cardinality(T) |-> Frame("event", SetToSeq(T)[i], h)]

LEMMA SentFrames ==
    ASSUME NEW fs \in Seq(Frames), NEW T \in SUBSET Nat, IsFiniteSet(T), NEW h \in Seqs
    PROVE  LET ws == fs \o Sent(T, h) IN
             /\ ws \in Seq(Frames) /\ Len(ws) \in Nat /\ Len(fs) \in Nat /\ Len(ws) >= Len(fs)
             /\ \A i \in 1 .. Len(fs) : ws[i] = fs[i]
             /\ \A i \in Len(fs) + 1 .. Len(ws) : \E t \in T : ws[i] = Frame("event", t, h)
             /\ \A t \in T : \E i \in Len(fs) + 1 .. Len(ws) : ws[i] = Frame("event", t, h)
  <1> DEFINE n == Cardinality(T)
             list == SetToSeq(T)
             new == Sent(T, h)
             ws == fs \o new
  <1>1. /\ n \in Nat /\ list \in [1 .. n -> T]
        /\ \A x \in T : \E i \in 1 .. n : list[i] = x
    BY SetToSeqLists
  <1>2. /\ new = [i \in 1 .. n |-> Frame("event", list[i], h)]
        /\ \A t \in T : Frame("event", t, h) \in Frames
    BY DEF Sent, Frame, Frames, Kinds
  <1> HIDE DEF n, list, new
  <1>3. new \in Seq(Frames) /\ Len(new) = n /\ \A i \in 1 .. n : new[i] = Frame("event", list[i], h)
    <2>1. new \in [1 .. n -> Frames]
      BY <1>1, <1>2
    <2>2. new \in Seq(Frames) /\ Len(new) = n
      BY <1>1, <2>1
    <2> QED BY <1>2, <2>2
  <1>4. /\ ws \in Seq(Frames) /\ Len(ws) = Len(fs) + n /\ Len(fs) \in Nat
        /\ \A i \in 1 .. Len(fs) : ws[i] = fs[i]
        /\ \A i \in 1 .. n : ws[Len(fs) + i] = new[i]
    BY <1>3, <1>1
  <1> HIDE DEF ws
  <1>5. ASSUME NEW i \in Len(fs) + 1 .. Len(ws) PROVE \E t \in T : ws[i] = Frame("event", t, h)
    <2>1. i - Len(fs) \in 1 .. n /\ i = Len(fs) + (i - Len(fs))
      BY <1>1, <1>4
    <2>2. ws[i] = Frame("event", list[i - Len(fs)], h) /\ list[i - Len(fs)] \in T
      BY <1>1, <1>3, <1>4, <2>1
    <2> QED BY <2>2
  <1>6. ASSUME NEW t \in T PROVE \E i \in Len(fs) + 1 .. Len(ws) : ws[i] = Frame("event", t, h)
    <2>1. PICK i \in 1 .. n : list[i] = t
      BY <1>1
    <2>2. Len(fs) + i \in Len(fs) + 1 .. Len(ws) /\ ws[Len(fs) + i] = Frame("event", t, h)
      BY <1>1, <1>3, <1>4, <2>1
    <2> QED BY <2>2
  <1>7. Len(ws) \in Nat /\ Len(ws) >= Len(fs)
    BY <1>1, <1>4
  <1>8. ws = fs \o Sent(T, h)
    BY DEF ws, new
  <1> QED BY <1>4, <1>5, <1>6, <1>7, <1>8

LEMMA SubscriptionsFinite ==
    ASSUME ServerShape, generation \in Nat, NEW T \in SUBSET DOMAIN subs
    PROVE  IsFiniteSet(T) /\ T \in SUBSET Nat
  <1>1. IsFiniteSet(1 .. generation)
    BY FS_Interval
  <1>2. T \in SUBSET (1 .. generation)
    BY DEF ServerShape
  <1> QED BY <1>1, <1>2, FS_Subset

LEMMA Refused == \A c : RefuseSubscribe(c) => c \in calls /\ (DropSocket \/ Declined(c))
  BY DEF RefuseSubscribe, Declined

-----------------------------------------------------------------------------
(* The shape of the state is inductive.                                    *)

LEMMA ShapeInit == Init => Shape
  <1> SUFFICES ASSUME Init PROVE Shape
    OBVIOUS
  <1> USE ConstantFacts
  <1>1. QueueShape
    BY RingEmpty DEF Init, QueueShape, Seqs
  <1>2. ServerShape /\ ClosedShape
    BY DEF Init, ServerShape, EstablishShape, ClosedShape
  <1>3. FramesShape
    BY DEF Init, FramesShape
  <1>4. ClientShape
    BY DEF Init, ClientShape, Seqs
  <1> QED BY <1>1, <1>2, <1>3, <1>4 DEF Shape

\* The queue.

LEMMA QueueStep == Shape /\ [Next]_vars => QueueShape'
  <1> SUFFICES ASSUME Shape, [Next]_vars PROVE QueueShape'
    OBVIOUS
  <1> USE ConstantFacts
  <1>0. QueueShape /\ ClosedShape
    BY DEF Shape
  <1>a. head \in Nat /\ next \in Nat /\ next \in 0 .. next
    BY <1>0 DEF QueueShape, Seqs, Ring
  <1>1. ASSUME NEW e \in Emitters, AppendEvent(e) PROVE QueueShape'
    BY <1>0, <1>1, <1>a DEF AppendEvent, QueueShape, Seqs, queueVars
  <1>2. ASSUME NEW e \in Emitters, Publish(e) PROVE QueueShape'
    <2>1. emitting[e] \in Events /\ emitting[e] \in 1 .. head
      BY <1>0, <1>2 DEF Publish, QueueShape
    <2>2. CASE DOMAIN receivers = {}
      BY <1>0, <1>2, <2>2 DEF Publish, QueueShape, queueVars
    <2>3. CASE DOMAIN receivers # {}
      <3>1. /\ Ring(values', next') /\ next' = next + 1 /\ receivers' = receivers
            /\ \A i \in 1 .. Len(values') :
                 \/ \E j \in 1 .. Len(values) : values'[i] = values[j]
                 \/ values'[i] = [seq |-> next, event |-> emitting[e]]
        BY <1>0, <1>2, <2>1, <2>3, SendRing DEF Publish
      <3>2. \A i \in 1 .. Len(values') : values'[i].event \in 1 .. head
        BY <1>0, <2>1, <3>1 DEF QueueShape
      <3>3. \A r \in DOMAIN receivers' : receivers'[r] \in 0 .. next'
        BY <1>0, <1>a, <3>1 DEF QueueShape
      <3> QED BY <1>0, <1>2, <3>1, <3>2, <3>3 DEF Publish, QueueShape
    <2> QED BY <2>2, <2>3
  <1>3. ASSUME Connect PROVE QueueShape'
    BY <1>0, <1>3, <1>a DEF Connect, Subscribe, QueueShape
  <1>4. ASSUME DropSocket PROVE QueueShape'
    <2> DEFINE left == [x \in DOMAIN receivers \ {conn} |-> receivers[x]]
    <2>1. /\ receivers' = left /\ Release(left) /\ next' = next
          /\ head' = head /\ emitting' = emitting /\ conn' = None
      BY <1>4 DEF DropSocket, DropReceiver
    <2>2. Ring(values', next') /\ Kept
      BY <1>0, <2>1, ReleaseRing DEF QueueShape
    <2>3. \A r \in DOMAIN receivers' : receivers'[r] \in 0 .. next'
      BY <1>0, <2>1 DEF QueueShape
    <2>4. DOMAIN receivers' = {conn'} \ {None}
      BY <1>0, <2>1 DEF QueueShape
    <2> HIDE DEF left
    <2> QED BY <1>0, <2>1, <2>2, <2>3, <2>4 DEF QueueShape, Kept
  <1>5. ASSUME ReceiveLive \/ ReceiveLagged PROVE QueueShape'
    <2>1. PICK p \in 0 .. next : conn \in DOMAIN receivers /\ MoveTo(conn, p)
      <3>1. CASE ReceiveLive
        <4>1. receivers[conn] + 1 \in 0 .. next
          BY <1>0, <1>a, <3>1 DEF ReceiveLive, RecvValue, Readable, QueueShape
        <4> QED BY <3>1, <4>1 DEF ReceiveLive, RecvValue
      <3>2. CASE ReceiveLagged
        BY <1>0, <3>2, FirstBound DEF ReceiveLagged, RecvLagged
      <3> QED BY <1>5, <3>1, <3>2
    <2>2. /\ Ring(values', next') /\ Kept /\ next' = next
          /\ DOMAIN receivers' = DOMAIN receivers
          /\ \A x \in DOMAIN receivers' : receivers'[x] \in 0 .. next'
      BY <1>0, <2>1, MoveRing
    <2>3. head' = head /\ emitting' = emitting /\ conn' = conn
      BY <1>5 DEF ReceiveLive, ReceiveLagged
    <2> QED BY <1>0, <2>2, <2>3 DEF QueueShape, Kept
  <1>6. ASSUME UNCHANGED <<queueVars, head, emitting, conn>> PROVE QueueShape'
    BY <1>0, <1>6 DEF QueueShape, queueVars
  <1>7. CASE Establish \/ DeliverLive \/ Client \/ UNCHANGED vars
    BY <1>6, <1>7 DEF Establish, Respond, Replay, ReplayFails, Ready, DeliverLive,
         Client, ClientSubscribed, ClientGaveUp, ClientEvent, ClientReady, ClientLagged, vars
  <1>8. CASE Handle
    BY <1>4, <1>6, <1>8, Refused DEF Handle, HandleSubscribe, HandleUnsubscribe, RefuseUnsubscribe, Declined
  <1> QED BY <1>1, <1>2, <1>3, <1>4, <1>5, <1>7, <1>8 DEF Next, Live, Disconnect

\* The cursor is a position of the log, and the requests carry it.
LEMMA ResubscribeShape ==
    ASSUME Shape, Resubscribe
    PROVE  /\ generation' = generation + 1 /\ generation \in Nat
           /\ \A c \in calls' : c \in calls \/ c = SubscribeCall(generation + 1, lastSeq)
                                \/ (remote # None /\ c = UnsubscribeCall(remote))
           /\ head' = head => \A c \in calls' : CallShape(c)'
  <1>1. generation \in Nat /\ (remote # None => remote \in 1 .. generation)
        /\ lastSeq \in (0 .. head) \union {None}
    BY DEF Shape, ClientShape
  <1>2. \A c \in calls : c.sub \in 1 .. generation + 1
                         /\ c.kind \in {"subscribe", "unsubscribe"}
                         /\ (c.kind = "subscribe" => c.after \in (0 .. head) \union {None})
    BY <1>1 DEF Shape, ServerShape, CallShape
  <1>3. generation' = generation + 1
        /\ \A c \in calls' : c \in calls \/ c = SubscribeCall(generation + 1, lastSeq)
                             \/ (remote # None /\ c = UnsubscribeCall(remote))
    BY DEF Resubscribe
  <1>4. ASSUME head' = head, NEW c \in calls' PROVE CallShape(c)'
    BY <1>1, <1>2, <1>3, <1>4 DEF CallShape, SubscribeCall, UnsubscribeCall
  <1> QED BY <1>1, <1>3, <1>4

\* Which frames are added, and what they say.
LEMMA FramesStep == Shape /\ [Next]_vars => FramesShape'
  <1> SUFFICES ASSUME Shape, [Next]_vars PROVE FramesShape'
    OBVIOUS
  <1> USE ConstantFacts
  <1>0. /\ QueueShape /\ ServerShape /\ FramesShape /\ ClientShape
        /\ head \in Nat /\ generation \in Nat /\ head \in Seqs
        /\ frames \in Seq(Frames) /\ Len(frames) \in Nat
        /\ \A i \in 1 .. Len(frames) : FrameOf(frames[i], generation, head)
    BY DEF Shape, QueueShape, Seqs, ClientShape, FramesShape
  <1>1. ASSUME frames' = frames, generation' \in Nat, head' \in Nat, generation <= generation', head <= head'
        PROVE  FramesShape'
    BY <1>0, <1>1, FrameLater DEF FramesShape
  <1>2. ASSUME NEW f \in Frames, FrameOf(f, generation, head), frames' = Append(frames, f),
               generation' = generation, head' = head
        PROVE  FramesShape'
    <2>1. /\ frames' \in Seq(Frames) /\ Len(frames') = Len(frames) + 1
          /\ \A i \in 1 .. Len(frames) : frames'[i] = frames[i]
          /\ frames'[Len(frames) + 1] = f
      BY <1>0, <1>2, AppendFrame
    <2>2. ASSUME NEW i \in 1 .. Len(frames') PROVE FrameOf(frames'[i], generation, head)
      <3>1. CASE i = Len(frames) + 1 BY <1>2, <2>1, <3>1
      <3>2. CASE i # Len(frames) + 1
        <4>1. i \in 1 .. Len(frames) BY <1>0, <2>1, <3>2
        <4> QED BY <1>0, <2>1, <4>1
      <3> QED BY <3>1, <3>2
    <2> QED BY <1>2, <2>1, <2>2 DEF FramesShape
  <1>3. ASSUME frames # << >>, frames' = Tail(frames), generation' \in Nat, generation <= generation', head' = head
        PROVE  FramesShape'
    <2>1. /\ frames' \in Seq(Frames) /\ Len(frames) = Len(frames') + 1 /\ Len(frames') \in Nat
          /\ \A i \in 1 .. Len(frames') : frames'[i] = frames[i + 1]
      BY <1>0, <1>3, TailFrames
    <2>2. ASSUME NEW i \in 1 .. Len(frames') PROVE FrameOf(frames'[i], generation', head')
      <3>1. FrameOf(frames[i + 1], generation, head) /\ frames'[i] = frames[i + 1]
        BY <1>0, <2>1
      <3> QED BY <1>0, <1>3, <3>1, FrameLater
    <2> QED BY <2>1, <2>2 DEF FramesShape
  <1>4. Frame("lagged", None, None) \in Frames /\ FrameOf(Frame("lagged", None, None), generation, head)
    BY DEF Frame, Frames, Kinds, FrameOf
  <1>5. ASSUME NEW k \in Kinds \ {"lagged"}, NEW s \in 1 .. generation, NEW q \in 0 .. head
        PROVE  Frame(k, s, q) \in Frames /\ FrameOf(Frame(k, s, q), generation, head)
    BY <1>0 DEF Frame, Frames, FrameOf, Seqs, Kinds
  <1>6. CASE \E e \in Emitters : AppendEvent(e) \/ Publish(e)
    BY <1>0, <1>1, <1>6 DEF AppendEvent, Publish, client
  <1>7. CASE Connect
    BY <1>0, <1>1, <1>7 DEF Connect, Resubscribe
  <1>8. ASSUME DropSocket PROVE FramesShape'
    BY <1>8 DEF DropSocket, FramesShape
  <1>h. CASE \E c : RefuseSubscribe(c)
    BY <1>0, <1>1, <1>8, <1>h, Refused DEF Declined, client
  <1>9. CASE (\E c \in calls : HandleSubscribe(c) \/ HandleUnsubscribe(c) \/ RefuseUnsubscribe(c))
             \/ ReceiveLive \/ UNCHANGED vars
    <2>1. frames' = frames /\ generation' = generation /\ head' = head
      BY <1>9 DEF HandleSubscribe, HandleUnsubscribe, RefuseUnsubscribe, ReceiveLive, client, vars
    <2> QED BY <1>0, <1>1, <2>1
  <1>10. CASE Respond
    <2>1. establish.sub \in 1 .. generation /\ establish.head \in 0 .. head
      BY <1>0, <1>10 DEF Respond, ServerShape, EstablishShape
    <2>2. PICK k \in Kinds \ {"lagged"} : frames' = Append(frames, Frame(k, establish.sub, establish.head))
      BY <1>10 DEF Respond, Kinds
    <2> QED BY <1>2, <1>5, <1>10, <2>1, <2>2 DEF Respond, client
  <1>11. CASE Replay
    <2>1. /\ establish.sub \in 1 .. generation /\ establish.head \in 0 .. head
          /\ establish.after \in 0 .. head /\ establish.after < establish.head
      BY <1>0, <1>11 DEF Replay, ServerShape, EstablishShape
    <2>2. establish.after + 1 \in 0 .. head
      BY <1>0, <2>1
    <2> QED BY <1>2, <1>5, <1>11, <2>1, <2>2 DEF Replay, client, Kinds
  <1>12. CASE ReplayFails \/ ReceiveLagged
    BY <1>2, <1>4, <1>12 DEF ReplayFails, ReceiveLagged, client
  <1>13. CASE Ready
    <2>1. establish.sub \in 1 .. generation /\ establish.head \in 0 .. head
      BY <1>0, <1>13 DEF Ready, ServerShape, EstablishShape
    <2> QED BY <1>2, <1>5, <1>13, <2>1 DEF Ready, client, Kinds
  <1>14. CASE DeliverLive
    <2> DEFINE T == {s \in DOMAIN subs : hand > subs[s]}
    <2>1. frames' = frames \o Sent(T, hand) /\ generation' = generation /\ head' = head
      BY <1>14 DEF DeliverLive, Sent, client
    <2>2. T \in SUBSET DOMAIN subs /\ hand \in 1 .. head /\ hand \in Seqs
      BY <1>0, <1>14 DEF DeliverLive, ServerShape, Seqs
    <2>3. IsFiniteSet(T) /\ T \in SUBSET Nat /\ T \in SUBSET (1 .. generation)
      <3>1. T \in SUBSET (1 .. generation)
        BY <1>0 DEF ServerShape
      <3> HIDE DEF T
      <3> QED BY <1>0, <2>2, <3>1, SubscriptionsFinite
    <2> HIDE DEF T
    <2>4. /\ frames' \in Seq(Frames) /\ Len(frames') \in Nat /\ Len(frames') >= Len(frames)
          /\ \A i \in 1 .. Len(frames) : frames'[i] = frames[i]
          /\ \A i \in Len(frames) + 1 .. Len(frames') : \E t \in T : frames'[i] = Frame("event", t, hand)
      <3>1. frames \in Seq(Frames) /\ head \in Nat
        BY <1>0
      <3>2. /\ frames \o Sent(T, hand) \in Seq(Frames)
            /\ Len(frames \o Sent(T, hand)) \in Nat /\ Len(frames \o Sent(T, hand)) >= Len(frames)
            /\ \A i \in 1 .. Len(frames) : (frames \o Sent(T, hand))[i] = frames[i]
            /\ \A i \in Len(frames) + 1 .. Len(frames \o Sent(T, hand)) :
                 \E t \in T : (frames \o Sent(T, hand))[i] = Frame("event", t, hand)
        BY <2>2, <2>3, <3>1, SentFrames, SMTT(30)
      <3> QED BY <2>1, <3>2, ZenonT(40)
    <2>5. ASSUME NEW i \in 1 .. Len(frames') PROVE FrameOf(frames'[i], generation, head)
      <3>1. CASE i \in 1 .. Len(frames)
        BY <1>0, <2>4, <3>1
      <3>2. CASE i \notin 1 .. Len(frames)
        <4>1. i \in Len(frames) + 1 .. Len(frames')
          BY <1>0, <2>4, <3>2
        <4>2. PICK t \in T : frames'[i] = Frame("event", t, hand)
          BY <2>4, <4>1
        <4>3. t \in 1 .. generation /\ hand \in 0 .. head /\ "event" \in Kinds \ {"lagged"}
          BY <2>2, <2>3 DEF Kinds
        <4> QED BY <1>5, <4>2, <4>3
      <3> QED BY <3>1, <3>2
    <2> QED BY <2>1, <2>4, <2>5 DEF FramesShape
  <1>15. CASE Client
    BY <1>0, <1>3, <1>15 DEF Client, ClientSubscribed, ClientGaveUp, ClientEvent, ClientReady, ClientLagged, Resubscribe, Next1, Consume
  <1> QED BY <1>6, <1>7, <1>8, <1>9, <1>10, <1>11, <1>12, <1>13, <1>14, <1>15, <1>h DEF Next, Live, Establish, Handle, Disconnect

\* The socket's subscriptions, requests and the one being established.
LEMMA ServerStep == Shape /\ [Next]_vars => ServerShape'
  <1> SUFFICES ASSUME Shape, [Next]_vars PROVE ServerShape'
    OBVIOUS
  <1> USE ConstantFacts
  <1>0. /\ QueueShape /\ ServerShape /\ FramesShape /\ ClientShape /\ ClosedShape
        /\ head \in Nat /\ generation \in Nat /\ head \in Seqs /\ head <= MaxEvents
    BY DEF Shape, QueueShape, Seqs, ClientShape
  <1>s. \A s \in DOMAIN subs : s \in 1 .. generation /\ subs[s] \in Seqs
    BY <1>0 DEF ServerShape
  <1>c. \A c \in calls : CallShape(c)
    BY <1>0 DEF ServerShape
  <1>h. hand \in (1 .. head) \union {None}
    BY <1>0 DEF ServerShape
  <1>e. EstablishShape
    BY <1>0 DEF ServerShape
  <1>1. ASSUME UNCHANGED <<subs, calls, establish, hand>>, generation' \in Nat, head' \in Nat,
               generation <= generation', head <= head'
        PROVE  ServerShape'
    <2>1. \A c \in calls' : CallShape(c)'
      BY <1>0, <1>1, <1>c DEF CallShape
    <2>2. \A s \in DOMAIN subs' : s \in 1 .. generation' /\ subs'[s] \in Seqs
      BY <1>0, <1>1, <1>s
    <2>3. EstablishShape'
      BY <1>0, <1>1, <1>e DEF EstablishShape
    <2>4. hand' \in (1 .. head') \union {None}
      BY <1>0, <1>1, <1>h
    <2> QED BY <2>1, <2>2, <2>3, <2>4 DEF ServerShape
  <1>2. ASSUME UNCHANGED <<subs, establish, hand, head>>, Resubscribe PROVE ServerShape'
    <2>0. generation' = generation + 1 /\ \A c \in calls' : CallShape(c)'
      BY <1>2, ResubscribeShape
    <2>2. \A s \in DOMAIN subs' : s \in 1 .. generation' /\ subs'[s] \in Seqs
      BY <1>0, <1>2, <2>0, <1>s
    <2>3. EstablishShape'
      BY <1>0, <1>2, <2>0, <1>e DEF EstablishShape
    <2>4. hand' \in (1 .. head') \union {None}
      BY <1>2, <1>h
    <2> QED BY <2>0, <2>2, <2>3, <2>4 DEF ServerShape
  <1>3. ASSUME NEW e \in Emitters, AppendEvent(e) PROVE ServerShape'
    BY <1>0, <1>1, <1>3 DEF AppendEvent, server, client
  <1>4. ASSUME NEW e \in Emitters, Publish(e) PROVE ServerShape'
    BY <1>0, <1>1, <1>4 DEF Publish, server, client
  <1>5. CASE Connect
    BY <1>2, <1>5 DEF Connect
  <1>6. ASSUME DropSocket PROVE ServerShape'
    <2>1. /\ subs' = << >> /\ calls' = {} /\ establish' = None /\ hand' = None
      BY <1>6 DEF DropSocket
    <2> QED BY <2>1 DEF ServerShape, EstablishShape
  <1>7. ASSUME NEW c \in calls, HandleSubscribe(c) PROVE ServerShape'
    <2>1. c.sub \in 1 .. generation /\ c.after \in (0 .. head) \union {None}
      BY <1>7, <1>c DEF CallShape, HandleSubscribe
    <2>2. /\ calls' = calls \ {c} /\ subs' = [s \in DOMAIN subs \union {c.sub} |-> IF s = c.sub THEN head ELSE subs[s]]
          /\ establish' = [sub |-> c.sub, after |-> c.after, head |-> head, pc |-> "respond"]
          /\ hand' = hand /\ head' = head /\ generation' = generation
      BY <1>7 DEF HandleSubscribe, Floor, client
    <2>3. \A s \in DOMAIN subs' : s \in 1 .. generation' /\ subs'[s] \in Seqs
      BY <1>0, <1>s, <2>1, <2>2
    <2>4. \A d \in calls' : CallShape(d)'
      BY <1>c, <2>2 DEF CallShape
    <2>5. EstablishShape'
      BY <1>0, <2>1, <2>2 DEF EstablishShape
    <2> QED BY <1>h, <2>2, <2>3, <2>4, <2>5 DEF ServerShape
  <1>8. ASSUME NEW c \in calls, HandleUnsubscribe(c) PROVE ServerShape'
    <2>2. /\ calls' = calls \ {c} /\ subs' = [s \in DOMAIN subs \ {c.sub} |-> subs[s]]
          /\ establish' = establish
          /\ hand' = hand /\ head' = head /\ generation' = generation
      BY <1>8 DEF HandleUnsubscribe, client
    <2>3. \A s \in DOMAIN subs' : s \in 1 .. generation' /\ subs'[s] \in Seqs
      BY <1>s, <2>2
    <2>4. \A d \in calls' : CallShape(d)'
      BY <1>c, <2>2 DEF CallShape
    <2>5. EstablishShape'
      BY <1>e, <2>2 DEF EstablishShape
    <2> QED BY <1>h, <2>2, <2>3, <2>4, <2>5 DEF ServerShape
  <1>9. ASSUME UNCHANGED <<subs, calls, hand, head, generation>>, EstablishShape' PROVE ServerShape'
    <2>1. \A c \in calls' : CallShape(c)'
      BY <1>9, <1>c DEF CallShape
    <2> QED BY <1>9, <1>s, <1>h, <2>1 DEF ServerShape
  <1>10. CASE Respond
    <2>1. /\ UNCHANGED <<subs, calls, hand, head, generation>> /\ establish # None
          /\ \E a \in {establish.after, establish.head} :
               a # None /\ establish' = [establish EXCEPT !.pc = "replay", !.after = a]
      <3>1. PICK snapshot \in BOOLEAN :
               establish' = [establish EXCEPT !.pc = "replay",
                                              !.after = IF snapshot \/ @ = None THEN establish.head ELSE @]
        BY <1>10 DEF Respond
      <3>2. establish.head # None /\ establish # None
        BY <1>0, <1>10, <1>e DEF Respond, EstablishShape
      <3>3. CASE snapshot \/ establish.after = None
        BY <1>10, <3>1, <3>2, <3>3 DEF Respond, client
      <3>4. CASE ~(snapshot \/ establish.after = None)
        BY <1>10, <3>1, <3>2, <3>4 DEF Respond, client
      <3> QED BY <3>3, <3>4
    <2>2. EstablishShape'
      BY <1>0, <1>e, <2>1 DEF EstablishShape
    <2> QED BY <1>9, <2>1, <2>2
  <1>11. CASE Replay
    <2>1. /\ UNCHANGED <<subs, calls, hand, head, generation>> /\ establish # None /\ establish.pc = "replay"
          /\ establish.after < establish.head
          /\ establish' = [establish EXCEPT !.after = establish.after + 1]
      BY <1>11 DEF Replay, client
    <2>2. establish.after \in 0 .. head /\ establish.after + 1 \in 0 .. head
      BY <1>0, <1>e, <2>1 DEF EstablishShape
    <2>3. EstablishShape'
      BY <1>0, <1>e, <2>1, <2>2 DEF EstablishShape
    <2> QED BY <1>9, <2>1, <2>3
  <1>12. CASE ReplayFails \/ Ready
    <2>1. UNCHANGED <<subs, calls, hand, head, generation>> /\ establish' = None
      BY <1>12 DEF ReplayFails, Ready, client
    <2> QED BY <1>9, <2>1 DEF EstablishShape
  <1>13. CASE ReceiveLive
    <2>1. conn \in DOMAIN receivers /\ Readable(conn) /\ hand' = EventAt(conn)
      BY <1>13 DEF ReceiveLive, RecvValue
    <2>2. hand' \in 1 .. head
      BY <1>0, <2>1, ReadEntry DEF QueueShape
    <2>3. /\ UNCHANGED <<subs, calls, establish, head, generation>>
      BY <1>13 DEF ReceiveLive, client
    <2>4. \A c \in calls' : CallShape(c)'
      BY <2>3, <1>c DEF CallShape
    <2>5. EstablishShape'
      BY <2>3, <1>e DEF EstablishShape
    <2> QED BY <2>2, <2>3, <2>4, <2>5, <1>s DEF ServerShape
  <1>14. CASE ReceiveLagged
    BY <1>0, <1>1, <1>14 DEF ReceiveLagged, server, client
  <1>15. CASE DeliverLive
    <2>1. UNCHANGED <<subs, calls, establish, head, generation>> /\ hand' = None
      BY <1>15 DEF DeliverLive, client
    <2>4. \A c \in calls' : CallShape(c)'
      BY <2>1, <1>c DEF CallShape
    <2>5. EstablishShape'
      BY <2>1, <1>e DEF EstablishShape
    <2> QED BY <2>1, <2>4, <2>5, <1>s DEF ServerShape
  <1>16. CASE ClientSubscribed
    <2>1. UNCHANGED <<subs, establish, hand, head, generation>>
      BY <1>16 DEF ClientSubscribed
    <2>2. \A c \in calls' : c \in calls \/ c = UnsubscribeCall(Head(frames).sub)
      BY <1>16 DEF ClientSubscribed
    <2>3. Head(frames).sub \in 1 .. generation
      <3>1. frames # << >> /\ Head(frames).kind # "lagged"
        BY <1>16 DEF ClientSubscribed, Next1
      <3>2. FrameOf(frames[1], generation, head) /\ Head(frames) = frames[1]
        BY <1>0, <3>1, TailFrames DEF FramesShape
      <3> QED BY <3>1, <3>2 DEF FrameOf
    <2>4. \A c \in calls' : CallShape(c)'
      BY <2>1, <2>2, <2>3, <1>c DEF CallShape, UnsubscribeCall
    <2>5. EstablishShape'
      BY <2>1, <1>e DEF EstablishShape
    <2> QED BY <2>1, <2>4, <2>5, <1>s, <1>h DEF ServerShape
  <1>17. CASE ClientLagged
    BY <1>2, <1>17 DEF ClientLagged
  <1>18. CASE ClientGaveUp \/ ClientEvent \/ ClientReady \/ UNCHANGED vars
    <2>1. UNCHANGED <<subs, calls, establish, hand, generation, head>>
      BY <1>18 DEF ClientGaveUp, ClientEvent, ClientReady, vars, server, client
    <2> QED BY <1>0, <1>1, <2>1
  <1>19. ASSUME NEW c \in calls, RefuseUnsubscribe(c) \/ Declined(c) PROVE ServerShape'
    <2>1. calls' = calls \ {c} /\ UNCHANGED <<subs, establish, hand, generation, head>>
      BY <1>19 DEF RefuseUnsubscribe, Declined, client
    <2>2. \A d \in calls' : CallShape(d)'
      BY <1>c, <2>1 DEF CallShape
    <2>3. EstablishShape'
      BY <1>e, <2>1 DEF EstablishShape
    <2> QED BY <1>h, <1>s, <2>1, <2>2, <2>3 DEF ServerShape
  <1>20. ASSUME NEW c \in calls, RefuseSubscribe(c) PROVE ServerShape'
    BY <1>6, <1>19, <1>20, Refused
  <1> QED BY <1>3, <1>4, <1>5, <1>6, <1>7, <1>8, <1>10, <1>11, <1>12, <1>13, <1>14, <1>15, <1>16, <1>17, <1>18, <1>19, <1>20
          DEF Next, Live, Establish, Client, Handle, Disconnect

\* The client's cursor, its subscription and what it has applied.
LEMMA ClientStep == Shape /\ [Next]_vars => ClientShape'
  <1> SUFFICES ASSUME Shape, [Next]_vars PROVE ClientShape'
    OBVIOUS
  <1> USE ConstantFacts
  <1>0. /\ QueueShape /\ ServerShape /\ FramesShape /\ ClientShape
        /\ head \in Nat /\ generation \in Nat /\ head \in Seqs /\ head <= MaxEvents
    BY DEF Shape, QueueShape, Seqs, ClientShape
  <1>1. ASSUME UNCHANGED <<client, failures>>, head' \in Nat, head <= head' PROVE ClientShape'
    BY <1>0, <1>1 DEF ClientShape, client
  <1>2. ASSUME UNCHANGED <<lastSeq, seen, base, head>>, remote' = None, ready' = None,
               generation' = generation + 1, stranded' \subseteq stranded, failures' \in 0 .. MaxFailures
        PROVE  ClientShape'
    <2>1. stranded' \subseteq 1 .. generation'
      BY <1>0, <1>2 DEF ClientShape
    <2> QED BY <1>0, <1>2, <2>1 DEF ClientShape
  <1>g. failures \in 0 .. MaxFailures /\ (failures < MaxFailures => failures + 1 \in 0 .. MaxFailures)
    BY <1>0 DEF ClientShape
  <1>3. ASSUME NEW e \in Emitters, AppendEvent(e) \/ Publish(e) PROVE ClientShape'
    BY <1>0, <1>1, <1>3 DEF AppendEvent, Publish, client
  <1>4. CASE Connect \/ Disconnect \/ ClientLagged
    BY <1>2, <1>4, <1>g DEF Connect, Disconnect, DropSocket, ClientLagged, Resubscribe
  <1>5. CASE Handle
    <2>1. PICK c \in calls : HandleSubscribe(c) \/ HandleUnsubscribe(c) \/ RefuseSubscribe(c) \/ RefuseUnsubscribe(c)
      BY <1>5 DEF Handle
    <2>2. CASE HandleSubscribe(c) \/ HandleUnsubscribe(c)
      <3>1. UNCHANGED <<client, failures, head>>
        BY <2>2 DEF HandleSubscribe, HandleUnsubscribe
      <3> QED BY <1>0, <1>1, <3>1
    <2>3. CASE RefuseSubscribe(c)
      <3>1. failures' \in 0 .. MaxFailures
        BY <1>g, <2>3 DEF RefuseSubscribe
      <3>2. CASE DropSocket
        BY <1>2, <3>1, <3>2 DEF DropSocket
      <3>3. CASE Declined(c)
        BY <1>0, <3>1, <3>3 DEF Declined, ClientShape, client
      <3> QED BY <2>3, <3>2, <3>3, Refused
    <2>4. CASE RefuseUnsubscribe(c)
      <3>1. /\ stranded' = stranded \union {c.sub} /\ failures' = failures + 1 /\ failures < MaxFailures
            /\ UNCHANGED <<head, lastSeq, remote, generation, ready, seen, base>>
        BY <2>4 DEF RefuseUnsubscribe
      <3>2. c.sub \in 1 .. generation
        BY <1>0 DEF ServerShape, CallShape
      <3>3. stranded' \subseteq 1 .. generation'
        BY <1>0, <3>1, <3>2 DEF ClientShape
      <3> QED BY <1>0, <1>g, <3>1, <3>3 DEF ClientShape
    <2> QED BY <2>1, <2>2, <2>3, <2>4
  <1>6. CASE Respond \/ Replay \/ Ready \/ Live \/ UNCHANGED vars
    <2>1. UNCHANGED <<client, failures, head>>
      BY <1>6 DEF Respond, Replay, Ready, Live, ReceiveLive, ReceiveLagged, DeliverLive, vars
    <2> QED BY <1>0, <1>1, <2>1
  <1>7. CASE ReplayFails
    BY <1>0, <1>7 DEF ReplayFails, ClientShape, client
  <1>f. ASSUME frames # << >>, Head(frames).kind # "lagged"
        PROVE  Head(frames).sub \in 1 .. generation /\ Head(frames).seq \in 0 .. head
    <2>1. FrameOf(frames[1], generation, head) /\ Head(frames) = frames[1]
      BY <1>0, <1>f, TailFrames DEF FramesShape
    <2> QED BY <1>f, <2>1 DEF FrameOf
  <1>8. CASE ClientSubscribed
    <2> DEFINE f == Head(frames)
    <2>1. f.sub \in 1 .. generation /\ f.seq \in 0 .. head
      BY <1>8, <1>f DEF ClientSubscribed, Next1
    <2>2. CASE f.sub = generation
      <3>1. /\ UNCHANGED <<head, generation, failures, stranded>>
            /\ remote' = generation /\ ready' = f.seq
            /\ lastSeq' = IF lastSeq = None \/ (f.kind = "snapshot" /\ f.seq > lastSeq) THEN f.seq ELSE lastSeq
            /\ seen' = IF f.kind = "snapshot" THEN seen \union 1 .. f.seq ELSE seen
            /\ base' = IF base = None THEN f.seq ELSE base
        BY <1>8, <2>2 DEF ClientSubscribed
      <3> HIDE DEF f
      <3>2. lastSeq' \in 0 .. head /\ base' \in 0 .. head /\ base' <= lastSeq'
        BY <1>0, <2>1, <3>1 DEF ClientShape
      <3>3. seen' \subseteq 1 .. MaxEvents
        <4>1. 1 .. f.seq \subseteq 1 .. MaxEvents /\ seen \subseteq 1 .. MaxEvents
          BY <1>0, <2>1 DEF ClientShape
        <4> QED BY <3>1, <4>1
      <3> QED BY <1>0, <2>1, <2>2, <3>1, <3>2, <3>3 DEF ClientShape, Seqs
    <2>3. CASE f.sub # generation
      BY <1>0, <1>1, <1>8, <2>3 DEF ClientSubscribed, client
    <2> QED BY <2>2, <2>3
  <1>9. CASE ClientEvent
    <2> DEFINE f == Head(frames)
    <2>1. f.sub \in 1 .. generation /\ f.seq \in 0 .. head
      BY <1>9, <1>f DEF ClientEvent, Next1
    <2>2. CASE f.sub = remote /\ f.seq > lastSeq
      <3>1. /\ UNCHANGED <<head, generation, failures, remote, ready, base, stranded>>
            /\ lastSeq' = f.seq /\ seen' = seen \union {f.seq}
        BY <1>9, <2>2 DEF ClientEvent
      <3> HIDE DEF f
      <3>2. remote # None /\ lastSeq \in 0 .. head /\ base \in 0 .. head /\ base <= lastSeq
        BY <1>0, <2>1, <2>2 DEF ClientShape
      <3>3. lastSeq' \in 0 .. head /\ base' <= lastSeq' /\ f.seq \in 1 .. MaxEvents
        BY <1>0, <2>1, <2>2, <3>1, <3>2
      <3>4. seen' \subseteq 1 .. MaxEvents
        BY <1>0, <3>1, <3>3 DEF ClientShape
      <3>5. base' \in 0 .. head /\ (remote' # None => remote' = generation' /\ lastSeq' # None)
        BY <1>0, <3>1, <3>2, <3>3 DEF ClientShape
      <3> QED BY <1>0, <3>1, <3>2, <3>3, <3>4, <3>5 DEF ClientShape
    <2>3. CASE ~(f.sub = remote /\ f.seq > lastSeq)
      BY <1>0, <1>1, <1>9, <2>3 DEF ClientEvent, client
    <2> QED BY <2>2, <2>3
  <1>10. CASE ClientReady
    <2> DEFINE f == Head(frames)
    <2>1. f.sub \in 1 .. generation /\ f.seq \in 0 .. head
      BY <1>10, <1>f DEF ClientReady, Next1
    <2>2. CASE f.sub = remote /\ ready = f.seq
      <3>1. /\ UNCHANGED <<head, generation, failures, remote, seen, base, stranded>>
            /\ ready' = None /\ lastSeq' = IF f.seq > lastSeq THEN f.seq ELSE lastSeq
        BY <1>10, <2>2 DEF ClientReady
      <3> HIDE DEF f
      <3>2. remote # None /\ lastSeq \in 0 .. head /\ base \in 0 .. head /\ base <= lastSeq
        BY <1>0, <2>1, <2>2 DEF ClientShape
      <3>3. lastSeq' \in 0 .. head /\ base' <= lastSeq'
        BY <1>0, <2>1, <2>2, <3>1, <3>2
      <3> QED BY <1>0, <3>1, <3>2, <3>3 DEF ClientShape
    <2>3. CASE ~(f.sub = remote /\ ready = f.seq)
      BY <1>0, <1>1, <1>10, <2>3 DEF ClientReady, client
    <2> QED BY <2>2, <2>3
  <1>11. CASE ClientGaveUp
    <2>1. /\ stranded' = stranded \union {Head(frames).sub} /\ failures' = failures + 1 /\ failures < MaxFailures
          /\ UNCHANGED <<head, lastSeq, remote, generation, ready, seen, base>>
      BY <1>11 DEF ClientGaveUp
    <2>2. Head(frames).sub \in 1 .. generation
      BY <1>11, <1>f DEF ClientGaveUp, Next1
    <2>3. stranded' \subseteq 1 .. generation'
      BY <1>0, <2>1, <2>2 DEF ClientShape
    <2> QED BY <1>0, <1>g, <2>1, <2>3 DEF ClientShape
  <1> QED BY <1>3, <1>4, <1>5, <1>6, <1>7, <1>8, <1>9, <1>10, <1>11 DEF Next, Establish, Client

\* A closed connection leaves nothing behind.
LEMMA ClosedStep == Shape /\ [Next]_vars => ClosedShape'
  <1> SUFFICES ASSUME Shape, [Next]_vars PROVE ClosedShape'
    OBVIOUS
  <1> USE ConstantFacts
  <1>0. /\ QueueShape /\ ClosedShape
    BY DEF Shape
  <1>1. ASSUME conn' = conn, conn # None PROVE ClosedShape'
    BY <1>1 DEF ClosedShape
  <1>2. ASSUME conn = None, UNCHANGED <<conn, values, subs, calls, establish, hand, frames, remote>> PROVE ClosedShape'
    BY <1>0, <1>2 DEF ClosedShape
  <1>3. ASSUME NEW e \in Emitters, AppendEvent(e) PROVE ClosedShape'
    BY <1>1, <1>2, <1>3 DEF AppendEvent, queueVars, server, client
  <1>4. ASSUME NEW e \in Emitters, Publish(e) PROVE ClosedShape'
    <2>1. conn = None => DOMAIN receivers = {}
      BY <1>0 DEF QueueShape
    <2> QED BY <1>1, <1>2, <1>4, <2>1 DEF Publish, queueVars, server, client
  <1>5. CASE Connect
    <2>1. conn' # None
      BY <1>5 DEF Connect
    <2> QED BY <2>1 DEF ClosedShape
  <1>6. ASSUME DropSocket PROVE ClosedShape'
    <2>1. values' = << >>
      <3> DEFINE left == [x \in DOMAIN receivers \ {conn} |-> receivers[x]]
      <3>1. Release(left) /\ next' = next /\ DOMAIN left = {}
        BY <1>0, <1>6 DEF DropSocket, DropReceiver, QueueShape
      <3> HIDE DEF left
      <3> QED BY <1>0, <3>1, ReleaseRing DEF QueueShape
    <2> QED BY <1>6, <2>1 DEF DropSocket, ClosedShape
  <1>h. CASE \E c : RefuseSubscribe(c)
    <2>1. PICK c : RefuseSubscribe(c)
      BY <1>h
    <2>2. CASE DropSocket
      BY <1>6, <2>2
    <2>3. CASE Declined(c)
      <3>1. conn # None /\ conn' = conn
        BY <1>0, <2>1, <2>3, Refused DEF Declined, ClosedShape
      <3> QED BY <1>1, <3>1
    <2> QED BY <2>1, <2>2, <2>3, Refused
  <1>7. CASE (\E c \in calls : HandleSubscribe(c) \/ HandleUnsubscribe(c) \/ RefuseUnsubscribe(c))
             \/ Establish \/ Live \/ Client
    <2>1. conn # None
      BY <1>0, <1>7 DEF Establish, Respond, Replay, ReplayFails, Ready, Live, ReceiveLive,
           ReceiveLagged, DeliverLive, Client, ClientSubscribed, ClientGaveUp, ClientEvent, ClientReady, ClientLagged,
           Next1, ClosedShape
    <2>2. conn' = conn
      BY <1>7 DEF HandleSubscribe, HandleUnsubscribe, RefuseUnsubscribe, Establish, Respond, Replay, ReplayFails, Ready,
           Live, ReceiveLive, ReceiveLagged, DeliverLive, Client, ClientSubscribed, ClientGaveUp, ClientEvent, ClientReady,
           ClientLagged
    <2> QED BY <1>1, <2>1, <2>2
  <1>8. CASE UNCHANGED vars
    BY <1>1, <1>2, <1>8 DEF vars, queueVars, server, client
  <1> QED BY <1>3, <1>4, <1>5, <1>6, <1>7, <1>8, <1>h DEF Next, Handle, Disconnect

LEMMA ShapeStep == Shape /\ [Next]_vars => Shape'
  BY QueueStep, ServerStep, FramesStep, ClientStep, ClosedStep DEF Shape

LEMMA ShapeAlways == Spec => []Shape
  BY ShapeInit, ShapeStep, PTL DEF Spec

LEMMA ShapeTypes == Shape => TypeOK
  <1> SUFFICES ASSUME Shape PROVE TypeOK
    OBVIOUS
  <1>1. QueueShape /\ ServerShape /\ FramesShape /\ ClientShape
    BY DEF Shape
  <1>2. head \in Nat /\ head <= MaxEvents
    BY <1>1, ConstantFacts DEF QueueShape, Seqs
  <1>3. \A c \in calls : c.kind \in {"subscribe", "unsubscribe"} /\ c.sub \in 1 .. generation
    BY <1>1 DEF ServerShape, CallShape
  <1>4. establish = None \/ (establish.sub \in 1 .. generation /\ establish.head \in 0 .. head)
    BY <1>1 DEF ServerShape, EstablishShape
  <1>5. \A i \in DOMAIN frames : frames[i].kind \in {"response", "snapshot", "event", "ready", "lagged"}
    <2>1. DOMAIN frames = 1 .. Len(frames) /\ \A i \in 1 .. Len(frames) : frames[i] \in Frames
      BY <1>1 DEF FramesShape
    <2> QED BY <2>1 DEF Frames, Kinds
  <1>6. lastSeq \in Seqs \union {None} /\ base \in Seqs \union {None}
    BY <1>1, <1>2, ConstantFacts DEF ClientShape, Seqs
  <1> QED BY <1>1, <1>3, <1>4, <1>5, <1>6 DEF TypeOK, QueueShape, ServerShape, ClientShape

\* The log, the socket and the client keep their types, for any queue, any
\* number of connections, events and failures, and any number of emitters.
THEOREM TypeCorrect == Spec => []TypeOK
  BY ShapeAlways, ShapeTypes, PTL

-----------------------------------------------------------------------------
(* No subscription is leaked.                                              *)

\* An answer on its way stays on its way while frames are only added ...
LEMMA AnswerStays ==
    ASSUME NEW s, AnswerSent(s), frames \in Seq(Frames), frames' \in Seq(Frames), Len(frames') >= Len(frames),
           \A i \in 1 .. Len(frames) : frames'[i] = frames[i]
    PROVE  AnswerSent(s)'
  <1>1. PICK i \in DOMAIN frames : IsAnswer(frames[i], s)
    BY DEF AnswerSent
  <1>2. Len(frames) \in Nat /\ Len(frames') \in Nat /\ i \in 1 .. Len(frames)
    OBVIOUS
  <1>3. i \in DOMAIN frames' /\ frames'[i] = frames[i]
    BY <1>2
  <1>4. IsAnswer(frames'[i], s)
    BY <1>1, <1>3
  <1> QED BY <1>3, <1>4 DEF AnswerSent, IsAnswer

\* ... and while the client takes another frame.
LEMMA AnswerMoves ==
    ASSUME NEW s, AnswerSent(s), frames \in Seq(Frames), frames # << >>, frames' = Tail(frames),
           ~IsAnswer(Head(frames), s)
    PROVE  AnswerSent(s)'
  <1>1. PICK i \in DOMAIN frames : IsAnswer(frames[i], s)
    BY DEF AnswerSent
  <1>2. /\ frames' \in Seq(Frames) /\ Len(frames) = Len(frames') + 1 /\ Len(frames') \in Nat
        /\ \A j \in 1 .. Len(frames') : frames'[j] = frames[j + 1]
        /\ Head(frames) = frames[1]
    BY TailFrames
  <1>3. i \in 1 .. Len(frames) /\ i # 1
    BY <1>1, <1>2
  <1>4. i - 1 \in DOMAIN frames' /\ frames'[i - 1] = frames[(i - 1) + 1] /\ (i - 1) + 1 = i
    BY <1>2, <1>3
  <1>5. IsAnswer(frames'[i - 1], s)
    BY <1>1, <1>4
  <1> QED BY <1>4, <1>5 DEF AnswerSent, IsAnswer

LEMMA LeakInit == Init => LeakInv
  BY DEF Init, LeakInv, Accounted, Requested

LEMMA LeakStep == Shape /\ LeakInv /\ [Next]_vars => LeakInv'
  <1> SUFFICES ASSUME Shape, Accounted, Requested, [Next]_vars PROVE Accounted' /\ Requested'
    BY DEF LeakInv
  <1> USE ConstantFacts
  <1>0. /\ QueueShape /\ ServerShape /\ FramesShape /\ ClientShape /\ ClosedShape
        /\ generation \in Nat /\ frames \in Seq(Frames) /\ Len(frames) \in Nat
    BY DEF Shape, ClientShape, FramesShape
  <1>f. frames' \in Seq(Frames)
    BY FramesStep DEF FramesShape
  \* Steps that leave the subscriptions, the requests and the client's
  \* subscription alone.
  <1>1. ASSUME UNCHANGED <<conn, subs, calls, remote, generation>>, stranded' = stranded,
               \A s \in DOMAIN subs : AnswerSent(s) => AnswerSent(s)',
               \A s \in DOMAIN subs : Responding(s) => Responding(s)' \/ AnswerSent(s)'
        PROVE  Accounted' /\ Requested'
    <2>1. ASSUME NEW s \in DOMAIN subs'
          PROVE  s = remote' \/ GivenUp(s)' \/ AnswerSent(s)' \/ Responding(s)' \/ s \in stranded'
      BY <1>1 DEF Accounted, GivenUp
    <2>2. Accounted'
      BY <2>1 DEF Accounted
    <2> QED BY <1>1, <2>2 DEF Requested, Asked
  <1>2. ASSUME UNCHANGED <<conn, subs, calls, establish, frames, remote, generation, stranded>>
        PROVE  Accounted' /\ Requested'
    <2>1. \A s : (AnswerSent(s) => AnswerSent(s)') /\ (Responding(s) => Responding(s)')
      BY <1>2 DEF AnswerSent, Responding
    <2> QED BY <1>1, <1>2, <2>1
  \* A new generation, on an open connection.
  <1>3. ASSUME Resubscribe, UNCHANGED <<subs, establish, stranded>>,
               \A s \in DOMAIN subs : AnswerSent(s) => AnswerSent(s)'
        PROVE  Accounted' /\ Requested'
    <2>1. /\ generation' = generation + 1
          /\ calls' = calls \union {SubscribeCall(generation + 1, lastSeq)}
                            \union (IF remote = None THEN {} ELSE {UnsubscribeCall(remote)})
      BY <1>3 DEF Resubscribe
    <2>2. ASSUME NEW s \in DOMAIN subs' PROVE GivenUp(s)' \/ AnswerSent(s)' \/ Responding(s)' \/ s \in stranded'
      <3>1. CASE s = remote
        <4>1. remote # None
          BY <1>0, <1>3, <2>2, <3>1 DEF ServerShape
        <4> QED BY <2>1, <3>1, <4>1 DEF GivenUp
      <3>2. CASE s # remote
        <4>1. GivenUp(s) \/ AnswerSent(s) \/ Responding(s) \/ s \in stranded
          BY <1>3, <2>2, <3>2 DEF Accounted
        <4>2. GivenUp(s) => GivenUp(s)'
          BY <2>1 DEF GivenUp
        <4>3. Responding(s) => Responding(s)'
          BY <1>3 DEF Responding
        <4> QED BY <1>3, <2>2, <4>1, <4>2, <4>3
      <3> QED BY <3>1, <3>2
    <2>3. Asked(generation)'
      <3>1. SubscribeCall(generation', lastSeq) \in calls'
        BY <2>1
      <3> QED BY <3>1 DEF Asked, SubscribeCall
    <2>4. ASSUME NEW c \in calls', c.kind = "unsubscribe" PROVE c.sub < generation'
      <3>1. CASE c \in calls
        <4>1. c.sub < generation /\ c.sub \in Nat
          BY <1>0, <2>4, <3>1 DEF Requested, ServerShape, CallShape
        <4> QED BY <1>0, <2>1, <4>1
      <3>2. CASE c = UnsubscribeCall(remote) /\ remote # None
        <4>1. remote \in 1 .. generation
          BY <1>0, <3>2 DEF ClientShape
        <4> QED BY <1>0, <2>1, <3>2, <4>1 DEF UnsubscribeCall
      <3>3. CASE c = SubscribeCall(generation + 1, lastSeq)
        BY <2>4, <3>3 DEF SubscribeCall
      <3> QED BY <2>1, <3>1, <3>2, <3>3
    <2>5. generation' \notin stranded'
      BY <1>0, <1>3, <2>1 DEF ClientShape
    <2> QED BY <2>2, <2>3, <2>4, <2>5 DEF Accounted, Requested
  <1>4. ASSUME NEW e \in Emitters, AppendEvent(e) \/ Publish(e) PROVE Accounted' /\ Requested'
    <2>1. UNCHANGED <<conn, subs, calls, establish, frames, remote, generation, stranded>>
      BY <1>4 DEF AppendEvent, Publish, server, client
    <2> QED BY <1>2, <2>1
  <1>5. CASE Connect
    <2>1. Resubscribe /\ UNCHANGED <<subs, establish, stranded>> /\ DOMAIN subs = {}
      BY <1>0, <1>5 DEF Connect, ClosedShape
    <2> QED BY <1>3, <2>1
  <1>6. ASSUME DropSocket PROVE Accounted' /\ Requested'
    <2>1. DOMAIN subs' = {} /\ calls' = {} /\ conn' = None /\ stranded' = {}
      BY <1>6 DEF DropSocket
    <2> QED BY <2>1 DEF Accounted, Requested
  <1>7. ASSUME NEW c \in calls, HandleSubscribe(c) PROVE Accounted' /\ Requested'
    <2>1. /\ c.kind = "subscribe" /\ establish = None
          /\ calls' = calls \ {c} /\ DOMAIN subs' = DOMAIN subs \union {c.sub}
          /\ establish' = [sub |-> c.sub, after |-> c.after, head |-> head, pc |-> "respond"]
          /\ UNCHANGED <<conn, frames, remote, generation, stranded>>
      BY <1>7 DEF HandleSubscribe, client
    <2>2. ASSUME NEW s \in DOMAIN subs' PROVE s = remote' \/ GivenUp(s)' \/ AnswerSent(s)' \/ Responding(s)' \/ s \in stranded'
      <3>1. CASE s = c.sub
        <4>1. establish' \in [sub : Nat, after : Nat \union {None}, head : Nat, pc : {"respond", "replay"}]
          <5>1. /\ c.sub \in Nat /\ head \in Nat
                /\ c.after \in Nat \union {None}
            BY <1>0, <2>1 DEF ServerShape, CallShape, QueueShape, Seqs
          <5> QED BY <2>1, <5>1
        <4>2. establish'.pc = "respond" /\ establish'.sub = s
          BY <2>1, <3>1
        <4>3. establish' # None
          BY <4>1, StreamAssumption
        <4> QED BY <4>2, <4>3 DEF Responding
      <3>2. CASE s # c.sub
        <4>1. s = remote \/ GivenUp(s) \/ AnswerSent(s) \/ s \in stranded
          BY <2>1, <2>2, <3>2 DEF Accounted, Responding
        <4>2. GivenUp(s) => GivenUp(s)'
          BY <2>1 DEF GivenUp, UnsubscribeCall
        <4>3. AnswerSent(s) => AnswerSent(s)'
          BY <2>1 DEF AnswerSent
        <4> QED BY <2>1, <4>1, <4>2, <4>3
      <3> QED BY <3>1, <3>2
    <2>3. Requested'
      <3>1. Asked(generation) => c.sub = generation \/ Asked(generation)'
        BY <2>1 DEF Asked
      <3>2. conn' # None => Asked(generation)' \/ generation' \in DOMAIN subs'
        BY <2>1, <3>1 DEF Requested, Asked
      <3> QED BY <2>1, <3>2 DEF Requested
    <2> QED BY <2>2, <2>3 DEF Accounted
  <1>8. ASSUME NEW c \in calls, HandleUnsubscribe(c) PROVE Accounted' /\ Requested'
    <2>1. /\ c.kind = "unsubscribe"
          /\ calls' = calls \ {c} /\ DOMAIN subs' = DOMAIN subs \ {c.sub}
          /\ UNCHANGED <<conn, establish, frames, remote, generation, stranded>>
      BY <1>8 DEF HandleUnsubscribe, client
    <2>2. ASSUME NEW s \in DOMAIN subs' PROVE s = remote' \/ GivenUp(s)' \/ AnswerSent(s)' \/ Responding(s)' \/ s \in stranded'
      <3>1. s \in DOMAIN subs /\ s # c.sub
        BY <2>1, <2>2
      <3>2. s = remote \/ GivenUp(s) \/ AnswerSent(s) \/ Responding(s) \/ s \in stranded
        BY <3>1 DEF Accounted
      <3>3. GivenUp(s) => GivenUp(s)'
        BY <2>1, <3>1 DEF GivenUp, UnsubscribeCall
      <3>4. (AnswerSent(s) => AnswerSent(s)') /\ (Responding(s) => Responding(s)')
        BY <2>1 DEF AnswerSent, Responding
      <3> QED BY <2>1, <3>2, <3>3, <3>4
    <2>3. Requested'
      <3>1. Asked(generation) => Asked(generation)'
        BY <2>1 DEF Asked
      <3>2. c.sub # generation
        BY <1>0, <2>1 DEF Requested
      <3>3. conn' # None => Asked(generation)' \/ generation' \in DOMAIN subs'
        BY <2>1, <3>1, <3>2 DEF Requested, Asked
      <3> QED BY <2>1, <3>3 DEF Requested
    <2> QED BY <2>2, <2>3 DEF Accounted
  \* Frames are added.
  <1>9. ASSUME NEW f \in Frames, frames' = Append(frames, f) PROVE \A s : AnswerSent(s) => AnswerSent(s)'
    <2>1. Len(frames') >= Len(frames) /\ \A i \in 1 .. Len(frames) : frames'[i] = frames[i]
      BY <1>0, <1>9, AppendFrame
    <2> QED BY <1>0, <1>f, <2>1, AnswerStays
  <1>l. Frame("lagged", None, None) \in Frames
    BY DEF Frame, Frames, Kinds
  <1>e. establish # None => establish.sub \in Nat /\ establish.head \in Seqs /\ establish.sub \in 1 .. generation
    BY <1>0 DEF ServerShape, EstablishShape, QueueShape, Seqs
  <1>10. CASE Respond
    <2>1. PICK k \in {"response", "snapshot"} : frames' = Append(frames, Frame(k, establish.sub, establish.head))
      BY <1>10 DEF Respond
    <2> DEFINE f == Frame(k, establish.sub, establish.head)
    <2>2. f \in Frames /\ f.kind = k /\ f.sub = establish.sub
      BY <1>e, <1>10 DEF Respond, Frame, Frames, Kinds
    <2>3. UNCHANGED <<conn, subs, calls, remote, generation, stranded>>
      BY <1>10 DEF Respond, client
    <2>4. frames' = Append(frames, f)
      BY <2>1
    <2> HIDE DEF f
    <2>5. \A s : AnswerSent(s) => AnswerSent(s)'
      BY <1>9, <2>2, <2>4
    <2>6. ASSUME NEW s, Responding(s) PROVE AnswerSent(s)'
      <3>1. Len(frames') = Len(frames) + 1 /\ frames'[Len(frames) + 1] = f
        BY <1>0, <2>2, <2>4, AppendFrame
      <3>2. Len(frames) + 1 \in DOMAIN frames' /\ IsAnswer(frames'[Len(frames) + 1], s)
        BY <1>0, <1>f, <2>2, <2>6, <3>1 DEF IsAnswer, Responding
      <3> QED BY <3>2 DEF AnswerSent, IsAnswer
    <2> QED BY <1>1, <2>3, <2>5, <2>6
  <1>11. CASE Replay \/ ReplayFails \/ Ready
    <2>1. PICK f : frames' = Append(frames, f) /\ f \in Frames
      <3>1. CASE Replay
        <4>1. establish.after + 1 \in Seqs
          <5>1. establish.after \in 0 .. head /\ establish.after < establish.head /\ establish.head \in 0 .. head
                /\ head \in Seqs
            BY <1>0, <3>1 DEF Replay, ServerShape, EstablishShape, QueueShape
          <5> QED BY <5>1 DEF Seqs
        <4>2. frames' = Append(frames, Frame("event", establish.sub, establish.after + 1))
          BY <3>1 DEF Replay
        <4>3. Frame("event", establish.sub, establish.after + 1) \in Frames
          BY <1>e, <3>1, <4>1 DEF Replay, Frame, Frames, Kinds
        <4> QED BY <4>2, <4>3
      <3>2. CASE ReplayFails
        BY <1>l, <3>2 DEF ReplayFails
      <3>3. CASE Ready
        <4>1. Frame("ready", establish.sub, establish.head) \in Frames
          BY <1>e, <3>3 DEF Ready, Frame, Frames, Kinds
        <4> QED BY <3>3, <4>1 DEF Ready
      <3> QED BY <1>11, <3>1, <3>2, <3>3
    <2>2. UNCHANGED <<conn, subs, calls, remote, generation, stranded>>
      BY <1>11 DEF Replay, ReplayFails, Ready, client
    <2>3. \A s : ~Responding(s)
      BY <1>11 DEF Replay, ReplayFails, Ready, Responding
    <2>4. \A s : AnswerSent(s) => AnswerSent(s)'
      BY <1>9, <2>1
    <2> QED BY <1>1, <2>2, <2>3, <2>4
  <1>12. CASE ReceiveLive
    <2>1. UNCHANGED <<conn, subs, calls, establish, frames, remote, generation, stranded>>
      BY <1>12 DEF ReceiveLive, client
    <2> QED BY <1>2, <2>1
  <1>13. CASE ReceiveLagged
    <2>1. UNCHANGED <<conn, subs, calls, establish, remote, generation, stranded>>
      BY <1>13 DEF ReceiveLagged, server, client
    <2>2. \A s : AnswerSent(s) => AnswerSent(s)'
      BY <1>9, <1>13, <1>l DEF ReceiveLagged
    <2>3. \A s : Responding(s) => Responding(s)'
      BY <2>1 DEF Responding
    <2> QED BY <1>1, <2>1, <2>2, <2>3
  <1>14. CASE DeliverLive
    <2> DEFINE T == {s \in DOMAIN subs : hand > subs[s]}
    <2>1. frames' = frames \o Sent(T, hand)
      BY <1>14 DEF DeliverLive, Sent
    <2>2. T \in SUBSET DOMAIN subs /\ hand \in Seqs
      BY <1>0, <1>14 DEF DeliverLive, ServerShape, QueueShape, Seqs
    <2> HIDE DEF T
    <2>3. IsFiniteSet(T) /\ T \in SUBSET Nat
      BY <1>0, <2>2, SubscriptionsFinite
    <2>4. Len(frames') >= Len(frames) /\ \A i \in 1 .. Len(frames) : frames'[i] = frames[i]
      BY <1>0, <2>1, <2>2, <2>3, SentFrames
    <2>5. UNCHANGED <<conn, subs, calls, establish, remote, generation, stranded>>
      BY <1>14 DEF DeliverLive, client
    <2>6. \A s : (AnswerSent(s) => AnswerSent(s)') /\ (Responding(s) => Responding(s)')
      BY <1>0, <1>f, <2>4, <2>5, AnswerStays DEF Responding
    <2> QED BY <1>1, <2>5, <2>6
  \* The client takes a frame.
  <1>15. CASE ClientSubscribed
    <2> DEFINE f == Head(frames)
    <2>1. /\ frames # << >> /\ frames' = Tail(frames) /\ f.kind \in {"response", "snapshot"}
          /\ UNCHANGED <<conn, subs, establish, generation, stranded>>
      BY <1>15 DEF ClientSubscribed, Next1, Consume
    <2>2. f.sub \in 1 .. generation
      <3>1. FrameOf(frames[1], generation, head) /\ f = frames[1]
        BY <1>0, <2>1, TailFrames DEF FramesShape
      <3> QED BY <2>1, <3>1 DEF FrameOf
    <2>3. \A s : s # f.sub /\ AnswerSent(s) => AnswerSent(s)'
      BY <1>0, <2>1, AnswerMoves DEF IsAnswer
    <2>4. \A s : Responding(s) => Responding(s)'
      BY <2>1 DEF Responding
    <2>5. CASE f.sub = generation
      <3>1. remote' = generation /\ calls' = calls
        BY <1>15, <2>5 DEF ClientSubscribed
      <3>2. ASSUME NEW s \in DOMAIN subs' PROVE s = remote' \/ GivenUp(s)' \/ AnswerSent(s)' \/ Responding(s)' \/ s \in stranded'
        <4>1. s = generation \/ GivenUp(s) \/ (AnswerSent(s) /\ s # f.sub) \/ Responding(s) \/ s \in stranded
          <5>1. remote # None => remote = generation
            BY <1>0 DEF ClientShape
          <5>2. s # None
            BY <1>0, <2>1, <3>2 DEF ServerShape
          <5> QED BY <2>1, <2>5, <3>2, <5>1, <5>2 DEF Accounted
        <4>2. GivenUp(s) => GivenUp(s)'
          BY <3>1 DEF GivenUp
        <4> QED BY <2>1, <2>3, <2>4, <3>1, <4>1, <4>2
      <3> QED BY <2>1, <3>1, <3>2 DEF Accounted, Requested, Asked
    <2>6. CASE f.sub # generation
      <3>1. remote' = remote /\ calls' = calls \union {UnsubscribeCall(f.sub)}
        BY <1>15, <2>6 DEF ClientSubscribed
      <3>2. ASSUME NEW s \in DOMAIN subs' PROVE s = remote' \/ GivenUp(s)' \/ AnswerSent(s)' \/ Responding(s)' \/ s \in stranded'
        <4>1. s = remote \/ GivenUp(s) \/ AnswerSent(s) \/ Responding(s) \/ s \in stranded
          BY <2>1, <3>2 DEF Accounted
        <4>2. GivenUp(s) \/ s = f.sub => GivenUp(s)'
          BY <3>1 DEF GivenUp
        <4> QED BY <2>1, <2>3, <2>4, <3>1, <4>1, <4>2
      <3>3. conn' # None => Asked(generation)' \/ generation' \in DOMAIN subs'
        BY <2>1, <3>1 DEF Requested, Asked
      <3>4. \A c \in calls' : c.kind = "unsubscribe" => c.sub < generation'
        <4>1. f.sub < generation
          BY <1>0, <2>2, <2>6
        <4> HIDE DEF f
        <4> QED BY <2>1, <3>1, <4>1 DEF Requested, UnsubscribeCall
      <3> QED BY <2>1, <3>2, <3>3, <3>4 DEF Accounted, Requested
    <2> QED BY <2>5, <2>6
  <1>16. CASE ClientEvent \/ ClientReady
    <2>1. /\ frames # << >> /\ frames' = Tail(frames) /\ Head(frames).kind \in {"event", "ready"}
          /\ UNCHANGED <<conn, subs, calls, establish, remote, generation, stranded>>
      BY <1>16 DEF ClientEvent, ClientReady, Next1, Consume, server
    <2>2. \A s : AnswerSent(s) => AnswerSent(s)'
      BY <1>0, <2>1, AnswerMoves DEF IsAnswer
    <2>3. \A s : Responding(s) => Responding(s)'
      BY <2>1 DEF Responding
    <2> QED BY <1>1, <2>1, <2>2, <2>3
  <1>17. CASE ClientLagged
    <2>1. /\ frames # << >> /\ frames' = Tail(frames) /\ Head(frames).kind = "lagged"
          /\ UNCHANGED <<subs, establish, stranded>> /\ Resubscribe
      BY <1>17 DEF ClientLagged, Next1, Consume
    <2>2. \A s : AnswerSent(s) => AnswerSent(s)'
      BY <1>0, <2>1, AnswerMoves DEF IsAnswer
    <2> QED BY <1>3, <2>1, <2>2
  <1>18. CASE UNCHANGED vars
    BY <1>2, <1>18 DEF vars, server, client
  \* A request is refused, or an answer is not heard any more.
  <1>19. ASSUME NEW c \in calls, RefuseUnsubscribe(c) \/ (Declined(c) /\ c.kind = "subscribe")
         PROVE  Accounted' /\ Requested'
    <2>1. /\ calls' = calls \ {c} /\ stranded \subseteq stranded' /\ UNCHANGED <<conn, subs, establish, frames, remote, generation>>
          /\ c.kind = "unsubscribe" => c.sub \in stranded'
          /\ c.kind = "subscribe" => c.sub # generation
          /\ c.kind \in {"subscribe", "unsubscribe"}
      BY <1>19 DEF RefuseUnsubscribe, Declined, client
    <2>2. ASSUME NEW s \in DOMAIN subs' PROVE s = remote' \/ GivenUp(s)' \/ AnswerSent(s)' \/ Responding(s)' \/ s \in stranded'
      <3>1. s = remote \/ GivenUp(s) \/ AnswerSent(s) \/ Responding(s) \/ s \in stranded
        BY <2>1, <2>2 DEF Accounted
      <3>2. GivenUp(s) => GivenUp(s)' \/ s \in stranded'
        BY <2>1 DEF GivenUp, UnsubscribeCall
      <3>3. (AnswerSent(s) => AnswerSent(s)') /\ (Responding(s) => Responding(s)')
        BY <2>1 DEF AnswerSent, Responding
      <3> QED BY <2>1, <3>1, <3>2, <3>3
    <2>3. Requested'
      <3>1. Asked(generation) => Asked(generation)'
        BY <2>1 DEF Asked
      <3>2. conn' # None => Asked(generation)' \/ generation' \in DOMAIN subs'
        BY <2>1, <3>1 DEF Requested, Asked
      <3>3. c.kind = "unsubscribe" => c.sub # generation
        BY <1>0 DEF Requested, ServerShape, CallShape
      <3>4. generation' \notin stranded'
        BY <1>19, <2>1, <3>3 DEF RefuseUnsubscribe, Declined, client, Requested
      <3> QED BY <2>1, <3>2, <3>4 DEF Requested
    <2> QED BY <2>2, <2>3 DEF Accounted
  <1>20. ASSUME NEW c \in calls, RefuseSubscribe(c) PROVE Accounted' /\ Requested'
    <2>1. c.kind = "subscribe"
      BY <1>20 DEF RefuseSubscribe
    <2> QED BY <1>6, <1>19, <1>20, <2>1, Refused
  <1>21. CASE ClientGaveUp
    <2> DEFINE f == Head(frames)
    <2>1. /\ frames # << >> /\ frames' = Tail(frames) /\ f.kind \in {"response", "snapshot"}
          /\ stranded' = stranded \union {f.sub}
          /\ UNCHANGED <<conn, subs, calls, establish, remote, generation>>
      BY <1>21 DEF ClientGaveUp, Next1, Consume, server
    <2>2. \A s : s # f.sub /\ AnswerSent(s) => AnswerSent(s)'
      BY <1>0, <2>1, AnswerMoves DEF IsAnswer
    <2>3. \A s : (Responding(s) => Responding(s)') /\ (GivenUp(s) => GivenUp(s)')
      BY <2>1 DEF Responding, GivenUp
    <2> HIDE DEF f
    <2>4. Accounted'
      BY <2>1, <2>2, <2>3 DEF Accounted
    <2>5. f.sub # generation
      BY <1>21 DEF ClientGaveUp, f
    <2>6. conn' # None => Asked(generation)' \/ generation' \in DOMAIN subs'
      BY <2>1 DEF Requested, Asked
    <2> QED BY <2>1, <2>4, <2>5, <2>6 DEF Requested
  <1> QED BY <1>4, <1>5, <1>6, <1>7, <1>8, <1>10, <1>11, <1>12, <1>13, <1>14, <1>15, <1>16, <1>17, <1>18, <1>19, <1>20, <1>21
          DEF Next, Live, Establish, Client, Handle, Disconnect

\* A subscription that was given up does not stay with the socket: when
\* everything sent has been handled, the socket serves the one the client
\* listens to, and no other but those whose cancelling was refused and those
\* whose answer came after the client had given the request up.
THEOREM NoLeak == Spec => []NoLeakedSubscription
  <1>1. Shape /\ LeakInv => NoLeakedSubscription
    <2> SUFFICES ASSUME Shape, LeakInv, Quiet PROVE remote \in DOMAIN subs /\ DOMAIN subs \ {remote} \subseteq stranded
      BY DEF NoLeakedSubscription
    <2>1. /\ \A s : ~Responding(s) /\ ~AnswerSent(s) /\ ~GivenUp(s) /\ ~Asked(s)
          /\ conn # None
      BY DEF Quiet, Responding, AnswerSent, GivenUp, Asked
    <2>2. \A s \in DOMAIN subs : s = remote \/ s \in stranded
      BY <2>1 DEF LeakInv, Accounted
    <2>3. generation \in DOMAIN subs /\ generation \notin stranded
      BY <2>1 DEF LeakInv, Requested
    <2> QED BY <2>2, <2>3
  <1>2. Spec => []LeakInv
    BY ShapeAlways, LeakInit, LeakStep, PTL DEF Spec
  <1> QED BY <1>1, <1>2, ShapeAlways, PTL

-----------------------------------------------------------------------------
(* Lemmas about what the frames on their way bring.                        *)

\* Ws is fs with frames added.
Extends(fs, ws) ==
    /\ fs \in Seq(Frames) /\ ws \in Seq(Frames) /\ Len(fs) \in Nat /\ Len(ws) \in Nat
    /\ Len(fs) <= Len(ws)
    /\ \A i \in 1 .. Len(fs) : ws[i] = fs[i]

LEMMA CoveredLater ==
    ASSUME NEW fs, NEW ws, Extends(fs, ws), NEW g, NEW last, NEW m,
           NEW i \in 1 .. Len(fs) + 1, NEW k \in 1 .. Len(ws) + 1, i <= k,
           Covered(fs, g, last, i, m)
    PROVE  Covered(ws, g, last, k, m)
  <1>1. CASE LastHas(last, m)
    BY <1>1 DEF Covered
  <1>2. CASE ~LastHas(last, m)
    <2>1. PICK j \in 1 .. i - 1 : Covers(fs[j], g, last, m)
      BY <1>2 DEF Covered
    <2>2. j \in 1 .. Len(fs) /\ j \in 1 .. k - 1
      BY DEF Extends
    <2>3. ws[j] = fs[j]
      BY <2>2 DEF Extends
    <2> QED BY <2>1, <2>2, <2>3 DEF Covered
  <1> QED BY <1>1, <1>2

LEMMA AnsweredLater ==
    ASSUME NEW fs, NEW ws, Extends(fs, ws), NEW g, NEW r,
           NEW i \in 1 .. Len(fs) + 1, NEW k \in 1 .. Len(ws) + 1, i <= k,
           Answered(fs, g, r, i)
    PROVE  Answered(ws, g, r, k)
  <1>1. CASE r = g
    BY <1>1 DEF Answered
  <1>2. CASE r # g
    <2>1. PICK j \in 1 .. i - 1 : fs[j].kind = "lagged" \/ IsAnswer(fs[j], g)
      BY <1>2 DEF Answered
    <2>2. j \in 1 .. Len(fs) /\ j \in 1 .. k - 1
      BY DEF Extends
    <2>3. ws[j] = fs[j]
      BY <2>2 DEF Extends
    <2> QED BY <2>1, <2>2, <2>3 DEF Answered
  <1> QED BY <1>1, <1>2

\* A frame of the subscription may be added when what it rests on is there.
MayAdd(f, fs, g, last, r) ==
    f.sub = g =>
        /\ f.kind = "event" => \A m \in 1 .. f.seq - 1 : Covered(fs, g, last, Len(fs) + 1, m)
        /\ f.kind = "ready" => \A m \in 1 .. f.seq : Covered(fs, g, last, Len(fs) + 1, m)
        /\ f.kind \in {"event", "ready"} => Answered(fs, g, r, Len(fs) + 1)
        /\ IsAnswer(f, g) => r # g /\ \A j \in 1 .. Len(fs) : ~IsAnswer(fs[j], g)

\* Frames are added behind the others; at most one of them is an answer.
LEMMA ChainExtends ==
    ASSUME NEW fs, NEW ws, Extends(fs, ws), NEW g, NEW last, NEW r,
           Chain(fs, g, last, r),
           \A i \in Len(fs) + 1 .. Len(ws) : MayAdd(ws[i], fs, g, last, r),
           \A i, j \in Len(fs) + 1 .. Len(ws) : IsAnswer(ws[i], g) /\ IsAnswer(ws[j], g) => i = j
    PROVE  Chain(ws, g, last, r)
  <1> SUFFICES ASSUME NEW i \in 1 .. Len(ws), ws[i].sub = g
               PROVE  /\ ws[i].kind = "event" => \A m \in 1 .. ws[i].seq - 1 : Covered(ws, g, last, i, m)
                      /\ ws[i].kind = "ready" => \A m \in 1 .. ws[i].seq : Covered(ws, g, last, i, m)
                      /\ ws[i].kind \in {"event", "ready"} => Answered(ws, g, r, i)
                      /\ IsAnswer(ws[i], g) => r # g /\ \A j \in 1 .. Len(ws) : IsAnswer(ws[j], g) => j = i
    BY DEF Chain
  <1>0. /\ Len(fs) \in Nat /\ Len(ws) \in Nat /\ Len(fs) <= Len(ws)
        /\ \A j \in 1 .. Len(fs) : ws[j] = fs[j]
    BY DEF Extends
  <1>1. CASE i \in 1 .. Len(fs)
    <2>1. ws[i] = fs[i] /\ i \in 1 .. Len(fs) + 1 /\ i \in 1 .. Len(ws) + 1 /\ i <= i
      BY <1>0, <1>1
    <2>2. /\ fs[i].kind = "event" => \A m \in 1 .. fs[i].seq - 1 : Covered(fs, g, last, i, m)
          /\ fs[i].kind = "ready" => \A m \in 1 .. fs[i].seq : Covered(fs, g, last, i, m)
          /\ fs[i].kind \in {"event", "ready"} => Answered(fs, g, r, i)
          /\ IsAnswer(fs[i], g) => r # g /\ \A j \in 1 .. Len(fs) : IsAnswer(fs[j], g) => j = i
      BY <1>1, <2>1 DEF Chain
    <2>3. /\ \A m : Covered(fs, g, last, i, m) => Covered(ws, g, last, i, m)
          /\ Answered(fs, g, r, i) => Answered(ws, g, r, i)
      BY <2>1, CoveredLater, AnsweredLater
    <2>4. ASSUME IsAnswer(ws[i], g), NEW j \in 1 .. Len(ws), IsAnswer(ws[j], g) PROVE j = i
      <3>1. CASE j \in 1 .. Len(fs)
        BY <1>0, <2>1, <2>2, <2>4, <3>1
      <3>2. CASE j \notin 1 .. Len(fs)
        <4>1. j \in Len(fs) + 1 .. Len(ws) /\ ws[j].sub = g
          BY <1>0, <2>4, <3>2 DEF IsAnswer
        <4>2. ~IsAnswer(fs[i], g)
          BY <1>1, <2>4, <4>1 DEF MayAdd
        <4> QED BY <2>1, <2>4, <4>2
      <3> QED BY <3>1, <3>2
    <2> QED BY <2>1, <2>2, <2>3, <2>4
  <1>2. CASE i \notin 1 .. Len(fs)
    <2>1. /\ i \in Len(fs) + 1 .. Len(ws) /\ i \in 1 .. Len(ws) + 1
          /\ Len(fs) + 1 \in 1 .. Len(fs) + 1 /\ Len(fs) + 1 <= i
      BY <1>0, <1>2
    <2>2. MayAdd(ws[i], fs, g, last, r)
      BY <2>1
    <2>3. /\ \A m : Covered(fs, g, last, Len(fs) + 1, m) => Covered(ws, g, last, i, m)
          /\ Answered(fs, g, r, Len(fs) + 1) => Answered(ws, g, r, i)
      BY <2>1, CoveredLater, AnsweredLater
    <2>4. ASSUME IsAnswer(ws[i], g), NEW j \in 1 .. Len(ws), IsAnswer(ws[j], g) PROVE j = i
      <3>1. CASE j \in 1 .. Len(fs)
        BY <1>0, <2>2, <2>4, <3>1 DEF MayAdd, IsAnswer
      <3>2. CASE j \notin 1 .. Len(fs)
        <4>1. j \in Len(fs) + 1 .. Len(ws)
          BY <1>0, <3>2
        <4> QED BY <2>1, <2>4, <4>1
      <3> QED BY <3>1, <3>2
    <2>5. IsAnswer(ws[i], g) => r # g
      BY <2>2 DEF MayAdd
    <2> QED BY <2>2, <2>3, <2>4, <2>5 DEF MayAdd
  <1> QED BY <1>1, <1>2

\* The client takes the first frame: what it covered the cursor has now, and
\* the client listens to g as soon as it has the answer.
Takes(f, g, last, last2, r, r2) ==
    /\ f.kind # "lagged"
    /\ \A m \in Nat : LastHas(last, m) => LastHas(last2, m)
    /\ \A m \in Nat : Covers(f, g, last, m) => LastHas(last2, m)
    /\ last = None /\ last2 # None => IsAnswer(f, g)
    /\ r2 = g <=> (r = g \/ IsAnswer(f, g))

LEMMA CoveredTaken ==
    ASSUME NEW fs \in Seq(Frames), fs # << >>, NEW g, NEW last, NEW last2, NEW r, NEW r2,
           Chain(fs, g, last, r), Takes(fs[1], g, last, last2, r, r2),
           NEW i \in 1 .. Len(fs), NEW m \in Nat, Covered(fs, g, last, i + 1, m)
    PROVE  Covered(Tail(fs), g, last2, i, m)
  <1> DEFINE ts == Tail(fs)
  <1>0. /\ ts \in Seq(Frames) /\ Len(fs) = Len(ts) + 1 /\ Len(ts) \in Nat
        /\ \A k \in 1 .. Len(ts) : ts[k] = fs[k + 1]
        /\ 1 \in 1 .. Len(fs)
    BY TailFrames
  <1> HIDE DEF ts
  <1>1. CASE LastHas(last2, m)
    BY <1>1 DEF Covered, ts
  <1>2. CASE ~LastHas(last2, m)
    <2>1. ~LastHas(last, m) /\ ~Covers(fs[1], g, last, m)
      BY <1>2 DEF Takes
    <2>2. PICK j \in 1 .. i : Covers(fs[j], g, last, m)
      <3>1. (i + 1) - 1 = i
        OBVIOUS
      <3> QED BY <2>1, <3>1 DEF Covered
    <2>3. j - 1 \in 1 .. i - 1 /\ j \in 1 .. Len(fs) /\ j # 1 /\ j - 1 \in 1 .. Len(ts) /\ (j - 1) + 1 = j
      BY <1>0, <2>1, <2>2
    <2>4. ts[j - 1] = fs[j]
      BY <1>0, <2>3
    <2>5. Covers(fs[j], g, last2, m)
      <3>1. CASE last = None /\ last2 # None
        <4>1. IsAnswer(fs[1], g) /\ fs[1].sub = g
          BY <3>1 DEF Takes, IsAnswer
        <4>2. ~IsAnswer(fs[j], g)
          BY <1>0, <2>3, <4>1 DEF Chain
        <4> QED BY <2>2, <4>2 DEF Covers, IsAnswer
      <3>2. CASE ~(last = None /\ last2 # None)
        BY <2>2, <3>2 DEF Covers
      <3> QED BY <3>1, <3>2
    <2> QED BY <2>3, <2>4, <2>5 DEF Covered, ts
  <1> QED BY <1>1, <1>2

LEMMA AnsweredTaken ==
    ASSUME NEW fs \in Seq(Frames), fs # << >>, NEW g, NEW last, NEW last2, NEW r, NEW r2,
           Takes(fs[1], g, last, last2, r, r2),
           NEW i \in 1 .. Len(fs), Answered(fs, g, r, i + 1)
    PROVE  Answered(Tail(fs), g, r2, i)
  <1> DEFINE ts == Tail(fs)
  <1>0. /\ ts \in Seq(Frames) /\ Len(fs) = Len(ts) + 1 /\ Len(ts) \in Nat
        /\ \A k \in 1 .. Len(ts) : ts[k] = fs[k + 1]
    BY TailFrames
  <1> HIDE DEF ts
  <1>1. CASE r2 = g
    BY <1>1 DEF Answered, ts
  <1>2. CASE r2 # g
    <2>1. r # g /\ ~IsAnswer(fs[1], g) /\ fs[1].kind # "lagged"
      BY <1>2 DEF Takes
    <2>2. PICK j \in 1 .. i : fs[j].kind = "lagged" \/ IsAnswer(fs[j], g)
      <3>1. (i + 1) - 1 = i
        OBVIOUS
      <3> QED BY <2>1, <3>1 DEF Answered
    <2>3. j - 1 \in 1 .. i - 1 /\ j # 1 /\ j - 1 \in 1 .. Len(ts) /\ (j - 1) + 1 = j
      BY <1>0, <2>1, <2>2
    <2>4. ts[j - 1] = fs[j]
      BY <1>0, <2>3
    <2> QED BY <2>2, <2>3, <2>4 DEF Answered, ts
  <1> QED BY <1>1, <1>2

LEMMA ChainTaken ==
    ASSUME NEW fs \in Seq(Frames), fs # << >>, NEW g, NEW last, NEW last2, NEW r, NEW r2, NEW h \in Nat,
           \A i \in 1 .. Len(fs) : FrameOf(fs[i], g, h),
           g # None,
           Chain(fs, g, last, r), Takes(fs[1], g, last, last2, r, r2)
    PROVE  Chain(Tail(fs), g, last2, r2)
  <1> DEFINE ts == Tail(fs)
  <1>0. /\ ts \in Seq(Frames) /\ Len(fs) = Len(ts) + 1 /\ Len(ts) \in Nat
        /\ \A k \in 1 .. Len(ts) : ts[k] = fs[k + 1]
        /\ 1 \in 1 .. Len(fs)
    BY TailFrames
  <1> SUFFICES ASSUME NEW i \in 1 .. Len(ts), ts[i].sub = g
               PROVE  /\ ts[i].kind = "event" => \A m \in 1 .. ts[i].seq - 1 : Covered(ts, g, last2, i, m)
                      /\ ts[i].kind = "ready" => \A m \in 1 .. ts[i].seq : Covered(ts, g, last2, i, m)
                      /\ ts[i].kind \in {"event", "ready"} => Answered(ts, g, r2, i)
                      /\ IsAnswer(ts[i], g) => r2 # g /\ \A j \in 1 .. Len(ts) : IsAnswer(ts[j], g) => j = i
    BY DEF Chain
  <1>1. i + 1 \in 1 .. Len(fs) /\ i \in 1 .. Len(fs) /\ ts[i] = fs[i + 1] /\ i + 1 # 1
    BY <1>0
  <1>2. /\ fs[i + 1].kind = "event" => \A m \in 1 .. fs[i + 1].seq - 1 : Covered(fs, g, last, i + 1, m)
        /\ fs[i + 1].kind = "ready" => \A m \in 1 .. fs[i + 1].seq : Covered(fs, g, last, i + 1, m)
        /\ fs[i + 1].kind \in {"event", "ready"} => Answered(fs, g, r, i + 1)
        /\ IsAnswer(fs[i + 1], g) => r # g /\ \A j \in 1 .. Len(fs) : IsAnswer(fs[j], g) => j = i + 1
    BY <1>1 DEF Chain
  <1>3. /\ \A m \in Nat : Covered(fs, g, last, i + 1, m) => Covered(ts, g, last2, i, m)
        /\ Answered(fs, g, r, i + 1) => Answered(ts, g, r2, i)
    BY <1>1, CoveredTaken, AnsweredTaken
  <1>4. ts[i].kind \in {"event", "ready"} => ts[i].seq \in Nat
    BY <1>1 DEF FrameOf
  <1>5. ASSUME IsAnswer(ts[i], g)
        PROVE  r2 # g /\ \A j \in 1 .. Len(ts) : IsAnswer(ts[j], g) => j = i
    <2>1. ~IsAnswer(fs[1], g)
      BY <1>0, <1>1, <1>2, <1>5
    <2>2. r2 # g
      BY <1>1, <1>2, <1>5, <2>1 DEF Takes
    <2>3. ASSUME NEW j \in 1 .. Len(ts), IsAnswer(ts[j], g) PROVE j = i
      <3>1. j + 1 \in 1 .. Len(fs) /\ ts[j] = fs[j + 1]
        BY <1>0
      <3>2. j + 1 = i + 1
        BY <1>1, <1>2, <1>5, <2>3, <3>1
      <3> QED BY <3>2
    <2> QED BY <2>2, <2>3
  <1> HIDE DEF ts
  <1>6. ts[i].kind = "event" => \A m \in 1 .. ts[i].seq - 1 : Covered(ts, g, last2, i, m)
    BY <1>1, <1>2, <1>3, <1>4
  <1>7. ts[i].kind = "ready" => \A m \in 1 .. ts[i].seq : Covered(ts, g, last2, i, m)
    BY <1>1, <1>2, <1>3, <1>4
  <1> QED BY <1>1, <1>2, <1>3, <1>5, <1>6, <1>7

-----------------------------------------------------------------------------
(* Published in order, the events reach the socket in the order of the log. *)

LEMMA EndOfIs ==
    ASSUME NEW h \in Nat, NEW p \in 0 .. h, NEW S, S = p + 1 .. h
    PROVE  EndOf(S, h) = p
  <1>1. ASSUME NEW q \in 0 .. h, S = q + 1 .. h PROVE q = p
    <2>1. CASE q < p
      <3>1. q + 1 \in q + 1 .. h /\ q + 1 \notin p + 1 .. h
        BY <2>1
      <3> QED BY <1>1, <3>1
    <2>2. CASE p < q
      <3>1. p + 1 \in p + 1 .. h /\ p + 1 \notin q + 1 .. h
        BY <2>2
      <3> QED BY <1>1, <3>1
    <2> QED BY <2>1, <2>2
  <1> QED BY <1>1 DEF EndOf

\* Where the unpublished end of the log begins.
LEMMA PublishedIs ==
    ASSUME Shape, Queued
    PROVE  Published \in 0 .. head /\ Unpublished = Published + 1 .. head
  <1>1. head \in Nat
    BY DEF Shape, QueueShape, Seqs
  <1>2. PICK p \in 0 .. head : Unpublished = p + 1 .. head
    BY DEF Queued
  <1>3. Published = p
    BY <1>1, <1>2, EndOfIs DEF Published
  <1> QED BY <1>2, <1>3

LEMMA AlignedInit == Init => Aligned
  <1> SUFFICES ASSUME Init PROVE Aligned
    OBVIOUS
  <1>1. head = 0 /\ \A e \in Emitters : emitting[e] = None
    BY DEF Init
  <1>2. Unpublished = {} /\ 0 \in 0 .. head /\ 0 + 1 .. head = {}
    BY <1>1 DEF Unpublished
  <1>3. Queued
    BY <1>1, <1>2 DEF Queued
  <1> QED BY <1>3 DEF Init, Aligned

\* Appending leaves what is published alone; publishing moves it by one.
LEMMA PublishedStep ==
    ASSUME Shape, Queued
    PROVE  /\ Published \in Int /\ Published <= head
           /\ \A e \in Emitters : AppendEvent(e) => Queued' /\ Published' = Published
           /\ \A e \in Emitters : Publish(e) /\ InOrder =>
                 Queued' /\ Published' = Published + 1 /\ emitting[e] = Published + 1
           /\ UNCHANGED <<head, emitting>> => Queued' /\ Published' = Published
  <1>0. /\ head \in Nat /\ emitting \in [Emitters -> (1 .. MaxEvents) \union {None}] /\ None \notin Nat
    BY ConstantFacts DEF Shape, QueueShape, Seqs
  <1>1. Published \in 0 .. head /\ Unpublished = Published + 1 .. head
    BY PublishedIs
  <1>a. \A f, g \in Emitters : emitting[f] # None /\ emitting[f] = emitting[g] => f = g
    BY DEF Queued
  <1>b. \A f \in Emitters : emitting[f] # None => emitting[f] \in Published + 1 .. head
    BY <1>1 DEF Unpublished
  <1>2. ASSUME NEW e \in Emitters, AppendEvent(e) PROVE Queued' /\ Published' = Published
    <2>1. emitting[e] = None /\ head' = head + 1 /\ emitting' = [emitting EXCEPT ![e] = head + 1]
      BY <1>2 DEF AppendEvent
    <2>2. head + 1 # None /\ emitting'[e] = head + 1 /\ \A f \in Emitters \ {e} : emitting'[f] = emitting[f]
      BY <1>0, <2>1
    <2>3. Unpublished' = Unpublished \union {head + 1}
      BY <2>1, <2>2 DEF Unpublished
    <2>4. Unpublished' = Published + 1 .. head'
      BY <1>0, <1>1, <2>1, <2>3
    <2>5. Published \in 0 .. head' /\ head' \in Nat
      BY <1>0, <1>1, <2>1
    <2>6. \A f, g \in Emitters : emitting'[f] # None /\ emitting'[f] = emitting'[g] => f = g
      <3>1. \A f \in Emitters \ {e} : emitting'[f] # head + 1
        BY <1>0, <1>b, <2>2
      <3> QED BY <1>a, <2>2, <3>1
    <2>7. Queued'
      BY <2>4, <2>5, <2>6 DEF Queued
    <2>8. Published' = Published
      BY <2>4, <2>5, EndOfIs DEF Published
    <2> QED BY <2>7, <2>8
  <1>3. ASSUME NEW e \in Emitters, Publish(e), InOrder
        PROVE  Queued' /\ Published' = Published + 1 /\ emitting[e] = Published + 1
    <2>1. emitting[e] # None /\ head' = head /\ emitting' = [emitting EXCEPT ![e] = None]
      BY <1>3 DEF Publish
    <2>2. emitting'[e] = None /\ \A f \in Emitters \ {e} : emitting'[f] = emitting[f]
      BY <1>0, <2>1
    \* The event published is the first of the unpublished ones.
    <2>3. emitting[e] = Published + 1
      <3>1. emitting[e] \in Published + 1 .. head
        BY <1>b, <2>1
      <3>2. Published + 1 \in Unpublished
        BY <1>0, <1>1, <3>1
      <3>3. PICK f \in Emitters : emitting[f] = Published + 1 /\ emitting[f] # None
        BY <3>2 DEF Unpublished
      <3>4. emitting[e] <= emitting[f]
        BY <1>3, <3>3 DEF InOrder
      <3> QED BY <1>0, <1>1, <3>1, <3>3, <3>4
    <2>4. Unpublished' = Unpublished \ {Published + 1}
      <3>1. \A f \in Emitters \ {e} : emitting[f] # Published + 1
        BY <1>a, <2>1, <2>3
      <3> QED BY <2>1, <2>2, <2>3, <3>1 DEF Unpublished
    <2>5. /\ Published + 1 \in 0 .. head' /\ head' \in Nat
          /\ Unpublished' = (Published + 1) + 1 .. head'
      <3>1. Published + 1 <= head
        BY <1>0, <1>1, <1>b, <2>1, <2>3
      <3>2. (Published + 1 .. head) \ {Published + 1} = (Published + 1) + 1 .. head
        BY <1>0, <1>1
      <3> QED BY <1>0, <1>1, <2>1, <2>4, <3>1, <3>2
    <2>6. \A f, g \in Emitters : emitting'[f] # None /\ emitting'[f] = emitting'[g] => f = g
      BY <1>a, <2>2
    <2>7. Queued'
      BY <2>5, <2>6 DEF Queued
    <2>8. Published' = Published + 1
      BY <2>5, EndOfIs DEF Published
    <2> QED BY <2>3, <2>7, <2>8
  <1>4. UNCHANGED <<head, emitting>> => Queued' /\ Published' = Published
    BY DEF Queued, Published, Unpublished
  <1> QED BY <1>0, <1>1, <1>2, <1>3, <1>4

\* The event that is next for live delivery is at most the first to come.
LEMMA UpcomingBound ==
    ASSUME Shape, Queued, conn # None
    PROVE  Upcoming \in Int /\ Upcoming <= head + 1
  <1>1. /\ Published \in Int /\ Published <= head
    BY PublishedStep
  <1>2. /\ head \in Nat /\ next \in Nat /\ conn \in DOMAIN receivers /\ receivers[conn] \in 0 .. next
        /\ hand \in (1 .. head) \union {None}
    BY DEF Shape, QueueShape, ServerShape, Seqs, Ring
  <1> QED BY <1>1, <1>2 DEF Upcoming

\* A queue that keeps its entries, with nothing published, keeps its order.
LEMMA KeptAligned ==
    ASSUME Kept, next' = next, Published' = Published,
           \A i \in 1 .. Len(values) : values[i].event = Published + values[i].seq + 1 - next
    PROVE  \A i \in 1 .. Len(values') : values'[i].event = Published' + values'[i].seq + 1 - next'
  BY DEF Kept

LEMMA AlignedStep ==
    ASSUME Shape, InOrder, Aligned, [Next]_vars
    PROVE  /\ Aligned'
           /\ conn # None /\ conn' = conn /\ ~ReceiveLagged /\ ~DeliverLive => Upcoming' = Upcoming
           /\ DeliverLive => Upcoming = hand /\ Upcoming' = hand + 1
  <1> USE ConstantFacts
  <1>0. /\ QueueShape /\ ServerShape /\ ClosedShape /\ head \in Nat /\ next \in Nat /\ Published \in Int
        /\ emitting \in [Emitters -> (1 .. MaxEvents) \union {None}]
        /\ values \in Seq(Entry) /\ Len(values) \in Nat
        /\ conn # None => conn \in DOMAIN receivers /\ receivers[conn] \in 0 .. next
        /\ hand # None => hand \in 1 .. head
    BY PublishedStep DEF Shape, QueueShape, ServerShape, Seqs, Ring, Aligned
  <1>a. /\ Queued
        /\ \A i \in 1 .. Len(values) : values[i].event = Published + values[i].seq + 1 - next
        /\ hand # None => hand = receivers[conn] + Published - next
    BY DEF Aligned
  <1>1. ASSUME UNCHANGED <<queueVars, head, emitting, conn, hand>>
        PROVE  Aligned' /\ Upcoming' = Upcoming
    <2>1. Queued' /\ Published' = Published
      BY <1>1, <1>a, PublishedStep
    <2> QED BY <1>1, <1>a, <2>1 DEF Aligned, Upcoming, queueVars
  <1>2. ASSUME NEW e \in Emitters, AppendEvent(e) PROVE Aligned' /\ Upcoming' = Upcoming
    <2>1. /\ Queued' /\ Published' = Published /\ UNCHANGED <<values, next, receivers, conn, hand>>
          /\ head' = head + 1 /\ emitting' = [emitting EXCEPT ![e] = head + 1]
      BY <1>2, <1>a, PublishedStep DEF AppendEvent, queueVars, server
    <2> QED BY <1>a, <2>1 DEF Aligned, Upcoming
  <1>3. ASSUME NEW e \in Emitters, Publish(e)
        PROVE  Aligned' /\ (conn # None => Upcoming' = Upcoming)
    <2>1. /\ Queued' /\ Published' = Published + 1 /\ emitting[e] = Published + 1
          /\ UNCHANGED <<head, conn, hand>> /\ emitting' = [emitting EXCEPT ![e] = None]
      BY <1>3, <1>a, PublishedStep DEF Publish, server
    <2>3. CASE DOMAIN receivers = {}
      <3>1. conn = None /\ values = << >> /\ hand = None
        BY <1>0, <2>3 DEF ClosedShape
      <3>2. values' = << >> /\ conn' = None /\ hand' = None
        BY <1>3, <2>1, <2>3, <3>1 DEF Publish, queueVars
      <3> QED BY <2>1, <3>1, <3>2 DEF Aligned
    <2>4. CASE DOMAIN receivers # {}
      <3>1. emitting[e] \in Events
        BY <1>0, <1>3 DEF Publish, QueueShape
      <3>2. /\ Ring(values', next') /\ next' = next + 1 /\ receivers' = receivers
            /\ \A i \in 1 .. Len(values') :
                 \/ \E j \in 1 .. Len(values) : values'[i] = values[j]
                 \/ values'[i] = [seq |-> next, event |-> emitting[e]]
        BY <1>0, <1>3, <2>4, <3>1, SendRing DEF Publish
      <3>3. ASSUME NEW i \in 1 .. Len(values')
            PROVE  values'[i].event = Published' + values'[i].seq + 1 - next'
        <4>1. CASE values'[i] = [seq |-> next, event |-> emitting[e]]
          BY <1>0, <2>1, <3>2, <4>1
        <4>2. CASE \E j \in 1 .. Len(values) : values'[i] = values[j]
          <5>1. PICK j \in 1 .. Len(values) : values'[i] = values[j]
            BY <4>2
          <5>2. values[j].event = Published + values[j].seq + 1 - next /\ values[j].seq \in Nat
            <6>1. values[j] \in Entry
              BY <1>0
            <6> QED BY <1>a, <6>1 DEF Entry
          <5>3. values'[i].event = Published + values'[i].seq + 1 - next /\ values'[i].seq \in Nat
            BY <5>1, <5>2
          <5>4. Published' = Published + 1 /\ next' = next + 1
            BY <2>1, <3>2
          <5> DEFINE ev == values'[i].event
                     at == values'[i].seq
                     p == Published'
                     n == next'
          <5>5. ev = Published + at + 1 - next /\ at \in Nat /\ p = Published + 1 /\ n = next + 1
            BY <5>3, <5>4
          <5> HIDE DEF ev, at, p, n
          <5>6. ev = p + at + 1 - n
            BY <1>0, <5>5
          <5> QED BY <5>6 DEF ev, at, p, n
        <4> QED BY <3>2, <4>1, <4>2
      <3>4. hand' # None => hand' = receivers'[conn'] + Published' - next'
        <4>1. hand # None => conn # None
          BY <1>0 DEF ClosedShape
        <4> QED BY <1>0, <1>a, <2>1, <3>2, <4>1
      <3>5. conn # None => Upcoming' = Upcoming
        BY <1>0, <2>1, <3>2 DEF Upcoming
      <3> QED BY <2>1, <3>3, <3>4, <3>5 DEF Aligned
    <2> QED BY <2>3, <2>4
  <1>4. CASE Connect
    <2>1. /\ UNCHANGED <<values, next, head, emitting, hand>> /\ conn = None
      BY <1>4 DEF Connect, Subscribe
    <2>2. hand' = None
      BY <1>0, <2>1 DEF ClosedShape
    <2>3. Queued' /\ Published' = Published
      BY <1>a, <2>1, PublishedStep
    <2>4. Aligned'
      BY <1>a, <2>1, <2>2, <2>3 DEF Aligned
    <2> QED BY <1>4, <2>1, <2>4 DEF DeliverLive, Connect
  <1>5. ASSUME DropSocket
        PROVE  Aligned' /\ ~(conn # None /\ conn' = conn) /\ ~DeliverLive
    <2>1. values' = << >> /\ hand' = None /\ conn' = None /\ conn # None /\ UNCHANGED <<head, emitting>>
      BY ClosedStep, <1>5 DEF DropSocket, ClosedShape
    <2>2. Queued'
      BY <1>a, <2>1, PublishedStep
    <2> QED BY <2>1, <2>2 DEF Aligned, DeliverLive
  <1>6. CASE ReceiveLive
    <2>1. /\ conn # None /\ hand = None /\ Readable(conn) /\ hand' = EventAt(conn)
          /\ MoveTo(conn, receivers[conn] + 1) /\ UNCHANGED <<head, emitting, conn>>
      BY <1>6 DEF ReceiveLive, RecvValue
    <2>2. receivers[conn] + 1 \in 0 .. next
      BY <1>0, <2>1 DEF Readable
    <2>3. /\ Kept /\ next' = next /\ receivers'[conn] = receivers[conn] + 1
      BY <1>0, <2>1, <2>2, MoveRing
    <2>4. Queued' /\ Published' = Published
      BY <1>a, <2>1, PublishedStep
    <2>5. PICK j \in 1 .. Len(values) : values[j].seq = receivers[conn] /\ EventAt(conn) = values[j].event
      BY <1>0, <2>1, ReadEntry
    <2>6. hand' = Published + receivers[conn] + 1 - next
      BY <1>a, <2>1, <2>5
    <2>7. hand' = receivers'[conn'] + Published' - next' /\ hand' # None
      <3>1. hand' \in 1 .. head
        BY <1>0, <2>1, <2>5 DEF QueueShape
      <3>2. receivers'[conn'] = receivers[conn] + 1 /\ receivers[conn] \in Nat
        BY <1>0, <2>1, <2>3
      <3>3. hand' = receivers'[conn'] + Published' - next'
        <4>1. Published \in Int /\ next \in Nat /\ Published' = Published /\ next' = next
          BY <1>0, <2>3, <2>4
        <4> QED BY ONLY <2>6, <3>2, <4>1
      <3> QED BY <3>1, <3>3
    <2>8. \A i \in 1 .. Len(values') : values'[i].event = Published' + values'[i].seq + 1 - next'
      BY <1>a, <2>3, <2>4, KeptAligned
    <2>9. Aligned'
      BY <2>4, <2>7, <2>8 DEF Aligned
    <2>10. Upcoming' = Upcoming
      BY <1>0, <2>1, <2>6, <2>7 DEF Upcoming
    <2> QED BY <1>6, <2>1, <2>9, <2>10 DEF DeliverLive
  <1>7. CASE ReceiveLagged
    <2>1. /\ conn # None /\ hand = None /\ hand' = None
          /\ MoveTo(conn, First) /\ UNCHANGED <<head, emitting, conn>>
      BY <1>7 DEF ReceiveLagged, RecvLagged, server
    <2>2. First \in 0 .. next
      BY <1>0, FirstBound
    <2>3. /\ Kept /\ next' = next
      BY <1>0, <2>1, <2>2, MoveRing
    <2>4. Queued' /\ Published' = Published
      BY <1>a, <2>1, PublishedStep
    <2>5. \A i \in 1 .. Len(values') : values'[i].event = Published' + values'[i].seq + 1 - next'
      BY <1>a, <2>3, <2>4, KeptAligned
    <2>6. Aligned'
      BY <2>1, <2>4, <2>5 DEF Aligned
    <2> QED BY <1>7, <2>1, <2>6 DEF DeliverLive
  <1>8. CASE DeliverLive
    <2>1. /\ hand # None /\ hand' = None /\ UNCHANGED <<values, next, receivers, head, emitting, conn>>
      BY <1>8 DEF DeliverLive, queueVars
    <2>2. Queued' /\ Published' = Published
      BY <1>a, <2>1, PublishedStep
    <2>3. conn # None
      BY <1>0, <2>1 DEF ClosedShape
    <2>4. Upcoming' = receivers[conn] + Published + 1 - next /\ Upcoming = hand
      BY <2>1, <2>2 DEF Upcoming
    <2>5. Upcoming' = hand + 1
      BY <1>0, <1>a, <2>1, <2>3, <2>4
    <2> QED BY <1>8, <1>a, <2>1, <2>2, <2>4, <2>5 DEF Aligned
  <1>h. ASSUME NEW c \in calls, HandleSubscribe(c) \/ HandleUnsubscribe(c) \/ RefuseUnsubscribe(c) \/ Declined(c)
        PROVE  Aligned' /\ Upcoming' = Upcoming
    <2>1. UNCHANGED <<queueVars, head, emitting, conn, hand>>
      BY <1>h DEF HandleSubscribe, HandleUnsubscribe, RefuseUnsubscribe, Declined
    <2> QED BY <1>1, <2>1
  <1>r. CASE Handle
    <2>1. PICK c \in calls : HandleSubscribe(c) \/ HandleUnsubscribe(c) \/ RefuseUnsubscribe(c) \/ RefuseSubscribe(c)
      BY <1>r DEF Handle
    <2>2. HandleSubscribe(c) \/ HandleUnsubscribe(c) \/ RefuseUnsubscribe(c) \/ Declined(c) \/ DropSocket
      BY <2>1, Refused
    <2> QED BY <1>5, <1>8, <1>h, <2>2
  <1>9. CASE Establish \/ Client \/ UNCHANGED vars
    <2>1. UNCHANGED <<queueVars, head, emitting, conn, hand>>
      BY <1>9 DEF Establish, Respond, Replay, ReplayFails, Ready,
           Client, ClientSubscribed, ClientGaveUp, ClientEvent, ClientReady, ClientLagged, vars, server
    <2> QED BY <1>1, <1>8, <2>1
  <1>10. (\E e \in Emitters : AppendEvent(e) \/ Publish(e)) \/ Connect \/ DropSocket
           \/ ReceiveLive \/ ReceiveLagged \/ DeliverLive \/ Handle \/ Establish \/ Client \/ UNCHANGED vars
    BY DEF Next, Live, Disconnect
  <1>11. CASE DeliverLive
    BY <1>8, <1>11
  <1>12. CASE ~DeliverLive
    BY <1>2, <1>3, <1>4, <1>5, <1>6, <1>7, <1>9, <1>r, <1>10, <1>12
  <1> QED BY <1>11, <1>12

-----------------------------------------------------------------------------
(* What the socket has said stays true.                                    *)

LEMMA GapInit == Init => GapInv
  <1> SUFFICES ASSUME Init PROVE NoGap /\ Spoken
    BY AlignedInit DEF GapInv
  <1>1. NoGap
    BY ConstantFacts DEF Init, NoGap
  <1>2. /\ frames = << >> /\ calls = {} /\ establish = None /\ conn = None
    BY DEF Init
  <1>3. Chain(frames, generation, lastSeq, remote)
    BY <1>2 DEF Chain
  <1> QED BY <1>1, <1>2, <1>3 DEF Spoken, Unanswered, Delivered, Asked, Responding, Establishing

\* A lag notice on its way covers everything: the client will ask again.
LEMMA LostCovers ==
    ASSUME NEW fs \in Seq(Frames), NEW g, NEW last, NEW r,
           \E i \in 1 .. Len(fs) : fs[i].kind = "lagged"
    PROVE  /\ \A m : Covered(fs, g, last, Len(fs) + 1, m)
           /\ Answered(fs, g, r, Len(fs) + 1)
  <1>1. PICK i \in 1 .. Len(fs) : fs[i].kind = "lagged"
    OBVIOUS
  <1>2. i \in 1 .. (Len(fs) + 1) - 1
    OBVIOUS
  <1> QED BY <1>1, <1>2 DEF Covered, Covers, Answered

\* The last frame covers what it says.
LEMMA LastCovers ==
    ASSUME NEW fs \in Seq(Frames), NEW k \in 1 .. Len(fs), NEW g, NEW last, NEW m, Covers(fs[k], g, last, m)
    PROVE  Covered(fs, g, last, Len(fs) + 1, m)
  <1>1. k \in 1 .. (Len(fs) + 1) - 1
    OBVIOUS
  <1> QED BY <1>1 DEF Covered

LEMMA LastAnswers ==
    ASSUME NEW fs \in Seq(Frames), NEW k \in 1 .. Len(fs), NEW g, NEW r, IsAnswer(fs[k], g)
    PROVE  Answered(fs, g, r, Len(fs) + 1)
  <1>1. k \in 1 .. (Len(fs) + 1) - 1
    OBVIOUS
  <1> QED BY <1>1 DEF Answered

\* What the steps below take from the invariants.
LEMMA SpokenFacts ==
    ASSUME Shape, LeakInv, Spoken
    PROVE  /\ generation \in Nat /\ generation # None /\ frames \in Seq(Frames) /\ Len(frames) \in Nat
           /\ DOMAIN frames = 1 .. Len(frames)
           /\ \A i \in 1 .. Len(frames) : FrameOf(frames[i], generation, head)
           /\ \A i \in 1 .. Len(frames) : frames[i].kind = "lagged" \/ (frames[i].sub \in 1 .. generation)
           /\ remote # None => remote = generation /\ lastSeq # None
           /\ lastSeq # None => lastSeq \in Nat
           /\ head \in Nat
           /\ establish # None => conn # None /\ establish.sub \in 1 .. generation /\ establish.head \in 0 .. head
           /\ frames # << >> => conn # None
           /\ hand # None => conn # None /\ hand \in 1 .. head
           /\ \A c \in calls : conn # None /\ c.sub \in 1 .. generation
           /\ \A c \in calls : c.kind = "unsubscribe" => c.sub < generation
           /\ \A s \in DOMAIN subs : s \in 1 .. generation /\ subs[s] \in Nat
           /\ conn # None /\ ~Asked(generation) => generation \in DOMAIN subs
           /\ Responding(generation) => Establishing
           /\ Establishing => ~Asked(generation)
  <1> USE ConstantFacts
  <1>1. QueueShape /\ ServerShape /\ FramesShape /\ ClientShape /\ ClosedShape
    BY DEF Shape
  <1>2. /\ generation \in Nat /\ generation # None /\ frames \in Seq(Frames) /\ Len(frames) \in Nat
        /\ DOMAIN frames = 1 .. Len(frames) /\ head \in Nat
        /\ \A i \in 1 .. Len(frames) : FrameOf(frames[i], generation, head)
    BY <1>1 DEF ClientShape, FramesShape, QueueShape, Seqs
  <1>3. /\ remote # None => remote = generation /\ lastSeq # None
        /\ lastSeq # None => lastSeq \in Nat
    BY <1>1, <1>2 DEF ClientShape
  <1>4. /\ establish # None => conn # None /\ establish.sub \in 1 .. generation /\ establish.head \in 0 .. head
        /\ frames # << >> => conn # None
        /\ hand # None => conn # None /\ hand \in 1 .. head
        /\ \A c \in calls : conn # None /\ c.sub \in 1 .. generation
        /\ \A s \in DOMAIN subs : s \in 1 .. generation /\ subs[s] \in Nat
    BY <1>1 DEF ServerShape, EstablishShape, CallShape, ClosedShape, Seqs
  <1>5. /\ \A c \in calls : c.kind = "unsubscribe" => c.sub < generation
        /\ conn # None /\ ~Asked(generation) => generation \in DOMAIN subs
    BY DEF LeakInv, Requested
  <1>6. Responding(generation) => Establishing
    BY DEF Responding, Establishing
  <1>7. Establishing => ~Asked(generation)
    BY DEF Spoken, Unanswered, Asked
  <1> QED BY <1>2, <1>3, <1>4, <1>5, <1>6, <1>7 DEF FrameOf

\* Nothing of what was said, or of whom it was said to, changes.
LEMMA SpokenSame ==
    ASSUME Shape, LeakInv, Spoken,
           UNCHANGED <<conn, subs, calls, establish, frames, lastSeq, remote, generation>>,
           conn # None => Upcoming' = Upcoming
    PROVE  Spoken'
  <1>0. establish # None => conn # None
    BY SpokenFacts
  <1>u. /\ conn' = conn /\ subs' = subs /\ calls' = calls /\ establish' = establish /\ frames' = frames
        /\ lastSeq' = lastSeq /\ remote' = remote /\ generation' = generation
    OBVIOUS
  <1>1. /\ Asked(generation)' <=> Asked(generation)
        /\ Responding(generation)' <=> Responding(generation)
        /\ Establishing' <=> Establishing
        /\ (Lost' <=> Lost) /\ All' = All
    BY DEF Asked, Responding, Establishing, Lost, All
  <1>2. Chain(frames, generation, lastSeq, remote)'
    BY DEF Spoken, Chain
  <1>3. Unanswered'
    BY <1>1 DEF Spoken, Unanswered
  <1>4. Delivered'
    <2>1. Establishing => conn # None
      BY <1>0 DEF Establishing
    <2>2. \A m : Covered(frames, generation, lastSeq, All, m)' <=> Covered(frames, generation, lastSeq, All, m)
      BY <1>u, <1>1 DEF Covered
    <2>3. Answered(frames, generation, remote, All)' <=> Answered(frames, generation, remote, All)
      BY <1>u, <1>1 DEF Answered
    <2>4. Delivered
      BY DEF Spoken
    <2>5. CASE conn = None
      BY <1>1, <2>1, <2>5 DEF Delivered
    <2>6. CASE conn # None
      <3>1. Upcoming' = Upcoming
        BY <2>6
      <3> QED BY <1>u, <1>1, <2>2, <2>3, <2>4, <3>1 DEF Delivered
    <2> QED BY <2>5, <2>6
  <1> QED BY <1>2, <1>3, <1>4 DEF Spoken

\* The client has just asked for a new subscription.
LEMMA SpokenAnew ==
    ASSUME Shape, LeakInv, Spoken, Resubscribe, UNCHANGED <<subs, establish, lastSeq>>,
           \A i \in 1 .. Len(frames') : frames'[i].sub # generation + 1
    PROVE  Spoken'
  <1>0. /\ generation \in Nat /\ generation' = generation + 1 /\ remote' = None
        /\ calls' = calls \union {SubscribeCall(generation + 1, lastSeq)}
                          \union (IF remote = None THEN {} ELSE {UnsubscribeCall(remote)})
        /\ \A c \in calls : c.sub \in 1 .. generation
        /\ \A s \in DOMAIN subs : s \in 1 .. generation
        /\ establish # None => establish.sub \in 1 .. generation
    BY SpokenFacts DEF Resubscribe
  <1>1. NoFramesOf(frames, generation)'
    BY <1>0 DEF NoFramesOf
  <1>2. Chain(frames, generation, lastSeq, remote)'
    BY <1>1 DEF Chain, NoFramesOf
  <1>3. ASSUME NEW c \in calls', c.kind = "subscribe", c.sub = generation'
        PROVE  c = SubscribeCall(generation', lastSeq')
    BY <1>0, <1>3 DEF UnsubscribeCall
  <1>4. generation' \notin DOMAIN subs' /\ ~Establishing' /\ ~Responding(generation)'
    BY <1>0 DEF Establishing, Responding
  <1>5. Asked(generation)'
    <2>1. SubscribeCall(generation', lastSeq) \in calls'
      BY <1>0
    <2> QED BY <2>1 DEF Asked, SubscribeCall
  <1>6. Unanswered'
    BY <1>0, <1>1, <1>3, <1>4 DEF Unanswered
  <1>7. Delivered'
    BY <1>4, <1>5 DEF Delivered
  <1> QED BY <1>2, <1>6, <1>7 DEF Spoken

\* Frames are added: what was on its way still is.
LEMMA SpokenMore ==
    ASSUME Shape, LeakInv, Spoken, Extends(frames, frames'),
           UNCHANGED <<conn, subs, calls, lastSeq, remote, generation>>,
           \/ establish' = None \/ establish' = establish
           \/ establish # None /\ establish'.sub = establish.sub /\ establish'.pc # "respond",
           \A i \in Len(frames) + 1 .. Len(frames') : MayAdd(frames'[i], frames, generation, lastSeq, remote),
           \A i, j \in Len(frames) + 1 .. Len(frames') :
              IsAnswer(frames'[i], generation) /\ IsAnswer(frames'[j], generation) => i = j,
           Asked(generation) \/ Responding(generation)' =>
              \A i \in Len(frames) + 1 .. Len(frames') : frames'[i].sub # generation
    PROVE  /\ Chain(frames, generation, lastSeq, remote)' /\ Unanswered'
           /\ Asked(generation)' <=> Asked(generation)
           /\ Lost => Lost'
           /\ \A m : Covered(frames, generation, lastSeq, All, m) => Covered(frames, generation, lastSeq, All, m)'
           /\ Answered(frames, generation, remote, All) => Answered(frames, generation, remote, All)'
  <1>0. /\ Len(frames) \in Nat /\ Len(frames') \in Nat /\ Len(frames) <= Len(frames')
        /\ \A i \in 1 .. Len(frames) : frames'[i] = frames[i]
        /\ frames' \in Seq(Frames)
    BY DEF Extends
  <1>1. Chain(frames', generation, lastSeq, remote)
    BY ChainExtends DEF Spoken
  <1>2. Asked(generation)' <=> Asked(generation)
    BY DEF Asked
  <1>3. Responding(generation)' => establish' = establish /\ Responding(generation)
    BY DEF Responding
  <1>4. Establishing' => Establishing
    BY DEF Establishing
  <1>5. Asked(generation)' \/ Responding(generation)' => remote' = None /\ NoFramesOf(frames, generation)'
    <2> SUFFICES ASSUME Asked(generation)' \/ Responding(generation)'
                 PROVE  remote' = None /\ NoFramesOf(frames, generation)'
      OBVIOUS
    <2>1. remote = None /\ NoFramesOf(frames, generation)
      BY <1>2, <1>3 DEF Spoken, Unanswered
    <2>2. \A i \in Len(frames) + 1 .. Len(frames') : frames'[i].sub # generation
      BY <1>2
    <2>3. ASSUME NEW i \in 1 .. Len(frames') PROVE frames'[i].sub # generation
      <3>1. CASE i \in 1 .. Len(frames) BY <1>0, <2>1, <3>1 DEF NoFramesOf
      <3>2. CASE i \notin 1 .. Len(frames)
        <4>1. i \in Len(frames) + 1 .. Len(frames') BY <1>0, <3>2
        <4> QED BY <2>2, <4>1
      <3> QED BY <3>1, <3>2
    <2> QED BY <2>1, <2>3 DEF NoFramesOf
  <1>6. Unanswered'
    <2>1. ASSUME NEW c \in calls', c.kind = "subscribe", c.sub = generation'
          PROVE  c = SubscribeCall(generation', lastSeq') /\ generation' \notin DOMAIN subs' /\ ~Establishing'
      BY <1>4, <2>1 DEF Spoken, Unanswered
    <2>2. Responding(generation)' => establish'.after = lastSeq'
      BY <1>3 DEF Spoken, Unanswered
    <2> QED BY <1>5, <2>1, <2>2 DEF Unanswered
  <1>7. Lost => Lost'
    <2> SUFFICES ASSUME NEW i \in DOMAIN frames, frames[i].kind = "lagged" PROVE Lost'
      BY DEF Lost
    <2>1. DOMAIN frames = 1 .. Len(frames)
      BY DEF Extends
    <2>2. i \in DOMAIN frames' /\ frames'[i].kind = "lagged"
      BY <1>0, <2>1
    <2> QED BY <2>2 DEF Lost
  <1>8. /\ Len(frames) + 1 \in 1 .. Len(frames) + 1 /\ Len(frames') + 1 \in 1 .. Len(frames') + 1
        /\ Len(frames) + 1 <= Len(frames') + 1
    BY <1>0
  <1>9. \A m : Covered(frames, generation, lastSeq, Len(frames) + 1, m)
                  => Covered(frames', generation, lastSeq, Len(frames') + 1, m)
    BY <1>8, CoveredLater
  <1>10. Answered(frames, generation, remote, Len(frames) + 1)
                  => Answered(frames', generation, remote, Len(frames') + 1)
    BY <1>8, AnsweredLater
  <1>11. \A m : Covered(frames, generation, lastSeq, All, m) => Covered(frames, generation, lastSeq, All, m)'
    BY <1>9 DEF All
  <1>12. Answered(frames, generation, remote, All) => Answered(frames, generation, remote, All)'
    BY <1>10 DEF All
  <1> QED BY <1>1, <1>2, <1>6, <1>7, <1>11, <1>12

\* One frame more.
LEMMA OneMore ==
    ASSUME frames \in Seq(Frames), NEW f \in Frames, frames' = Append(frames, f)
    PROVE  /\ Extends(frames, frames') /\ Len(frames') = Len(frames) + 1 /\ Len(frames) \in Nat
           /\ frames' \in Seq(Frames)
           /\ \A i \in Len(frames) + 1 .. Len(frames') : i = Len(frames') /\ frames'[i] = f
           /\ Len(frames') \in 1 .. Len(frames') /\ frames'[Len(frames')] = f
           /\ DOMAIN frames' = 1 .. Len(frames')
  <1>1. /\ frames' \in Seq(Frames) /\ Len(frames') = Len(frames) + 1 /\ Len(frames) \in Nat
        /\ \A i \in 1 .. Len(frames) : frames'[i] = frames[i]
        /\ frames'[Len(frames) + 1] = f
    BY AppendFrame
  <1>2. Extends(frames, frames')
    BY <1>1 DEF Extends
  <1> QED BY <1>1, <1>2

\* The socket takes a request.
LEMMA HandledSpoken ==
    ASSUME Shape, LeakInv, Queued, Spoken, NEW c \in calls,
           HandleSubscribe(c) \/ HandleUnsubscribe(c) \/ RefuseUnsubscribe(c) \/ Declined(c), Upcoming' = Upcoming
    PROVE  Spoken'
  <1> USE ConstantFacts
  <1>0. /\ generation \in Nat /\ conn # None /\ Len(frames) \in Nat
        /\ c.sub \in 1 .. generation /\ head \in Nat
        /\ conn # None /\ ~Asked(generation) => generation \in DOMAIN subs
        /\ Responding(generation) => Establishing
        /\ Establishing => ~Asked(generation)
    BY SpokenFacts
  <1>1. /\ UNCHANGED <<conn, frames, lastSeq, remote, generation, head>> /\ All' = All
        /\ calls' = calls \ {c} /\ (Lost' <=> Lost)
    BY DEF HandleSubscribe, HandleUnsubscribe, RefuseUnsubscribe, Declined, client, All, Lost
  <1>2. Chain(frames, generation, lastSeq, remote)'
    BY <1>1 DEF Spoken
  <1>3. /\ \A m : Covered(frames, generation, lastSeq, All, m)' <=> Covered(frames, generation, lastSeq, All, m)
        /\ Answered(frames, generation, remote, All)' <=> Answered(frames, generation, remote, All)
    BY <1>1 DEF Covered, Answered
  <1>4. /\ \A d \in calls : d.kind = "subscribe" /\ d.sub = generation =>
              d = SubscribeCall(generation, lastSeq) /\ generation \notin DOMAIN subs /\ ~Establishing
        /\ Asked(generation) \/ Responding(generation) => remote = None /\ NoFramesOf(frames, generation)
        /\ Responding(generation) => establish.after = lastSeq
    BY DEF Spoken, Unanswered
  <1>5. /\ Establishing =>
              /\ generation \in DOMAIN subs /\ subs[generation] = establish.head
              /\ Upcoming - 1 <= establish.head \/ Lost
              /\ establish.pc = "replay" => \A m \in 1 .. establish.after : Covered(frames, generation, lastSeq, All, m)
        /\ conn # None /\ ~Asked(generation) /\ ~Establishing =>
              /\ \A m \in 1 .. subs[generation] : Covered(frames, generation, lastSeq, All, m)
              /\ \A m \in 1 .. Upcoming - 1 : Covered(frames, generation, lastSeq, All, m)
        /\ conn # None /\ ~Asked(generation) /\ ~Responding(generation) => Answered(frames, generation, remote, All)
    BY DEF Spoken, Delivered
  <1>6. CASE HandleSubscribe(c) /\ c.sub = generation
    <2>1. /\ c.kind = "subscribe" /\ generation \in DOMAIN subs' /\ subs'[generation] = head
          /\ establish' = [sub |-> c.sub, after |-> c.after, head |-> head, pc |-> "respond"]
      BY <1>6 DEF HandleSubscribe, Floor
    <2>2. c = SubscribeCall(generation, lastSeq) /\ Asked(generation)
      BY <1>4, <1>6, <2>1 DEF Asked
    <2>3. establish'.sub = generation /\ establish'.after = lastSeq /\ establish'.head = head /\ establish'.pc = "respond"
      BY <1>6, <2>1, <2>2 DEF SubscribeCall
    <2>4. establish' # None
      <3>1. establish' \in [sub : Nat, after : Nat \union {None}, head : Nat, pc : {"respond", "replay"}]
        <4>1. c.after \in Nat \union {None} /\ c.sub \in Nat
          BY <1>0, <2>1 DEF Shape, ServerShape, CallShape
        <4> QED BY <1>0, <2>1, <4>1
      <3> QED BY <3>1, StreamAssumption
    <2>5. ~Asked(generation)'
      <3>1. \A d \in calls' : ~(d.kind = "subscribe" /\ d.sub = generation)
        BY <1>1, <1>4, <2>2
      <3> QED BY <1>1, <3>1 DEF Asked
    <2>6. Unanswered'
      BY <1>1, <1>4, <2>2, <2>3, <2>5 DEF Unanswered, NoFramesOf, Asked
    <2>7. Upcoming' - 1 <= establish'.head
      BY <1>0, <2>3, UpcomingBound
    <2>8. Establishing' /\ Responding(generation)'
      BY <1>1, <2>3, <2>4 DEF Establishing, Responding
    <2>9. Delivered'
      BY <1>1, <2>1, <2>3, <2>7, <2>8 DEF Delivered
    <2> QED BY <1>2, <2>6, <2>9 DEF Spoken
  <1>7. CASE HandleSubscribe(c) /\ c.sub # generation
    <2>1. /\ establish = None /\ (generation \in DOMAIN subs' <=> generation \in DOMAIN subs)
          /\ generation \in DOMAIN subs => subs'[generation] = subs[generation]
          /\ establish'.sub = c.sub
      BY <1>7 DEF HandleSubscribe
    <2>2. ~Establishing /\ ~Establishing' /\ ~Responding(generation)' /\ ~Responding(generation)
      BY <1>1, <1>7, <2>1 DEF Establishing, Responding
    <2>3. Asked(generation)' <=> Asked(generation)
      BY <1>1, <1>7 DEF Asked
    <2>4. Unanswered'
      BY <1>1, <1>4, <2>1, <2>2, <2>3 DEF Unanswered, NoFramesOf
    <2>5. Delivered'
      BY <1>0, <1>1, <1>3, <1>5, <2>1, <2>2, <2>3 DEF Delivered
    <2> QED BY <1>2, <2>4, <2>5 DEF Spoken
  <1>8. CASE HandleUnsubscribe(c)
    <2>1. /\ c.kind = "unsubscribe" /\ c.sub < generation /\ establish' = establish
      BY <1>8, SpokenFacts DEF HandleUnsubscribe
    <2>2. /\ generation \in DOMAIN subs' <=> generation \in DOMAIN subs
          /\ generation \in DOMAIN subs => subs'[generation] = subs[generation]
      BY <1>0, <1>8, <2>1 DEF HandleUnsubscribe
    <2>3. /\ Establishing' <=> Establishing
          /\ Responding(generation)' <=> Responding(generation)
      BY <1>1, <2>1 DEF Establishing, Responding
    <2>4. Asked(generation)' <=> Asked(generation)
      BY <1>1, <2>1 DEF Asked
    <2>5. Unanswered'
      BY <1>1, <1>4, <2>1, <2>2, <2>3, <2>4 DEF Unanswered, NoFramesOf
    <2>6. Delivered'
      BY <1>0, <1>1, <1>3, <1>5, <2>1, <2>2, <2>3, <2>4 DEF Delivered
    <2> QED BY <1>2, <2>5, <2>6 DEF Spoken
  <1>9. CASE RefuseUnsubscribe(c) \/ Declined(c)
    <2>1. c.sub # generation \/ c.kind = "unsubscribe"
      BY <1>9 DEF RefuseUnsubscribe, Declined
    <2>2. subs' = subs /\ establish' = establish
      BY <1>9 DEF RefuseUnsubscribe, Declined
    <2>3. /\ Establishing' <=> Establishing
          /\ Responding(generation)' <=> Responding(generation)
      BY <1>1, <2>2 DEF Establishing, Responding
    <2>4. Asked(generation)' <=> Asked(generation)
      BY <1>1, <2>1 DEF Asked
    <2>5. Unanswered'
      BY <1>1, <1>4, <2>2, <2>3, <2>4 DEF Unanswered, NoFramesOf
    <2>6. Delivered'
      BY <1>0, <1>1, <1>3, <1>5, <2>2, <2>3, <2>4 DEF Delivered
    <2> QED BY <1>2, <2>5, <2>6 DEF Spoken
  <1> QED BY <1>6, <1>7, <1>8, <1>9

\* The lag notice, from the replay or from the broadcast.
LEMMA LaggedSpoken ==
    ASSUME Shape, LeakInv, Spoken, ReplayFails \/ ReceiveLagged
    PROVE  Spoken'
  <1> USE ConstantFacts
  <1> DEFINE f == Frame("lagged", None, None)
  <1>0. /\ frames' = Append(frames, f) /\ f \in Frames /\ f.sub = None /\ f.kind = "lagged"
        /\ UNCHANGED <<conn, subs, calls, lastSeq, remote, generation>>
        /\ establish' = None \/ establish' = establish
    BY DEF ReplayFails, ReceiveLagged, server, client, Frame, Frames, Kinds
  <1>1. /\ generation # None /\ frames \in Seq(Frames)
    BY SpokenFacts
  <1> HIDE DEF f
  <1>2. /\ Extends(frames, frames') /\ frames' \in Seq(Frames)
        /\ \A i \in Len(frames) + 1 .. Len(frames') : frames'[i] = f
        /\ Len(frames') \in 1 .. Len(frames') /\ frames'[Len(frames')] = f
        /\ DOMAIN frames' = 1 .. Len(frames')
        /\ \A i, j \in Len(frames) + 1 .. Len(frames') : i = j
    BY <1>0, <1>1, OneMore
  <1>3. MayAdd(f, frames, generation, lastSeq, remote)
    BY <1>0, <1>1 DEF MayAdd
  <1>4. /\ Chain(frames, generation, lastSeq, remote)' /\ Unanswered'
        /\ Asked(generation)' <=> Asked(generation)
    BY <1>0, <1>1, <1>2, <1>3, SpokenMore
  <1>5. \E i \in 1 .. Len(frames') : frames'[i].kind = "lagged"
    BY <1>0, <1>2
  <1>6. Lost'
    BY <1>2, <1>5 DEF Lost
  <1>7. /\ \A m : Covered(frames, generation, lastSeq, All, m)'
        /\ Answered(frames, generation, remote, All)'
    BY <1>2, <1>5, LostCovers DEF All
  <1>8. Establishing' => generation' \in DOMAIN subs' /\ subs'[generation'] = establish'.head
    BY <1>0 DEF Spoken, Delivered, Establishing
  <1>9. Delivered'
    BY <1>6, <1>7, <1>8 DEF Delivered
  <1> QED BY <1>4, <1>9 DEF Spoken

\* The answer, the log's events and the note that all is ready.
LEMMA SaidSpoken ==
    ASSUME Shape, LeakInv, Spoken, Respond \/ Replay \/ Ready, Upcoming' = Upcoming, Upcoming \in Int
    PROVE  Spoken'
  <1> USE ConstantFacts
  <1>0. /\ generation \in Nat /\ generation # None /\ frames \in Seq(Frames) /\ Len(frames) \in Nat
        /\ establish # None /\ conn # None /\ establish.sub \in 1 .. generation /\ establish.head \in 0 .. head
        /\ establish.after \in (0 .. head) \union {None}
        /\ establish.pc = "replay" => establish.after # None
        /\ head \in Nat /\ head \in Seqs
        /\ Establishing => ~Asked(generation)
        /\ establish = [sub |-> establish.sub, after |-> establish.after, head |-> establish.head, pc |-> establish.pc]
    BY SpokenFacts DEF Respond, Replay, Ready, Shape, ServerShape, EstablishShape, QueueShape
  <1>1. UNCHANGED <<conn, subs, calls, lastSeq, remote, generation>>
    BY DEF Respond, Replay, Ready, client
  <1>2. /\ Asked(generation) \/ Responding(generation) => remote = None /\ NoFramesOf(frames, generation)
        /\ Responding(generation) => establish.after = lastSeq
    BY DEF Spoken, Unanswered
  <1>3. /\ Establishing =>
              /\ generation \in DOMAIN subs /\ subs[generation] = establish.head
              /\ Upcoming - 1 <= establish.head \/ Lost
              /\ establish.pc = "replay" => \A m \in 1 .. establish.after : Covered(frames, generation, lastSeq, All, m)
        /\ conn # None /\ ~Asked(generation) /\ ~Establishing =>
              /\ \A m \in 1 .. subs[generation] : Covered(frames, generation, lastSeq, All, m)
              /\ \A m \in 1 .. Upcoming - 1 : Covered(frames, generation, lastSeq, All, m)
        /\ conn # None /\ ~Asked(generation) /\ ~Responding(generation) => Answered(frames, generation, remote, All)
    BY DEF Spoken, Delivered
  <1>k. ASSUME NEW k \in Kinds, NEW q \in Seqs
        PROVE  Frame(k, establish.sub, q) \in Frames
    BY <1>0, <1>k DEF Frame, Frames
  \* Whatever one frame more of this subscription brings.
  <1>4. ASSUME NEW f \in Frames, f.sub = establish.sub, frames' = Append(frames, f),
               MayAdd(f, frames, generation, lastSeq, remote),
               establish' = None \/ (establish'.sub = establish.sub /\ establish'.pc # "respond")
        PROVE  /\ Chain(frames, generation, lastSeq, remote)' /\ Unanswered'
               /\ Asked(generation)' <=> Asked(generation)
               /\ Lost => Lost'
               /\ \A m : Covered(frames, generation, lastSeq, All, m) => Covered(frames, generation, lastSeq, All, m)'
               /\ Answered(frames, generation, remote, All) => Answered(frames, generation, remote, All)'
               /\ \A m : Covers(f, generation, lastSeq, m) => Covered(frames, generation, lastSeq, All, m)'
               /\ IsAnswer(f, generation) => Answered(frames, generation, remote, All)'
               /\ ~Responding(generation)'
    <2>1. /\ Extends(frames, frames') /\ frames' \in Seq(Frames)
          /\ \A i \in Len(frames) + 1 .. Len(frames') : frames'[i] = f
          /\ \A i, j \in Len(frames) + 1 .. Len(frames') : i = j
          /\ Len(frames') \in 1 .. Len(frames') /\ frames'[Len(frames')] = f
      BY <1>0, <1>4, OneMore
    <2>2. ~Responding(generation)'
      BY <1>4 DEF Responding
    <2>3. Asked(generation) => f.sub # generation
      BY <1>0, <1>4 DEF Establishing
    <2>4. /\ Chain(frames, generation, lastSeq, remote)' /\ Unanswered'
          /\ Asked(generation)' <=> Asked(generation)
          /\ Lost => Lost'
          /\ \A m : Covered(frames, generation, lastSeq, All, m) => Covered(frames, generation, lastSeq, All, m)'
          /\ Answered(frames, generation, remote, All) => Answered(frames, generation, remote, All)'
      BY <1>0, <1>1, <1>4, <2>1, <2>2, <2>3, SpokenMore
    <2>5. \A m : Covers(f, generation, lastSeq, m) => Covered(frames', generation, lastSeq, Len(frames') + 1, m)
      BY <2>1, LastCovers
    <2>6. IsAnswer(f, generation) => Answered(frames', generation, remote, Len(frames') + 1)
      BY <2>1, LastAnswers
    <2>7. /\ \A m : Covers(f, generation, lastSeq, m) => Covered(frames, generation, lastSeq, All, m)'
          /\ IsAnswer(f, generation) => Answered(frames, generation, remote, All)'
      BY <1>1, <2>5, <2>6 DEF All
    <2> QED BY <2>2, <2>4, <2>7
  \* A frame for another subscription.
  <1>5. ASSUME establish.sub # generation, NEW f \in Frames, f.sub = establish.sub, frames' = Append(frames, f),
               establish' = None \/ (establish'.sub = establish.sub /\ establish'.pc # "respond")
        PROVE  Spoken'
    <2>1. MayAdd(f, frames, generation, lastSeq, remote)
      BY <1>5 DEF MayAdd
    <2>2. /\ Chain(frames, generation, lastSeq, remote)' /\ Unanswered'
          /\ Asked(generation)' <=> Asked(generation)
          /\ \A m : Covered(frames, generation, lastSeq, All, m) => Covered(frames, generation, lastSeq, All, m)'
          /\ Answered(frames, generation, remote, All) => Answered(frames, generation, remote, All)'
      BY <1>4, <1>5, <2>1
    <2>3. ~Establishing /\ ~Establishing' /\ ~Responding(generation)
      BY <1>1, <1>5 DEF Establishing, Responding
    <2>4. Delivered'
      BY <1>0, <1>1, <1>3, <2>2, <2>3 DEF Delivered
    <2> QED BY <2>2, <2>4 DEF Spoken
  <1>6. CASE Respond
    <2>1. PICK snapshot \in BOOLEAN :
             /\ frames' = Append(frames, Frame(IF snapshot THEN "snapshot" ELSE "response", establish.sub, establish.head))
             /\ establish' = [establish EXCEPT !.pc = "replay",
                                               !.after = IF snapshot \/ @ = None THEN establish.head ELSE @]
      BY <1>6 DEF Respond
    <2> DEFINE k == IF snapshot THEN "snapshot" ELSE "response"
               f == Frame(k, establish.sub, establish.head)
               a == IF snapshot \/ establish.after = None THEN establish.head ELSE establish.after
    <2>2. k \in Kinds /\ k \in {"response", "snapshot"} /\ (snapshot <=> k = "snapshot")
      BY DEF Kinds
    <2>3. /\ f.sub = establish.sub /\ f.kind = k /\ f.seq = establish.head /\ frames' = Append(frames, f)
      BY <2>1 DEF Frame
    <2>3a. establish.head \in Seqs
      BY <1>0 DEF Seqs
    <2>4. f \in Frames
      <3> HIDE DEF k
      <3> QED BY <1>k, <2>2, <2>3a
    <2>5. establish' = [sub |-> establish.sub, after |-> a, head |-> establish.head, pc |-> "replay"]
      <3>1. CASE snapshot \/ establish.after = None
        BY <1>0, <2>1, <3>1
      <3>2. CASE ~(snapshot \/ establish.after = None)
        BY <1>0, <2>1, <3>2
      <3> QED BY <3>1, <3>2
    <2>6. establish'.sub = establish.sub /\ establish'.after = a /\ establish'.head = establish.head /\ establish'.pc = "replay"
      BY <2>5
    <2>7. CASE establish.sub # generation
      <3> HIDE DEF f, a, k
      <3> QED BY <1>5, <2>3, <2>4, <2>6, <2>7
    <2>8. CASE establish.sub = generation
      <3>1. Responding(generation) /\ Establishing
        BY <1>0, <1>6, <2>8 DEF Respond, Responding, Establishing
      <3>2. remote = None /\ NoFramesOf(frames, generation) /\ establish.after = lastSeq
        BY <1>2, <3>1
      <3> HIDE DEF f
      <3>3. IsAnswer(f, generation)
        BY <2>2, <2>3, <2>8 DEF IsAnswer
      <3>4. MayAdd(f, frames, generation, lastSeq, remote)
        BY <1>0, <2>2, <2>3, <3>2 DEF MayAdd, NoFramesOf, IsAnswer
      <3>5. /\ Chain(frames, generation, lastSeq, remote)' /\ Unanswered'
            /\ Asked(generation)' <=> Asked(generation)
            /\ Lost => Lost'
            /\ \A m : Covers(f, generation, lastSeq, m) => Covered(frames, generation, lastSeq, All, m)'
            /\ Answered(frames, generation, remote, All)'
            /\ ~Responding(generation)'
        BY <1>4, <2>3, <2>4, <2>6, <3>3, <3>4
      <3>6. \A m \in 1 .. a : Covered(frames, generation, lastSeq, All, m)'
        <4>1. CASE snapshot \/ lastSeq = None
          <5>1. a = establish.head /\ (snapshot \/ lastSeq = None)
            BY <3>2, <4>1
          <5>2. \A m \in 1 .. a : Covers(f, generation, lastSeq, m)
            BY <1>0, <2>2, <2>3, <2>8, <5>1 DEF Covers
          <5> QED BY <3>5, <5>2
        <4>2. CASE ~(snapshot \/ lastSeq = None)
          <5>1. a = lastSeq /\ lastSeq # None
            BY <3>2, <4>2
          <5>2. \A m \in 1 .. a : LastHas(lastSeq', m)
            BY <1>0, <1>1, <3>2, <5>1 DEF LastHas
          <5> QED BY <5>2 DEF Covered
        <4> QED BY <4>1, <4>2
      <3>7. /\ Establishing' => generation' \in DOMAIN subs' /\ subs'[generation'] = establish'.head
            /\ Upcoming' - 1 <= establish'.head \/ Lost'
        BY <1>1, <1>3, <2>6, <3>1, <3>5
      <3>8. ~Asked(generation)' /\ (Establishing' \/ establish' = None)
        BY <1>0, <1>1, <2>6, <2>8, <3>1, <3>5 DEF Establishing
      <3>9. Establishing'
        <4>1. establish' \in [sub : Nat, after : Nat \union {None}, head : Nat, pc : {"respond", "replay"}]
          <5>1. a \in Nat \union {None} /\ establish.sub \in Nat /\ establish.head \in Nat
            BY <1>0
          <5> HIDE DEF a
          <5> QED BY <2>5, <5>1
        <4>2. establish' # None
          BY <4>1, StreamAssumption
        <4> QED BY <3>8, <4>2
      <3>10. Delivered'
        BY <2>6, <3>5, <3>6, <3>7, <3>9 DEF Delivered
      <3> QED BY <3>5, <3>10 DEF Spoken
    <2> QED BY <2>7, <2>8
  <1>7. CASE Replay
    <2> DEFINE f == Frame("event", establish.sub, establish.after + 1)
    <2>1. /\ establish.pc = "replay" /\ establish.after < establish.head
          /\ establish' = [establish EXCEPT !.after = establish.after + 1]
          /\ frames' = Append(frames, f)
          /\ establish.after \in Nat /\ establish.after + 1 \in Seqs
      <3>1. /\ establish.pc = "replay" /\ establish.after < establish.head
            /\ establish' = [establish EXCEPT !.after = establish.after + 1]
            /\ frames' = Append(frames, f)
        BY <1>7 DEF Replay
      <3>2. establish.after \in 0 .. head
        BY <1>0, <3>1
      <3>3. establish.after + 1 \in Seqs
        <4>1. establish.after + 1 \in 0 .. head /\ head <= MaxEvents
          BY <1>0, <3>1, <3>2 DEF Seqs
        <4> QED BY <1>0, <4>1 DEF Seqs
      <3> QED BY <3>1, <3>2, <3>3
    <2>2. /\ f \in Frames /\ f.sub = establish.sub /\ f.kind = "event" /\ f.seq = establish.after + 1
      <3>1. "event" \in Kinds
        BY DEF Kinds
      <3>2. f \in Frames
        BY <1>k, <2>1, <3>1
      <3> QED BY <3>2 DEF Frame
    <2> HIDE DEF f
    <2>3. establish'.sub = establish.sub /\ establish'.after = establish.after + 1
          /\ establish'.head = establish.head /\ establish'.pc = "replay"
      BY <1>0, <2>1
    <2>4. CASE establish.sub # generation
      BY <1>5, <2>1, <2>2, <2>3, <2>4
    <2>5. CASE establish.sub = generation
      <3>1. ~Responding(generation) /\ Establishing
        BY <1>0, <2>1, <2>5 DEF Responding, Establishing
      <3>2. /\ \A m \in 1 .. establish.after : Covered(frames, generation, lastSeq, Len(frames) + 1, m)
            /\ Answered(frames, generation, remote, Len(frames) + 1)
        BY <1>0, <1>3, <2>1, <3>1 DEF All
      <3>3. f.seq - 1 = establish.after
        BY <2>1, <2>2
      <3>4. MayAdd(f, frames, generation, lastSeq, remote)
        BY <2>2, <3>2, <3>3 DEF MayAdd, IsAnswer
      <3>5. /\ Chain(frames, generation, lastSeq, remote)' /\ Unanswered'
            /\ Asked(generation)' <=> Asked(generation)
            /\ Lost => Lost'
            /\ \A m : Covered(frames, generation, lastSeq, All, m) => Covered(frames, generation, lastSeq, All, m)'
            /\ Answered(frames, generation, remote, All) => Answered(frames, generation, remote, All)'
            /\ \A m : Covers(f, generation, lastSeq, m) => Covered(frames, generation, lastSeq, All, m)'
        BY <1>4, <2>1, <2>2, <2>3, <3>4
      <3>6. \A m \in 1 .. establish'.after : Covered(frames, generation, lastSeq, All, m)'
        <4> SUFFICES ASSUME NEW m \in 1 .. establish'.after PROVE Covered(frames, generation, lastSeq, All, m)'
          OBVIOUS
        <4>1. CASE m = establish.after + 1
          <5>1. Covers(f, generation, lastSeq, m)
            BY <2>2, <2>5, <4>1 DEF Covers
          <5> QED BY <3>5, <5>1
        <4>2. CASE m # establish.after + 1
          <5>1. m \in 1 .. establish.after
            BY <2>1, <2>3, <4>2
          <5> QED BY <1>3, <2>1, <3>1, <3>5, <5>1
        <4> QED BY <4>1, <4>2
      <3>7. /\ generation' \in DOMAIN subs' /\ subs'[generation'] = establish'.head
            /\ Upcoming' - 1 <= establish'.head \/ Lost'
        BY <1>1, <1>3, <2>3, <3>1, <3>5
      <3>8. Answered(frames, generation, remote, All)'
        BY <1>0, <1>3, <3>1, <3>5
      <3>9. Establishing'
        <4>1. establish' \in [sub : Nat, after : Nat \union {None}, head : Nat, pc : {"respond", "replay"}]
          <5>1. establish.after + 1 \in Nat /\ establish.sub \in Nat /\ establish.head \in Nat
            BY <1>0, <2>1
          <5>2. establish' = [sub |-> establish.sub, after |-> establish.after + 1, head |-> establish.head, pc |-> "replay"]
            BY <1>0, <2>1
          <5> QED BY <5>1, <5>2
        <4>2. establish' # None
          BY <4>1, StreamAssumption
        <4> QED BY <1>1, <2>3, <2>5, <4>2 DEF Establishing
      <3>10. Delivered'
        BY <3>6, <3>7, <3>8, <3>9 DEF Delivered
      <3> QED BY <3>5, <3>10 DEF Spoken
    <2> QED BY <2>4, <2>5
  <1>8. CASE Ready
    <2> DEFINE f == Frame("ready", establish.sub, establish.head)
    <2>1. /\ establish.pc = "replay" /\ establish.after >= establish.head
          /\ establish' = None /\ frames' = Append(frames, f)
          /\ establish.head \in Seqs
      BY <1>0, <1>8 DEF Ready, Seqs
    <2>2. /\ f \in Frames /\ f.sub = establish.sub /\ f.kind = "ready" /\ f.seq = establish.head
      <3>1. "ready" \in Kinds
        BY DEF Kinds
      <3>2. f \in Frames
        BY <1>k, <2>1, <3>1
      <3> QED BY <3>2 DEF Frame
    <2> HIDE DEF f
    <2>4. CASE establish.sub # generation
      BY <1>5, <2>1, <2>2, <2>4
    <2>5. CASE establish.sub = generation
      <3>1. ~Responding(generation) /\ Establishing
        BY <1>0, <2>1, <2>5 DEF Responding, Establishing
      <3>2. /\ \A m \in 1 .. establish.head : Covered(frames, generation, lastSeq, All, m)
            /\ Answered(frames, generation, remote, All)
        <4>1. \A m \in 1 .. establish.head : m \in 1 .. establish.after
          BY <1>0, <2>1
        <4> QED BY <1>0, <1>3, <2>1, <3>1, <4>1
      <3>4. MayAdd(f, frames, generation, lastSeq, remote)
        BY <2>2, <3>2 DEF MayAdd, IsAnswer, All
      <3>5. /\ Chain(frames, generation, lastSeq, remote)' /\ Unanswered'
            /\ Lost => Lost'
            /\ \A m : Covered(frames, generation, lastSeq, All, m) => Covered(frames, generation, lastSeq, All, m)'
            /\ Answered(frames, generation, remote, All) => Answered(frames, generation, remote, All)'
        BY <1>4, <2>1, <2>2, <3>4
      <3>6. /\ \A m \in 1 .. subs[generation] : Covered(frames, generation, lastSeq, All, m)'
        BY <1>3, <3>1, <3>2, <3>5
      <3>7. \A m \in 1 .. Upcoming - 1 : Covered(frames, generation, lastSeq, All, m)'
        <4>1. CASE Lost
          <5>1. \E i \in 1 .. Len(frames) : frames[i].kind = "lagged"
            BY <1>0, <4>1 DEF Lost
          <5>2. \A m : Covered(frames, generation, lastSeq, All, m)
            BY <1>0, <5>1, LostCovers DEF All
          <5> QED BY <3>5, <5>2
        <4>2. CASE ~Lost
          <5>1. Upcoming - 1 <= establish.head
            BY <1>3, <3>1, <4>2
          <5>2. \A m \in 1 .. Upcoming - 1 : m \in 1 .. establish.head
            <6> DEFINE u == Upcoming - 1
            <6>1. u <= establish.head /\ establish.head \in Nat /\ u \in Int
              BY <1>0, <5>1
            <6> HIDE DEF u
            <6>2. \A m \in 1 .. u : m \in 1 .. establish.head
              BY <6>1
            <6> QED BY <6>2 DEF u
          <5> QED BY <3>2, <3>5, <5>2
        <4> QED BY <4>1, <4>2
      <3>8. ~Establishing'
        BY <2>1 DEF Establishing
      <3>9. Delivered'
        BY <1>1, <3>2, <3>5, <3>6, <3>7, <3>8 DEF Delivered
      <3> QED BY <3>5, <3>9 DEF Spoken
    <2> QED BY <2>4, <2>5
  <1> QED BY <1>6, <1>7, <1>8

\* Live delivery: the event that is next, to every subscription below it.
LEMMA DeliveredSpoken ==
    ASSUME Shape, LeakInv, Spoken, DeliverLive, NEW h, hand = h, Upcoming = h, Upcoming' = h + 1
    PROVE  Spoken'
  <1> USE ConstantFacts
  <1> DEFINE T == {s \in DOMAIN subs : h > subs[s]}
  <1>0. /\ generation \in Nat /\ frames \in Seq(Frames) /\ Len(frames) \in Nat
        /\ conn # None /\ h \in 1 .. head /\ head \in Nat /\ establish = None
        /\ \A s \in DOMAIN subs : s \in 1 .. generation /\ subs[s] \in Nat
        /\ ~Asked(generation) => generation \in DOMAIN subs
    BY SpokenFacts DEF DeliverLive
  <1>1. UNCHANGED <<conn, subs, calls, establish, lastSeq, remote, generation>> /\ frames' = frames \o Sent(T, h)
    BY DEF DeliverLive, client, Sent
  <1>1a. frames' = frames \o Sent(T, h)
    BY <1>1
  <1>2. ~Establishing /\ ~Responding(generation) /\ ~Establishing' /\ ~Responding(generation)'
    BY <1>0, <1>1 DEF Establishing, Responding
  <1>3. /\ Asked(generation) => generation \notin DOMAIN subs
        /\ ~Asked(generation) =>
              /\ \A m \in 1 .. subs[generation] : Covered(frames, generation, lastSeq, Len(frames) + 1, m)
              /\ \A m \in 1 .. h - 1 : Covered(frames, generation, lastSeq, Len(frames) + 1, m)
              /\ Answered(frames, generation, remote, Len(frames) + 1)
    BY <1>0, <1>2 DEF Spoken, Unanswered, Delivered, Asked, All
  <1>4. T \in SUBSET DOMAIN subs /\ (generation \in T <=> generation \in DOMAIN subs /\ h > subs[generation])
    OBVIOUS
  <1> HIDE DEF T
  <1>5. IsFiniteSet(T) /\ T \in SUBSET Nat /\ h \in Seqs
    BY <1>0, <1>4, SubscriptionsFinite DEF Shape, QueueShape, Seqs
  <1>6. /\ frames' \in Seq(Frames) /\ Len(frames') \in Nat /\ Len(frames') >= Len(frames)
        /\ \A i \in 1 .. Len(frames) : frames'[i] = frames[i]
        /\ \A i \in Len(frames) + 1 .. Len(frames') : \E t \in T : frames'[i] = Frame("event", t, h)
        /\ \A t \in T : \E i \in Len(frames) + 1 .. Len(frames') : frames'[i] = Frame("event", t, h)
    BY <1>0, <1>1a, <1>5, SentFrames
  <1>7. Extends(frames, frames')
    BY <1>0, <1>6 DEF Extends
  <1>8. ASSUME NEW i \in Len(frames) + 1 .. Len(frames')
        PROVE  /\ frames'[i].kind = "event" /\ frames'[i].seq = h
               /\ frames'[i].sub = generation => ~Asked(generation)
    <2>1. PICK t \in T : frames'[i] = Frame("event", t, h)
      BY <1>6
    <2>2. /\ frames'[i].kind = "event" /\ frames'[i].seq = h /\ frames'[i].sub = t
      BY <2>1 DEF Frame
    <2> QED BY <1>3, <1>4, <2>2
  <1>9. ASSUME NEW i \in Len(frames) + 1 .. Len(frames')
        PROVE  /\ MayAdd(frames'[i], frames, generation, lastSeq, remote)
               /\ ~IsAnswer(frames'[i], generation)
    BY <1>3, <1>8 DEF MayAdd, IsAnswer
  <1>10. /\ Chain(frames, generation, lastSeq, remote)' /\ Unanswered'
         /\ Asked(generation)' <=> Asked(generation)
         /\ \A m : Covered(frames, generation, lastSeq, All, m) => Covered(frames, generation, lastSeq, All, m)'
         /\ Answered(frames, generation, remote, All) => Answered(frames, generation, remote, All)'
    BY <1>1, <1>2, <1>7, <1>8, <1>9, SpokenMore
  <1>11. ASSUME ~Asked(generation)
         PROVE  /\ \A m \in 1 .. subs[generation] : Covered(frames, generation, lastSeq, All, m)'
                /\ \A m \in 1 .. h : Covered(frames, generation, lastSeq, All, m)'
                /\ Answered(frames, generation, remote, All)'
    <2>1. /\ \A m \in 1 .. subs[generation] : Covered(frames, generation, lastSeq, All, m)'
          /\ \A m \in 1 .. h - 1 : Covered(frames, generation, lastSeq, All, m)'
          /\ Answered(frames, generation, remote, All)'
      BY <1>3, <1>10, <1>11 DEF All
    <2>2. Covered(frames, generation, lastSeq, All, h)'
      <3>1. CASE h > subs[generation]
        <4>1. PICK i \in Len(frames) + 1 .. Len(frames') : frames'[i] = Frame("event", generation, h)
          BY <1>0, <1>4, <1>6, <1>11, <3>1
        <4>2. Covers(frames'[i], generation, lastSeq, h) /\ i \in 1 .. Len(frames')
          BY <1>0, <1>6, <4>1 DEF Covers, Frame
        <4>3. Covered(frames', generation, lastSeq, Len(frames') + 1, h)
          BY <1>6, <4>2, LastCovers
        <4> QED BY <1>1, <4>3 DEF All
      <3>2. CASE ~(h > subs[generation])
        BY <1>0, <1>11, <2>1, <3>2
      <3> QED BY <3>1, <3>2
    <2>3. \A m \in 1 .. h : m = h \/ m \in 1 .. h - 1
      BY <1>0
    <2> QED BY <2>1, <2>2, <2>3
  <1>12. Upcoming' - 1 = h
    BY <1>0
  <1>13. Delivered'
    BY <1>1, <1>2, <1>10, <1>11, <1>12 DEF Delivered
  <1> QED BY <1>10, <1>13 DEF Spoken

\* The client takes a frame that is not a lag notice.
LEMMA TakenSpoken ==
    ASSUME Shape, LeakInv, Spoken, Upcoming' = Upcoming,
           frames # << >>, frames' = Tail(frames),
           Takes(Head(frames), generation, lastSeq, lastSeq', remote, remote'),
           UNCHANGED <<conn, subs, establish, generation>>,
           remote' # None => remote' = generation,
           \A c \in calls' : c \in calls \/ c.kind = "unsubscribe",
           \A c \in calls : c \in calls',
           Head(frames).sub # generation /\ Head(frames).sub # remote => lastSeq' = lastSeq
    PROVE  Spoken'
  <1> USE ConstantFacts
  <1>0. /\ generation \in Nat /\ generation # None /\ frames \in Seq(Frames) /\ Len(frames) \in Nat /\ head \in Nat
        /\ \A i \in 1 .. Len(frames) : FrameOf(frames[i], generation, head)
        /\ \A i \in 1 .. Len(frames) : frames[i].kind = "lagged" \/ (frames[i].sub \in 1 .. generation)
        /\ conn # None /\ DOMAIN frames = 1 .. Len(frames)
        /\ establish # None => establish.head \in 0 .. head
        /\ \A s \in DOMAIN subs : subs[s] \in Nat
        /\ ~Asked(generation) => generation \in DOMAIN subs
        /\ Establishing => ~Asked(generation)
        /\ Responding(generation) => Establishing
    BY SpokenFacts
  <1>u. /\ conn' = conn /\ subs' = subs /\ establish' = establish /\ generation' = generation
    OBVIOUS
  <1>1. /\ frames' \in Seq(Frames) /\ Len(frames) = Len(frames') + 1 /\ Len(frames') \in Nat
        /\ \A i \in 1 .. Len(frames') : frames'[i] = frames[i + 1]
        /\ 1 \in 1 .. Len(frames) /\ Head(frames) = frames[1]
    BY <1>0, TailFrames
  <1>2. Takes(frames[1], generation, lastSeq, lastSeq', remote, remote')
    BY <1>1
  <1>3. Chain(frames, generation, lastSeq, remote)'
    <2>1. Chain(frames, generation, lastSeq, remote)
      BY DEF Spoken
    <2>2. Chain(Tail(frames), generation, lastSeq', remote')
      BY <1>0, <1>2, <2>1, ChainTaken
    <2> QED BY <1>u, <2>2
  <1>4. /\ Asked(generation)' <=> Asked(generation)
        /\ Responding(generation)' <=> Responding(generation)
        /\ Establishing' <=> Establishing
    <2>1. Asked(generation) => Asked(generation)'
      BY <1>u DEF Asked
    <2>2. Asked(generation)' => Asked(generation)
      BY <1>u DEF Asked
    <2>3. /\ Responding(generation)' <=> Responding(generation)
          /\ Establishing' <=> Establishing
      BY <1>u DEF Responding, Establishing
    <2> QED BY <2>1, <2>2, <2>3
  <1>5. Asked(generation) \/ Responding(generation)
          => remote' = None /\ NoFramesOf(frames, generation)' /\ lastSeq' = lastSeq
    <2> SUFFICES ASSUME Asked(generation) \/ Responding(generation)
                 PROVE  remote' = None /\ NoFramesOf(frames, generation)' /\ lastSeq' = lastSeq
      OBVIOUS
    <2>1. remote = None /\ NoFramesOf(frames, generation)
      BY DEF Spoken, Unanswered
    <2>2. frames[1].sub # generation /\ ~IsAnswer(frames[1], generation)
      BY <1>1, <2>1 DEF NoFramesOf, IsAnswer
    <2>3. frames[1].sub # remote
      <3>1. frames[1].kind # "lagged"
        BY <1>2 DEF Takes
      <3>2. frames[1].sub \in 1 .. generation
        BY <1>0, <1>1, <3>1
      <3>3. frames[1].sub \in Nat
        BY <1>0, <3>2
      <3> QED BY <2>1, <3>3
    <2>4. lastSeq' = lastSeq
      BY <1>1, <2>2, <2>3
    <2>5. remote' = None
      BY <1>0, <1>2, <2>1, <2>2 DEF Takes
    <2>6. NoFramesOf(frames, generation)'
      <3> SUFFICES ASSUME NEW i \in 1 .. Len(frames') PROVE frames'[i].sub # generation
        BY <1>u DEF NoFramesOf
      <3>1. i + 1 \in 1 .. Len(frames) /\ frames'[i] = frames[i + 1]
        BY <1>1
      <3> QED BY <2>1, <3>1 DEF NoFramesOf
    <2> QED BY <2>4, <2>5, <2>6
  <1>6. Unanswered'
    <2>1. ASSUME NEW c \in calls', c.kind = "subscribe", c.sub = generation'
          PROVE  c = SubscribeCall(generation', lastSeq') /\ generation' \notin DOMAIN subs' /\ ~Establishing'
      <3>1. c \in calls /\ c.sub = generation
        BY <1>u, <2>1
      <3>2. c = SubscribeCall(generation, lastSeq) /\ generation \notin DOMAIN subs /\ ~Establishing
        BY <2>1, <3>1 DEF Spoken, Unanswered
      <3>3. Asked(generation)
        BY <2>1, <3>1 DEF Asked
      <3> QED BY <1>u, <1>4, <1>5, <3>2, <3>3
    <2>2. Responding(generation) => establish.after = lastSeq
      BY DEF Spoken, Unanswered
    <2>3. Responding(generation)' => establish'.after = lastSeq'
      BY <1>u, <1>4, <1>5, <2>2
    <2>4. Asked(generation)' \/ Responding(generation)' => remote' = None /\ NoFramesOf(frames, generation)'
      BY <1>4, <1>5
    <2> QED BY <2>1, <2>3, <2>4 DEF Unanswered
  <1>7. Lost => Lost'
    <2> SUFFICES ASSUME NEW i \in DOMAIN frames, frames[i].kind = "lagged" PROVE Lost'
      BY DEF Lost
    <2>1. i # 1 /\ i \in 1 .. Len(frames)
      BY <1>0, <1>2 DEF Takes
    <2>2. i - 1 \in DOMAIN frames' /\ frames'[i - 1] = frames[(i - 1) + 1] /\ (i - 1) + 1 = i
      BY <1>1, <2>1
    <2>3. frames'[i - 1].kind = "lagged"
      BY <2>2
    <2> QED BY <2>2, <2>3 DEF Lost
  <1>8. \A m \in Nat : Covered(frames, generation, lastSeq, All, m) => Covered(frames, generation, lastSeq, All, m)'
    <2> SUFFICES ASSUME NEW m \in Nat, Covered(frames, generation, lastSeq, All, m)
                 PROVE  Covered(frames, generation, lastSeq, All, m)'
      OBVIOUS
    <2>1. Len(frames) \in 1 .. Len(frames) /\ Covered(frames, generation, lastSeq, Len(frames) + 1, m)
      BY <1>1 DEF All
    <2>2. Covered(Tail(frames), generation, lastSeq', Len(frames), m)
      BY <1>0, <1>2, <2>1, CoveredTaken DEF Spoken
    <2>3. Len(frames) = All'
      BY <1>1 DEF All
    <2> QED BY <1>u, <2>2, <2>3
  <1>9. Answered(frames, generation, remote, All) => Answered(frames, generation, remote, All)'
    <2> SUFFICES ASSUME Answered(frames, generation, remote, All)
                 PROVE  Answered(frames, generation, remote, All)'
      OBVIOUS
    <2>1. Len(frames) \in 1 .. Len(frames) /\ Answered(frames, generation, remote, Len(frames) + 1)
      BY <1>1 DEF All
    <2>2. Answered(Tail(frames), generation, remote', Len(frames))
      BY <1>0, <1>2, <2>1, AnsweredTaken
    <2>3. Len(frames) = All'
      BY <1>1 DEF All
    <2> QED BY <1>u, <2>2, <2>3
  <1>10. Delivered'
    <2>0. Delivered
      BY DEF Spoken
    <2>1. Establishing' =>
            /\ generation' \in DOMAIN subs' /\ subs'[generation'] = establish'.head
            /\ Upcoming' - 1 <= establish'.head \/ Lost'
            /\ establish'.pc = "replay" => \A m \in 1 .. establish'.after : Covered(frames, generation, lastSeq, All, m)'
      <3> SUFFICES ASSUME Establishing
                   PROVE  /\ generation \in DOMAIN subs /\ subs[generation] = establish.head
                          /\ Upcoming' - 1 <= establish.head \/ Lost'
                          /\ establish.pc = "replay" => \A m \in 1 .. establish.after : Covered(frames, generation, lastSeq, All, m)'
        BY <1>u, <1>4
      <3> QED BY <1>7, <1>8, <2>0 DEF Delivered
    <2>2. conn' # None /\ ~Asked(generation)' /\ ~Establishing' =>
            /\ \A m \in 1 .. subs'[generation'] : Covered(frames, generation, lastSeq, All, m)'
            /\ \A m \in 1 .. Upcoming' - 1 : Covered(frames, generation, lastSeq, All, m)'
      BY <1>u, <1>4, <1>8, <2>0 DEF Delivered
    <2>3. conn' # None /\ ~Asked(generation)' /\ ~Responding(generation)' => Answered(frames, generation, remote, All)'
      BY <1>u, <1>4, <1>9, <2>0 DEF Delivered
    <2> QED BY <2>1, <2>2, <2>3 DEF Delivered
  <1> QED BY <1>3, <1>6, <1>10 DEF Spoken

\* The client's handlers keep the cursor and what it has applied together, and
\* take a frame the way the lemmas above ask for.
LEMMA ClientGap ==
    ASSUME Shape, LeakInv, Spoken, NoGap, ClientSubscribed \/ ClientGaveUp \/ ClientEvent \/ ClientReady
    PROVE  /\ NoGap'
           /\ Takes(Head(frames), generation, lastSeq, lastSeq', remote, remote')
           /\ Head(frames).sub # generation /\ Head(frames).sub # remote => lastSeq' = lastSeq
  <1> USE ConstantFacts
  <1> DEFINE f == Head(frames)
             g == generation
  <1>0. /\ frames # << >> /\ f.kind # "lagged" /\ f.kind \in {"response", "snapshot", "event", "ready"}
        /\ 1 \in 1 .. Len(frames) /\ f = frames[1] /\ g \in Nat /\ g # None
        /\ f.sub \in 1 .. g /\ f.seq \in 0 .. head /\ f.sub \in Nat /\ f.seq \in Nat /\ f.sub # None
        /\ remote # None => remote = g /\ lastSeq # None
        /\ lastSeq # None => lastSeq \in Nat
        /\ generation' = generation
    <2>1. frames # << >> /\ f.kind # "lagged" /\ f.kind \in {"response", "snapshot", "event", "ready"}
          /\ generation' = generation
      BY DEF ClientSubscribed, ClientGaveUp, ClientEvent, ClientReady, Next1
    <2>2. 1 \in 1 .. Len(frames) /\ f = frames[1]
      BY <2>1, SpokenFacts, TailFrames
    <2>3. FrameOf(f, generation, head)
      BY <2>2, SpokenFacts
    <2>4. f.sub \in 1 .. g /\ f.seq \in 0 .. head
      BY <2>1, <2>3 DEF FrameOf
    <2>5. /\ g \in Nat /\ g # None /\ head \in Nat
          /\ remote # None => remote = g /\ lastSeq # None
          /\ lastSeq # None => lastSeq \in Nat
      BY SpokenFacts
    <2> QED BY <2>1, <2>2, <2>4, <2>5
  <1>b. /\ base = None <=> lastSeq = None
        /\ base # None => base \in Nat /\ base <= lastSeq
    BY DEF Shape, ClientShape
  <1>n. lastSeq # None => \A n \in base + 1 .. lastSeq : n \in seen
    BY DEF NoGap
  \* What the first frame rests on, the client has.
  <1>1. f.sub = g =>
          /\ f.kind = "event" => \A m \in 1 .. f.seq - 1 : LastHas(lastSeq, m)
          /\ f.kind = "ready" => \A m \in 1 .. f.seq : LastHas(lastSeq, m)
          /\ f.kind \in {"event", "ready"} => remote = g
          /\ IsAnswer(f, g) => remote # g
    <2>1. f.sub = g =>
            /\ f.kind = "event" => \A m \in 1 .. f.seq - 1 : Covered(frames, g, lastSeq, 1, m)
            /\ f.kind = "ready" => \A m \in 1 .. f.seq : Covered(frames, g, lastSeq, 1, m)
            /\ f.kind \in {"event", "ready"} => Answered(frames, g, remote, 1)
            /\ IsAnswer(f, g) => remote # g
      BY <1>0 DEF Spoken, Chain
    <2>2. /\ \A m : Covered(frames, g, lastSeq, 1, m) => LastHas(lastSeq, m)
          /\ Answered(frames, g, remote, 1) => remote = g
      BY DEF Covered, Answered
    <2> HIDE DEF f, g
    <2> QED BY <2>1, <2>2
  <1>2. ASSUME UNCHANGED <<lastSeq, seen, base, remote>>, f.sub # g \/ (f.kind = "event" /\ f.sub = remote /\ f.seq <= lastSeq)
                 \/ (f.kind = "ready")
        PROVE  NoGap' /\ Takes(f, g, lastSeq, lastSeq', remote, remote') /\ lastSeq' = lastSeq
    <2>1. NoGap'
      BY <1>2 DEF NoGap
    <2>2. \A m \in Nat : Covers(f, g, lastSeq, m) => LastHas(lastSeq, m)
      BY <1>0, <1>2 DEF Covers, LastHas
    <2>3. ~IsAnswer(f, g)
      BY <1>2 DEF IsAnswer
    <2> HIDE DEF f, g
    <2> QED BY <1>0, <1>2, <2>1, <2>2, <2>3 DEF Takes
  <1>3. CASE ClientSubscribed
    <2>1. f.kind \in {"response", "snapshot"}
      BY <1>3 DEF ClientSubscribed, Next1
    <2>2. CASE f.sub = g
      <3>1. /\ remote' = g
            /\ lastSeq' = IF lastSeq = None \/ (f.kind = "snapshot" /\ f.seq > lastSeq) THEN f.seq ELSE lastSeq
            /\ seen' = IF f.kind = "snapshot" THEN seen \union 1 .. f.seq ELSE seen
            /\ base' = IF base = None THEN f.seq ELSE base
        BY <1>3, <2>2 DEF ClientSubscribed
      <3> HIDE DEF f, g
      <3>2. NoGap'
        <4> SUFFICES ASSUME NEW n \in base' + 1 .. lastSeq' PROVE n \in seen'
          BY DEF NoGap
        <4>1. CASE lastSeq = None
          BY <1>0, <1>b, <3>1, <4>1
        <4>2. CASE lastSeq # None
          BY <1>0, <1>b, <1>n, <3>1, <4>2
        <4> QED BY <4>1, <4>2
      <3>3. \A m \in Nat : LastHas(lastSeq, m) => LastHas(lastSeq', m)
        <4>1. ASSUME NEW m \in Nat, lastSeq # None, m <= lastSeq PROVE LastHas(lastSeq', m)
          <5>1. CASE lastSeq' = lastSeq
            BY <4>1, <5>1 DEF LastHas
          <5>2. CASE lastSeq' # lastSeq
            BY <1>0, <3>1, <4>1, <5>2 DEF LastHas
          <5> QED BY <5>1, <5>2
        <4> QED BY <4>1 DEF LastHas
      <3>4. \A m \in Nat : Covers(f, g, lastSeq, m) => LastHas(lastSeq', m)
        BY <1>0, <2>1, <3>1 DEF Covers, LastHas
      <3>5. IsAnswer(f, g)
        BY <2>1, <2>2 DEF IsAnswer
      <3> QED BY <1>0, <2>2, <3>1, <3>2, <3>3, <3>4, <3>5 DEF Takes, f, g
    <2>3. CASE f.sub # g
      <3>1. UNCHANGED <<lastSeq, seen, base, remote>>
        BY <1>3, <2>3 DEF ClientSubscribed
      <3> QED BY <1>2, <2>3, <3>1
    <2> QED BY <2>2, <2>3
  <1>4. CASE ClientEvent
    <2>1. f.kind = "event" /\ UNCHANGED <<remote, base>>
      BY <1>4 DEF ClientEvent, Next1
    <2>2. CASE f.sub = remote /\ f.seq > lastSeq
      <3>1. lastSeq' = f.seq /\ seen' = seen \union {f.seq}
        BY <1>4, <2>2 DEF ClientEvent
      <3>2. remote = g /\ f.sub = g /\ lastSeq \in Nat /\ lastSeq # None /\ base \in Nat /\ base <= lastSeq
        BY <1>0, <1>b, <2>2
      <3>3. \A m \in 1 .. f.seq - 1 : m <= lastSeq
        BY <1>1, <2>1, <3>2 DEF LastHas
      <3> HIDE DEF f, g
      <3>4. NoGap'
        <4> SUFFICES ASSUME NEW n \in base' + 1 .. lastSeq' PROVE n \in seen'
          BY DEF NoGap
        <4>1. CASE n = f.seq
          BY <3>1, <4>1
        <4>2. CASE n # f.seq
          <5>1. n \in 1 .. f.seq - 1 /\ n \in Nat /\ base' = base /\ n >= base + 1
            BY <1>0, <2>1, <3>1, <3>2, <4>2
          <5>2. n <= lastSeq
            BY <3>3, <5>1
          <5>3. n \in base + 1 .. lastSeq
            BY <3>2, <5>1, <5>2
          <5> QED BY <1>n, <3>1, <3>2, <5>3
        <4> QED BY <4>1, <4>2
      <3>5. \A m \in Nat : LastHas(lastSeq, m) => LastHas(lastSeq', m)
        <4>1. ASSUME NEW m \in Nat, m <= lastSeq PROVE m <= lastSeq'
          BY <1>0, <2>2, <3>1, <3>2, <4>1
        <4> QED BY <1>0, <3>1, <4>1 DEF LastHas
      <3>6. \A m \in Nat : Covers(f, g, lastSeq, m) => LastHas(lastSeq', m)
        BY <1>0, <2>1, <3>1 DEF Covers, LastHas
      <3> QED BY <1>0, <2>1, <3>1, <3>2, <3>4, <3>5, <3>6 DEF Takes, f, g, IsAnswer
    <2>3. CASE ~(f.sub = remote /\ f.seq > lastSeq)
      <3>1. UNCHANGED <<lastSeq, seen, base, remote>>
        BY <1>4, <2>1, <2>3 DEF ClientEvent
      <3>2. f.sub # g \/ (f.sub = remote /\ f.seq <= lastSeq)
        <4>1. f.sub = g => remote = g /\ lastSeq \in Nat
          BY <1>0, <1>1, <2>1
        <4> HIDE DEF f, g
        <4> QED BY <1>0, <2>3, <4>1
      <3> QED BY <1>2, <2>1, <3>1, <3>2
    <2> QED BY <2>2, <2>3
  <1>5. CASE ClientReady
    <2>1. f.kind = "ready" /\ UNCHANGED <<remote, base, seen>>
      BY <1>5 DEF ClientReady, Next1
    <2>2. lastSeq' = lastSeq
      <3>1. CASE f.sub = remote /\ ready = f.seq
        <4>1. lastSeq' = IF f.seq > lastSeq THEN f.seq ELSE lastSeq
          BY <1>5, <3>1 DEF ClientReady
        <4>2. remote = g /\ f.sub = g /\ lastSeq \in Nat
          BY <1>0, <3>1
        <4>3. \A m \in 1 .. f.seq : m <= lastSeq
          BY <1>1, <2>1, <4>2 DEF LastHas
        <4> HIDE DEF f, g
        <4>4. f.seq <= lastSeq
          <5>1. CASE f.seq = 0 BY <4>2, <5>1
          <5>2. CASE f.seq # 0
            <6>1. f.seq \in 1 .. f.seq BY <1>0, <5>2
            <6> QED BY <4>3, <6>1
          <5> QED BY <5>1, <5>2
        <4> QED BY <1>0, <4>1, <4>2, <4>4
      <3>2. CASE ~(f.sub = remote /\ ready = f.seq)
        BY <1>5, <3>2 DEF ClientReady
      <3> QED BY <3>1, <3>2
    <2>3. UNCHANGED <<lastSeq, seen, base, remote>>
      BY <2>1, <2>2
    <2> QED BY <1>2, <2>1, <2>3
  <1>6. CASE ClientGaveUp
    <2>1. UNCHANGED <<lastSeq, seen, base, remote>> /\ f.sub # g
      BY <1>6 DEF ClientGaveUp
    <2> QED BY <1>2, <2>1
  <1> QED BY <1>3, <1>4, <1>5, <1>6

LEMMA GapStep ==
    ASSUME Shape, LeakInv, InOrder, GapInv, [Next]_vars
    PROVE  GapInv'
  <1> USE ConstantFacts
  <1>0. NoGap /\ Aligned /\ Queued /\ Spoken
    BY DEF GapInv, Aligned
  <1>1. /\ Aligned'
        /\ conn # None /\ conn' = conn /\ ~ReceiveLagged /\ ~DeliverLive => Upcoming' = Upcoming
        /\ DeliverLive => Upcoming = hand /\ Upcoming' = hand + 1
    BY <1>0, AlignedStep
  <1>f. /\ generation \in Nat /\ frames \in Seq(Frames) /\ Len(frames) \in Nat
        /\ establish # None => conn # None
        /\ frames # << >> => conn # None
        /\ hand # None => conn # None
        /\ \A c \in calls : conn # None
    BY <1>0, SpokenFacts
  \* No frame speaks for a generation to come.
  <1>g. ASSUME NEW i \in 1 .. Len(frames) PROVE frames[i].sub # generation + 1
    <2>1. FrameOf(frames[i], generation, head)
      BY DEF Shape, FramesShape
    <2> QED BY <1>f, <2>1 DEF FrameOf
  <1>n. ASSUME UNCHANGED <<lastSeq, seen, base>> PROVE NoGap'
    BY <1>0, <1>n DEF NoGap
  <1>2. ASSUME NEW e \in Emitters, AppendEvent(e) \/ Publish(e) PROVE NoGap' /\ Spoken'
    <2>1. UNCHANGED <<conn, subs, calls, establish, frames, lastSeq, remote, generation, seen, base>>
      BY <1>2 DEF AppendEvent, Publish, server, client
    <2>2. ~ReceiveLagged /\ ~DeliverLive
      <3>1. emitting' # emitting
        <4>2. head + 1 # None /\ emitting \in [Emitters -> (1 .. MaxEvents) \union {None}]
          BY DEF Shape, QueueShape, Seqs
        <4>3. CASE AppendEvent(e)
          <5>1. emitting'[e] = head + 1 /\ emitting[e] = None
            BY <4>2, <4>3 DEF AppendEvent
          <5> QED BY <4>2, <5>1
        <4>4. CASE Publish(e)
          <5>1. emitting'[e] = None /\ emitting[e] # None
            BY <4>2, <4>4 DEF Publish
          <5> QED BY <5>1
        <4> QED BY <1>2, <4>3, <4>4
      <3> QED BY <3>1 DEF ReceiveLagged, DeliverLive
    <2> QED BY <1>0, <1>1, <1>n, <2>1, <2>2, SpokenSame
  <1>3. ASSUME Connect PROVE NoGap' /\ Spoken'
    <2>1. Resubscribe /\ UNCHANGED <<subs, establish, lastSeq, seen, base, frames>> /\ frames = << >>
      BY <1>3 DEF Connect, Shape, ClosedShape
    <2>2. \A i \in 1 .. Len(frames') : frames'[i].sub # generation + 1
      BY <2>1
    <2> QED BY <1>0, <1>n, <2>1, <2>2, SpokenAnew
  <1>4. ASSUME DropSocket PROVE NoGap' /\ Spoken'
    <2>1. /\ conn' = None /\ calls' = {} /\ establish' = None /\ frames' = << >>
          /\ UNCHANGED <<lastSeq, seen, base>>
      BY <1>4 DEF DropSocket
    <2>2. Chain(frames, generation, lastSeq, remote)'
      BY <2>1 DEF Chain
    <2>3. ~Establishing' /\ ~Responding(generation)' /\ ~Asked(generation)'
      BY <2>1 DEF Establishing, Responding, Asked
    <2>4. Unanswered' /\ Delivered'
      BY <2>1, <2>3 DEF Unanswered, Delivered
    <2> QED BY <1>n, <2>1, <2>2, <2>4 DEF Spoken
  <1>5. ASSUME NEW c \in calls, HandleSubscribe(c) \/ HandleUnsubscribe(c) \/ RefuseUnsubscribe(c) \/ Declined(c)
        PROVE  NoGap' /\ Spoken'
    <2>1. UNCHANGED <<conn, lastSeq, seen, base, head, queueVars, hand, frames, emitting>>
      BY <1>5 DEF HandleSubscribe, HandleUnsubscribe, RefuseUnsubscribe, Declined, client
    <2>2. Upcoming' = Upcoming
      BY <2>1 DEF Upcoming, Published, Unpublished, queueVars
    <2> QED BY <1>0, <1>5, <1>n, <2>1, <2>2, HandledSpoken
  <1>h. ASSUME NEW c \in calls, RefuseSubscribe(c) PROVE NoGap' /\ Spoken'
    BY <1>4, <1>5, <1>h, Refused
  <1>6. ASSUME Respond \/ Replay \/ Ready PROVE NoGap' /\ Spoken'
    <2>1. UNCHANGED <<conn, lastSeq, seen, base, head, queueVars, hand, emitting>> /\ conn # None
      BY <1>6, <1>f DEF Respond, Replay, Ready, client
    <2>2. Upcoming' = Upcoming
      BY <2>1 DEF Upcoming, Published, Unpublished, queueVars
    <2>3. Upcoming \in Int
      BY <1>0, <2>1, UpcomingBound
    <2> QED BY <1>0, <1>6, <1>n, <2>1, <2>2, <2>3, SaidSpoken
  <1>7. ASSUME ReplayFails \/ ReceiveLagged PROVE NoGap' /\ Spoken'
    <2>1. UNCHANGED <<lastSeq, seen, base>>
      BY <1>7 DEF ReplayFails, ReceiveLagged, client
    <2> QED BY <1>0, <1>7, <1>n, <2>1, LaggedSpoken
  <1>8. ASSUME ReceiveLive PROVE NoGap' /\ Spoken'
    <2>1. UNCHANGED <<conn, subs, calls, establish, frames, lastSeq, remote, generation, seen, base>>
      BY <1>8 DEF ReceiveLive, client
    <2>2. ~ReceiveLagged /\ ~DeliverLive
      BY <1>8 DEF ReceiveLive, ReceiveLagged, DeliverLive, RecvValue, RecvLagged, Readable
    <2> QED BY <1>0, <1>1, <1>n, <2>1, <2>2, SpokenSame
  <1>9. ASSUME DeliverLive PROVE NoGap' /\ Spoken'
    <2>1. UNCHANGED <<lastSeq, seen, base>>
      BY <1>9 DEF DeliverLive, client
    <2>2. Spoken'
      BY <1>0, <1>1, <1>9, DeliveredSpoken
    <2> QED BY <1>n, <2>1, <2>2
  <1>10. ASSUME ClientSubscribed \/ ClientGaveUp \/ ClientEvent \/ ClientReady PROVE NoGap' /\ Spoken'
    <2>1. /\ frames # << >> /\ frames' = Tail(frames)
          /\ UNCHANGED <<conn, subs, establish, generation, head, queueVars, hand, emitting>>
      BY <1>10 DEF ClientSubscribed, ClientGaveUp, ClientEvent, ClientReady, Next1, Consume, server
    <2>2. /\ \A c \in calls' : c \in calls \/ c.kind = "unsubscribe"
          /\ \A c \in calls : c \in calls'
      BY <1>10 DEF ClientSubscribed, ClientGaveUp, ClientEvent, ClientReady, server, UnsubscribeCall
    <2>3. remote' # None => remote' = generation
      <3>1. ClientShape'
        BY ClientStep
      <3> QED BY <2>1, <3>1 DEF ClientShape
    <2>4. Upcoming' = Upcoming
      BY <2>1 DEF Upcoming, Published, Unpublished, queueVars
    <2>5. /\ NoGap'
          /\ Takes(Head(frames), generation, lastSeq, lastSeq', remote, remote')
          /\ Head(frames).sub # generation /\ Head(frames).sub # remote => lastSeq' = lastSeq
      BY <1>0, <1>10, ClientGap
    <2>6. Spoken'
      BY <1>0, <2>1, <2>2, <2>3, <2>4, <2>5, TakenSpoken
    <2> QED BY <2>5, <2>6
  <1>11. ASSUME ClientLagged PROVE NoGap' /\ Spoken'
    <2>1. /\ frames # << >> /\ frames' = Tail(frames)
          /\ Resubscribe /\ UNCHANGED <<subs, establish, lastSeq, seen, base>>
      BY <1>11 DEF ClientLagged, Next1, Consume
    <2>2. ASSUME NEW i \in 1 .. Len(frames') PROVE frames'[i].sub # generation + 1
      <3>1. frames'[i] = frames[i + 1] /\ i + 1 \in 1 .. Len(frames)
        BY <1>f, <2>1, TailFrames
      <3> QED BY <1>g, <3>1
    <2> QED BY <1>0, <1>n, <2>1, <2>2, SpokenAnew
  <1>12. ASSUME UNCHANGED vars PROVE NoGap' /\ Spoken'
    <2>1. UNCHANGED <<conn, subs, calls, establish, frames, lastSeq, remote, generation, seen, base, hand, head, queueVars, emitting>>
      BY <1>12 DEF vars, server, client
    <2>2. Upcoming' = Upcoming
      BY <2>1 DEF Upcoming, Published, Unpublished, queueVars
    <2> QED BY <1>0, <1>n, <2>1, <2>2, SpokenSame
  <1>13. NoGap' /\ Spoken'
    BY <1>2, <1>3, <1>4, <1>5, <1>6, <1>7, <1>8, <1>9, <1>10, <1>11, <1>12, <1>h
       DEF Next, Disconnect, Handle, Establish, Live, Client
  <1> QED BY <1>1, <1>13 DEF GapInv

LEMMA GapAlways == Spec /\ [][InOrder]_vars => []GapInv
  <1>1. Init => GapInv
    BY GapInit
  <1>2. UNCHANGED vars /\ Shape => InOrder
    <2> SUFFICES ASSUME UNCHANGED vars, Shape, NEW e \in Emitters, Publish(e) PROVE FALSE
      BY DEF InOrder
    <2>1. emitting \in [Emitters -> (1 .. MaxEvents) \union {None}] /\ emitting' = emitting
      BY DEF Shape, QueueShape, vars
    <2> QED BY <2>1 DEF Publish
  <1>3. Shape /\ LeakInv /\ GapInv /\ [InOrder]_vars /\ [Next]_vars => GapInv'
    BY <1>2, GapStep
  <1>4. Spec => []LeakInv
    BY ShapeAlways, LeakInit, LeakStep, PTL DEF Spec
  <1> QED BY <1>1, <1>3, <1>4, ShapeAlways, PTL DEF Spec

\* When events are published in the order of the log, the client's cursor
\* passes no event it has not applied, through any replay, live event, lag,
\* failed replay, snapshot and lost connection: a gap has no other cause than
\* two emitters that publish in the other order (Orchestrator::emit).
THEOREM NoGapInOrder == Spec /\ [][InOrder]_vars => []NoGap
  <1>1. GapInv => NoGap
    BY DEF GapInv
  <1> QED BY <1>1, GapAlways, PTL

-----------------------------------------------------------------------------
(* Nothing is left behind.                                                 *)

\* With every event published and nothing under way, the last position of the
\* ring is the last of the log.
LEMMA AllPublished ==
    ASSUME Shape, Aligned, Settled
    PROVE  Upcoming = head + 1
  <1>1. Unpublished = {}
    BY DEF Settled, Unpublished
  <1>2. PICK p \in 0 .. head : Unpublished = p + 1 .. head
    BY DEF Aligned, Queued
  <1>3. head \in Nat
    BY ConstantFacts DEF Shape, QueueShape, Seqs
  <1>4. \A q \in 0 .. head : Unpublished = q + 1 .. head => q = head
    <2> SUFFICES ASSUME NEW q \in 0 .. head, q + 1 .. head = {} PROVE q = head
      BY <1>1
    <2>1. ~(q + 1 <= head)
      <3>1. ASSUME q + 1 <= head PROVE head \in q + 1 .. head
        BY <1>3, <3>1
      <3> QED BY <3>1
    <2> QED BY <1>3, <2>1
  <1>5. Published = head
    BY <1>2, <1>4 DEF Published, EndOf
  <1>6. receivers[conn] = next /\ next \in Nat /\ hand = None
    BY DEF Settled, Shape, QueueShape, Ring
  <1> QED BY <1>3, <1>5, <1>6 DEF Upcoming

\* With events published in the order of the log, a client with nothing under way is at
\* the end of the log and has applied all of it since its view began: whatever
\* it missed on the way, no event is left that nobody sends.
THEOREM ClientUpToDate == Spec /\ [][InOrder]_vars => []UpToDate
  <1>1. Shape /\ LeakInv /\ GapInv => UpToDate
    <2> SUFFICES ASSUME Shape, LeakInv, GapInv, Settled
                 PROVE  lastSeq = head /\ \A n \in base + 1 .. head : n \in seen
      BY DEF UpToDate
    <2>1. /\ conn # None /\ calls = {} /\ frames = << >> /\ establish = None
          /\ Shape /\ LeakInv /\ NoGap /\ Aligned /\ Delivered
      BY DEF Settled, Quiet, GapInv, Spoken
    <2>2. ~Asked(generation) /\ ~Establishing /\ ~Responding(generation) /\ Len(frames) = 0
      BY <2>1 DEF Asked, Establishing, Responding
    <2>3. \A m \in 1 .. Upcoming - 1 : Covered(frames, generation, lastSeq, All, m)
      BY <2>1, <2>2 DEF Delivered
    <2>4. Answered(frames, generation, remote, All)
      BY <2>1, <2>2 DEF Delivered
    <2>5. All = 1
      BY <2>2 DEF All
    <2>6. remote = generation
      BY <2>4, <2>5 DEF Answered
    <2>7. head \in Nat /\ lastSeq \in 0 .. head /\ base \in (0 .. head) \union {None}
      <3>1. head \in Nat /\ generation \in Nat /\ None \notin Nat
        BY ConstantFacts DEF Shape, QueueShape, Seqs, ClientShape
      <3> QED BY <2>6, <3>1 DEF Shape, ClientShape
    <2>8. \A m \in 1 .. head : m <= lastSeq
      <3>1. Upcoming - 1 = head
        BY <2>1, <2>7, AllPublished
      <3> QED BY <2>3, <2>5, <3>1 DEF Covered, LastHas
    <2>9. lastSeq = head
      BY <2>7, <2>8
    <2> QED BY <2>1, <2>7, <2>9, ConstantFacts DEF NoGap
  <1>2. Spec => []LeakInv
    BY ShapeAlways, LeakInit, LeakStep, PTL DEF Spec
  <1>3. Spec /\ [][InOrder]_vars => []GapInv
    BY GapAlways
  <1> QED BY <1>1, <1>2, <1>3, ShapeAlways, PTL

=============================================================================
