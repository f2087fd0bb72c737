-------------------------- MODULE BoundedBroadcast --------------------------
(***************************************************************************)
(* The queue behind crates/kybern-daemon/src/bounded_broadcast.rs: one     *)
(* ring of events shared by every receiver, limited both by the number of  *)
(* events and by their retained bytes.  A receiver has a cursor, the       *)
(* position of the event it reads next; a receiver the ring has left       *)
(* behind is told how many events it missed and moved to the oldest event  *)
(* still kept.                                                             *)
(*                                                                         *)
(* Every operation of the code runs under one mutex, so each is one step.  *)
(* The recv loop and the watch channel that wakes it are in BroadcastRecv; *)
(* EventStream runs the daemon's sockets on this queue.                    *)
(***************************************************************************)
EXTENDS Integers, Sequences, FiniteSets, SequencesExt

CONSTANTS
  Receivers,    \* every receiver that may ever subscribe; ids are not reused
  Events,       \* the values that are sent
  Size(_),      \* retained_size of an event
  Capacity,     \* the count limit
  ByteLimit     \* the limit on retained bytes

\* channel() asserts both limits; sizes are usize.
ASSUME CapacityAssumption == Capacity \in Nat \ {0}
ASSUME ByteLimitAssumption == ByteLimit \in Nat \ {0}
ASSUME SizeAssumption == \A e \in Events : Size(e) \in Nat

VARIABLES
  values,       \* the ring: a sequence of [seq, event], oldest first
  next,         \* the position the next sent event gets
  bytes,        \* retained bytes of the ring
  receivers,    \* cursor of each live receiver (its domain)
  born          \* receivers that ever subscribed (next_receiver)

queueVars == <<values, next, bytes, receivers, born>>

Entry == [seq : Nat, event : Events]

Weight(entries) == FoldSeq(LAMBDA x, w : Size(x.event) + w, 0, entries)

\* channel: an empty ring and its first receiver.
InitQueue(first) ==
  /\ values = << >>
  /\ next = 0
  /\ bytes = 0
  /\ receivers = [r \in {first} |-> 0]
  /\ born = {first}

-----------------------------------------------------------------------------
(* Sender *)

\* An event fits once the k oldest entries are gone; an oversized one fits
\* beside nothing.
Fits(k, e) ==
  /\ Size(e) <= ByteLimit
  /\ Len(values) - k < Capacity
  /\ bytes - Weight(SubSeq(values, 1, k)) + Size(e) <= ByteLimit

\* send pops the oldest entry until the event fits or the ring is empty.
Evicts(k, e) ==
  /\ k < Len(values) => Fits(k, e)
  /\ \A j \in 0..(k - 1) : ~Fits(j, e)

\* Mutant: an oversized event is retained.
RetainedAlways(e) == <<[seq |-> next, event |-> e]>>

\* An oversized event takes a position but is not retained.
Retained(e) ==
  IF Size(e) <= ByteLimit THEN <<[seq |-> next, event |-> e]>> ELSE << >>

Subscribe(r) ==
  /\ r \notin born
  /\ born' = born \union {r}
  /\ receivers' = [x \in DOMAIN receivers \union {r} |->
                     IF x = r THEN next ELSE receivers[x]]
  /\ UNCHANGED <<values, next, bytes>>

\* With no receiver left send fails and nothing changes.
Send(e) ==
  /\ DOMAIN receivers # {}
  /\ \E k \in 0..Len(values) :
       /\ Evicts(k, e)
       /\ values' = SubSeq(values, k + 1, Len(values)) \o Retained(e)
       /\ bytes' = bytes - Weight(SubSeq(values, 1, k)) + Weight(Retained(e))
  /\ next' = next + 1
  /\ UNCHANGED <<receivers, born>>

-----------------------------------------------------------------------------
(* Receiver *)

\* The position of the oldest entry kept, or of the next event.
First == IF values = << >> THEN next ELSE values[1].seq

\* release_consumed: pop the front entries that every cursor in cs has passed.
Passed(i, cs) == \A r \in DOMAIN cs : values[i].seq < cs[r]

Release(cs) ==
  \E n \in 0..Len(values) :
    /\ \A i \in 1..n : Passed(i, cs)
    /\ n < Len(values) => ~Passed(n + 1, cs)
    /\ values' = SubSeq(values, n + 1, Len(values))
    /\ bytes' = bytes - Weight(SubSeq(values, 1, n))

MoveTo(r, position) ==
  LET moved == [receivers EXCEPT ![r] = position]
  IN /\ receivers' = moved
     /\ Release(moved)
     /\ UNCHANGED <<next, born>>

Lagging(r) == receivers[r] < First
\* Mutant: off by one.
MissedOneLess(r) == First - receivers[r] - 1
Missed(r) == First - receivers[r]
Readable(r) == ~Lagging(r) /\ receivers[r] < next
CaughtUp(r) == ~Lagging(r) /\ receivers[r] >= next
EventAt(r) == values[receivers[r] - First + 1].event

\* try_recv, the branch that reports a lag.
RecvLagged(r) ==
  /\ r \in DOMAIN receivers
  /\ Lagging(r)
  /\ MoveTo(r, First)

\* try_recv, the branch that returns EventAt(r).
RecvValue(r) ==
  /\ r \in DOMAIN receivers
  /\ Readable(r)
  /\ MoveTo(r, receivers[r] + 1)

\* Drop for Receiver.
DropReceiver(r) ==
  /\ r \in DOMAIN receivers
  /\ LET left == [x \in DOMAIN receivers \ {r} |-> receivers[x]]
     IN receivers' = left /\ Release(left)
  /\ UNCHANGED <<next, born>>

=============================================================================
