---------------------------- MODULE BroadcastRecv ----------------------------
(***************************************************************************)
(* BoundedBroadcast with the tasks that use it: senders, and receivers in  *)
(* the loop of Receiver::recv, which polls the ring and, when it is empty, *)
(* sleeps on a watch channel whose version each send bumps.  A send may    *)
(* fall between the poll that found the ring empty and the sleep.          *)
(*                                                                         *)
(* sent and account are history: the events sent, by position, and what    *)
(* each receiver was told about each position since it subscribed, the     *)
(* event itself or Lost when recv reported it among the missed.            *)
(***************************************************************************)
EXTENDS BoundedBroadcast

CONSTANTS
  FirstReceiver,  \* the receiver channel() returns
  Lost,           \* what a receiver was told of an event it missed
  MaxSend         \* bound: sends in a behaviour

ASSUME FirstAssumption == FirstReceiver \in Receivers
ASSUME LostAssumption == Lost \notin Events
ASSUME MaxSendAssumption == MaxSend \in Nat

VARIABLES
  version,      \* of the watch channel
  open,         \* a sender is left
  seen,         \* the version each receiver saw last
  waiting,      \* receivers asleep in changed().await
  closed,       \* receivers that were told the channel closed
  sent, account, start

recvVars == <<version, open, seen, waiting, closed>>
historyVars == <<sent, account, start>>
vars == <<queueVars, recvVars, historyVars>>

Init ==
  /\ InitQueue(FirstReceiver)
  /\ version = 0
  /\ open = TRUE
  /\ seen = [r \in Receivers |-> 0]
  /\ waiting = {}
  /\ closed = {}
  /\ sent = << >>
  /\ account = [r \in Receivers |-> << >>]
  /\ start = [r \in Receivers |-> 0]

SenderSubscribe(r) ==
  /\ open
  /\ Subscribe(r)
  /\ seen' = [seen EXCEPT ![r] = version]
  /\ start' = [start EXCEPT ![r] = next]
  /\ UNCHANGED <<version, open, waiting, closed, sent, account>>

\* Mutant: an event that is not kept wakes nobody.
SenderSendQuiet(e) ==
  /\ open
  /\ Len(sent) < MaxSend
  /\ Send(e)
  /\ version' = IF Size(e) > ByteLimit THEN version ELSE next'
  /\ sent' = Append(sent, e)
  /\ UNCHANGED <<open, seen, waiting, closed, account, start>>

SenderSend(e) ==
  /\ open
  /\ Len(sent) < MaxSend
  /\ Send(e)
  /\ version' = next'
  /\ sent' = Append(sent, e)
  /\ UNCHANGED <<open, seen, waiting, closed, account, start>>

\* The last Sender is dropped.
CloseSender ==
  /\ open
  /\ open' = FALSE
  /\ UNCHANGED <<queueVars, version, seen, waiting, closed, historyVars>>

\* A receiver that is not asleep polls.
Polling(r) == r \in DOMAIN receivers \ (waiting \union closed)

PollValue(r) ==
  /\ Polling(r)
  /\ RecvValue(r)
  /\ account' = [account EXCEPT ![r] = Append(@, EventAt(r))]
  /\ UNCHANGED <<recvVars, sent, start>>

PollLagged(r) ==
  /\ Polling(r)
  /\ RecvLagged(r)
  /\ account' = [account EXCEPT ![r] = @ \o [i \in 1..Missed(r) |-> Lost]]
  /\ UNCHANGED <<recvVars, sent, start>>

PollEmpty(r) ==
  /\ Polling(r)
  /\ CaughtUp(r)
  /\ IF open
       THEN waiting' = waiting \union {r} /\ UNCHANGED closed
       ELSE closed' = closed \union {r} /\ UNCHANGED waiting
  /\ UNCHANGED <<queueVars, version, open, seen, historyVars>>

\* changed().await returns: a version it has not seen, or no sender left.
Wake(r) ==
  /\ r \in waiting
  /\ seen[r] # version \/ ~open
  /\ waiting' = waiting \ {r}
  /\ seen' = [seen EXCEPT ![r] = version]
  /\ UNCHANGED <<queueVars, version, open, closed, historyVars>>

\* Mutant: a dropped receiver stays registered as asleep.
LeaveAsleep(r) ==
  /\ DropReceiver(r)
  /\ UNCHANGED <<recvVars, historyVars>>

\* A receiver is dropped in the middle of recv too: the socket's select.
Leave(r) ==
  /\ DropReceiver(r)
  /\ waiting' = waiting \ {r}
  /\ UNCHANGED <<version, open, seen, closed, historyVars>>

ReceiverStep(r) == PollValue(r) \/ PollLagged(r) \/ PollEmpty(r) \/ Wake(r)

Next ==
  \/ \E r \in Receivers : SenderSubscribe(r)
  \/ \E e \in Events : SenderSend(e)
  \/ CloseSender
  \/ \E r \in Receivers : ReceiverStep(r)
  \/ \E r \in Receivers : Leave(r)

Spec == Init /\ [][Next]_vars

\* A live receiver keeps calling recv; nobody has to send, leave or close.
FairSpec == Spec /\ \A r \in Receivers : WF_vars(ReceiverStep(r))

-----------------------------------------------------------------------------
TypeOK ==
  /\ values \in Seq(Entry)
  /\ next \in Nat
  /\ born \subseteq Receivers
  /\ DOMAIN receivers \subseteq born
  /\ \A r \in DOMAIN receivers : receivers[r] \in Nat
  /\ version \in Nat
  /\ open \in BOOLEAN
  /\ seen \in [Receivers -> Nat]
  /\ waiting \subseteq DOMAIN receivers
  /\ closed \subseteq Receivers
  /\ sent \in Seq(Events)
  /\ account \in [Receivers -> Seq(Events \union {Lost})]
  /\ start \in [Receivers -> Nat]

\* try_recv indexes the ring with cursor - first.  That reads the right event
\* only while the ring holds consecutive positions up to the last event sent,
\* which an oversized event, given a position but not kept, must not break.
RingContiguous ==
  /\ \A i \in 1..Len(values) : values[i].seq = next - Len(values) + i - 1
  /\ \A i \in 1..Len(values) : values[i].event = sent[values[i].seq + 1]

\* The byte counter equals what the ring holds after every eviction, release
\* and drop, and neither limit is exceeded.
WithinBudget ==
  /\ bytes = Weight(values)
  /\ bytes <= ByteLimit
  /\ Len(values) <= Capacity

\* A lag is explicit: from the moment it subscribed a receiver has been told
\* of every position below its cursor, once and in order, either the event
\* sent there or that it was lost.
NoSilentGap ==
  \A r \in DOMAIN receivers :
    /\ Len(account[r]) = receivers[r] - start[r]
    /\ \A i \in 1..Len(account[r]) :
         account[r][i] \in {sent[start[r] + i], Lost}

\* Nothing is retained for nobody: the oldest entry is one that some live
\* receiver has still to read, whoever left or caught up before.
ReleasedOnceConsumed ==
  values # << >> => \E r \in DOMAIN receivers : receivers[r] <= values[1].seq

\* A receiver asleep on the watch channel while an event is there for it has
\* not seen the channel's version: its changed().await returns.
NoLostWakeup == \A r \in waiting : receivers[r] < next => seen[r] # version

\* recv answers "closed" only to a receiver that was told of every event.
ClosedAtEnd == \A r \in closed \cap DOMAIN receivers : ~open /\ receivers[r] = next

\* No lost wakeup: a receiver that keeps calling recv hears of every event and
\* of the close, also of one sent between its last poll and its sleep, unless it
\* leaves.
EveryEventHeard ==
  \A r \in Receivers :
    /\ \A n \in 1..MaxSend :
         (r \in DOMAIN receivers /\ next >= n)
           ~> (r \in DOMAIN receivers => receivers[r] >= n)
    /\ ~open ~> (r \in DOMAIN receivers => r \in closed)

=============================================================================
