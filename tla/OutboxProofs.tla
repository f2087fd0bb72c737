---------------------------- MODULE OutboxProofs ----------------------------
(* The safety properties of Outbox, for any items, kinds and budgets.       *)
EXTENDS Outbox, TLAPS

\* The delivery task of a kind holds an item of that kind or none, and what it has
\* learnt is true.
DeliveryOK ==
    \A k \in Kinds :
        /\ delivery[k].item # None => KindOf[delivery[k].item] = k
        /\ delivery[k].item = None => delivery[k].outcome = "none"
        /\ delivery[k].outcome = "delivered" => delivery[k].item \in applied

IInv == TypeOK /\ DeliveryOK /\ SendingInFlight /\ DeliveredWasTaken

-----------------------------------------------------------------------------
\* The step lemmas below go action by action over Next; these are the steps that
\* leave the deliveries and what the target took alone.
TableStep ==
    \/ \E i \in Items : \/ Enqueue(i) \/ CancelRead(i) \/ CancelWrite(i) \/ RetryRead(i) \/ RetryWrite(i)
                        \/ BackOffEnds(i) \/ ExpiryPasses(i) \/ PassExpire(i) \/ PassFail(i)
    \/ PassBegin \/ PassReadQueued \/ PassReadDue \/ PassEnd
    \/ GoOffline \/ ComeOnline \/ Remove

\* The actions of Next, grouped for the proofs.
LEMMA NextCases ==
    ASSUME Next
    PROVE  \/ TableStep \/ Restart
           \/ \E i \in Items : PassStart(i)
           \/ \E k \in Kinds : Answered(k) \/ Lost(k) \/ Unreachable(k) \/ Finish(k)
  BY DEF Next, Pass, Deliver, TableStep

\* The initial states satisfy the invariant.
LEMMA InitIInv == Init => IInv
<1> SUFFICES ASSUME Init PROVE IInv
    OBVIOUS
<1>1. TypeOK
    BY OutboxAssumption DEF Init, TypeOK, Idle, NoDelivery
<1>2. DeliveryOK
    BY DEF Init, DeliveryOK, NoDelivery
<1>3. SendingInFlight /\ DeliveredWasTaken
    BY DEF Init, SendingInFlight, DeliveredWasTaken
<1> QED BY <1>1, <1>2, <1>3 DEF IInv

\* Every step keeps the types.
LEMMA TypeStep == TypeOK /\ [Next]_vars => TypeOK'
<1> SUFFICES ASSUME TypeOK, [Next]_vars PROVE TypeOK'
    OBVIOUS
<1> USE OutboxAssumption DEF table, target, Budget, Waiting, Ended
<1>1. CASE UNCHANGED vars
    BY <1>1 DEF vars, TypeOK
<1>2. ASSUME NEW i \in Items, Enqueue(i) PROVE TypeOK'
    BY <1>2 DEF TypeOK, Enqueue, Write
<1>3. ASSUME NEW i \in Items, CancelRead(i) \/ RetryRead(i) PROVE TypeOK'
  <2>1. left' \in Budget
      BY <1>3 DEF TypeOK, CancelRead, RetryRead
  <2>2. request' \in [Items -> {"none", "cancel", "retry"}]
      BY <1>3 DEF TypeOK, CancelRead, RetryRead
  <2> QED BY <1>3, <2>1, <2>2, Zenon DEF TypeOK, CancelRead, RetryRead
<1>4. ASSUME NEW i \in Items, CancelWrite(i) \/ RetryWrite(i) PROVE TypeOK'
    BY <1>4 DEF TypeOK, CancelWrite, RetryWrite, Write
<1>5. ASSUME NEW i \in Items, BackOffEnds(i) \/ ExpiryPasses(i) PROVE TypeOK'
    BY <1>5 DEF TypeOK, BackOffEnds, ExpiryPasses
<1>6. ASSUME NEW i \in Items, PassExpire(i) \/ PassFail(i) PROVE TypeOK'
  <2>1. worker' \in [part : {"idle", "expire", "fail", "start"}, todo : SUBSET Items]
      BY <1>6 DEF TypeOK, PassExpire, PassFail, Visited
  <2> QED
      BY <1>6, <2>1 DEF TypeOK, PassExpire, PassFail, Write
<1>7. ASSUME NEW i \in Items, PassStart(i) PROVE TypeOK'
  <2>1. worker' \in [part : {"idle", "expire", "fail", "start"}, todo : SUBSET Items]
      BY <1>7 DEF TypeOK, PassStart, Visited
  <2>2. KindOf[i] \in Kinds
      OBVIOUS
  <2>3. state' \in [Items -> {"none"} \union Waiting \union Ended]
      BY <1>7 DEF TypeOK, PassStart, Write
  <2>4. delivery' = delivery \/ delivery' = [delivery EXCEPT ![KindOf[i]] = [item |-> i, outcome |-> "none"]]
      BY <1>7 DEF PassStart
  <2>5. delivery' \in [Kinds -> [item : Items \union {None}, outcome : {"none", "delivered", "failed", "retry"}]]
      BY <2>2, <2>4 DEF TypeOK
  <2> QED
      BY <1>7, <2>1, <2>3, <2>5 DEF TypeOK, PassStart
<1>8. CASE PassBegin \/ PassReadQueued \/ PassReadDue \/ PassEnd
    BY <1>8 DEF TypeOK, PassBegin, PassReadQueued, PassReadDue, PassEnd, Turn, Idle
<1>9. ASSUME NEW k \in Kinds, Answered(k) \/ Lost(k) \/ Unreachable(k) PROVE TypeOK'
  <2>1. delivery[k].item \in Items
      BY <1>9 DEF TypeOK, DeliveryOK, Answered, Lost, Unreachable, Calling, NoDelivery
  <2>2. \E o \in {"delivered", "failed", "retry"} : delivery' = [delivery EXCEPT ![k].outcome = o]
      BY <1>9 DEF Answered, Lost, Unreachable, Answer
  <2>3. delivery' \in [Kinds -> [item : Items \union {None}, outcome : {"none", "delivered", "failed", "retry"}]]
      BY <2>2 DEF TypeOK
  <2>4. applied' \subseteq Items /\ left' \in Budget
      BY <1>9, <2>1 DEF TypeOK, Answered, Lost, Unreachable
  <2> QED
      BY <1>9, <2>3, <2>4 DEF TypeOK, Answered, Lost, Unreachable
<1>10. ASSUME NEW k \in Kinds, Finish(k) PROVE TypeOK'
  <2>1. /\ delivery[k].outcome \in {"delivered", "failed", "retry"}
        /\ delivery \in [Kinds -> [item : Items \union {None}, outcome : {"none", "delivered", "failed", "retry"}]]
        /\ state \in [Items -> {"none"} \union Waiting \union Ended]
      BY <1>10 DEF TypeOK, Finish
  <2>2. state' \in [Items -> {"none"} \union Waiting \union Ended]
      BY <1>10, <2>1 DEF Finish, Write, Recorded, Waiting, Ended
  <2>3. delivery' \in [Kinds -> [item : Items \union {None}, outcome : {"none", "delivered", "failed", "retry"}]]
      BY <1>10, <2>1 DEF Finish, NoDelivery
  <2>4. due' \subseteq Items
      BY <1>10 DEF TypeOK, Finish
  <2>5. UNCHANGED <<row, rows, overdue, worker, request, target, left>>
      BY <1>10 DEF Finish
  <2> QED
      BY <2>2, <2>3, <2>4, <2>5 DEF TypeOK, target
<1>11. CASE GoOffline \/ ComeOnline \/ Remove
  <2>1. member' \in BOOLEAN /\ online' \in BOOLEAN
      BY <1>11, Zenon DEF TypeOK, GoOffline, ComeOnline, Remove
  <2>2. left' \in Budget /\ UNCHANGED <<table, worker, delivery, request, applied>>
      BY <1>11 DEF TypeOK, GoOffline, ComeOnline, Remove
  <2> QED
      BY <2>1, <2>2 DEF TypeOK
<1>12. CASE Restart
  <2>1. state' \in [Items -> {"none"} \union Waiting \union Ended] /\ due' \subseteq Items
      BY <1>12 DEF TypeOK, Restart, Waiting
  <2>2. worker' \in [part : {"idle", "expire", "fail", "start"}, todo : SUBSET Items]
      BY <1>12 DEF Restart, Idle
  <2>3. delivery' \in [Kinds -> [item : Items \union {None}, outcome : {"none", "delivered", "failed", "retry"}]]
      BY <1>12 DEF Restart, NoDelivery
  <2>4. request' \in [Items -> {"none", "cancel", "retry"}] /\ left' \in Budget
      BY <1>12 DEF TypeOK, Restart, Budget
  <2>5. UNCHANGED <<row, rows, overdue, target>>
      BY <1>12 DEF Restart
  <2> QED
      BY <2>1, <2>2, <2>3, <2>4, <2>5 DEF TypeOK, target
<1> QED
    BY <1>1, <1>2, <1>3, <1>4, <1>5, <1>6, <1>7, <1>8, <1>9, <1>10, <1>11, <1>12, NextCases DEF TableStep

-----------------------------------------------------------------------------
\* A row changes hands only with its delivery: a step on the table sends nothing
\* and reports nothing as delivered.
LEMMA TableStepKeeps ==
    ASSUME TypeOK, TableStep
    PROVE  /\ UNCHANGED <<delivery, applied>>
           /\ \A j \in Items : state'[j] # state[j] => state'[j] \notin {"sending", "delivered"}
           /\ \A j \in Items : state'[j] # state[j] /\ member => state'[j] # "failed"
<1> USE DEF target, table
<1>1. ASSUME NEW i \in Items,
             \/ Enqueue(i) \/ CancelRead(i) \/ CancelWrite(i) \/ RetryRead(i) \/ RetryWrite(i)
             \/ BackOffEnds(i) \/ ExpiryPasses(i) \/ PassExpire(i) \/ PassFail(i)
      PROVE  /\ UNCHANGED <<delivery, applied>>
             /\ \/ state' = state
                \/ \E s \in {"queued", "cancelled", "expired", "failed"} :
                       state' = [state EXCEPT ![i] = s] /\ (s = "failed" => ~member)
    BY <1>1 DEF Enqueue, CancelRead, CancelWrite, RetryRead, RetryWrite, BackOffEnds, ExpiryPasses,
                PassExpire, PassFail, Write
<1>2. CASE PassBegin \/ PassReadQueued \/ PassReadDue \/ PassEnd \/ GoOffline \/ ComeOnline \/ Remove
  <2>1. UNCHANGED <<delivery, applied, state>>
      BY <1>2 DEF PassBegin, PassReadQueued, PassReadDue, PassEnd, GoOffline, ComeOnline, Remove
  <2> QED BY <2>1
<1>3. ASSUME NEW i \in Items, NEW s \in {"queued", "cancelled", "expired", "failed"},
             state' = [state EXCEPT ![i] = s], s = "failed" => ~member
      PROVE  /\ \A j \in Items : state'[j] # state[j] => state'[j] \notin {"sending", "delivered"}
             /\ \A j \in Items : state'[j] # state[j] /\ member => state'[j] # "failed"
    BY <1>3 DEF TypeOK
<1> QED BY <1>1, <1>2, <1>3 DEF TableStep

\* Every step keeps what the delivery tasks know.
LEMMA DeliveryStep == IInv /\ [Next]_vars => DeliveryOK'
<1> SUFFICES ASSUME IInv, [Next]_vars PROVE DeliveryOK'
    OBVIOUS
<1> USE OutboxAssumption DEF IInv, target, table
<1>1. CASE UNCHANGED vars
    BY <1>1 DEF vars, DeliveryOK
<1>2. CASE TableStep
  <2>1. UNCHANGED <<delivery, applied>>
      BY <1>2, TableStepKeeps
  <2> QED BY <2>1 DEF DeliveryOK
<1>3. CASE Restart
    BY <1>3 DEF Restart, DeliveryOK, NoDelivery
<1>4. ASSUME NEW i \in Items, PassStart(i) PROVE DeliveryOK'
  <2>1. delivery' = delivery \/ delivery' = [delivery EXCEPT ![KindOf[i]] = [item |-> i, outcome |-> "none"]]
      BY <1>4 DEF PassStart
  <2>2. applied' = applied
      BY <1>4 DEF PassStart
  <2> QED BY <2>1, <2>2 DEF DeliveryOK, TypeOK
<1>5. ASSUME NEW k \in Kinds, Answered(k) \/ Lost(k) \/ Unreachable(k) PROVE DeliveryOK'
  <2>1. delivery[k].item # None
      BY <1>5 DEF TypeOK, Answered, Lost, Unreachable, Calling, NoDelivery
  <2>2. PICK o \in {"delivered", "failed", "retry"} :
            /\ delivery' = [delivery EXCEPT ![k].outcome = o]
            /\ o = "delivered" => delivery[k].item \in applied'
            /\ applied \subseteq applied'
      BY <1>5 DEF Answered, Lost, Unreachable, Answer
  <2> QED BY <2>1, <2>2 DEF DeliveryOK, TypeOK
<1>6. ASSUME NEW k \in Kinds, Finish(k) PROVE DeliveryOK'
  <2>1. delivery' = [delivery EXCEPT ![k] = NoDelivery] /\ applied' = applied
      BY <1>6 DEF Finish
  <2> QED BY <2>1 DEF DeliveryOK, TypeOK, NoDelivery
<1> QED BY <1>1, <1>2, <1>3, <1>4, <1>5, <1>6, NextCases

\* A delivery task that is done wrote only the row it held, and takes it out of
\* `sending`.
LEMMA FinishWrites ==
    ASSUME IInv, NEW k \in Kinds, Finish(k)
    PROVE  LET i == delivery[k].item IN
             /\ i \in Items /\ KindOf[i] = k
             /\ \/ state' = state /\ state[i] # "sending"
                \/ /\ state[i] = "sending"
                   /\ state' = [state EXCEPT ![i] = Recorded(delivery[k].outcome)]
<1>1. delivery[k].item \in Items /\ KindOf[delivery[k].item] = k
    BY DEF IInv, DeliveryOK, TypeOK, Finish
<1> QED BY <1>1 DEF Finish, Write

\* Every step keeps an item that is being sent with a delivery of its kind.
LEMMA SendingStep == IInv /\ [Next]_vars => SendingInFlight'
<1> SUFFICES ASSUME IInv, [Next]_vars, NEW j \in Items, state'[j] = "sending"
             PROVE  delivery'[KindOf[j]].item = j
    BY DEF SendingInFlight
<1> USE OutboxAssumption DEF IInv
<1>0. KindOf[j] \in Kinds /\ j # None
    OBVIOUS
<1>1. CASE UNCHANGED vars
    BY <1>1 DEF vars, table, SendingInFlight
<1>2. CASE TableStep
    BY <1>2, TableStepKeeps DEF SendingInFlight
<1>3. CASE Restart
    BY <1>3 DEF Restart, TypeOK
<1>4. ASSUME NEW i \in Items, PassStart(i) PROVE delivery'[KindOf[j]].item = j
  <2>1. CASE UNCHANGED <<state, delivery>>
      BY <2>1 DEF SendingInFlight
  <2>2. CASE /\ delivery[KindOf[i]] = NoDelivery
             /\ state' = [state EXCEPT ![i] = "sending"]
             /\ delivery' = [delivery EXCEPT ![KindOf[i]] = [item |-> i, outcome |-> "none"]]
    <3>1. CASE j = i
        BY <2>2, <3>1, <1>0 DEF TypeOK
    <3>2. CASE j # i
      <4>1. delivery[KindOf[j]].item = j
          BY <2>2, <3>2 DEF TypeOK, SendingInFlight
      <4>2. KindOf[j] # KindOf[i]
          BY <4>1, <2>2, <1>0 DEF NoDelivery
      <4> QED BY <4>1, <4>2, <2>2, <1>0 DEF TypeOK
    <3> QED BY <3>1, <3>2
  <2> QED BY <1>4, <2>1, <2>2 DEF PassStart, Write
<1>5. ASSUME NEW k \in Kinds, Answered(k) \/ Lost(k) \/ Unreachable(k) PROVE delivery'[KindOf[j]].item = j
  <2>1. state' = state /\ \E o \in {"delivered", "failed", "retry"} : delivery' = [delivery EXCEPT ![k].outcome = o]
      BY <1>5 DEF Answered, Lost, Unreachable, Answer, table
  <2> QED BY <2>1, <1>0 DEF SendingInFlight, TypeOK
<1>6. ASSUME NEW k \in Kinds, Finish(k) PROVE delivery'[KindOf[j]].item = j
  <2> DEFINE i == delivery[k].item
  <2>1. i \in Items /\ KindOf[i] = k /\ state[j] = "sending" /\ j # i
      BY <1>6, FinishWrites DEF TypeOK, Recorded
  <2>2. delivery[KindOf[j]].item = j /\ KindOf[j] # k
      BY <2>1 DEF SendingInFlight
  <2>3. delivery' = [delivery EXCEPT ![k] = NoDelivery]
      BY <1>6 DEF Finish
  <2> QED BY <2>2, <2>3, <1>0 DEF TypeOK
<1> QED BY <1>1, <1>2, <1>3, <1>4, <1>5, <1>6, NextCases

\* Every step keeps what is delivered with the target.
LEMMA DeliveredStep == IInv /\ [Next]_vars => DeliveredWasTaken'
<1> SUFFICES ASSUME IInv, [Next]_vars, NEW j \in Items, state'[j] = "delivered"
             PROVE  j \in applied'
    BY DEF DeliveredWasTaken
<1> USE DEF IInv, DeliveredWasTaken
<1>1. CASE UNCHANGED vars
    BY <1>1 DEF vars, table, target
<1>2. CASE TableStep
    BY <1>2, TableStepKeeps
<1>3. CASE Restart
    BY <1>3 DEF Restart, TypeOK, target
<1>4. ASSUME NEW i \in Items, PassStart(i) PROVE j \in applied'
    BY <1>4 DEF PassStart, Write, TypeOK, target
<1>5. ASSUME NEW k \in Kinds, Answered(k) \/ Lost(k) \/ Unreachable(k) PROVE j \in applied'
  <2>1. state' = state /\ applied \subseteq applied'
      BY <1>5 DEF Answered, Lost, Unreachable, table, target
  <2> QED BY <2>1
<1>6. ASSUME NEW k \in Kinds, Finish(k) PROVE j \in applied'
  <2>1. applied' = applied
      BY <1>6 DEF Finish, target
  <2> DEFINE i == delivery[k].item
  <2>2. CASE state[j] = "delivered"
      BY <2>1, <2>2
  <2>3. CASE state[j] # "delivered"
    <3>1. j = i /\ Recorded(delivery[k].outcome) = "delivered"
        BY <1>6, <2>3, FinishWrites DEF TypeOK
    <3>2. delivery[k].outcome = "delivered"
        BY <3>1 DEF Recorded
    <3> QED BY <3>1, <3>2, <2>1 DEF DeliveryOK
  <2> QED BY <2>2, <2>3
<1> QED BY <1>1, <1>2, <1>3, <1>4, <1>5, <1>6, NextCases

-----------------------------------------------------------------------------
\* The invariant of the outbox holds in every reachable state: the table, the
\* worker and the delivery tasks stay well formed, and each delivery holds an item
\* of its own kind.
THEOREM Invariance == Spec => []IInv
<1>1. IInv /\ [Next]_vars => IInv'
    BY TypeStep, DeliveryStep, SendingStep, DeliveredStep DEF IInv
<1> QED BY InitIInv, <1>1, PTL DEF Spec

\* Type correctness for any items, kinds and budgets.
THEOREM TypeCorrect == Spec => []TypeOK
<1>1. IInv => TypeOK
    BY DEF IInv
<1> QED BY <1>1, Invariance, PTL

\* No row is left in `sending` with nobody to finish it (in_flight, outbox_claim
\* and outbox_requeue_sending together).
THEOREM NoneStuckSending == Spec => []SendingInFlight
<1>1. IInv => SendingInFlight
    BY DEF IInv
<1> QED BY <1>1, Invariance, PTL

\* The outbox never reports a delivery the target did not take.
THEOREM DeliveredIsTrue == Spec => []DeliveredWasTaken
<1>1. IInv => DeliveredWasTaken
    BY DEF IInv
<1> QED BY <1>1, Invariance, PTL

\* A cancelled item is neither sent nor reported as delivered by a late delivery or
\* a pass that read it before the cancel.
THEOREM CancelWins == Spec => CancelSticks
<1>1. ASSUME IInv, [Next]_vars, NEW j \in Items, state[j] = "cancelled"
      PROVE  state'[j] \notin {"sending", "delivered"}
  <2> USE <1>1 DEF IInv
  <2>1. CASE UNCHANGED vars
      BY <2>1 DEF vars, table
  <2>2. CASE TableStep
      BY <2>2, TableStepKeeps
  <2>3. CASE Restart
      BY <2>3 DEF Restart, TypeOK
  <2>4. ASSUME NEW i \in Items, PassStart(i) PROVE state'[j] \notin {"sending", "delivered"}
      BY <2>4 DEF PassStart, Write, TypeOK
  <2>5. ASSUME NEW k \in Kinds, Answered(k) \/ Lost(k) \/ Unreachable(k)
        PROVE  state'[j] \notin {"sending", "delivered"}
      BY <2>5 DEF Answered, Lost, Unreachable, table
  <2>6. ASSUME NEW k \in Kinds, Finish(k) PROVE state'[j] \notin {"sending", "delivered"}
      BY <2>6, FinishWrites DEF TypeOK
  <2> QED BY <2>1, <2>2, <2>3, <2>4, <2>5, <2>6, NextCases
<1>2. IInv /\ [Next]_vars =>
        [\A i \in Items : state[i] = "cancelled" => state'[i] \notin {"sending", "delivered"}]_state
    BY <1>1
<1> QED BY <1>2, Invariance, PTL DEF Spec, CancelSticks

\* Only a refusal of the target, or its leaving the network, fails an item.
THEOREM FailuresHaveReasons == Spec => FailsForAReason
<1>1. ASSUME IInv, [Next]_vars, NEW j \in Items, state[j] # "failed", state'[j] = "failed", member
      PROVE  delivery[KindOf[j]] = [item |-> j, outcome |-> "failed"]
  <2> USE <1>1 DEF IInv
  <2>1. ~UNCHANGED vars /\ ~TableStep
      BY TableStepKeeps DEF vars, table
  <2>2. ~Restart
      BY DEF Restart, TypeOK
  <2>3. \A i \in Items : ~PassStart(i)
      BY DEF PassStart, Write, TypeOK
  <2>4. \A k \in Kinds : ~Answered(k) /\ ~Lost(k) /\ ~Unreachable(k)
      BY DEF Answered, Lost, Unreachable, table
  <2>5. PICK k \in Kinds : Finish(k)
      BY <2>1, <2>2, <2>3, <2>4, NextCases
  <2>6. delivery[k].item = j /\ KindOf[j] = k /\ Recorded(delivery[k].outcome) = "failed"
      BY <2>5, FinishWrites DEF TypeOK
  <2>7. delivery[k].outcome = "failed"
      BY <2>6 DEF Recorded
  <2> QED BY <2>6, <2>7 DEF TypeOK
<1>2. IInv /\ [Next]_vars =>
        [\A i \in Items : state[i] # "failed" /\ state'[i] = "failed" =>
            ~member \/ delivery[KindOf[i]] = [item |-> i, outcome |-> "failed"]]_state
    BY <1>1
<1> QED BY <1>2, Invariance, PTL DEF Spec, FailsForAReason

=============================================================================
