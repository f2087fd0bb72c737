------------------------------- MODULE Outbox -------------------------------
(***************************************************************************)
(* The outbox of one daemon (crates/kybern-daemon/src/network/outbox.rs):  *)
(* work for another machine waits in a durable table; a worker expires,    *)
(* fails or claims what it finds there and starts one delivery per kind,   *)
(* users cancel and retry items, and a restart may come at any step.       *)
(*                                                                         *)
(* One target machine, and one request of a user at a time for one item.   *)
(* The table's calls are atomic, what happens between two calls is not: a  *)
(* reader writes back a row it read before.  Left out: the coalescing of   *)
(* item edits, and what a settled item means to the work that queued it.   *)
(* The target is external: it takes an operation once and answers a        *)
(* repeated one with its first result.                                     *)
(***************************************************************************)
EXTENDS Naturals, FiniteSets

CONSTANTS
    Items,        \* the items ever queued; each is one operation_id
    Kinds,        \* kinds of work
    KindOf,       \* the kind of each item
    None,
    Budgets       \* bounds: lost calls or answers, outages of the target, cancels
                  \* and retries of users, restarts of the daemon

Budget == [losses : Nat, outages : Nat, requests : Nat, restarts : Nat]

ASSUME OutboxAssumption ==
    /\ KindOf \in [Items -> Kinds]
    /\ None \notin Items
    /\ Budgets \subseteq Budget

VARIABLES
    state,      \* of each item's row; "none" before it is queued
    row,        \* the order in which the items were queued, 0 before
    due,        \* items whose next_attempt_at has passed (or is not set)
    overdue,    \* items whose expires_at has passed
    worker,     \* the worker's pass: its part, and the rows it has still to visit
    delivery,   \* the delivery task of each kind (in_flight)
    request,    \* a cancel or a retry that has read the item's row
    member, online, applied,  \* the target: can be called, and what it took
    rows,       \* how many were queued
    left        \* what is left of the budget

table == <<state, row, due, overdue, rows>>
target == <<member, online, applied>>
vars == <<table, worker, delivery, request, target, left>>

Waiting == {"queued", "sending"}
Ended == {"delivered", "failed", "expired", "cancelled"}
Idle == [part |-> "idle", todo |-> {}]
NoDelivery == [item |-> None, outcome |-> "none"]

Init ==
    /\ state = [i \in Items |-> "none"] /\ row = [i \in Items |-> 0] /\ rows = 0
    /\ due = {} /\ overdue = {}
    /\ worker = Idle
    /\ delivery = [k \in Kinds |-> NoDelivery]
    /\ request = [i \in Items |-> "none"]
    /\ member = TRUE /\ online \in BOOLEAN /\ applied = {}
    /\ left \in Budgets

Write(i, s) == state' = [state EXCEPT ![i] = s]

-----------------------------------------------------------------------------
(* The outbox.* methods.                                                   *)

Enqueue(i) ==
    /\ state[i] = "none" /\ member
    /\ Write(i, "queued")
    /\ row' = [row EXCEPT ![i] = rows + 1] /\ rows' = rows + 1
    /\ due' = due \union {i}
    /\ UNCHANGED <<overdue, worker, delivery, request, target, left>>

\* cancel and retry read the row and decide ...
CancelRead(i) ==
    /\ request[i] = "none" /\ left.requests > 0
    /\ state[i] \in Waiting
    /\ request' = [request EXCEPT ![i] = "cancel"]
    /\ left' = [left EXCEPT !.requests = @ - 1]
    /\ UNCHANGED <<table, worker, delivery, target>>

RetryRead(i) ==
    /\ request[i] = "none" /\ left.requests > 0
    /\ state[i] \in Ended \ {"delivered"} /\ member
    /\ request' = [request EXCEPT ![i] = "retry"]
    /\ left' = [left EXCEPT !.requests = @ - 1]
    /\ UNCHANGED <<table, worker, delivery, target>>

\* ... and write it back whatever it has become.
CancelWrite(i) ==
    /\ request[i] = "cancel"
    /\ request' = [request EXCEPT ![i] = "none"]
    /\ Write(i, "cancelled")
    /\ UNCHANGED <<row, rows, due, overdue, worker, delivery, target, left>>

RetryWrite(i) ==
    /\ request[i] = "retry"
    /\ request' = [request EXCEPT ![i] = "none"]
    /\ Write(i, "queued")
    /\ due' = due \union {i} /\ overdue' = overdue \ {i}
    /\ UNCHANGED <<row, rows, worker, delivery, target, left>>

-----------------------------------------------------------------------------
(* The worker's pass.                                                      *)

Oldest(i, S) == i \in S /\ \A j \in S : row[i] <= row[j]

Turn(part, todo) == worker' = [part |-> part, todo |-> todo]
Visited(i) == worker' = [worker EXCEPT !.todo = @ \ {i}]

\* Rows that ran out are read ...
PassBegin ==
    /\ worker.part = "idle"
    /\ Turn("expire", {i \in overdue : state[i] \in Waiting})
    /\ UNCHANGED <<table, delivery, request, target, left>>

\* ... and written as expired, one by one.
PassExpire(i) ==
    /\ worker.part = "expire" /\ Oldest(i, worker.todo)
    /\ Write(i, "expired")
    /\ overdue' = overdue \union {i}
    /\ Visited(i)
    /\ UNCHANGED <<row, rows, due, delivery, request, target, left>>

PassReadQueued ==
    /\ worker.part = "expire" /\ worker.todo = {}
    /\ Turn("fail", {i \in Items : state[i] = "queued"})
    /\ UNCHANGED <<table, delivery, request, target, left>>

\* What waits for a machine that was removed fails.
PassFail(i) ==
    /\ worker.part = "fail" /\ i \in worker.todo
    /\ IF member THEN UNCHANGED state ELSE Write(i, "failed")
    /\ Visited(i)
    /\ UNCHANGED <<row, rows, due, overdue, delivery, request, target, left>>

PassReadDue ==
    /\ worker.part = "fail" /\ worker.todo = {}
    /\ Turn("start", {i \in due \ overdue : state[i] = "queued"})
    /\ UNCHANGED <<table, delivery, request, target, left>>

\* Mutant: the claim does not look at the row.
PassStartUnclaimed(i) ==
    /\ worker.part = "start" /\ Oldest(i, worker.todo)
    /\ Visited(i)
    /\ IF member /\ online /\ delivery[KindOf[i]] = NoDelivery
         THEN /\ Write(i, "sending")
              /\ delivery' = [delivery EXCEPT ![KindOf[i]] = [item |-> i, outcome |-> "none"]]
         ELSE UNCHANGED <<state, delivery>>
    /\ UNCHANGED <<row, rows, due, overdue, request, target, left>>

\* The oldest due item goes when the target can be reached and no delivery of
\* its kind is under way; outbox_claim takes it only if it is still queued.
PassStart(i) ==
    /\ worker.part = "start" /\ Oldest(i, worker.todo)
    /\ Visited(i)
    /\ IF member /\ online /\ delivery[KindOf[i]] = NoDelivery /\ state[i] = "queued"
         THEN /\ Write(i, "sending")
              /\ delivery' = [delivery EXCEPT ![KindOf[i]] = [item |-> i, outcome |-> "none"]]
         ELSE UNCHANGED <<state, delivery>>
    /\ UNCHANGED <<row, rows, due, overdue, request, target, left>>

PassEnd ==
    /\ worker.part = "start" /\ worker.todo = {}
    /\ worker' = Idle
    /\ UNCHANGED <<table, delivery, request, target, left>>

-----------------------------------------------------------------------------
(* A delivery: the call to the target, then outbox_finish.                 *)

Answer(k, outcome) == delivery' = [delivery EXCEPT ![k].outcome = outcome]
Calling(k) == delivery[k] # NoDelivery /\ delivery[k].outcome = "none"

\* The target takes the operation, or refuses it.
Answered(k) ==
    /\ Calling(k) /\ online
    /\ \/ Answer(k, "delivered") /\ applied' = applied \union {delivery[k].item}
       \/ Answer(k, "failed") /\ UNCHANGED applied
    /\ UNCHANGED <<table, worker, request, member, online, left>>

\* The link loses the call, or the answer of a target that took it, or the target
\* is busy.
Lost(k) ==
    /\ Calling(k) /\ online /\ left.losses > 0
    /\ left' = [left EXCEPT !.losses = @ - 1]
    /\ Answer(k, "retry")
    /\ \/ applied' = applied \union {delivery[k].item}
       \/ UNCHANGED applied
    /\ UNCHANGED <<table, worker, request, member, online>>

Unreachable(k) ==
    /\ Calling(k) /\ ~online
    /\ Answer(k, IF member THEN "retry" ELSE "failed")
    /\ UNCHANGED <<table, worker, request, target, left>>

\* Mutants: an outcome is written as it is; a lost call counts as delivered.
RecordedRaw(outcome) == outcome
RecordedDone(outcome) == IF outcome = "failed" THEN "failed" ELSE "delivered"

Recorded(outcome) == IF outcome = "retry" THEN "queued" ELSE outcome

\* Recorded only on a row that is still being sent: a cancel in between wins.
\* A retry waits for its back-off.
Finish(k) ==
    /\ delivery[k].outcome # "none"
    /\ LET i == delivery[k].item IN
         IF state[i] = "sending"
           THEN /\ Write(i, Recorded(delivery[k].outcome))
                /\ due' = IF delivery[k].outcome = "retry" THEN due \ {i} ELSE due
           ELSE UNCHANGED <<state, due>>
    /\ delivery' = [delivery EXCEPT ![k] = NoDelivery]
    /\ UNCHANGED <<row, rows, overdue, worker, request, target, left>>

-----------------------------------------------------------------------------
(* Time, the target, and a restart.                                        *)

BackOffEnds(i) ==
    /\ state[i] = "queued" /\ i \notin due
    /\ due' = due \union {i}
    /\ UNCHANGED <<state, row, rows, overdue, worker, delivery, request, target, left>>

ExpiryPasses(i) ==
    /\ state[i] \in Waiting /\ i \notin overdue
    /\ overdue' = overdue \union {i}
    /\ UNCHANGED <<state, row, rows, due, worker, delivery, request, target, left>>

GoOffline ==
    /\ online /\ left.outages > 0
    /\ online' = FALSE /\ left' = [left EXCEPT !.outages = @ - 1]
    /\ UNCHANGED <<table, worker, delivery, request, member, applied>>

ComeOnline ==
    /\ member /\ ~online
    /\ online' = TRUE
    /\ UNCHANGED <<table, worker, delivery, request, member, applied, left>>

Remove ==
    /\ member
    /\ member' = FALSE /\ online' = FALSE
    /\ UNCHANGED <<table, worker, delivery, request, applied, left>>

\* Mutant: the rows of interrupted deliveries are left as they are.
RestartOnly ==
    /\ left.restarts > 0
    /\ left' = [left EXCEPT !.restarts = @ - 1]
    /\ worker' = Idle
    /\ delivery' = [k \in Kinds |-> NoDelivery]
    /\ request' = [i \in Items |-> "none"]
    /\ UNCHANGED <<table, target>>

\* outbox_requeue_sending, before the first pass.
Restart ==
    /\ left.restarts > 0
    /\ left' = [left EXCEPT !.restarts = @ - 1]
    /\ state' = [i \in Items |-> IF state[i] = "sending" THEN "queued" ELSE state[i]]
    /\ due' = due \union {i \in Items : state[i] = "sending"}
    /\ worker' = Idle
    /\ delivery' = [k \in Kinds |-> NoDelivery]
    /\ request' = [i \in Items |-> "none"]
    /\ UNCHANGED <<row, rows, overdue, target>>

-----------------------------------------------------------------------------
Pass ==
    \/ PassBegin \/ PassReadQueued \/ PassReadDue \/ PassEnd
    \/ \E i \in Items : PassExpire(i) \/ PassFail(i) \/ PassStart(i)

Deliver(k) == Answered(k) \/ Lost(k) \/ Unreachable(k) \/ Finish(k)

Next ==
    \/ \E i \in Items : \/ Enqueue(i) \/ CancelRead(i) \/ CancelWrite(i) \/ RetryRead(i) \/ RetryWrite(i)
                        \/ BackOffEnds(i) \/ ExpiryPasses(i)
    \/ Pass
    \/ \E k \in Kinds : Deliver(k)
    \/ GoOffline \/ ComeOnline \/ Remove \/ Restart

Spec == Init /\ [][Next]_vars

\* The worker wakes on a kick or a timer; a delivery's call ends; a back-off
\* ends; the target comes back.  Nobody has to cancel, retry or remove.
FairSpec ==
    /\ Spec
    /\ WF_vars(Pass) /\ WF_vars(ComeOnline)
    /\ \A k \in Kinds : WF_vars(Deliver(k))
    /\ \A i \in Items : WF_vars(BackOffEnds(i))

-----------------------------------------------------------------------------
\* Type correctness of the table, the worker and the deliveries.
TypeOK ==
    /\ state \in [Items -> {"none"} \union Waiting \union Ended]
    /\ row \in [Items -> Nat] /\ rows \in Nat
    /\ due \subseteq Items /\ overdue \subseteq Items
    /\ worker \in [part : {"idle", "expire", "fail", "start"}, todo : SUBSET Items]
    /\ delivery \in [Kinds -> [item : Items \union {None}, outcome : {"none", "delivered", "failed", "retry"}]]
    /\ request \in [Items -> {"none", "cancel", "retry"}]
    /\ member \in BOOLEAN /\ online \in BOOLEAN /\ applied \subseteq Items
    /\ left \in Budget

\* An item in `sending` is in the hands of a delivery task of its kind, so it
\* never stays there with nobody to finish it: not after a cancel and a retry
\* while the first delivery is still under way, nor after a restart.
SendingInFlight ==
    \A i \in Items : state[i] = "sending" => delivery[KindOf[i]].item = i

\* The outbox never reports as delivered what the target did not take.
DeliveredWasTaken == \A i \in Items : state[i] = "delivered" => i \in applied

\* A cancel sticks (outbox_finish: "a cancel in between wins"): neither a delivery
\* that comes back late nor a pass that read the row earlier sends the item or
\* marks it delivered.  Only a retry queues it again.
CancelSticks ==
    [][\A i \in Items : state[i] = "cancelled" => state'[i] \notin {"sending", "delivered"}]_state

\* An outage fails nothing: an item fails only when the target refused it or is no
\* longer in the network.
FailsForAReason ==
    [][\A i \in Items : state[i] # "failed" /\ state'[i] = "failed" =>
            ~member \/ delivery[KindOf[i]] = [item |-> i, outcome |-> "failed"]]_state

\* Whatever is queued comes to an end or is delivered, through losses, outages,
\* back-off, cancels, retries and a restart.
Settles == \A i \in Items : state[i] = "queued" ~> state[i] \in Ended

=============================================================================
