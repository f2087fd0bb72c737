-------------------------- MODULE ThreadTurnsProofs --------------------------
(***************************************************************************)
(* The safety of the turn engine, for any messages, sessions, bounds and    *)
(* mishaps.  The invariant is built in layers, each of which needs those    *)
(* before it:                                                               *)
(*   IInv  types, where each task is, and that a turn is named nowhere      *)
(*         before it has begun;                                             *)
(*   SInv  which sessions are out of the map, and who holds them;           *)
(*   CInv  who holds a turn the provider has (Custody), that the status and *)
(*         the log agree, and what holds in a thread nothing hits (Calm);   *)
(*   PInv  who closes a process, behind which barrier (OneReleases);        *)
(*   OInv  what will end each open turn (KeptInv), and why nothing wipes it *)
(*         off its session before;                                          *)
(*   EInv  that only the last turn resumes (LastInv), so that the recovery  *)
(*         after a restart tells no end again.                              *)
(***************************************************************************)
EXTENDS ThreadTurns, TLAPS

\* A task that is on a session knows which, and a pump that settles knows the turn.
Placed ==
    /\ \A m \in Messages :
         starter[m].pc \in {"check", "install", "deliver", "clear"} => starter[m].live \in Sessions
    /\ \A s \in Sessions : pump[s].pc = "settle" => pump[s].turn \in Messages
    /\ stopper.pc # "idle" => stopper.live \in Sessions
    /\ sweeper.pc # "idle" => sweeper.live \in Sessions

\* A turn is on a session, or in a task.
Named(m, s) == turn[s].id = m \/ cont[s].id = m \/ pump[s].turn = m
Unnamed(m) == stopper.turn.id # m /\ \A s \in Sessions : ~Named(m, s)

\* The start_turn task has not put its turn on a session yet.
Early(m) == starter[m].pc \in {"ensure", "spawn", "check", "install"}

\* A turn the log does not know, or that is not on its session yet, is named nowhere.
NamesBegun ==
    \A m \in Messages :
        /\ log[m] = "none" => starter[m].pc = "idle" /\ lastTurn # m /\ Unnamed(m)
        /\ Early(m) => log[m] = "open" /\ Unnamed(m)

\* What waits has not started, and nothing waits in an archived thread.  Before the
\* first turn nothing runs.
QueueOK ==
    /\ \A m \in pending : log[m] = "none"
    /\ status = "Archived" => pending = {}
    /\ lastTurn = None => status \in {"Idle", "Archived"} /\ \A m \in Messages : log[m] = "none"

IInv == TypeOK /\ Placed /\ NamesBegun /\ QueueOK /\ StartedOnce

-----------------------------------------------------------------------------
\* The initial states satisfy the invariant.
LEMMA InitIInv == Init => IInv
<1> SUFFICES ASSUME Init PROVE IInv
    OBVIOUS
<1> USE TurnsAssumption DEF Init
<1>1. TypeOK
  <2>1. left \in Budget
      OBVIOUS
  <2> QED BY <2>1 DEF TypeOK, Statuses, IdleTask, IdleStop, NoPump, NoTurn, ActiveTurn, TaskSteps, PumpSteps
<1>2. Placed
    BY DEF Placed, IdleTask, IdleStop, NoPump
<1>3. NamesBegun
    BY DEF NamesBegun, Named, Unnamed, Early, IdleTask, IdleStop, NoPump, NoTurn
<1>4. QueueOK /\ StartedOnce
    BY DEF QueueOK, StartedOnce
<1> QED BY <1>1, <1>2, <1>3, <1>4 DEF IInv

\* How a step may change the rows of the thread and its event log: what the
\* actions have in common.
Keeps == UNCHANGED <<status, pending, log, lastTurn>>
Begins(m) ==
    /\ log[m] = "none"
    /\ status \in {"Idle", "Failed"} /\ status' = "Running"
    /\ log' = [log EXCEPT ![m] = IF @ = "none" THEN "open" ELSE "twice"]
    /\ lastTurn' = m /\ pending' = pending \ {m}
Ends(m) ==
    /\ log[m] # "none"
    /\ log' = Ended(m) /\ status' \in {"Idle", "Failed", "Archived"}
    /\ status = "Archived" => status' = "Archived"
    /\ status' = "Archived" => status = "Archived"
    /\ UNCHANGED <<pending, lastTurn>>
Resumes(s) == (PumpOutput(s) \/ PumpWakes(s)) /\ s \notin cleanup /\ Reopens(s)
Reopened(m) ==
    /\ log[m] # "none" /\ \E s \in Sessions : Resumes(s) /\ cont[s].id = m
    /\ log' = [log EXCEPT ![m] = IF @ = "again" THEN "again" ELSE "open"]
    /\ status = "Idle" /\ status' = "Running"
    /\ UNCHANGED <<pending, lastTurn>>
Queues(m) ==
    /\ status # "Archived" /\ log[m] = "none"
    /\ pending' = pending \union {m}
    /\ UNCHANGED <<status, log, lastTurn>>
Unqueues(m) == pending' = pending \ {m} /\ UNCHANGED <<status, log, lastTurn>>
Archives == status' = "Archived" /\ pending' = {} /\ UNCHANGED <<log, lastTurn>>
Crashes(m, n) ==
    /\ May("torn") /\ May("restart") /\ log[m] # "none" /\ log[n] # "none"
    /\ log' = EndIn(Ended(m), n)
    /\ status = "Running" /\ status' = "Idle"
    /\ UNCHANGED <<pending, lastTurn>>

DurableStep ==
    \/ Keeps \/ Archives
    \/ \E m \in Messages : Begins(m) \/ Ends(m) \/ Reopened(m) \/ Queues(m) \/ Unqueues(m)
    \/ \E m, n \in Messages : Crashes(m, n)

\* Output on a session leaves the rows alone or reopens a turn that had begun.
LEMMA OutputDurable ==
    ASSUME IInv, NEW s \in Sessions, PumpOutput(s) \/ PumpWakes(s), s \notin cleanup, Output(s)
    PROVE  DurableStep
<1> USE DEF IInv
<1>1. CASE /\ Reopens(s)
           /\ log' = [log EXCEPT ![cont[s].id] = IF @ = "again" THEN "again" ELSE "open"]
           /\ status' = "Running" /\ UNCHANGED <<pending, lastTurn>>
  <2>1. cont[s].id \in Messages
      BY <1>1 DEF TypeOK, Reopens, ActiveTurn
  <2>2. log[cont[s].id] # "none"
      BY <2>1 DEF NamesBegun, Named, Unnamed
  <2>3. Reopened(cont[s].id)
      BY <1>1, <2>2 DEF Reopened, Reopens, Resumes
  <2> QED BY <2>1, <2>3 DEF DurableStep
<1>2. CASE UNCHANGED durable
    BY <1>2 DEF durable, DurableStep, Keeps
<1> QED BY <1>1, <1>2 DEF Output

\* A terminal event is for a turn that had begun.
LEMMA SettleDurable ==
    ASSUME IInv, NEW m \in Messages, log[m] # "none", NEW n \in {"Idle", "Failed"},
           log' = Ended(m), status' = Stored(n), UNCHANGED <<pending, lastTurn>>
    PROVE  DurableStep
<1>1. Ends(m)
    BY DEF Ends, Stored
<1> QED BY <1>1 DEF DurableStep

\* A crash and the recovery after it end the last turn, or none, and perhaps one that was
\* about to end.
LEMMA RestartDurable ==
    ASSUME IInv, Restart
    PROVE  DurableStep
<1> USE DEF IInv
<1>1. PICK st \in Statuses, l \in {log} \union {Ended(m) : m \in Messages} :
        /\ Stores(st, l)
        /\ status' = IF st = "Running" THEN "Idle" ELSE st
        /\ log' = IF st = "Running" /\ lastTurn # None THEN EndIn(l, lastTurn) ELSE l
    BY DEF Restart
<1>2. UNCHANGED <<pending, lastTurn>> /\ May("restart")
    BY DEF Restart
<1>3. lastTurn # None => lastTurn \in Messages /\ log[lastTurn] # "none"
    BY DEF NamesBegun, TypeOK
<1>4. ASSUME NEW m \in Messages, Ending(m) PROVE log[m] # "none"
    BY <1>4, Zenon DEF Ending, NamesBegun, Unnamed, Named
<1>5. CASE st = status /\ l = log
  <2>1. CASE status = "Running"
    <3>1. Ends(lastTurn)
        BY <1>1, <1>2, <1>3, <1>5, <2>1 DEF Ends, Ended, QueueOK
    <3> QED BY <1>3, <2>1, <3>1 DEF DurableStep, QueueOK
  <2>2. CASE status # "Running"
    <3>1. Keeps
        BY <1>1, <1>2, <1>5, <2>2 DEF Keeps
    <3> QED BY <3>1 DEF DurableStep
  <2> QED BY <2>1, <2>2
<1>6. ASSUME May("torn"), st = status, NEW m \in Messages, Ending(m), l = Ended(m) PROVE DurableStep
  <2>1. CASE status = "Running"
    <3>1. Crashes(m, lastTurn) /\ lastTurn \in Messages
        BY <1>1, <1>2, <1>3, <1>4, <1>6, <2>1 DEF Crashes, QueueOK
    <3> QED BY <3>1 DEF DurableStep
  <2>2. CASE status # "Running"
    <3>1. Ends(m)
        BY <1>1, <1>2, <1>4, <1>6, <2>2 DEF Ends, Statuses
    <3> QED BY <3>1 DEF DurableStep
  <2> QED BY <2>1, <2>2
<1>7. CASE CanBegin /\ st = "Running" /\ l = log
  <2>1. status \in {"Idle", "Failed"}
      BY <1>7 DEF CanBegin
  <2>2. CASE lastTurn = None
    <3>1. Keeps
        BY <1>1, <1>2, <1>7, <2>1, <2>2 DEF Keeps, QueueOK
    <3> QED BY <3>1 DEF DurableStep
  <2>3. CASE lastTurn # None
    <3>1. Ends(lastTurn)
        BY <1>1, <1>2, <1>3, <1>7, <2>1, <2>3 DEF Ends, Ended
    <3> QED BY <1>3, <2>3, <3>1 DEF DurableStep
  <2> QED BY <2>2, <2>3
<1> QED BY <1>1, <1>5, <1>6, <1>7 DEF Stores

\* Every step changes the rows of the thread in one of these ways.
LEMMA NextDurable == IInv /\ [Next]_vars => DurableStep
<1> SUFFICES ASSUME IInv, [Next]_vars PROVE DurableStep
    OBVIOUS
<1> USE TurnsAssumption DEF IInv, durable
<1>1. CASE UNCHANGED vars
    BY <1>1 DEF vars, DurableStep, Keeps
<1>2. ASSUME NEW m \in Messages, Send(m) \/ Drain(m) PROVE DurableStep
  <2>1. Begins(m) \/ Keeps
      BY <1>2 DEF Send, Drain, Begin, Begins, Keeps, QueueOK
  <2> QED BY <2>1 DEF DurableStep
<1>3. ASSUME NEW m \in Messages, Enqueue(m) \/ RemoveQueued(m) PROVE DurableStep
  <2>1. Queues(m) \/ Unqueues(m)
      BY <1>3 DEF Enqueue, RemoveQueued, Queues, Unqueues, Crashes
  <2> QED BY <2>1 DEF DurableStep
<1>4. ASSUME NEW m \in Messages, StartSpawnFails(m) \/ StartDeliveryFails(m) PROVE DurableStep
  <2>1. log[m] # "none"
      BY <1>4 DEF NamesBegun, StartSpawnFails, StartDeliveryFails
  <2>2. log' = Ended(m) /\ status' = Stored("Failed") /\ UNCHANGED <<pending, lastTurn>>
      BY <1>4 DEF StartSpawnFails, StartDeliveryFails
  <2> QED BY <2>1, <2>2, SettleDurable
<1>5. ASSUME NEW m \in Messages,
             \/ StartReuse(m) \/ StartWait(m) \/ StartSpawn(m) \/ StartArchived(m) \/ StartChecked(m)
             \/ StartInstall(m) \/ StartDeliver(m) \/ StartClear(m)
      PROVE  DurableStep
  <2>1. Keeps
      BY <1>5 DEF StartReuse, StartWait, StartSpawn, StartArchived, StartChecked, StartInstall, StartDeliver,
                  StartClear, Keeps
  <2> QED BY <2>1 DEF DurableStep
<1>6. ASSUME NEW s \in Sessions, PumpOutput(s) \/ PumpWakes(s) PROVE DurableStep
  <2>1. (s \notin cleanup /\ Output(s)) \/ UNCHANGED durable
      BY <1>6 DEF PumpOutput, PumpWakes
  <2> QED BY <1>6, <2>1, OutputDurable DEF DurableStep, Keeps
<1>7. ASSUME NEW s \in Sessions, PumpSettles(s) PROVE DurableStep
  <2>1. pump[s].turn \in Messages /\ pump[s].next \in {"Idle", "Failed"}
      BY <1>7 DEF PumpSettles, Placed, TypeOK
  <2>2. log[pump[s].turn] # "none"
      BY <2>1 DEF NamesBegun, Named, Unnamed
  <2>3. log' = Ended(pump[s].turn) /\ status' = Stored(pump[s].next) /\ UNCHANGED <<pending, lastTurn>>
      BY <1>7 DEF PumpSettles
  <2> QED BY <2>1, <2>2, <2>3, SettleDurable
<1>8. ASSUME NEW s \in Sessions, PumpFailsLast(s) PROVE DurableStep
  <2>1. CASE pump[s].turn = None
    <3>1. Keeps
        BY <1>8, <2>1 DEF PumpFailsLast, Keeps
    <3> QED BY <3>1 DEF DurableStep
  <2>2. CASE pump[s].turn # None
    <3>1. pump[s].turn \in Messages
        BY <2>2 DEF TypeOK
    <3>2. log[pump[s].turn] # "none"
        BY <3>1 DEF NamesBegun, Named, Unnamed
    <3>3. log' = Ended(pump[s].turn) /\ status' = Stored("Failed") /\ UNCHANGED <<pending, lastTurn>>
        BY <1>8, <2>2 DEF PumpFailsLast
    <3> QED BY <3>1, <3>2, <3>3, SettleDurable
  <2> QED BY <2>1, <2>2
<1>9. ASSUME NEW s \in Sessions, ProviderExits(s) \/ PumpTakes(s) \/ PumpExits(s) \/ PumpTakesLast(s)
      PROVE  DurableStep
  <2>1. Keeps
      BY <1>9 DEF ProviderExits, PumpTakes, PumpExits, PumpTakesLast, Keeps
  <2> QED BY <2>1 DEF DurableStep
<1>10. CASE StopSettle
  <2>1. CASE stopper.turn = NoTurn
    <3>1. Keeps
        BY <1>10, <2>1 DEF StopSettle, Keeps
    <3> QED BY <3>1 DEF DurableStep
  <2>2. CASE stopper.turn # NoTurn
    <3>1. stopper.turn.id \in Messages
        BY <2>2 DEF TypeOK, ActiveTurn
    <3>2. log[stopper.turn.id] # "none"
        BY <3>1 DEF NamesBegun, Named, Unnamed
    <3>3. log' = Ended(stopper.turn.id) /\ status' = Stored("Idle") /\ UNCHANGED <<pending, lastTurn>>
        BY <1>10, <2>2 DEF StopSettle
    <3> QED BY <3>1, <3>2, <3>3, SettleDurable
  <2> QED BY <2>1, <2>2
<1>11. CASE \/ DrainBegin \/ StopBegin \/ StopDone \/ StopForce \/ StopClose \/ StopCloseFails \/ StopTake
            \/ ArchiveClose \/ SweepCheck \/ SweepClaim \/ SweepClose
  <2>1. Keeps
      BY <1>11 DEF DrainBegin, StopBegin, StopDone, StopForce, StopClose, StopCloseFails, StopTake, ArchiveClose, SweepCheck,
                   SweepClaim, SweepClose, Keeps
  <2> QED BY <2>1 DEF DurableStep
<1>12. CASE Archive
    BY <1>12 DEF Archive, Archives, DurableStep
<1>13. CASE Restart
    BY <1>13, RestartDurable
<1> QED
    BY <1>1, <1>2, <1>3, <1>4, <1>5, <1>6, <1>7, <1>8, <1>9, <1>10, <1>11, <1>12, <1>13
    DEF Next, Start, PumpWork, Stop

-----------------------------------------------------------------------------
\* What waits stays unstarted, and a message starts once, over every such step.
LEMMA QueueStep ==
    ASSUME TypeOK, QueueOK, StartedOnce, DurableStep
    PROVE  QueueOK' /\ StartedOnce'
<1> USE DEF QueueOK, StartedOnce
<1>1. CASE Keeps \/ Archives
    BY <1>1 DEF Keeps, Archives
<1>2. ASSUME NEW m \in Messages, Begins(m) PROVE QueueOK' /\ StartedOnce'
  <2>1. /\ log' = [log EXCEPT ![m] = "open"] /\ status' = "Running"
        /\ lastTurn' = m /\ pending' = pending \ {m}
      BY <1>2 DEF Begins
  <2>2. m # None
      BY TurnsAssumption
  <2>3. \A n \in Messages : log'[n] = IF n = m THEN "open" ELSE log[n]
      BY <2>1 DEF TypeOK
  <2>4. \A n \in pending' : log'[n] = "none"
      BY <2>1, <2>3 DEF TypeOK
  <2> QED BY <2>1, <2>2, <2>3, <2>4
<1>3. ASSUME NEW m \in Messages, Ends(m) PROVE QueueOK' /\ StartedOnce'
    BY <1>3 DEF Ends, Ended, EndIn, TypeOK
<1>4. ASSUME NEW m \in Messages, Reopened(m) PROVE QueueOK' /\ StartedOnce'
    BY <1>4 DEF Reopened, TypeOK
<1>5. ASSUME NEW m \in Messages, Queues(m) \/ Unqueues(m) PROVE QueueOK' /\ StartedOnce'
    BY <1>5 DEF Queues, Unqueues, TypeOK
<1>6. ASSUME NEW m \in Messages, NEW n \in Messages, Crashes(m, n) PROVE QueueOK' /\ StartedOnce'
    BY <1>6 DEF Crashes, Ended, EndIn, TypeOK
<1> QED BY <1>1, <1>2, <1>3, <1>4, <1>5, <1>6 DEF DurableStep

\* No step takes a turn out of the event log.
LEMMA LogGrows ==
    ASSUME TypeOK, DurableStep
    PROVE  \A m \in Messages : log'[m] = "none" => log[m] = "none"
BY DEF DurableStep, Keeps, Archives, Begins, Ends, Ended, EndIn, Reopened, Queues, Unqueues, Crashes, TypeOK

-----------------------------------------------------------------------------
(* The actions by the task that takes them, and what each task leaves      *)
(* alone.                                                                   *)

Asks     == \E m \in Messages : Send(m) \/ Enqueue(m) \/ RemoveQueued(m) \/ Drain(m)
Starts   == \E m \in Messages : Start(m)
Pumps    == \E s \in Sessions : ProviderExits(s) \/ PumpOutput(s) \/ PumpTakes(s) \/ PumpWork(s)
Stopping == StopBegin \/ Stop
Keeping  == DrainBegin \/ Archive \/ ArchiveClose \/ SweepCheck \/ SweepClaim \/ SweepClose

\* Every step is one of the thread's users, of one of its tasks, or a restart.
LEMMA NextByTask ==
    [Next]_vars => Asks \/ Starts \/ Pumps \/ Stopping \/ Keeping \/ Restart \/ UNCHANGED vars
BY DEF Next, Asks, Starts, Pumps, Stopping, Keeping

\* What commands leave alone ...
LEMMA AsksFrame == Asks => UNCHANGED <<session, counts, pump, stopper, sweeper, archiving, barrier>>
BY DEF Asks, Send, Enqueue, RemoveQueued, Drain, tasks

\* ... what start_turn leaves alone ...
LEMMA StartsFrame ==
    Starts => UNCHANGED <<row, rows, cleanup, stopper, sweeper, archiving, barrier, drain, left>>
BY DEF Starts, Start, StartReuse, StartWait, StartSpawn, StartSpawnFails, StartArchived, StartChecked, StartInstall,
       StartDeliver, StartDeliveryFails, StartClear, durable, session, counts

\* ... a session's process and its pump ...
LEMMA PumpsFrame ==
    Pumps => UNCHANGED <<row, rows, cleanup, starter, stopper, sweeper, archiving, drain>>
BY DEF Pumps, PumpWork, ProviderExits, PumpOutput, PumpTakes, PumpWakes, PumpSettles, PumpExits, PumpTakesLast,
       PumpFailsLast, Output, durable, session, tasks, counts

\* ... a stop ...
LEMMA StoppingFrame ==
    Stopping => UNCHANGED <<row, rows, ready, pump, starter, sweeper, archiving, drain, responses>>
BY DEF Stopping, Stop, StopBegin, StopDone, StopForce, StopClose, StopCloseFails, StopTake, StopSettle, durable, session, counts

\* ... and archiving, the queue worker and the idle sweep.
LEMMA KeepingFrame ==
    Keeping => UNCHANGED <<row, rows, cleanup, turn, cont, ready, pump, starter, stopper, counts>>
BY DEF Keeping, DrainBegin, Archive, ArchiveClose, SweepCheck, SweepClaim, SweepClose, durable, session

-----------------------------------------------------------------------------
(* Type correctness and the places of tasks, variable by variable.         *)

\* The rows of the thread and its queue.
RowTypes ==
    /\ status \in Statuses /\ pending \subseteq Messages
    /\ row \in [Messages -> Nat] /\ rows \in Nat
    /\ log \in [Messages -> {"none", "open", "closed", "again", "twice"}]
    /\ lastTurn \in Messages \union {None}

\* Every step keeps the types of the thread's rows ...
LEMMA RowStep == IInv /\ [Next]_vars => RowTypes'
<1> SUFFICES ASSUME IInv, [Next]_vars PROVE RowTypes'
    OBVIOUS
<1> USE DEF IInv
<1>1. DurableStep
    BY NextDurable
<1>2. status' \in Statuses /\ pending' \subseteq Messages /\ lastTurn' \in Messages \union {None}
  <2>1. CASE Keeps \/ Archives
      BY <2>1 DEF Keeps, Archives, Statuses, TypeOK
  <2>2. ASSUME NEW m \in Messages, Begins(m) \/ Ends(m) \/ Reopened(m) \/ Queues(m) \/ Unqueues(m)
        PROVE  status' \in Statuses /\ pending' \subseteq Messages /\ lastTurn' \in Messages \union {None}
      BY <2>2 DEF Begins, Ends, Reopened, Queues, Unqueues, Statuses, TypeOK
  <2>3. ASSUME NEW m \in Messages, NEW n \in Messages, Crashes(m, n)
        PROVE  status' \in Statuses /\ pending' \subseteq Messages /\ lastTurn' \in Messages \union {None}
      BY <2>3 DEF Crashes, Statuses, TypeOK
  <2> QED BY <1>1, <2>1, <2>2, <2>3 DEF DurableStep
<1>3. log' \in [Messages -> {"none", "open", "closed", "again", "twice"}]
    BY <1>1 DEF DurableStep, Keeps, Archives, Begins, Ends, Ended, EndIn, Reopened, Queues, Unqueues, Crashes, TypeOK
<1>4. row' \in [Messages -> Nat] /\ rows' \in Nat
  <2>1. ASSUME NEW m \in Messages, Enqueue(m) PROVE row' \in [Messages -> Nat] /\ rows' \in Nat
      BY <2>1 DEF Enqueue, TypeOK
  <2>2. ASSUME NEW m \in Messages, Send(m) \/ RemoveQueued(m) \/ Drain(m) PROVE UNCHANGED <<row, rows>>
      BY <2>2 DEF Send, RemoveQueued, Drain
  <2>3. CASE Asks
      BY <2>1, <2>2, <2>3 DEF Asks, TypeOK
  <2>4. CASE Starts \/ Pumps \/ Stopping \/ Keeping
      BY <2>4, StartsFrame, PumpsFrame, StoppingFrame, KeepingFrame DEF TypeOK
  <2>5. CASE Restart \/ UNCHANGED vars
      BY <2>5 DEF Restart, vars, durable, TypeOK
  <2> QED BY <2>3, <2>4, <2>5, NextByTask
<1> QED BY <1>2, <1>3, <1>4 DEF RowTypes

\* The session map, the processes and the barrier.
SessionTypes ==
    /\ current \in Sessions \union {None} /\ barrier \in Sessions \union {None}
    /\ proc \in [Sessions -> {"unused", "up", "down"}]
    /\ released \subseteq Sessions /\ cleanup \subseteq Sessions /\ ready \subseteq Sessions

\* ... of its sessions ...
LEMMA SessionStep == TypeOK /\ Placed /\ [Next]_vars => SessionTypes'
<1> SUFFICES ASSUME TypeOK, Placed, [Next]_vars PROVE SessionTypes'
    OBVIOUS
<1>0. SessionTypes
    BY DEF TypeOK, SessionTypes
<1> USE DEF session
<1>1. CASE Asks
    BY <1>0, <1>1, AsksFrame DEF SessionTypes
<1>2. CASE Starts
  <2>1. PICK m \in Messages : Start(m)
      BY <1>2 DEF Starts
  <2>2. CASE StartReuse(m) \/ StartWait(m) \/ StartSpawnFails(m) \/ StartChecked(m) \/ StartDeliver(m)
             \/ StartDeliveryFails(m) \/ StartClear(m)
      BY <1>0, <2>2 DEF StartReuse, StartWait, StartSpawnFails, StartChecked, StartDeliver, StartDeliveryFails,
                        StartClear, SessionTypes
  <2>3. CASE StartSpawn(m)
      BY <1>0, <2>3 DEF StartSpawn, SessionTypes
  <2>4. CASE StartArchived(m)
    <3>1. starter[m].live \in Sessions
        BY <2>4 DEF StartArchived, Placed
    <3> QED BY <1>0, <2>4, <3>1 DEF StartArchived, SessionTypes
  <2>5. CASE StartInstall(m)
    <3>1. starter[m].live \in Sessions
        BY <2>5 DEF StartInstall, Placed
    <3> QED BY <1>0, <2>5, <3>1 DEF StartInstall, SessionTypes
  <2> QED BY <2>1, <2>2, <2>3, <2>4, <2>5 DEF Start
<1>3. CASE Pumps
  <2>1. PICK s \in Sessions : ProviderExits(s) \/ PumpOutput(s) \/ PumpTakes(s) \/ PumpWork(s)
      BY <1>3 DEF Pumps
  <2>2. CASE PumpOutput(s) \/ PumpTakes(s) \/ PumpSettles(s) \/ PumpTakesLast(s) \/ PumpWakes(s)
    <3>1. UNCHANGED <<current, barrier, proc, released, cleanup>> /\ ready' \subseteq ready
        BY <2>2 DEF PumpOutput, PumpTakes, PumpSettles, PumpTakesLast, PumpWakes
    <3> QED BY <1>0, <3>1 DEF SessionTypes
  <2>3. CASE ProviderExits(s) \/ PumpExits(s) \/ PumpFailsLast(s)
    <3>1. proc' = proc \/ proc' = [proc EXCEPT ![s] = "down"]
        BY <2>3 DEF ProviderExits, PumpExits, PumpFailsLast
    <3>2. /\ current' \in {current, None} /\ barrier' \in {barrier, s, None}
          /\ released' \in {released, released \union {s}} /\ UNCHANGED <<cleanup, ready>>
        BY <2>3 DEF ProviderExits, PumpExits, PumpFailsLast, tasks
    <3> QED BY <1>0, <3>1, <3>2 DEF SessionTypes
  <2> QED BY <2>1, <2>2, <2>3 DEF PumpWork
<1>4. CASE Stopping
  <2>1. CASE StopBegin \/ StopDone \/ StopCloseFails \/ StopTake \/ StopSettle
    <3>1. UNCHANGED <<current, proc, released, cleanup, ready>> /\ barrier' \in {barrier, None}
        BY <2>1 DEF StopBegin, StopDone, StopCloseFails, StopTake, StopSettle, session
    <3> QED BY <1>0, <3>1 DEF SessionTypes
  <2>2. CASE StopForce
    <3>1. stopper.live \in Sessions
        BY <2>2 DEF StopForce, Placed
    <3> QED BY <1>0, <2>2, <3>1 DEF StopForce, SessionTypes
  <2>3. CASE StopClose
      BY <1>0, <2>3 DEF StopClose, SessionTypes
  <2> QED BY <1>4, <2>1, <2>2, <2>3 DEF Stopping, Stop
<1>5. CASE Keeping
  <2>1. CASE DrainBegin \/ Archive \/ SweepCheck
      BY <1>0, <2>1 DEF DrainBegin, Archive, SweepCheck, SessionTypes
  <2>2. CASE ArchiveClose
      BY <1>0, <2>2 DEF ArchiveClose, SessionTypes
  <2>3. CASE SweepClaim \/ SweepClose
    <3>1. sweeper.live \in Sessions
        BY <2>3 DEF SweepClaim, SweepClose, Placed
    <3> QED BY <1>0, <2>3, <3>1 DEF SweepClaim, SweepClose, SessionTypes
  <2> QED BY <1>5, <2>1, <2>2, <2>3 DEF Keeping
<1>6. CASE Restart
    BY <1>0, <1>6 DEF Restart, SessionTypes
<1>7. CASE UNCHANGED vars
    BY <1>0, <1>7 DEF vars, tasks, SessionTypes
<1> QED BY <1>1, <1>2, <1>3, <1>4, <1>5, <1>6, <1>7, NextByTask

\* The turns on the sessions.
TurnTypes ==
    /\ turn \in [Sessions -> ActiveTurn \union {NoTurn}]
    /\ cont \in [Sessions -> ActiveTurn \union {NoTurn}]
    /\ responses \in Nat

\* Output on a session installs a turn only by reopening the one it kept.
LEMMA OutputTurns ==
    ASSUME TurnTypes, NEW s \in Sessions, Output(s)
    PROVE  TurnTypes'
<1>1. CASE UNCHANGED <<turn, cont, responses>>
    BY <1>1 DEF TurnTypes
<1>2. CASE /\ Reopens(s)
           /\ turn' = [turn EXCEPT ![s] = [id |-> cont[s].id, response |-> responses + 1]]
           /\ cont' = [cont EXCEPT ![s] = NoTurn]
           /\ responses' = responses + 1
  <2>1. [id |-> cont[s].id, response |-> responses + 1] \in ActiveTurn
      BY <1>2 DEF TurnTypes, Reopens, ActiveTurn
  <2> QED BY <1>2, <2>1 DEF TurnTypes
<1> QED BY <1>1, <1>2 DEF Output

\* ... of the turns on them ...
LEMMA TurnStep == TypeOK /\ Placed /\ [Next]_vars => TurnTypes'
<1> SUFFICES ASSUME TypeOK, Placed, [Next]_vars PROVE TurnTypes'
    OBVIOUS
<1>0. TurnTypes
    BY DEF TypeOK, TurnTypes
<1> USE DEF session, counts
<1>1. CASE Asks
    BY <1>0, <1>1, AsksFrame DEF TurnTypes
<1>2. CASE Starts
  <2>1. PICK m \in Messages : Start(m)
      BY <1>2 DEF Starts
  <2>2. CASE StartInstall(m)
    <3>1. [id |-> m, response |-> responses + 1] \in ActiveTurn
        BY <1>0 DEF TurnTypes, ActiveTurn
    <3>2. /\ cont' = [cont EXCEPT ![starter[m].live] = NoTurn]
          /\ turn' = [turn EXCEPT ![starter[m].live] = [id |-> m, response |-> responses + 1]]
          /\ responses' = responses + 1
        BY <2>2 DEF StartInstall
    <3>3. turn' \in [Sessions -> ActiveTurn \union {NoTurn}]
        BY ONLY <1>0, <3>1, <3>2 DEF TurnTypes
    <3>4. cont' \in [Sessions -> ActiveTurn \union {NoTurn}]
        BY ONLY <1>0, <3>2 DEF TurnTypes
    <3> QED BY <1>0, <3>2, <3>3, <3>4 DEF TurnTypes
  <2>3. CASE StartClear(m)
      BY <1>0, <2>3 DEF StartClear, TurnTypes
  <2>4. CASE \/ StartReuse(m) \/ StartWait(m) \/ StartSpawn(m) \/ StartSpawnFails(m) \/ StartArchived(m)
             \/ StartChecked(m) \/ StartDeliver(m) \/ StartDeliveryFails(m)
      BY <1>0, <2>4 DEF StartReuse, StartWait, StartSpawn, StartSpawnFails, StartArchived, StartChecked, StartDeliver,
                        StartDeliveryFails, TurnTypes
  <2> QED BY <2>1, <2>2, <2>3, <2>4 DEF Start
<1>3. CASE Pumps
  <2>1. PICK s \in Sessions : ProviderExits(s) \/ PumpOutput(s) \/ PumpTakes(s) \/ PumpWork(s)
      BY <1>3 DEF Pumps
  <2>2. CASE ProviderExits(s) \/ PumpSettles(s) \/ PumpExits(s) \/ PumpFailsLast(s)
      BY <1>0, <2>2 DEF ProviderExits, PumpSettles, PumpExits, PumpFailsLast, TurnTypes
  <2>3. CASE PumpOutput(s) \/ PumpWakes(s)
    <3>1. Output(s) \/ UNCHANGED <<turn, cont, responses>>
        BY <2>3 DEF PumpOutput, PumpWakes
    <3> QED BY <1>0, <3>1, OutputTurns DEF TurnTypes
  <2>4. CASE PumpTakes(s)
    <3>1. turn' = [turn EXCEPT ![s] = NoTurn] /\ UNCHANGED responses
        BY <2>4 DEF PumpTakes
    <3>2. PICK t \in {turn[s], cont[s]} : cont' = [cont EXCEPT ![s] = t]
        BY <2>4 DEF PumpTakes
    <3>3. t \in ActiveTurn \union {NoTurn}
        BY <1>0 DEF TurnTypes
    <3> QED BY <1>0, <3>1, <3>2, <3>3 DEF TurnTypes
  <2>5. CASE PumpTakesLast(s)
      BY <1>0, <2>5 DEF PumpTakesLast, TurnTypes
  <2> QED BY <2>1, <2>2, <2>3, <2>4, <2>5 DEF PumpWork
<1>4. CASE Stopping
  <2>1. CASE StopBegin \/ StopDone \/ StopForce \/ StopClose \/ StopCloseFails \/ StopSettle
      BY <1>0, <2>1 DEF StopBegin, StopDone, StopForce, StopClose, StopCloseFails, StopSettle, TurnTypes
  <2>2. CASE StopTake
      BY <1>0, <2>2 DEF StopTake, TurnTypes
  <2> QED BY <1>4, <2>1, <2>2 DEF Stopping, Stop
<1>5. CASE Keeping
    BY <1>0, <1>5, KeepingFrame DEF TurnTypes
<1>6. CASE Restart
    BY <1>0, <1>6 DEF Restart, TurnTypes
<1>7. CASE UNCHANGED vars
    BY <1>0, <1>7 DEF vars, TurnTypes
<1> QED BY <1>1, <1>2, <1>3, <1>4, <1>5, <1>6, <1>7, NextByTask

\* The pumps.
PumpTypes ==
    /\ pump \in [Sessions -> [pc : PumpSteps, turn : Messages \union {None}, next : {"Idle", "Failed"}, bars : BOOLEAN]]
    /\ \A s \in Sessions : pump[s].pc = "settle" => pump[s].turn \in Messages

\* ... of their pumps ...
LEMMA PumpStep == TypeOK /\ Placed /\ [Next]_vars => PumpTypes'
<1> SUFFICES ASSUME TypeOK, Placed, [Next]_vars PROVE PumpTypes'
    OBVIOUS
<1>0. PumpTypes
    BY DEF TypeOK, Placed, PumpTypes
<1>1. CASE UNCHANGED pump
    BY <1>0, <1>1 DEF PumpTypes
<1>2. ASSUME NEW s \in Sessions, NEW pc \in PumpSteps \ {"settle"}, PumpGoto(s, pc) PROVE PumpTypes'
    BY <1>0, <1>2 DEF PumpGoto, PumpTypes
<1>3. ASSUME NEW s \in Sessions, NEW p,
             p \in [pc : PumpSteps, turn : Messages \union {None}, next : {"Idle", "Failed"}, bars : BOOLEAN],
             p.pc = "settle" => p.turn \in Messages, pump' = [pump EXCEPT ![s] = p]
      PROVE  PumpTypes'
    BY <1>0, <1>3 DEF PumpTypes
<1>4. CASE Starts
  <2>1. PICK m \in Messages : Start(m)
      BY <1>4 DEF Starts
  <2>2. CASE StartSpawn(m)
      BY <2>2, <1>2 DEF StartSpawn, PumpSteps
  <2>3. CASE ~StartSpawn(m)
      BY <2>1, <2>3, <1>1 DEF Start, StartReuse, StartWait, StartSpawnFails, StartArchived, StartChecked, StartInstall,
                              StartDeliver, StartDeliveryFails, StartClear
  <2> QED BY <2>2, <2>3
<1>5. CASE Pumps
  <2>1. PICK s \in Sessions : ProviderExits(s) \/ PumpOutput(s) \/ PumpTakes(s) \/ PumpWork(s)
      BY <1>5 DEF Pumps
  <2>2. CASE ProviderExits(s)
      BY <2>2, <1>1 DEF ProviderExits, tasks
  <2>3. CASE PumpOutput(s) \/ PumpWakes(s)
    <3>1. PumpGoto(s, "run") \/ PumpGoto(s, "wait")
        BY <2>3 DEF PumpOutput, PumpWakes, Output
    <3> QED BY <3>1, <1>2 DEF PumpSteps
  <2>4. CASE PumpTakes(s)
    <3>1. PICK n \in {"Idle", "Failed"} :
              pump' = [pump EXCEPT ![s] = [pc |-> "settle", turn |-> turn[s].id, next |-> n, bars |-> FALSE]]
        BY <2>4 DEF PumpTakes
    <3>2. turn[s].id \in Messages
        BY <2>4 DEF PumpTakes, TypeOK, ActiveTurn
    <3> QED BY <3>1, <3>2, <1>3 DEF PumpSteps
  <2>5. CASE PumpExits(s)
    <3>1. \/ PumpGoto(s, "end")
          \/ \E b \in BOOLEAN : pump' = [pump EXCEPT ![s] = [pc |-> "exit", turn |-> None, next |-> "Idle", bars |-> b]]
        BY ZenonT(40), <2>5 DEF PumpExits, NoPump
    <3> QED BY <3>1, <1>2, <1>3 DEF PumpSteps
  <2>6. CASE PumpTakesLast(s)
    <3>1. turn[s].id \in Messages \union {None}
        BY DEF TypeOK, ActiveTurn, NoTurn
    <3>2. pump[s].bars \in BOOLEAN
        BY DEF TypeOK
    <3> QED BY <2>6, <3>1, <3>2, <1>3 DEF PumpTakesLast, PumpSteps
  <2>7. CASE PumpSettles(s) \/ PumpFailsLast(s)
    <3>1. \E pc \in {"run", "end"} :
              pump' = [pump EXCEPT ![s] = [pc |-> pc, turn |-> None, next |-> "Idle", bars |-> FALSE]]
        BY <2>7 DEF PumpSettles, PumpFailsLast, NoPump
    <3> QED BY <3>1, <1>3 DEF PumpSteps
  <2> QED BY <2>1, <2>2, <2>3, <2>4, <2>5, <2>6, <2>7 DEF PumpWork
<1>6. CASE Asks \/ Stopping \/ Keeping
    BY <1>6, <1>1, AsksFrame, StoppingFrame, KeepingFrame
<1>7. CASE Restart
    BY <1>7 DEF Restart, PumpTypes, NoPump, PumpSteps
<1>8. CASE UNCHANGED vars
    BY <1>8, <1>1 DEF vars, tasks
<1> QED BY <1>4, <1>5, <1>6, <1>7, <1>8, NextByTask

\* The start_turn tasks.
StarterTypes ==
    /\ starter \in [Messages -> [pc : TaskSteps, live : Sessions \union {None}]]
    /\ \A m \in Messages :
         starter[m].pc \in {"check", "install", "deliver", "clear"} => starter[m].live \in Sessions

\* ... of the start_turn tasks ...
LEMMA StarterStep == TypeOK /\ Placed /\ [Next]_vars => StarterTypes'
<1> SUFFICES ASSUME TypeOK, Placed, [Next]_vars PROVE StarterTypes'
    OBVIOUS
<1>0. StarterTypes
    BY DEF TypeOK, Placed, StarterTypes
<1>1. CASE UNCHANGED starter
    BY <1>0, <1>1 DEF StarterTypes
<1>2. ASSUME NEW m \in Messages, NEW s \in Sessions, NEW pc \in TaskSteps, Goto(m, pc, s) PROVE StarterTypes'
    BY <1>0, <1>2 DEF Goto, StarterTypes
<1>3. ASSUME NEW m \in Messages, NEW pc \in {"ensure", "spawn", "done"}, Goto(m, pc, None) PROVE StarterTypes'
    BY <1>0, <1>3 DEF Goto, StarterTypes, TaskSteps
<1>4. CASE Asks
  <2>1. PICK m \in Messages : Send(m) \/ Enqueue(m) \/ RemoveQueued(m) \/ Drain(m)
      BY <1>4 DEF Asks
  <2>2. Goto(m, "ensure", None) \/ UNCHANGED starter
      BY <2>1 DEF Send, Enqueue, RemoveQueued, Drain, Begin, tasks
  <2> QED BY <2>2, <1>1, <1>3
<1>5. CASE Starts
  <2>1. PICK m \in Messages : Start(m)
      BY <1>5 DEF Starts
  <2>2. CASE StartReuse(m)
    <3>1. current \in Sessions
        BY <2>2 DEF StartReuse, TypeOK
    <3> QED BY <2>2, <3>1, <1>2 DEF StartReuse, TaskSteps
  <2>3. CASE StartSpawn(m)
    <3>1. \E s \in Sessions : Goto(m, "check", s)
        BY <2>3 DEF StartSpawn
    <3> QED BY <3>1, <1>2 DEF TaskSteps
  <2>4. CASE StartWait(m) \/ StartSpawnFails(m) \/ StartArchived(m) \/ StartClear(m)
    <3>1. Goto(m, "spawn", None) \/ Goto(m, "done", None)
        BY <2>4 DEF StartWait, StartSpawnFails, StartArchived, StartClear
    <3> QED BY <3>1, <1>3
  <2>5. CASE StartChecked(m) \/ StartInstall(m) \/ StartDeliver(m) \/ StartDeliveryFails(m)
    <3>1. starter[m].live \in Sessions
        BY <1>0, <2>5 DEF StartChecked, StartInstall, StartDeliver, StartDeliveryFails, StarterTypes
    <3>2. \E pc \in {"install", "deliver", "done", "clear"} : Goto(m, pc, starter[m].live)
        BY <2>5 DEF StartChecked, StartInstall, StartDeliver, StartDeliveryFails
    <3> QED BY <3>1, <3>2, <1>2 DEF TaskSteps
  <2> QED BY <2>1, <2>2, <2>3, <2>4, <2>5 DEF Start
<1>6. CASE Pumps \/ Stopping \/ Keeping
    BY <1>6, <1>1, PumpsFrame, StoppingFrame, KeepingFrame
<1>7. CASE Restart
    BY <1>7 DEF Restart, StarterTypes, IdleTask, TaskSteps
<1>8. CASE UNCHANGED vars
    BY <1>8, <1>1 DEF vars, tasks
<1> QED BY <1>4, <1>5, <1>6, <1>7, <1>8, NextByTask

\* The stop, the sweep, the archive and the queue worker.
KeeperTypes ==
    /\ stopper \in [pc : {"idle", "grace", "close", "take", "settle"},
                    live : Sessions \union {None}, turn : ActiveTurn \union {NoTurn}]
    /\ stopper.pc # "idle" => stopper.live \in Sessions
    /\ sweeper \in [pc : {"idle", "locked", "close"}, live : Sessions \union {None}]
    /\ sweeper.pc # "idle" => sweeper.live \in Sessions
    /\ archiving \in BOOLEAN /\ drain \subseteq Messages

\* ... and of the tasks that stop, sweep and drain.
LEMMA KeeperStep == TypeOK /\ Placed /\ [Next]_vars => KeeperTypes'
<1> SUFFICES ASSUME TypeOK, Placed, [Next]_vars PROVE KeeperTypes'
    OBVIOUS
<1>0. KeeperTypes
    BY DEF TypeOK, Placed, KeeperTypes
<1> USE DEF counts
<1>1. CASE UNCHANGED <<stopper, sweeper, archiving>> /\ drain' \subseteq drain
    BY <1>0, <1>1 DEF KeeperTypes
<1>2. CASE Asks
  <2>1. drain' \subseteq drain
      BY <1>2 DEF Asks, Send, Enqueue, RemoveQueued, Drain, tasks
  <2> QED BY <1>1, <1>2, <2>1, AsksFrame
<1>3. CASE Starts \/ Pumps
    BY <1>1, <1>3, StartsFrame, PumpsFrame
<1>4. CASE Stopping
  <2>1. UNCHANGED <<sweeper, archiving, drain>>
      BY <1>4, StoppingFrame
  <2>2. CASE StopBegin
    <3>1. current \in Sessions /\ turn[current] \in ActiveTurn \union {NoTurn}
        BY <2>2 DEF StopBegin, TypeOK
    <3>2. stopper' = [pc |-> "grace", live |-> current, turn |-> turn[current]]
        BY <2>2 DEF StopBegin
    <3> QED BY <1>0, <2>1, <3>1, <3>2 DEF KeeperTypes
  <2>3. CASE StopDone \/ StopForce \/ StopClose \/ StopCloseFails \/ StopSettle
    <3>1. \/ stopper' = IdleStop
          \/ stopper.pc # "idle" /\ \E pc \in {"close", "take"} : stopper' = [stopper EXCEPT !.pc = pc]
        BY <2>3 DEF StopDone, StopForce, StopClose, StopCloseFails, StopSettle
    <3> QED BY <1>0, <2>1, <3>1 DEF KeeperTypes, IdleStop
  <2>4. CASE StopTake
    <3>1. stopper.live \in Sessions /\ turn[stopper.live] \in ActiveTurn \union {NoTurn}
        BY <2>4 DEF StopTake, TypeOK, Placed
    <3>2. stopper' = [pc |-> "settle", live |-> stopper.live, turn |-> turn[stopper.live]]
        BY <2>4 DEF StopTake
    <3> QED BY <1>0, <2>1, <3>1, <3>2 DEF KeeperTypes
  <2> QED BY <1>4, <2>2, <2>3, <2>4 DEF Stopping, Stop
<1>5. CASE Keeping
  <2>1. UNCHANGED stopper
      BY <1>5, KeepingFrame
  <2>2. archiving' \in BOOLEAN
      BY <1>0, <1>5, Zenon DEF Keeping, DrainBegin, Archive, ArchiveClose, SweepCheck, SweepClaim, SweepClose, KeeperTypes
  <2>3. drain' \in {drain, pending}
      BY <1>5 DEF Keeping, DrainBegin, Archive, ArchiveClose, SweepCheck, SweepClaim, SweepClose
  <2>4. \/ sweeper' \in {sweeper, IdleTask}
        \/ current \in Sessions /\ sweeper' = [pc |-> "locked", live |-> current]
        \/ sweeper.pc # "idle" /\ sweeper' = [sweeper EXCEPT !.pc = "close"]
      BY <1>5 DEF Keeping, DrainBegin, Archive, ArchiveClose, SweepCheck, SweepClaim, SweepClose, TypeOK
  <2>5. pending \subseteq Messages
      BY DEF TypeOK
  <2>6. sweeper' \in [pc : {"idle", "locked", "close"}, live : Sessions \union {None}]
        /\ (sweeper'.pc # "idle" => sweeper'.live \in Sessions)
      BY ONLY <1>0, <2>4 DEF KeeperTypes, IdleTask
  <2> QED BY <1>0, <2>1, <2>2, <2>3, <2>5, <2>6 DEF KeeperTypes
<1>6. CASE Restart
  <2>1. stopper' = IdleStop /\ sweeper' = IdleTask /\ archiving' = FALSE /\ drain' = {}
      BY <1>6 DEF Restart
  <2>2. /\ stopper' \in [pc : {"idle", "grace", "close", "take", "settle"},
                        live : Sessions \union {None}, turn : ActiveTurn \union {NoTurn}]
        /\ stopper'.pc = "idle"
      BY <2>1 DEF IdleStop
  <2>3. sweeper' \in [pc : {"idle", "locked", "close"}, live : Sessions \union {None}] /\ sweeper'.pc = "idle"
      BY <2>1 DEF IdleTask
  <2> QED BY <2>1, <2>2, <2>3 DEF KeeperTypes
<1>7. CASE UNCHANGED vars
    BY <1>1, <1>7 DEF vars, tasks
<1> QED BY <1>2, <1>3, <1>4, <1>5, <1>6, <1>7, NextByTask

\* What is left of the budget.
LEMMA BudgetStep == TypeOK /\ [Next]_vars => left' \in Budget
<1> SUFFICES ASSUME TypeOK, [Next]_vars PROVE left' \in Budget
    OBVIOUS
<1>1. left \in Budget
    BY DEF TypeOK
<1>2. CASE left' = left
    BY <1>1, <1>2
<1>3. ASSUME \/ (left.resumes > 0 /\ left' = [left EXCEPT !.resumes = @ - 1])
             \/ (left.stops > 0 /\ left' = [left EXCEPT !.stops = @ - 1])
             \/ (left.restarts > 0 /\ left' = [left EXCEPT !.restarts = @ - 1])
      PROVE  left' \in Budget
    BY <1>1, <1>3 DEF Budget
<1>4. CASE Asks \/ Starts \/ Keeping
    BY <1>2, <1>4, AsksFrame, StartsFrame, KeepingFrame DEF counts
<1>5. CASE Pumps
  <2>1. ASSUME NEW s \in Sessions, PumpOutput(s) \/ PumpWakes(s) PROVE left' \in Budget
    <3>1. Output(s) \/ left' = left
        BY <2>1 DEF PumpOutput, PumpWakes
    <3>2. left' = left \/ (left.resumes > 0 /\ left' = [left EXCEPT !.resumes = @ - 1])
        BY <3>1 DEF Output
    <3> QED BY <1>2, <1>3, <3>2
  <2>2. ASSUME NEW s \in Sessions,
               \/ ProviderExits(s) \/ PumpTakes(s) \/ PumpSettles(s) \/ PumpExits(s)
               \/ PumpTakesLast(s) \/ PumpFailsLast(s)
        PROVE  left' \in Budget
    <3>1. left' = left
        BY <2>2 DEF ProviderExits, PumpTakes, PumpSettles, PumpExits, PumpTakesLast, PumpFailsLast, counts
    <3> QED BY <1>2, <3>1
  <2> QED BY <1>5, <2>1, <2>2 DEF Pumps, PumpWork
<1>6. CASE Stopping
  <2>1. CASE StopBegin
    <3>1. left.stops > 0 /\ left' = [left EXCEPT !.stops = @ - 1]
        BY <2>1 DEF StopBegin
    <3> QED BY <1>3, <3>1
  <2>2. CASE Stop
    <3>1. left' = left
        BY <2>2 DEF Stop, StopDone, StopForce, StopClose, StopCloseFails, StopTake, StopSettle, counts
    <3> QED BY <1>2, <3>1
  <2> QED BY <1>6, <2>1, <2>2 DEF Stopping
<1>7. CASE Restart
    BY <1>3, <1>7 DEF Restart
<1>8. CASE UNCHANGED vars
    BY <1>2, <1>8 DEF vars, counts
<1> QED BY <1>4, <1>5, <1>6, <1>7, <1>8, NextByTask

\* Whom the provider ever got.
LEMMA GivenMoves ==
    ASSUME [Next]_vars
    PROVE  \/ given' = given
           \/ \E m \in Messages : StartDeliver(m) /\ given' = given \union {m}
<1>1. CASE Asks \/ Keeping
    BY <1>1, AsksFrame, KeepingFrame DEF counts
<1>2. CASE Starts
  <2>1. PICK m \in Messages : Start(m)
      BY <1>2 DEF Starts
  <2> QED BY <2>1 DEF Start, StartReuse, StartWait, StartSpawn, StartSpawnFails, StartArchived, StartChecked, StartInstall,
                  StartDeliver, StartDeliveryFails, StartClear, counts
<1>3. CASE Pumps
    BY <1>3 DEF Pumps, PumpWork, ProviderExits, PumpOutput, PumpTakes, PumpWakes, PumpSettles, PumpExits, PumpTakesLast,
                PumpFailsLast, counts
<1>4. CASE Stopping
    BY <1>4 DEF Stopping, Stop, StopBegin, StopDone, StopForce, StopClose, StopCloseFails, StopTake, StopSettle, counts
<1>5. CASE Restart \/ UNCHANGED vars
    BY <1>5 DEF Restart, vars, counts
<1> QED BY <1>1, <1>2, <1>3, <1>4, <1>5, NextByTask

\* Every step keeps the types and the places of tasks.
LEMMA TypeStep == IInv /\ [Next]_vars => TypeOK' /\ Placed'
<1> SUFFICES ASSUME IInv, [Next]_vars PROVE TypeOK' /\ Placed'
    OBVIOUS
<1>1. RowTypes' /\ SessionTypes' /\ TurnTypes' /\ PumpTypes' /\ StarterTypes' /\ KeeperTypes'
    BY RowStep, SessionStep, TurnStep, PumpStep, StarterStep, KeeperStep DEF IInv
<1>2. left' \in Budget
    BY BudgetStep DEF IInv
<1>3. given' \subseteq Messages
    BY GivenMoves DEF IInv, TypeOK
<1> QED
    BY <1>1, <1>2, <1>3 DEF TypeOK, Placed, RowTypes, SessionTypes, TurnTypes, PumpTypes, StarterTypes, KeeperTypes

-----------------------------------------------------------------------------
\* Only its own start names a turn that is named nowhere.
LEMMA UnnamedStep ==
    ASSUME TypeOK, Placed, [Next]_vars, NEW m \in Messages, Unnamed(m), ~StartInstall(m)
    PROVE  Unnamed(m)'
<1>2. m # None
    BY TurnsAssumption
<1>3. stopper.turn.id # m /\ \A s \in Sessions : turn[s].id # m /\ cont[s].id # m /\ pump[s].turn # m
    BY DEF Unnamed, Named
<1>6. stopper'.turn.id # m
  <2>1. CASE Asks \/ Starts \/ Pumps \/ Keeping
      BY <1>3, <2>1, AsksFrame, StartsFrame, PumpsFrame, KeepingFrame
  <2>2. CASE StopBegin
    <3>1. current \in Sessions /\ stopper' = [pc |-> "grace", live |-> current, turn |-> turn[current]]
        BY <2>2 DEF StopBegin, TypeOK
    <3> QED BY <1>3, <3>1
  <2>3. CASE StopTake
    <3>1. stopper.live \in Sessions
          /\ stopper' = [pc |-> "settle", live |-> stopper.live, turn |-> turn[stopper.live]]
        BY <2>3 DEF StopTake, Placed
    <3> QED BY <1>3, <3>1
  <2>4. CASE StopDone \/ StopForce \/ StopClose \/ StopCloseFails \/ StopSettle \/ Restart
    <3>1. stopper' = IdleStop \/ \E pc \in {"close", "take"} : stopper' = [stopper EXCEPT !.pc = pc]
        BY <2>4 DEF StopDone, StopForce, StopClose, StopCloseFails, StopSettle, Restart
    <3> QED BY <1>2, <1>3, <3>1 DEF IdleStop, NoTurn, TypeOK
  <2>5. CASE UNCHANGED vars
      BY <1>3, <2>5 DEF vars, tasks
  <2> QED BY <2>1, <2>2, <2>3, <2>4, <2>5, NextByTask DEF Stopping, Stop
<1>7. ASSUME NEW r \in Sessions PROVE turn'[r].id # m /\ cont'[r].id # m
  <2> DEFINE Known(t) == t.id # m
  <2>1. Known(NoTurn) /\ Known(turn[r]) /\ Known(cont[r])
      BY <1>2, <1>3 DEF NoTurn
  <2>2. CASE UNCHANGED <<turn, cont>>
      BY <1>3, <2>2
  <2>3. CASE Starts
    <3>1. PICK n \in Messages : Start(n)
        BY <2>3 DEF Starts
    <3>2. CASE StartInstall(n)
      <4>1. n # m
          BY <1>3, <3>2 DEF StartInstall
      <4>2. /\ cont' = [cont EXCEPT ![starter[n].live] = NoTurn]
            /\ turn' = [turn EXCEPT ![starter[n].live] = [id |-> n, response |-> responses + 1]]
          BY <3>2 DEF StartInstall
      <4> QED BY <2>1, <4>1, <4>2 DEF TypeOK
    <3>3. CASE StartClear(n)
        BY <2>1, <3>3 DEF StartClear, TypeOK
    <3>4. CASE ~StartInstall(n) /\ ~StartClear(n)
        BY <3>1, <3>4, <2>2 DEF Start, StartReuse, StartWait, StartSpawn, StartSpawnFails, StartArchived, StartChecked,
                                StartDeliver, StartDeliveryFails, session
    <3> QED BY <3>2, <3>3, <3>4
  <2>4. CASE Pumps
    <3>1. PICK s \in Sessions : ProviderExits(s) \/ PumpOutput(s) \/ PumpTakes(s) \/ PumpWork(s)
        BY <2>4 DEF Pumps
    <3>2. CASE PumpOutput(s) \/ PumpWakes(s)
      <4>1. \/ UNCHANGED <<turn, cont>>
            \/ /\ turn' = [turn EXCEPT ![s] = [id |-> cont[s].id, response |-> responses + 1]]
               /\ cont' = [cont EXCEPT ![s] = NoTurn]
          BY <3>2 DEF PumpOutput, PumpWakes, Output
      <4>2. Known([id |-> cont[s].id, response |-> responses + 1])
          BY <1>3
      <4> QED BY <2>1, <2>2, <4>1, <4>2 DEF TypeOK
    <3>3. CASE PumpTakes(s)
      <4>1. turn' = [turn EXCEPT ![s] = NoTurn]
          BY <3>3 DEF PumpTakes
      <4>2. PICK t \in {turn[s], cont[s]} : cont' = [cont EXCEPT ![s] = t]
          BY <3>3 DEF PumpTakes
      <4>3. Known(t)
          BY <1>3
      <4> QED BY <2>1, <4>1, <4>2, <4>3 DEF TypeOK
    <3>4. CASE PumpTakesLast(s)
        BY <2>1, <3>4 DEF PumpTakesLast, TypeOK
    <3>5. CASE ProviderExits(s) \/ PumpSettles(s) \/ PumpExits(s) \/ PumpFailsLast(s)
        BY <2>2, <3>5 DEF ProviderExits, PumpSettles, PumpExits, PumpFailsLast, session
    <3> QED BY <3>1, <3>2, <3>3, <3>4, <3>5 DEF PumpWork
  <2>5. CASE Stopping
    <3>1. CASE StopTake
        BY <2>1, <3>1 DEF StopTake, TypeOK
    <3>2. CASE ~StopTake
        BY <2>2, <2>5, <3>2 DEF Stopping, Stop, StopBegin, StopDone, StopForce, StopClose, StopCloseFails, StopSettle, session
    <3> QED BY <3>1, <3>2
  <2>6. CASE Asks \/ Keeping
      BY <2>2, <2>6, AsksFrame, KeepingFrame DEF session
  <2>7. CASE Restart
      BY <2>1, <2>7 DEF Restart
  <2>8. CASE UNCHANGED vars
      BY <2>2, <2>8 DEF vars, session
  <2> QED BY <2>3, <2>4, <2>5, <2>6, <2>7, <2>8, NextByTask
<1>8. ASSUME NEW r \in Sessions PROVE pump'[r].turn # m
  <2>1. CASE UNCHANGED pump
      BY <1>3, <2>1
  <2>2. ASSUME NEW s \in Sessions, NEW pc, PumpGoto(s, pc) PROVE pump'[r].turn # m
      BY <1>3, <2>2 DEF PumpGoto, TypeOK
  <2>3. ASSUME NEW s \in Sessions, NEW pc, NEW t, NEW n, NEW b, t # m,
               pump' = [pump EXCEPT ![s] = [pc |-> pc, turn |-> t, next |-> n, bars |-> b]]
        PROVE  pump'[r].turn # m
      BY <1>3, <2>3 DEF TypeOK
  <2>4. CASE Starts
    <3>1. PICK n \in Messages : Start(n)
        BY <2>4 DEF Starts
    <3>2. CASE StartSpawn(n)
      <4>1. \E s \in Sessions : PumpGoto(s, "run")
          BY <3>2 DEF StartSpawn
      <4> QED BY <4>1, <2>2
    <3>3. CASE ~StartSpawn(n)
        BY <2>1, <3>1, <3>3 DEF Start, StartReuse, StartWait, StartSpawnFails, StartArchived, StartChecked, StartInstall,
                                StartDeliver, StartDeliveryFails, StartClear
    <3> QED BY <3>2, <3>3
  <2>5. CASE Pumps
    <3>1. PICK s \in Sessions : ProviderExits(s) \/ PumpOutput(s) \/ PumpTakes(s) \/ PumpWork(s)
        BY <2>5 DEF Pumps
    <3>2. CASE PumpOutput(s) \/ PumpWakes(s)
      <4>1. \E pc \in PumpSteps : PumpGoto(s, pc)
          BY <3>2 DEF PumpOutput, PumpWakes, Output, PumpSteps
      <4> QED BY <4>1, <2>2
    <3>3. CASE PumpTakes(s)
      <4>1. PICK n \in {"Idle", "Failed"} :
              pump' = [pump EXCEPT ![s] = [pc |-> "settle", turn |-> turn[s].id, next |-> n, bars |-> FALSE]]
          BY <3>3 DEF PumpTakes
      <4> QED BY <1>3, <4>1, <2>3
    <3>4. CASE PumpTakesLast(s)
      <4>1. pump' = [pump EXCEPT ![s] = [pc |-> "exitfail", turn |-> turn[s].id, next |-> "Failed", bars |-> pump[s].bars]]
          BY <3>4 DEF PumpTakesLast
      <4> QED BY <1>3, <4>1, <2>3
    <3>5. CASE PumpSettles(s) \/ PumpFailsLast(s)
      <4>1. \E pc : pump' = [pump EXCEPT ![s] = [pc |-> pc, turn |-> None, next |-> "Idle", bars |-> FALSE]]
          BY <3>5 DEF PumpSettles, PumpFailsLast, NoPump
      <4> QED BY <1>2, <1>3, <4>1 DEF TypeOK
    <3>6. CASE PumpExits(s)
      <4>1. CASE s \in cleanup
          BY <3>6, <4>1, <2>2 DEF PumpExits
      <4>2. CASE s \notin cleanup
        <5>1. pump' = [pump EXCEPT ![s] = [pc |-> "exit", turn |-> None, next |-> "Idle", bars |-> current = s]]
            BY <3>6, <4>2 DEF PumpExits, NoPump
        <5> QED BY <1>2, <1>3, <5>1 DEF TypeOK
      <4> QED BY <4>1, <4>2
    <3>7. CASE ProviderExits(s)
        BY <2>1, <3>7 DEF ProviderExits, tasks
    <3> QED BY <3>1, <3>2, <3>3, <3>4, <3>5, <3>6, <3>7 DEF PumpWork
  <2>6. CASE Asks \/ Stopping \/ Keeping
      BY <2>1, <2>6, AsksFrame, StoppingFrame, KeepingFrame
  <2>7. CASE Restart
      BY <1>2, <2>7 DEF Restart, NoPump
  <2>8. CASE UNCHANGED vars
      BY <2>1, <2>8 DEF vars, tasks
  <2> QED BY <2>4, <2>5, <2>6, <2>7, <2>8, NextByTask
<1> QED BY <1>6, <1>7, <1>8 DEF Unnamed, Named

\* Only its own start, its begin and a restart move the start_turn task of a message.
LEMMA OwnStarter ==
    ASSUME TypeOK, [Next]_vars, NEW m \in Messages, ~Start(m), ~Begin(m), ~Restart
    PROVE  starter'[m] = starter[m]
<1>1. ASSUME NEW n \in Messages, NEW pc, NEW s, m # n, Goto(n, pc, s) PROVE starter'[m] = starter[m]
    BY <1>1 DEF Goto, TypeOK
<1>2. CASE Asks
  <2>1. PICK n \in Messages : Begin(n) \/ UNCHANGED starter
      BY <1>2 DEF Asks, Send, Enqueue, RemoveQueued, Drain, tasks
  <2> QED BY <1>1, <2>1 DEF Begin
<1>3. CASE Starts
  <2>1. PICK n \in Messages : Start(n)
      BY <1>3 DEF Starts
  <2>2. m # n
      BY <2>1
  <2>3. CASE StartSpawn(n)
    <3>1. PICK s \in Sessions : Goto(n, "check", s)
        BY <2>3 DEF StartSpawn
    <3> QED BY <1>1, <2>2, <3>1
  <2>4. CASE ~StartSpawn(n)
    <3>1. PICK pc \in TaskSteps, s \in {None, current, starter[n].live} : Goto(n, pc, s)
        BY <2>1, <2>4 DEF Start, StartReuse, StartWait, StartSpawnFails, StartArchived, StartChecked,
                    StartInstall, StartDeliver, StartDeliveryFails, StartClear, TaskSteps
    <3> QED BY <1>1, <2>2, <3>1
  <2> QED BY <2>3, <2>4
<1>4. CASE Pumps \/ Stopping \/ Keeping
    BY <1>4, PumpsFrame, StoppingFrame, KeepingFrame
<1>5. CASE UNCHANGED vars
    BY <1>5 DEF vars, tasks
<1> QED BY <1>2, <1>3, <1>4, <1>5, NextByTask

\* The events in which a turn on a session, or in a task, comes to an end or resumes.
Settles(s) == PumpSettles(s) \/ PumpFailsLast(s)
Events(m) ==
    \/ \E s \in Sessions : Settles(s) /\ pump[s].turn = m
    \/ \E s \in Sessions : Resumes(s) /\ cont[s].id = m
    \/ StopSettle /\ stopper.turn.id = m

\* Beside its begin, its own start and a restart, only these change what the log says of a turn.
LEMMA OwnLog ==
    ASSUME TypeOK, Placed, [Next]_vars, NEW m \in Messages, ~Events(m), ~Start(m), ~Begin(m), ~Restart
    PROVE  log'[m] = log[m]
<1>1. ASSUME NEW n \in Messages, m # n, NEW v, log' = [log EXCEPT ![n] = v] PROVE log'[m] = log[m]
    BY <1>1 DEF TypeOK
<1>2. ASSUME UNCHANGED log PROVE log'[m] = log[m]
    BY <1>2
<1>3. CASE Asks
  <2>1. PICK n \in Messages : Begin(n) \/ UNCHANGED log
      BY <1>3 DEF Asks, Send, Enqueue, RemoveQueued, Drain, durable
  <2> QED BY <1>1, <1>2, <2>1 DEF Begin
<1>4. CASE Starts
  <2>1. PICK n \in Messages : Start(n)
      BY <1>4 DEF Starts
  <2>2. log' = Ended(n) \/ UNCHANGED log
      BY <2>1 DEF Start, StartReuse, StartWait, StartSpawn, StartSpawnFails, StartArchived, StartChecked,
                  StartInstall, StartDeliver, StartDeliveryFails, StartClear, durable
  <2>3. m # n
      BY <2>1
  <2> QED BY <1>1, <1>2, <2>2, <2>3 DEF Ended, EndIn
<1>5. CASE Pumps
  <2>1. PICK s \in Sessions : ProviderExits(s) \/ PumpOutput(s) \/ PumpTakes(s) \/ PumpWork(s)
      BY <1>5 DEF Pumps
  <2>3. CASE PumpOutput(s) \/ PumpWakes(s)
    <3>1. \/ UNCHANGED log
          \/ Reopens(s) /\ s \notin cleanup /\ log' = [log EXCEPT ![cont[s].id] = IF @ = "again" THEN "again" ELSE "open"]
        BY <2>3 DEF PumpOutput, PumpWakes, Output, durable
    <3>2. Reopens(s) => cont[s].id \in Messages
        BY DEF Reopens, TypeOK, ActiveTurn
    <3>3. Reopens(s) /\ s \notin cleanup => cont[s].id # m
        BY <2>3 DEF Events, Resumes
    <3> QED BY <1>1, <1>2, <3>1, <3>2, <3>3
  <2>4. CASE PumpSettles(s) \/ PumpFailsLast(s)
    <3>1. UNCHANGED log \/ (pump[s].turn # None /\ log' = Ended(pump[s].turn))
      <4>1. CASE PumpSettles(s)
          BY <4>1, TurnsAssumption DEF PumpSettles, Placed
      <4>2. CASE PumpFailsLast(s)
          BY <4>2 DEF PumpFailsLast
      <4> QED BY <2>4, <4>1, <4>2
    <3>2. pump[s].turn \in Messages \union {None} /\ pump[s].turn # m
        BY <2>4 DEF TypeOK, Events, Settles
    <3> QED BY <1>1, <1>2, <3>1, <3>2 DEF Ended, EndIn
  <2>5. CASE ProviderExits(s) \/ PumpTakes(s) \/ PumpExits(s) \/ PumpTakesLast(s)
      BY <1>2, <2>5 DEF ProviderExits, PumpTakes, PumpExits, PumpTakesLast, durable
  <2> QED BY <2>1, <2>3, <2>4, <2>5 DEF PumpWork
<1>6. CASE Stopping
  <2>1. CASE StopSettle
    <3>1. UNCHANGED log \/ (stopper.turn # NoTurn /\ log' = Ended(stopper.turn.id))
        BY <2>1 DEF StopSettle
    <3>2. stopper.turn # NoTurn => stopper.turn.id \in Messages
        BY DEF TypeOK, ActiveTurn
    <3>3. stopper.turn.id # m
        BY <2>1 DEF Events
    <3> QED BY <1>1, <1>2, <3>1, <3>2, <3>3 DEF Ended, EndIn
  <2>2. CASE ~StopSettle
      BY <1>2, <1>6, <2>2 DEF Stopping, Stop, StopBegin, StopDone, StopForce, StopClose, StopCloseFails, StopTake, durable
  <2> QED BY <2>1, <2>2
<1>7. CASE Keeping
    BY <1>2, <1>7 DEF Keeping, DrainBegin, Archive, ArchiveClose, SweepCheck, SweepClaim, SweepClose, durable
<1>8. CASE UNCHANGED vars
    BY <1>2, <1>8 DEF vars, durable
<1> QED BY <1>3, <1>4, <1>5, <1>6, <1>7, <1>8, NextByTask

\* No step names a turn that has not begun, or that its own start has not installed.
LEMMA NamesStep == IInv /\ [Next]_vars => NamesBegun'
<1> SUFFICES ASSUME IInv, [Next]_vars, NEW m \in Messages
             PROVE  /\ log'[m] = "none" => starter'[m].pc = "idle" /\ lastTurn' # m /\ Unnamed(m)'
                    /\ Early(m)' => log'[m] = "open" /\ Unnamed(m)'
    BY DEF NamesBegun
<1> USE DEF IInv
<1>1. DurableStep
    BY NextDurable
<1>2. ASSUME Start(m) PROVE starter[m].pc # "idle"
    BY <1>2 DEF Start, StartReuse, StartWait, StartSpawn, StartSpawnFails, StartArchived, StartChecked,
                StartInstall, StartDeliver, StartDeliveryFails, StartClear
<1>3. ASSUME Restart PROVE starter'[m].pc = "idle"
    BY <1>3 DEF Restart, IdleTask
<1>4. ASSUME log'[m] = "none" PROVE starter'[m].pc = "idle" /\ lastTurn' # m /\ Unnamed(m)'
  <2>1. log[m] = "none"
      BY <1>1, <1>4, LogGrows
  <2>2. starter[m].pc = "idle" /\ lastTurn # m /\ Unnamed(m)
      BY <2>1 DEF NamesBegun
  <2>3. ~Start(m) /\ ~StartInstall(m)
      BY <1>2, <2>2 DEF Start
  <2>4. ~Begin(m)
      BY <1>4 DEF Begin, TypeOK
  <2>5. starter'[m].pc = "idle"
      BY <1>3, <2>2, <2>3, <2>4, OwnStarter
  <2>6. lastTurn' # m
    <3>1. ASSUME NEW n \in Messages, Begins(n) PROVE lastTurn' # m
        BY <1>4, <3>1 DEF Begins, TypeOK
    <3> QED BY <1>1, <2>2, <3>1 DEF DurableStep, Keeps, Archives, Ends, Reopened, Queues, Unqueues, Crashes
  <2> QED BY <2>2, <2>3, <2>5, <2>6, UnnamedStep
<1>5. ASSUME Early(m)' PROVE log'[m] = "open" /\ Unnamed(m)'
  <2>1. ~Restart
      BY <1>3, <1>5 DEF Early
  <2>2. CASE Begin(m)
    <3>1. log[m] = "none"
        BY <1>1, <2>2, QueueStep DEF Begin, StartedOnce, TypeOK
    <3>2. Unnamed(m) /\ ~StartInstall(m)
        BY <1>2, <3>1 DEF NamesBegun, Start
    <3>3. log'[m] = "open"
        BY <2>2, <3>1 DEF Begin, TypeOK
    <3> QED BY <3>2, <3>3, UnnamedStep
  <2>3. CASE Start(m)
    <3>1. ~StartInstall(m) /\ ~StartSpawnFails(m) /\ ~StartDeliveryFails(m) /\ ~StartClear(m)
          /\ ~StartDeliver(m) /\ ~StartArchived(m)
        BY <1>5 DEF Early, StartInstall, StartSpawnFails, StartDeliveryFails, StartClear, StartDeliver, StartArchived, Goto, TypeOK
    <3>2. StartReuse(m) \/ StartWait(m) \/ StartSpawn(m) \/ StartChecked(m)
        BY <2>3, <3>1 DEF Start
    <3>3. Early(m) /\ UNCHANGED log
        BY <3>2 DEF Early, StartReuse, StartWait, StartSpawn, StartChecked, durable
    <3> QED BY <3>1, <3>3, UnnamedStep DEF NamesBegun
  <2>4. CASE ~Begin(m) /\ ~Start(m)
    <3>1. starter'[m] = starter[m]
        BY <2>1, <2>4, OwnStarter
    <3>2. log[m] = "open" /\ Unnamed(m) /\ ~StartInstall(m)
        BY <1>5, <2>4, <3>1 DEF Early, NamesBegun, Start
    <3>3. ~Events(m)
        BY <3>2, TurnsAssumption DEF Unnamed, Named, Events
    <3>4. log'[m] = log[m]
        BY <2>1, <2>4, <3>3, OwnLog
    <3> QED BY <3>2, <3>4, UnnamedStep
  <2> QED BY <2>2, <2>3, <2>4
<1> QED BY <1>4, <1>5

-----------------------------------------------------------------------------
(* Who moves a pump, and who the turn on a session.                        *)

Spawns(s) == \E m \in Messages : StartSpawn(m) /\ proc[s] = "unused" /\ current' = s /\ PumpGoto(s, "run")
PumpActs(s) == PumpOutput(s) \/ PumpTakes(s) \/ PumpWork(s)

\* Only a spawn, its own actions and a restart move the pump of a session.
LEMMA OwnPump ==
    ASSUME TypeOK, [Next]_vars, NEW s \in Sessions, ~Spawns(s), ~PumpActs(s), ~Restart
    PROVE  pump'[s] = pump[s]
<1>1. ASSUME NEW r \in Sessions, r # s, NEW p, pump' = [pump EXCEPT ![r] = p] PROVE pump'[s] = pump[s]
    BY <1>1 DEF TypeOK
<1>2. ASSUME NEW r \in Sessions, r # s, NEW pc, PumpGoto(r, pc) PROVE pump'[s] = pump[s]
    BY <1>2 DEF TypeOK, PumpGoto
<1>3. CASE Asks \/ Stopping \/ Keeping
    BY <1>3, AsksFrame, StoppingFrame, KeepingFrame
<1>4. CASE Starts
  <2>1. PICK m \in Messages : Start(m)
      BY <1>4 DEF Starts
  <2>2. CASE StartSpawn(m)
    <3>1. PICK r \in Sessions : proc[r] = "unused" /\ current' = r /\ PumpGoto(r, "run")
        BY <2>2 DEF StartSpawn
    <3>2. r # s
        BY <2>2, <3>1 DEF Spawns
    <3> QED BY <3>1, <3>2, <1>2
  <2>3. CASE ~StartSpawn(m)
      BY <2>1, <2>3 DEF Start, StartReuse, StartWait, StartSpawnFails, StartArchived, StartChecked, StartInstall,
                        StartDeliver, StartDeliveryFails, StartClear
  <2> QED BY <2>2, <2>3
<1>5. CASE Pumps
  <2>1. PICK r \in Sessions : ProviderExits(r) \/ PumpOutput(r) \/ PumpTakes(r) \/ PumpWork(r)
      BY <1>5 DEF Pumps
  <2>2. CASE ProviderExits(r)
      BY <2>2 DEF ProviderExits, tasks
  <2>3. CASE ~ProviderExits(r)
    <3>1. r # s
        BY <2>1, <2>3 DEF PumpActs
    <3>2. CASE PumpOutput(r) \/ PumpWakes(r)
      <4>1. PICK pc \in PumpSteps : PumpGoto(r, pc)
          BY <3>2 DEF PumpOutput, PumpWakes, Output, PumpSteps
      <4> QED BY <3>1, <4>1, <1>2
    <3>3. CASE PumpTakes(r)
        BY <3>1, <3>3, <1>1 DEF PumpTakes
    <3>4. CASE PumpSettles(r) \/ PumpTakesLast(r) \/ PumpFailsLast(r)
        BY <3>1, <3>4, <1>1 DEF PumpSettles, PumpTakesLast, PumpFailsLast
    <3>5. CASE PumpExits(r)
        BY <3>1, <3>5, <1>1, <1>2 DEF PumpExits
    <3> QED BY <2>1, <2>3, <3>2, <3>3, <3>4, <3>5 DEF PumpWork
  <2> QED BY <2>2, <2>3
<1>6. CASE UNCHANGED vars
    BY <1>6 DEF vars, tasks
<1> QED BY <1>3, <1>4, <1>5, <1>6, NextByTask

Seats(s) == \E m \in Messages : (StartInstall(m) \/ StartClear(m)) /\ starter[m].live = s
Takes(s) == PumpTakes(s) \/ PumpTakesLast(s) \/ (StopTake /\ stopper.live = s)

\* Only a start on the session, its pump, a forced stop on it and a restart move its turns.
LEMMA OwnTurn ==
    ASSUME TypeOK, Placed, [Next]_vars, NEW s \in Sessions, ~Seats(s), ~PumpActs(s),
           ~(StopTake /\ stopper.live = s), ~Restart
    PROVE  turn'[s] = turn[s] /\ cont'[s] = cont[s]
<1>1. ASSUME NEW r \in Sessions, r # s, NEW t, NEW c, turn' = [turn EXCEPT ![r] = t] \/ UNCHANGED turn,
             cont' = [cont EXCEPT ![r] = c] \/ UNCHANGED cont
      PROVE turn'[s] = turn[s] /\ cont'[s] = cont[s]
    BY <1>1 DEF TypeOK
<1>2. CASE UNCHANGED <<turn, cont>>
    BY <1>2
<1>3. CASE Asks \/ Keeping
    BY <1>3, <1>2, AsksFrame, KeepingFrame DEF session
<1>4. CASE Starts
  <2>1. PICK m \in Messages : Start(m)
      BY <1>4 DEF Starts
  <2>2. CASE StartInstall(m)
    <3>1. /\ turn' = [turn EXCEPT ![starter[m].live] = [id |-> m, response |-> responses + 1]]
          /\ cont' = [cont EXCEPT ![starter[m].live] = NoTurn]
        BY <2>2 DEF StartInstall
    <3>2. starter[m].live \in Sessions /\ starter[m].live # s
        BY <2>2 DEF StartInstall, Seats, Placed
    <3> QED BY <3>1, <3>2, <1>1
  <2>3. CASE StartClear(m)
    <3>1. turn' = [turn EXCEPT ![starter[m].live] = NoTurn] /\ UNCHANGED cont
        BY <2>3 DEF StartClear
    <3>2. starter[m].live \in Sessions /\ starter[m].live # s
        BY <2>3 DEF StartClear, Seats, Placed
    <3> QED BY <3>1, <3>2, <1>1
  <2>4. CASE ~StartInstall(m) /\ ~StartClear(m)
      BY <1>2, <2>1, <2>4 DEF Start, StartReuse, StartWait, StartSpawn, StartSpawnFails, StartArchived, StartChecked,
                              StartDeliver, StartDeliveryFails, session
  <2> QED BY <2>2, <2>3, <2>4
<1>5. CASE Pumps
  <2>1. PICK r \in Sessions : ProviderExits(r) \/ PumpOutput(r) \/ PumpTakes(r) \/ PumpWork(r)
      BY <1>5 DEF Pumps
  <2>2. CASE ProviderExits(r)
      BY <1>2, <2>2 DEF ProviderExits
  <2>3. CASE ~ProviderExits(r)
    <3>1. r # s
        BY <2>1, <2>3 DEF PumpActs
    <3>2. CASE PumpOutput(r) \/ PumpWakes(r)
      <4>1. \/ UNCHANGED <<turn, cont>>
            \/ /\ turn' = [turn EXCEPT ![r] = [id |-> cont[r].id, response |-> responses + 1]]
               /\ cont' = [cont EXCEPT ![r] = NoTurn]
          BY <3>2 DEF PumpOutput, PumpWakes, Output
      <4> QED BY <3>1, <4>1, <1>1, <1>2
    <3>3. CASE PumpTakes(r)
      <4>1. PICK keep \in BOOLEAN :
              turn' = [turn EXCEPT ![r] = NoTurn] /\ cont' = [cont EXCEPT ![r] = IF keep THEN turn[r] ELSE cont[r]]
          BY <3>3 DEF PumpTakes
      <4> QED BY <3>1, <4>1, <1>1
    <3>4. CASE PumpTakesLast(r)
        BY <3>1, <3>4, <1>1 DEF PumpTakesLast
    <3>5. CASE PumpSettles(r) \/ PumpExits(r) \/ PumpFailsLast(r)
        BY <1>2, <3>5 DEF PumpSettles, PumpExits, PumpFailsLast, session
    <3> QED BY <2>1, <2>3, <3>2, <3>3, <3>4, <3>5 DEF PumpWork
  <2> QED BY <2>2, <2>3
<1>6. CASE Stopping
  <2>1. CASE StopTake
    <3>1. stopper.live \in Sessions /\ stopper.live # s
        BY <2>1 DEF StopTake, Placed
    <3>2. turn' = [turn EXCEPT ![stopper.live] = NoTurn] /\ cont' = [cont EXCEPT ![stopper.live] = NoTurn]
        BY <2>1 DEF StopTake
    <3> QED BY <3>1, <3>2, <1>1
  <2>2. CASE ~StopTake
      BY <1>2, <1>6, <2>2 DEF Stopping, Stop, StopBegin, StopDone, StopForce, StopClose, StopCloseFails, StopSettle, session
  <2> QED BY <2>1, <2>2
<1>7. CASE UNCHANGED vars
    BY <1>2, <1>7 DEF vars, session
<1> QED BY <1>3, <1>4, <1>5, <1>6, <1>7, NextByTask

\* What an event of a pump does to its session.
LEMMA PumpEffects ==
    ASSUME TypeOK, Placed, NEW s \in Sessions
    PROVE  /\ PumpOutput(s) \/ PumpWakes(s) =>
                /\ pump[s].pc \in {"run", "wait"} /\ pump'[s].pc \in {"run", "wait"}
                /\ pump'[s].turn = pump[s].turn /\ pump'[s].bars = pump[s].bars
                /\ UNCHANGED <<turn, cont>> \/
                     (Resumes(s) /\ turn'[s].id = cont[s].id /\ cont'[s] = NoTurn)
           /\ PumpTakes(s) =>
                /\ pump[s].pc = "run" /\ pump'[s].pc = "settle" /\ pump'[s].turn = turn[s].id
                /\ pump'[s].bars = FALSE /\ s \notin cleanup /\ turn[s] # NoTurn
                /\ turn'[s] = NoTurn /\ cont'[s] \in {cont[s], turn[s]}
           /\ PumpSettles(s) => pump[s].pc = "settle" /\ pump'[s] = [NoPump EXCEPT !.pc = "run"]
           /\ PumpExits(s) =>
                /\ pump[s].pc = "run" /\ proc[s] = "down"
                /\ \/ /\ s \in cleanup /\ pump'[s].pc = "end"
                      /\ pump'[s].turn = pump[s].turn /\ pump'[s].bars = pump[s].bars
                   \/ /\ s \notin cleanup /\ pump'[s].pc = "exit"
                      /\ pump'[s].turn = None /\ pump'[s].bars = (current = s)
           /\ PumpTakesLast(s) =>
                /\ pump[s].pc = "exit" /\ pump'[s].pc = "exitfail" /\ pump'[s].turn = turn[s].id
                /\ pump'[s].bars = pump[s].bars /\ turn'[s] = NoTurn /\ cont'[s] = cont[s]
           /\ PumpFailsLast(s) => pump[s].pc = "exitfail" /\ pump'[s] = [NoPump EXCEPT !.pc = "end"]
<1>1. ASSUME PumpOutput(s) \/ PumpWakes(s)
      PROVE  /\ pump[s].pc \in {"run", "wait"} /\ pump'[s].pc \in {"run", "wait"}
             /\ pump'[s].turn = pump[s].turn /\ pump'[s].bars = pump[s].bars
             /\ UNCHANGED <<turn, cont>> \/ (Resumes(s) /\ turn'[s].id = cont[s].id /\ cont'[s] = NoTurn)
  <2>1. PICK pc \in {"run", "wait"} : PumpGoto(s, pc)
      BY <1>1 DEF PumpOutput, PumpWakes, Output
  <2>2. pump[s].pc \in {"run", "wait"}
      BY <1>1 DEF PumpOutput, PumpWakes
  <2>3. /\ pump'[s].pc \in {"run", "wait"}
        /\ pump'[s].turn = pump[s].turn /\ pump'[s].bars = pump[s].bars
      BY <2>1 DEF PumpGoto, TypeOK
  <2>4. \/ UNCHANGED <<turn, cont>>
        \/ /\ Reopens(s) /\ s \notin cleanup
           /\ turn' = [turn EXCEPT ![s] = [id |-> cont[s].id, response |-> responses + 1]]
           /\ cont' = [cont EXCEPT ![s] = NoTurn]
      BY <1>1 DEF PumpOutput, PumpWakes, Output
  <2> QED BY <1>1, <2>2, <2>3, <2>4 DEF TypeOK, Resumes
<1>2. ASSUME PumpTakes(s)
      PROVE  /\ pump[s].pc = "run" /\ pump'[s].pc = "settle" /\ pump'[s].turn = turn[s].id
             /\ pump'[s].bars = FALSE /\ s \notin cleanup /\ turn[s] # NoTurn
             /\ turn'[s] = NoTurn /\ cont'[s] \in {cont[s], turn[s]}
  <2>1. PICK n \in {"Idle", "Failed"}, keep \in BOOLEAN :
          /\ pump' = [pump EXCEPT ![s] = [pc |-> "settle", turn |-> turn[s].id, next |-> n, bars |-> FALSE]]
          /\ cont' = [cont EXCEPT ![s] = IF keep THEN turn[s] ELSE cont[s]]
      BY <1>2 DEF PumpTakes
  <2>2. pump'[s] = [pc |-> "settle", turn |-> turn[s].id, next |-> n, bars |-> FALSE]
      BY <2>1 DEF TypeOK
  <2>3. cont'[s] \in {cont[s], turn[s]}
      BY <2>1 DEF TypeOK
  <2> QED BY <1>2, <2>2, <2>3 DEF PumpTakes, TypeOK
<1>3. ASSUME PumpSettles(s) PROVE pump[s].pc = "settle" /\ pump'[s] = [NoPump EXCEPT !.pc = "run"]
    BY <1>3 DEF PumpSettles, TypeOK
<1>4. ASSUME PumpExits(s)
      PROVE  /\ pump[s].pc = "run" /\ proc[s] = "down"
             /\ \/ /\ s \in cleanup /\ pump'[s].pc = "end"
                   /\ pump'[s].turn = pump[s].turn /\ pump'[s].bars = pump[s].bars
                \/ /\ s \notin cleanup /\ pump'[s].pc = "exit"
                   /\ pump'[s].turn = None /\ pump'[s].bars = (current = s)
  <2>1. CASE s \in cleanup
    <3>1. PumpGoto(s, "end")
        BY <1>4, <2>1 DEF PumpExits
    <3> QED BY <1>4, <2>1, <3>1 DEF PumpExits, PumpGoto, TypeOK
  <2>2. CASE s \notin cleanup
    <3>1. pump'[s] = [NoPump EXCEPT !.pc = "exit", !.bars = current = s]
        BY <1>4, <2>2 DEF PumpExits, TypeOK
    <3>2. pump'[s].bars = (current = s)
        BY <3>1 DEF NoPump
    <3>3. pump'[s].pc = "exit" /\ pump'[s].turn = None
        BY <3>1 DEF NoPump
    <3> QED BY <1>4, <2>2, <3>2, <3>3 DEF PumpExits
  <2> QED BY <2>1, <2>2
<1>5. ASSUME PumpTakesLast(s)
      PROVE  /\ pump[s].pc = "exit" /\ pump'[s].pc = "exitfail" /\ pump'[s].turn = turn[s].id
             /\ pump'[s].bars = pump[s].bars /\ turn'[s] = NoTurn /\ cont'[s] = cont[s]
    BY <1>5 DEF PumpTakesLast, TypeOK
<1>6. ASSUME PumpFailsLast(s) PROVE pump[s].pc = "exitfail" /\ pump'[s] = [NoPump EXCEPT !.pc = "end"]
    BY <1>6 DEF PumpFailsLast, TypeOK
<1> QED BY <1>1, <1>2, <1>3, <1>4, <1>5, <1>6

\* What a start, a forced stop and a spawn do to the session they are on.
LEMMA SeatEffects ==
    ASSUME TypeOK, Placed, NEW s \in Sessions
    PROVE  /\ \A m \in Messages : StartInstall(m) /\ starter[m].live = s => turn'[s].id = m /\ cont'[s] = NoTurn
           /\ \A m \in Messages : StartClear(m) /\ starter[m].live = s => turn'[s] = NoTurn /\ cont'[s] = cont[s]
           /\ StopTake /\ stopper.live = s =>
                turn'[s] = NoTurn /\ cont'[s] = NoTurn /\ stopper' = [pc |-> "settle", live |-> s, turn |-> turn[s]]
           /\ Spawns(s) => pump'[s].pc = "run" /\ pump'[s].turn = pump[s].turn /\ pump'[s].bars = pump[s].bars
           /\ Restart => turn'[s] = NoTurn /\ cont'[s] = NoTurn /\ pump'[s] = NoPump
<1>1. ASSUME NEW m \in Messages, StartInstall(m), starter[m].live = s PROVE turn'[s].id = m /\ cont'[s] = NoTurn
  <2>1. /\ turn' = [turn EXCEPT ![s] = [id |-> m, response |-> responses + 1]]
        /\ cont' = [cont EXCEPT ![s] = NoTurn]
      BY <1>1 DEF StartInstall
  <2> QED BY <2>1 DEF TypeOK
<1>2. ASSUME NEW m \in Messages, StartClear(m), starter[m].live = s PROVE turn'[s] = NoTurn /\ cont'[s] = cont[s]
    BY <1>2 DEF StartClear, TypeOK
<1>3. ASSUME StopTake, stopper.live = s
      PROVE  turn'[s] = NoTurn /\ cont'[s] = NoTurn /\ stopper' = [pc |-> "settle", live |-> s, turn |-> turn[s]]
    BY <1>3 DEF StopTake, TypeOK
<1>4. ASSUME Spawns(s)
      PROVE  pump'[s].pc = "run" /\ pump'[s].turn = pump[s].turn /\ pump'[s].bars = pump[s].bars
    BY <1>4 DEF Spawns, PumpGoto, TypeOK
<1>5. ASSUME Restart PROVE turn'[s] = NoTurn /\ cont'[s] = NoTurn /\ pump'[s] = NoPump
    BY <1>5 DEF Restart
<1> QED BY <1>1, <1>2, <1>3, <1>4, <1>5

\* Only its own start names a turn on a session that did not name it.
LEMMA NamedStep ==
    ASSUME TypeOK, Placed, [Next]_vars, NEW m \in Messages, NEW s \in Sessions, ~Named(m, s),
           ~(StartInstall(m) /\ starter[m].live = s)
    PROVE  ~Named(m, s)'
<1>1. turn[s].id # m /\ cont[s].id # m /\ pump[s].turn # m
    BY DEF Named
<1>2. None # m /\ NoTurn.id = None
    BY TurnsAssumption DEF NoTurn
<1>3. SUFFICES turn'[s].id # m /\ cont'[s].id # m /\ pump'[s].turn # m
    BY DEF Named
<1>4. CASE Restart
    BY <1>2, <1>4, SeatEffects DEF NoPump
<1>5. CASE ~Restart
  <2>1. turn'[s].id # m /\ cont'[s].id # m
    <3>1. CASE Seats(s)
        BY <1>1, <1>2, <3>1, SeatEffects DEF Seats
    <3>2. CASE StopTake /\ stopper.live = s
        BY <1>1, <1>2, <3>2, SeatEffects
    <3>3. CASE PumpOutput(s) \/ PumpWakes(s) \/ PumpTakes(s) \/ PumpTakesLast(s)
        BY <1>1, <1>2, <3>3, PumpEffects
    <3>4. CASE PumpSettles(s) \/ PumpExits(s) \/ PumpFailsLast(s)
        BY <1>1, <3>4 DEF PumpSettles, PumpExits, PumpFailsLast, session
    <3> QED BY <1>1, <1>5, <3>1, <3>2, <3>3, <3>4, OwnTurn DEF PumpActs, PumpWork
  <2>2. pump'[s].turn # m
    <3>1. CASE Spawns(s)
        BY <1>1, <3>1, SeatEffects
    <3>2. CASE PumpOutput(s) \/ PumpWakes(s) \/ PumpTakes(s) \/ PumpTakesLast(s)
        BY <1>1, <3>2, PumpEffects
    <3>3. CASE PumpSettles(s) \/ PumpFailsLast(s)
      <4>1. \E pc : pump'[s] = [NoPump EXCEPT !.pc = pc]
          BY <3>3, PumpEffects
      <4> QED BY <1>2, <4>1 DEF NoPump
    <3>4. CASE PumpExits(s)
      <4>1. pump'[s].turn = pump[s].turn \/ pump'[s].turn = None
          BY <3>4, PumpEffects
      <4> QED BY <1>1, <1>2, <4>1
    <3> QED BY <1>1, <1>5, <3>1, <3>2, <3>3, <3>4, OwnPump DEF PumpActs, PumpWork
  <2> QED BY <2>1, <2>2
<1> QED BY <1>4, <1>5

-----------------------------------------------------------------------------
(* The sessions and the tasks that hold them.                              *)

StopBusy == stopper.pc \in {"close", "take", "settle"}

\* A pump has a turn only while it settles it, and a forced stop owns its session.
Takers ==
    /\ \A s \in Sessions : pump[s].turn # None => pump[s].pc \in {"settle", "exitfail"}
    /\ StopBusy => stopper.live \in cleanup

\* A session out of the map stays out of it, and one that never ran was never in it.
Removed ==
    /\ cleanup \subseteq released /\ current \notin released
    /\ \A s \in Sessions :
         /\ pump[s].pc \in {"exit", "exitfail", "end"} => current # s
         /\ proc[s] = "unused" => current # s /\ s \notin released /\ pump[s].pc = "off"
    /\ \A m \in Messages : starter[m].live # None => proc[starter[m].live] # "unused"
    /\ sweeper.pc = "locked" => current = sweeper.live
    /\ sweeper.pc = "close" => sweeper.live \in released
    /\ archiving => status = "Archived"

SInv == IInv /\ Takers /\ Removed

\* Initially no session has run and no task is on one.
LEMMA InitSInv == Init => SInv
<1>1. Init => Takers /\ Removed
    BY TurnsAssumption DEF Init, Takers, Removed, StopBusy, NoPump, IdleStop, IdleTask
<1> QED BY <1>1, InitIInv DEF SInv

\* How a step moves the session in the map, and the marks on the others.
MapMoves ==
    \/ UNCHANGED <<current, released, cleanup>>
    \/ \E s \in Sessions : Spawns(s) /\ UNCHANGED <<released, cleanup>>
    \/ /\ current' = None
       /\ released \subseteq released' /\ cleanup' \subseteq cleanup \union released'
       /\ \A s \in released' \ released :
            s = current \/ \E m \in Messages : StartArchived(m) /\ s = starter[m].live

\* The map changes in these ways only.
LEMMA MapStep ==
    ASSUME TypeOK, Placed, [Next]_vars, sweeper.pc = "locked" => current = sweeper.live, ~Restart
    PROVE  MapMoves
<1>1. CASE UNCHANGED <<current, released, cleanup>>
    BY <1>1 DEF MapMoves
<1>2. CASE Asks
    BY <1>1, <1>2, AsksFrame DEF session
<1>3. CASE Starts
  <2>1. PICK m \in Messages : Start(m)
      BY <1>3 DEF Starts
  <2>2. CASE StartSpawn(m)
      BY <2>2 DEF StartSpawn, Spawns, MapMoves
  <2>3. CASE StartArchived(m)
      BY <2>3 DEF StartArchived, MapMoves
  <2>4. CASE ~StartSpawn(m) /\ ~StartArchived(m)
      BY <1>1, <2>1, <2>4 DEF Start, StartReuse, StartWait, StartSpawnFails, StartChecked, StartInstall,
                              StartDeliver, StartDeliveryFails, StartClear, session
  <2> QED BY <2>2, <2>3, <2>4
<1>4. CASE Pumps
  <2>1. PICK s \in Sessions : ProviderExits(s) \/ PumpOutput(s) \/ PumpTakes(s) \/ PumpWork(s)
      BY <1>4 DEF Pumps
  <2>2. CASE PumpExits(s)
      BY <1>1, <2>2 DEF PumpExits, MapMoves
  <2>3. CASE ~PumpExits(s)
      BY <1>1, <2>1, <2>3 DEF PumpWork, ProviderExits, PumpOutput, PumpTakes, PumpWakes, PumpSettles, PumpTakesLast,
                              PumpFailsLast, session
  <2> QED BY <2>2, <2>3
<1>5. CASE Stopping
  <2>1. CASE StopForce
      BY <1>1, <2>1 DEF StopForce, MapMoves
  <2>2. CASE ~StopForce
      BY <1>1, <1>5, <2>2 DEF Stopping, Stop, StopBegin, StopDone, StopClose, StopCloseFails, StopTake, StopSettle, session
  <2> QED BY <2>1, <2>2
<1>6. CASE Keeping
  <2>1. CASE ArchiveClose \/ SweepClaim
      BY <1>1, <2>1 DEF ArchiveClose, SweepClaim, MapMoves
  <2>2. CASE ~ArchiveClose /\ ~SweepClaim
      BY <1>1, <1>6, <2>2 DEF Keeping, DrainBegin, Archive, SweepCheck, SweepClose, session
  <2> QED BY <2>1, <2>2
<1>7. CASE UNCHANGED vars
    BY <1>1, <1>7 DEF vars, session
<1> QED BY <1>2, <1>3, <1>4, <1>5, <1>6, <1>7, NextByTask

\* A session runs from its spawn on, and its process once it is gone does not come back.
LEMMA ProcStep ==
    ASSUME TypeOK, Placed, [Next]_vars, NEW s \in Sessions
    PROVE  /\ proc'[s] = "unused" => proc[s] = "unused" /\ ~Spawns(s)
           /\ proc[s] # "unused" => proc'[s] # "unused"
           /\ proc'[s] = "up" => proc[s] = "up" \/ Spawns(s)
<1>1. CASE Spawns(s)
  <2>1. PICK m \in Messages : StartSpawn(m) /\ current' = s /\ proc[s] = "unused"
      BY <1>1 DEF Spawns
  <2>2. proc' = [proc EXCEPT ![s] = "up"]
      BY <2>1 DEF StartSpawn
  <2> QED BY <1>1, <2>1, <2>2 DEF TypeOK
<1>2. CASE ~Spawns(s)
  <2>1. ASSUME NEW r, proc' = [proc EXCEPT ![r] = "down"] \/ UNCHANGED proc
        PROVE  /\ proc'[s] = "unused" => proc[s] = "unused"
               /\ proc[s] # "unused" => proc'[s] # "unused"
               /\ proc'[s] = "up" => proc[s] = "up"
      BY <2>1 DEF TypeOK
  <2>2. CASE Starts
    <3>1. PICK m \in Messages : Start(m)
        BY <2>2 DEF Starts
    <3>2. CASE StartSpawn(m)
      <4>1. PICK r \in Sessions :
              proc[r] = "unused" /\ proc' = [proc EXCEPT ![r] = "up"] /\ current' = r /\ PumpGoto(r, "run")
          BY <3>2 DEF StartSpawn
      <4>2. r # s
          BY <1>2, <3>2, <4>1 DEF Spawns
      <4> QED BY <1>2, <4>1, <4>2 DEF TypeOK
    <3>3. CASE StartArchived(m)
        BY <1>2, <2>1, <3>3 DEF StartArchived
    <3>4. CASE ~StartSpawn(m) /\ ~StartArchived(m)
        BY <1>2, <2>1, <3>1, <3>4 DEF Start, StartReuse, StartWait, StartSpawnFails, StartChecked, StartInstall,
                                StartDeliver, StartDeliveryFails, StartClear, session
    <3> QED BY <3>2, <3>3, <3>4
  <2>3. CASE Pumps
    <3>1. PICK r \in Sessions : ProviderExits(r) \/ PumpOutput(r) \/ PumpTakes(r) \/ PumpWork(r)
        BY <2>3 DEF Pumps
    <3>2. proc' = [proc EXCEPT ![r] = "down"] \/ UNCHANGED proc
        BY <3>1 DEF PumpWork, ProviderExits, PumpOutput, PumpTakes, PumpWakes, PumpSettles, PumpTakesLast,
                    PumpFailsLast, PumpExits, session
    <3> QED BY <1>2, <2>1, <3>2
  <2>4. CASE Stopping
    <3>1. proc' = [proc EXCEPT ![stopper.live] = "down"] \/ UNCHANGED proc
        BY <2>4 DEF Stopping, Stop, StopBegin, StopDone, StopForce, StopClose, StopCloseFails, StopTake, StopSettle, session
    <3> QED BY <1>2, <2>1, <3>1
  <2>5. CASE Keeping
    <3>1. \E r : proc' = [proc EXCEPT ![r] = "down"] \/ UNCHANGED proc
        BY <2>5 DEF Keeping, DrainBegin, Archive, ArchiveClose, SweepCheck, SweepClaim, SweepClose, session
    <3> QED BY <1>2, <2>1, <3>1
  <2>6. CASE Asks \/ UNCHANGED vars
      BY <1>2, <2>6, AsksFrame DEF vars, session
  <2>7. CASE Restart
      BY <1>2, <2>7 DEF Restart, TypeOK
  <2> QED BY <2>2, <2>3, <2>4, <2>5, <2>6, <2>7, NextByTask
<1> QED BY <1>1, <1>2

\* Takers over a step.
LEMMA TakersStep == SInv /\ [Next]_vars => Takers'
<1> SUFFICES ASSUME SInv, [Next]_vars PROVE Takers'
    OBVIOUS
<1> USE DEF SInv, IInv
<1>1. ASSUME NEW s \in Sessions, pump'[s].turn # None PROVE pump'[s].pc \in {"settle", "exitfail"}
  <2>1. pump[s].turn # None => pump[s].pc \in {"settle", "exitfail"}
      BY DEF Takers
  <2>2. CASE Restart
      BY <1>1, <2>2, SeatEffects DEF NoPump
  <2>3. CASE Spawns(s)
    <3>1. pump[s].pc = "off"
        BY <2>3 DEF Spawns, Removed
    <3> QED BY <1>1, <2>1, <2>3, <3>1, SeatEffects
  <2>4. CASE PumpOutput(s) \/ PumpWakes(s) \/ PumpTakes(s) \/ PumpTakesLast(s)
      BY <1>1, <2>1, <2>4, PumpEffects
  <2>5. CASE PumpSettles(s) \/ PumpFailsLast(s)
    <3>1. \E pc : pump'[s] = [NoPump EXCEPT !.pc = pc]
        BY <2>5, PumpEffects
    <3> QED BY <1>1, <3>1 DEF NoPump
  <2>6. CASE PumpExits(s)
    <3>1. pump[s].pc = "run" /\ (pump'[s].turn = pump[s].turn \/ pump'[s].turn = None)
        BY <2>6, PumpEffects
    <3> QED BY <1>1, <2>1, <3>1
  <2> QED BY <1>1, <2>1, <2>2, <2>3, <2>4, <2>5, <2>6, OwnPump DEF PumpActs, PumpWork
<1>2. ASSUME StopBusy' PROVE stopper'.live \in cleanup'
  <2>1. CASE StopForce
      BY <1>2, <2>1 DEF StopForce, StopBusy, IdleStop, TypeOK
  <2>2. CASE Stopping /\ ~StopForce
    <3>1. stopper'.live = stopper.live /\ StopBusy /\ UNCHANGED cleanup
        BY <1>2, <2>2 DEF Stopping, Stop, StopBegin, StopDone, StopClose, StopCloseFails, StopTake, StopSettle,
                          IdleStop, StopBusy, session, TypeOK
    <3> QED BY <3>1 DEF Takers
  <2>3. CASE Asks \/ Starts \/ Pumps \/ Keeping
      BY <1>2, <2>3, AsksFrame, StartsFrame, PumpsFrame, KeepingFrame DEF Takers, StopBusy, session
  <2>4. CASE Restart
      BY <1>2, <2>4 DEF Restart, StopBusy, IdleStop
  <2>5. CASE UNCHANGED vars
      BY <1>2, <2>5 DEF vars, session, tasks, Takers, StopBusy
  <2> QED BY <2>1, <2>2, <2>3, <2>4, <2>5, NextByTask
<1> QED BY <1>1, <1>2 DEF Takers

\* Removed over a step.
LEMMA RemovedStep == SInv /\ [Next]_vars => Removed'
<1> SUFFICES ASSUME SInv, [Next]_vars PROVE Removed'
    OBVIOUS
<1> USE DEF SInv, IInv
<1>1. TypeOK' /\ Placed'
    BY TypeStep
<1>2. None \notin Sessions
    BY TurnsAssumption
<1>3. CASE Restart
    BY <1>2, <1>3 DEF Restart, Removed, NoPump, IdleTask, TypeOK
<1>4. CASE ~Restart
  <2>1. MapMoves
      BY <1>4, MapStep DEF Removed
  <2>2. cleanup' \subseteq released' /\ current' \notin released'
    <3>1. cleanup \subseteq released /\ current \notin released
        BY DEF Removed
    <3>2. ASSUME NEW s \in Sessions, Spawns(s), UNCHANGED <<released, cleanup>> PROVE current' \notin released'
        BY <3>2 DEF Spawns, Removed
    <3>3. CASE UNCHANGED <<current, released, cleanup>>
        BY <3>1, <3>3
    <3>4. CASE current' = None /\ released \subseteq released' /\ cleanup' \subseteq cleanup \union released'
        BY <1>1, <1>2, <3>1, <3>4 DEF TypeOK
    <3> QED BY <2>1, <3>1, <3>2, <3>3, <3>4 DEF MapMoves
  <2>3. ASSUME NEW s \in Sessions, pump'[s].pc \in {"exit", "exitfail", "end"} PROVE current' # s
    <3>1. CASE PumpActs(s)
      <4>1. CASE PumpExits(s)
          BY <1>2, <4>1 DEF PumpExits, Removed
      <4>2. CASE PumpTakesLast(s) \/ PumpFailsLast(s)
        <5>1. pump[s].pc \in {"exit", "exitfail"} /\ UNCHANGED current
            BY <4>2, PumpEffects DEF PumpTakesLast, PumpFailsLast, session
        <5> QED BY <5>1 DEF Removed
      <4>3. CASE PumpOutput(s) \/ PumpWakes(s) \/ PumpTakes(s) \/ PumpSettles(s)
          BY <2>3, <4>3, PumpEffects DEF NoPump
      <4> QED BY <3>1, <4>1, <4>2, <4>3 DEF PumpActs, PumpWork
    <3>2. CASE Spawns(s)
        BY <2>3, <3>2, SeatEffects
    <3>3. CASE ~PumpActs(s) /\ ~Spawns(s)
      <4>1. current # s
          BY <1>4, <2>3, <3>3, OwnPump DEF Removed
      <4>2. current' \in {current, None} \/ \E r \in Sessions : Spawns(r) /\ current' = r
          BY <2>1 DEF MapMoves, Spawns
      <4> QED BY <1>2, <3>3, <4>1, <4>2
    <3> QED BY <3>1, <3>2, <3>3
  <2>4. ASSUME NEW s \in Sessions, proc'[s] = "unused"
        PROVE  current' # s /\ s \notin released' /\ pump'[s].pc = "off"
    <3>1. proc[s] = "unused" /\ ~Spawns(s)
        BY <2>4, ProcStep
    <3>2. current # s /\ s \notin released /\ pump[s].pc = "off"
        BY <3>1 DEF Removed
    <3>3. ~PumpActs(s)
        BY <3>2 DEF PumpActs, PumpWork, PumpOutput, PumpTakes, PumpWakes, PumpSettles, PumpExits, PumpTakesLast, PumpFailsLast
    <3>4. pump'[s].pc = "off"
        BY <1>4, <3>1, <3>2, <3>3, OwnPump
    <3>5. current' # s
        BY <1>2, <2>1, <3>1, <3>2 DEF MapMoves, Spawns
    <3>6. ASSUME NEW m \in Messages, StartArchived(m) PROVE starter[m].live # s
        BY <1>2, <3>1, <3>6 DEF StartArchived, Placed, Removed
    <3>7. s \notin released'
        BY <2>1, <3>2, <3>6 DEF MapMoves
    <3> QED BY <3>4, <3>5, <3>7
  <2>5. ASSUME NEW m \in Messages, starter'[m].live # None PROVE proc'[starter'[m].live] # "unused"
    <3>1. starter'[m].live \in Sessions
        BY <1>1, <2>5 DEF TypeOK
    <3>2. starter'[m] = starter[m] \/ Start(m) \/ Begin(m)
        BY <1>4, OwnStarter
    <3>3. CASE starter'[m].live = starter[m].live
        BY <2>5, <3>1, <3>3, ProcStep DEF Removed
    <3>4. CASE starter'[m].live = current
        BY <2>5, <3>1, <3>4, ProcStep DEF Removed
    <3>5. CASE Begin(m)
        BY <2>5, <3>5 DEF Begin, Goto, TypeOK
    <3>6. CASE StartSpawn(m)
      <4>1. PICK s \in Sessions : proc' = [proc EXCEPT ![s] = "up"] /\ Goto(m, "check", s)
          BY <3>6 DEF StartSpawn
      <4> QED BY <4>1 DEF Goto, TypeOK
    <3>7. CASE Start(m) /\ ~StartSpawn(m)
      <4>1. PICK pc \in TaskSteps, s \in {None, current, starter[m].live} : Goto(m, pc, s)
          BY <3>7 DEF Start, StartReuse, StartWait, StartSpawnFails, StartArchived, StartChecked,
                      StartInstall, StartDeliver, StartDeliveryFails, StartClear, TaskSteps
      <4> QED BY <2>5, <3>3, <3>4, <4>1 DEF Goto, TypeOK
    <3> QED BY <3>2, <3>3, <3>5, <3>6, <3>7
  <2>6. sweeper'.pc = "locked" => current' = sweeper'.live
    <3>1. CASE Keeping
        BY <3>1 DEF Keeping, DrainBegin, Archive, ArchiveClose, SweepCheck, SweepClaim, SweepClose, session, Removed, IdleTask, TypeOK, SessionsFree
    <3>2. CASE Starts \/ Pumps \/ Stopping
      <4>1. sweeper' = sweeper
          BY <3>2, StartsFrame, PumpsFrame, StoppingFrame
      <4>2. CASE sweeper.pc = "locked"
        <5>1. ~SessionsFree
            BY <4>2 DEF SessionsFree
        <5>2. UNCHANGED current
            BY <3>2, <5>1 DEF Starts, Start, StartReuse, StartWait, StartSpawn, StartSpawnFails, StartArchived, StartChecked, StartInstall,
               StartDeliver, StartDeliveryFails, StartClear, Pumps, PumpWork, ProviderExits, PumpOutput, PumpTakes, PumpWakes, PumpSettles,
               PumpExits, PumpTakesLast, PumpFailsLast, Stopping, Stop, StopBegin, StopDone, StopForce, StopClose, StopCloseFails, StopTake, StopSettle, session
        <5> QED BY <4>1, <5>2 DEF Removed
      <4> QED BY <4>1, <4>2
    <3>3. CASE Asks \/ UNCHANGED vars
        BY <3>3, AsksFrame DEF vars, session, tasks, Removed
    <3> QED BY <1>4, <3>1, <3>2, <3>3, NextByTask
  <2>7. sweeper'.pc = "close" => sweeper'.live \in released'
    <3>1. released \subseteq released'
        BY <2>1 DEF MapMoves
    <3>2. CASE Keeping
        BY <3>1, <3>2 DEF Keeping, DrainBegin, Archive, ArchiveClose, SweepCheck, SweepClaim, SweepClose, session, Removed, IdleTask, TypeOK
    <3>3. CASE ~Keeping
      <4>1. sweeper' = sweeper
          BY <1>4, <3>3, AsksFrame, StartsFrame, PumpsFrame, StoppingFrame, NextByTask DEF vars, tasks
      <4> QED BY <3>1, <4>1 DEF Removed
    <3> QED BY <3>2, <3>3
  <2>8. archiving' => status' = "Archived"
    <3>1. status = "Archived" => status' = "Archived"
        BY NextDurable DEF DurableStep, Keeps, Archives, Begins, Ends, Reopened, Queues, Unqueues, Crashes
    <3>2. CASE Keeping
        BY <3>1, <3>2 DEF Keeping, DrainBegin, Archive, ArchiveClose, SweepCheck, SweepClaim, SweepClose, durable, Removed
    <3>3. CASE ~Keeping
      <4>1. archiving' = archiving
          BY <1>4, <3>3, AsksFrame, StartsFrame, PumpsFrame, StoppingFrame, NextByTask DEF vars, tasks
      <4> QED BY <3>1, <4>1 DEF Removed
    <3> QED BY <3>2, <3>3
  <2> QED BY <2>2, <2>3, <2>4, <2>5, <2>6, <2>7, <2>8 DEF Removed
<1> QED BY <1>3, <1>4

\* No step breaks what holds of the sessions and the tasks on them.
LEMMA SInvStep == SInv /\ [Next]_vars => SInv'
<1>1. IInv /\ [Next]_vars => IInv'
    BY TypeStep, NamesStep, NextDurable, QueueStep DEF IInv
<1> QED BY <1>1, TakersStep, RemovedStep DEF SInv

-----------------------------------------------------------------------------
(* A turn the provider has: who holds it, and that it ends once.           *)

Delivered(m) == starter[m].pc = "done" /\ starter[m].live # None
Handed(m) == starter[m].pc = "deliver" \/ Delivered(m)
StopHas(m) == stopper.pc = "settle" /\ stopper.turn.id = m

\* The turn is on one session, its pump has it, or the forced stop there, and never two.
HeldOn(m, s) ==
    /\ log[m] \in {"open", "closed"}
    /\ \A r \in Sessions : Named(m, r) => r = s
    /\ StopHas(m) => stopper.live = s
    /\ turn[s].id = m => log[m] = "open" /\ pump[s].turn # m /\ ~StopHas(m)
    /\ pump[s].turn = m => log[m] = "open" /\ ~StopHas(m)
    /\ StopHas(m) => log[m] = "open"
Custody == \A m \in Messages : Handed(m) => HeldOn(m, starter[m].live)

\* A turn is handed to the provider where it was installed.
LEMMA HandedStep ==
    ASSUME SInv, [Next]_vars, NEW m \in Messages, Handed(m)'
    PROVE  /\ starter[m].live \in Sessions
           /\ StartInstall(m) \/ Handed(m)
           /\ starter'[m].live = starter[m].live
<1> USE DEF SInv, IInv
<1>1. ~Restart /\ ~Begin(m)
    BY DEF Handed, Delivered, Restart, IdleTask, Begin, Goto, TypeOK
<1>2. CASE StartInstall(m) \/ StartDeliver(m)
    BY <1>2 DEF StartInstall, StartDeliver, Goto, TypeOK, Placed, Handed
<1>3. CASE Start(m) /\ ~StartInstall(m) /\ ~StartDeliver(m)
    BY <1>3 DEF Start, StartReuse, StartWait, StartSpawn, StartSpawnFails, StartArchived, StartChecked, StartDeliveryFails,
                StartClear, Goto, Handed, Delivered, TypeOK
<1>4. CASE ~Start(m)
  <2>1. starter'[m] = starter[m]
      BY <1>1, <1>4, OwnStarter
  <2> QED BY <2>1 DEF Handed, Delivered, TypeOK, Placed
<1> QED BY <1>2, <1>3, <1>4

\* A forced stop takes a turn from the session it holds.
LEMMA StopHasStep ==
    ASSUME TypeOK, Placed, [Next]_vars, NEW m \in Messages, StopHas(m)'
    PROVE  \/ StopHas(m) /\ stopper' = stopper /\ ~StopSettle
           \/ StopTake /\ turn[stopper.live].id = m /\ stopper'.live = stopper.live
<1>1. CASE StopTake
    BY <1>1 DEF StopTake, StopHas
<1>2. CASE Stopping /\ ~StopTake
    BY <1>2 DEF Stopping, Stop, StopBegin, StopDone, StopForce, StopClose, StopCloseFails, StopSettle, IdleStop, StopHas, TypeOK
<1>3. CASE Asks \/ Starts \/ Pumps \/ Keeping
  <2>1. stopper' = stopper
      BY <1>3, AsksFrame, StartsFrame, PumpsFrame, KeepingFrame
  <2>2. ~StopSettle
      BY <2>1 DEF StopSettle, IdleStop, TypeOK
  <2> QED BY <2>1, <2>2 DEF StopHas
<1>4. CASE Restart
    BY <1>4 DEF Restart, StopHas, IdleStop
<1>5. CASE UNCHANGED vars
  <2>1. stopper' = stopper
      BY <1>5 DEF vars, tasks
  <2>2. ~StopSettle
      BY <2>1 DEF StopSettle, IdleStop, TypeOK
  <2> QED BY <2>1, <2>2 DEF StopHas
<1> QED BY <1>1, <1>2, <1>3, <1>4, <1>5, NextByTask

\* Where no event touches it, a turn stays on its session or passes to a task there.
LEMMA TurnMoves ==
    ASSUME SInv, [Next]_vars, NEW m \in Messages, NEW s \in Sessions, ~StartInstall(m)
    PROVE  /\ turn'[s].id = m => turn[s].id = m \/ (Resumes(s) /\ cont[s].id = m)
           /\ pump'[s].turn = m =>
                \/ pump[s].turn = m /\ ~Settles(s)
                \/ (PumpTakes(s) \/ PumpTakesLast(s)) /\ turn[s].id = m /\ turn'[s] = NoTurn
<1> USE DEF SInv, IInv
<1>1. None # m /\ NoTurn.id = None
    BY TurnsAssumption DEF NoTurn
<1>2. ASSUME turn'[s].id = m PROVE turn[s].id = m \/ (Resumes(s) /\ cont[s].id = m)
  <2>1. CASE Restart
      BY <1>1, <1>2, <2>1, SeatEffects
  <2>2. CASE Seats(s)
      BY <1>1, <1>2, <2>2, SeatEffects DEF Seats
  <2>3. CASE StopTake /\ stopper.live = s
      BY <1>1, <1>2, <2>3, SeatEffects
  <2>4. CASE PumpOutput(s) \/ PumpWakes(s) \/ PumpTakes(s) \/ PumpTakesLast(s)
      BY <1>1, <1>2, <2>4, PumpEffects
  <2>5. CASE PumpSettles(s) \/ PumpExits(s) \/ PumpFailsLast(s)
      BY <1>2, <2>5 DEF PumpSettles, PumpExits, PumpFailsLast, session
  <2> QED BY <1>2, <2>1, <2>2, <2>3, <2>4, <2>5, OwnTurn DEF PumpActs, PumpWork
<1>3. ASSUME pump'[s].turn = m
      PROVE  \/ pump[s].turn = m /\ ~Settles(s)
             \/ (PumpTakes(s) \/ PumpTakesLast(s)) /\ turn[s].id = m /\ turn'[s] = NoTurn
  <2>1. ~Settles(s)
    <3>1. ASSUME Settles(s) PROVE \E pc : pump'[s] = [NoPump EXCEPT !.pc = pc]
        BY <3>1, PumpEffects DEF Settles
    <3> QED BY <1>1, <1>3, <3>1 DEF NoPump
  <2>2. CASE PumpTakes(s) \/ PumpTakesLast(s)
      BY <1>3, <2>2, PumpEffects
  <2>3. CASE PumpOutput(s) \/ PumpWakes(s)
      BY <1>3, <2>1, <2>3, PumpEffects
  <2>4. CASE PumpExits(s)
    <3>1. pump'[s].turn = pump[s].turn \/ pump'[s].turn = None
        BY <2>4, PumpEffects
    <3> QED BY <1>1, <1>3, <2>1, <3>1
  <2>5. CASE Spawns(s)
      BY <1>3, <2>1, <2>5, SeatEffects
  <2>6. CASE Restart
      BY <1>1, <1>3, <2>6, SeatEffects DEF NoPump
  <2> QED BY <1>3, <2>1, <2>2, <2>3, <2>4, <2>5, <2>6, OwnPump DEF PumpActs, PumpWork, Settles
<1> QED BY <1>2, <1>3

\* What the log says after an event, and that the tasks of the others stay.
LEMMA SettleEffects ==
    ASSUME TypeOK, Placed, NEW s \in Sessions
    PROVE  /\ Settles(s) => UNCHANGED <<turn, cont, stopper>>
           /\ Settles(s) /\ pump[s].turn \in Messages => log' = Ended(pump[s].turn)
           /\ Resumes(s) => log' = [log EXCEPT ![cont[s].id] = IF @ = "again" THEN "again" ELSE "open"] /\ UNCHANGED stopper
           /\ StopSettle /\ stopper.turn.id \in Messages => log' = Ended(stopper.turn.id)
           /\ StopSettle => stopper' = IdleStop /\ UNCHANGED <<turn, cont, pump>>
<1>1. Settles(s) => UNCHANGED <<turn, cont, stopper>>
    BY DEF Settles, PumpSettles, PumpFailsLast, session
<1>2. ASSUME Settles(s), pump[s].turn \in Messages PROVE log' = Ended(pump[s].turn)
    BY <1>2, TurnsAssumption DEF Settles, PumpSettles, PumpFailsLast
<1>3. ASSUME Resumes(s) PROVE log' = [log EXCEPT ![cont[s].id] = IF @ = "again" THEN "again" ELSE "open"] /\ UNCHANGED stopper
  <2>1. ~HeldBack(s)
      BY <1>3 DEF Resumes, Reopens, HeldBack
  <2> QED BY <1>3, <2>1 DEF Resumes, PumpOutput, PumpWakes, Output
<1>4. ASSUME StopSettle, stopper.turn.id \in Messages PROVE log' = Ended(stopper.turn.id)
    BY <1>4, TurnsAssumption DEF StopSettle, NoTurn
<1>5. StopSettle => stopper' = IdleStop /\ UNCHANGED <<turn, cont, pump>>
    BY DEF StopSettle, session
<1> QED BY <1>1, <1>2, <1>3, <1>4, <1>5

\* No step gives a turn that the provider has to two of them, or loses the session it is on.
LEMMA CustodyStep == SInv /\ Custody /\ [Next]_vars => Custody'
<1> SUFFICES ASSUME SInv, Custody, [Next]_vars, NEW m \in Messages, Handed(m)' PROVE HeldOn(m, starter[m].live)'
    BY DEF Custody
<1> USE DEF SInv, IInv
<1>1. PICK s \in Sessions : s = starter[m].live
    BY HandedStep
<1>2. starter'[m].live = s /\ (StartInstall(m) \/ Handed(m))
    BY <1>1, HandedStep
<1>3. None # m /\ NoTurn.id = None
    BY TurnsAssumption DEF NoTurn
<1>4. CASE StartInstall(m)
  <2>1. log[m] = "open" /\ Unnamed(m)
      BY <1>4 DEF StartInstall, Early, NamesBegun
  <2>2. log' = log /\ stopper' = stopper /\ pump' = pump
      BY <1>4 DEF StartInstall, durable
  <2>3. ASSUME NEW r \in Sessions, Named(m, r)' PROVE r = s
      BY <1>1, <2>1, <2>3, NamedStep DEF Unnamed
  <2>4. ~StopHas(m)' /\ pump'[s].turn # m
      BY <2>1, <2>2 DEF Unnamed, StopHas, Named
  <2> QED BY <1>2, <2>1, <2>2, <2>3, <2>4 DEF HeldOn
<1>5. CASE Handed(m) /\ ~StartInstall(m)
  <2>1. HeldOn(m, s)
      BY <1>1, <1>5 DEF Custody
  <2>2. ASSUME NEW r \in Sessions, Named(m, r)' PROVE r = s
      BY <1>5, <2>1, <2>2, NamedStep DEF HeldOn
  <2>3. StopHas(m)' => stopper'.live = s
      BY <2>1, StopHasStep DEF HeldOn, Named, StopTake, Placed
  <2>4. ~Restart /\ ~Begin(m)
      BY DEF Handed, Delivered, Restart, IdleTask, Begin, Goto, TypeOK
  <2>5. Start(m) => log' = log
      BY <1>5 DEF Start, Handed, Delivered, StartReuse, StartWait, StartSpawn, StartSpawnFails, StartArchived, StartChecked,
                  StartDeliver, StartDeliveryFails, StartClear, Goto, TypeOK, durable
  <2>6. CASE \E r \in Sessions : Settles(r) /\ pump[r].turn = m
    <3>1. PICK r \in Sessions : Settles(r) /\ pump[r].turn = m
        BY <2>6
    <3>2. r = s
        BY <2>1, <3>1 DEF HeldOn, Named
    <3>3. log[m] = "open" /\ turn[s].id # m /\ ~StopHas(m)
        BY <2>1, <3>1, <3>2 DEF HeldOn
    <3>4. log'[m] = "closed" /\ turn'[s].id # m /\ ~StopHas(m)'
        BY <3>1, <3>2, <3>3, SettleEffects DEF Ended, EndIn, StopHas, TypeOK
    <3>5. pump'[s].turn # m
        BY <1>5, <3>1, <3>2, <3>3, TurnMoves
    <3> QED BY <1>2, <2>2, <3>4, <3>5 DEF HeldOn
  <2>7. CASE \E r \in Sessions : Resumes(r) /\ cont[r].id = m
    <3>1. PICK r \in Sessions : Resumes(r) /\ cont[r].id = m
        BY <2>7
    <3>2. r = s
        BY <2>1, <3>1 DEF HeldOn, Named
    <3>3. log'[m] = "open"
        BY <2>1, <3>1, SettleEffects DEF HeldOn, TypeOK
    <3>4. ~StopHas(m)
        BY <2>1, <3>1, <3>2 DEF HeldOn, Resumes, StopHas, Takers, StopBusy
    <3>5. ~StopHas(m)'
        BY <3>1, <3>4, SettleEffects DEF StopHas
    <3>6. pump'[s].turn # m
      <4>1. pump[s].pc \in {"run", "wait"} /\ pump'[s].turn = pump[s].turn
          BY <3>1, <3>2, PumpEffects DEF Resumes
      <4> QED BY <1>3, <4>1 DEF Takers
    <3> QED BY <1>2, <2>2, <3>3, <3>5, <3>6 DEF HeldOn
  <2>8. CASE StopSettle /\ stopper.turn.id = m
    <3>1. StopHas(m) /\ log[m] = "open" /\ turn[s].id # m /\ pump[s].turn # m
        BY <2>1, <2>8 DEF HeldOn, StopHas, StopSettle
    <3>2. log'[m] = "closed" /\ turn'[s].id # m /\ pump'[s].turn # m /\ ~StopHas(m)'
        BY <2>8, <3>1, SettleEffects DEF Ended, EndIn, StopHas, TypeOK, IdleStop
    <3> QED BY <1>2, <2>2, <3>2 DEF HeldOn
  <2>9. CASE ~Events(m)
    <3>1. log'[m] = log[m]
        BY <2>4, <2>5, <2>9, OwnLog
    <3>2. turn'[s].id = m => turn[s].id = m
        BY <1>5, <2>9, TurnMoves DEF Events
    <3>3. pump'[s].turn = m => pump[s].turn = m \/ (stopper' = stopper /\ turn[s].id = m /\ turn'[s] = NoTurn)
        BY <1>5, TurnMoves DEF PumpTakes, PumpTakesLast
    <3>4. StopHas(m)' => StopHas(m) \/ (turn[s].id = m /\ turn'[s] = NoTurn /\ pump' = pump)
      <4>1. ASSUME StopTake, turn[stopper.live].id = m PROVE stopper.live = s
          BY <2>1, <4>1 DEF HeldOn, Named, StopTake, Placed
      <4> QED BY <4>1, StopHasStep, SeatEffects DEF StopTake
    <3> QED BY <1>2, <1>3, <2>1, <2>2, <2>3, <3>1, <3>2, <3>3, <3>4 DEF HeldOn, StopHas
  <2> QED BY <2>6, <2>7, <2>8, <2>9 DEF Events
<1> QED BY <1>2, <1>4, <1>5

-----------------------------------------------------------------------------
(* The stored status and the turns the log has not ended.                  *)

OneOpen ==
    /\ \A m, n \in Open : m = n
    /\ status = "Running" => Open # {}
    /\ Open # {} => status \in {"Running", "Archived"}

\* A turn ended twice is known as such for good.
LEMMA AgainStays ==
    ASSUME TypeOK, DurableStep, SettledOnce'
    PROVE  SettledOnce
<1> SUFFICES ASSUME NEW m \in Messages, log[m] = "again" PROVE FALSE
    BY DEF SettledOnce
<1>1. log'[m] # "again"
    BY DEF SettledOnce
<1>2. ASSUME NEW n \in Messages, Begins(n) PROVE FALSE
    BY <1>1, <1>2 DEF Begins, TypeOK
<1>3. ASSUME NEW n \in Messages, Ends(n) PROVE FALSE
    BY <1>1, <1>3 DEF Ends, Ended, EndIn, TypeOK
<1>4. ASSUME NEW n \in Messages, Reopened(n) PROVE FALSE
    BY <1>1, <1>4 DEF Reopened, TypeOK
<1>5. ASSUME NEW n \in Messages, NEW k \in Messages, Crashes(n, k) PROVE FALSE
    BY <1>1, <1>5 DEF Crashes, Ended, EndIn, TypeOK
<1> QED BY <1>1, <1>2, <1>3, <1>4, <1>5 DEF DurableStep, Keeps, Archives, Queues, Unqueues

\* As long as no turn is ended twice, the one open turn is the one a step begins,
\* ends or reopens.
LEMMA OneOpenStep ==
    ASSUME TypeOK, DurableStep, OneOpen, SettledOnce'
    PROVE  OneOpen'
<1> USE DEF OneOpen, Open
<1>1. SettledOnce
    BY AgainStays
<1>2. CASE Keeps \/ Archives
    BY <1>2 DEF Keeps, Archives
<1>3. ASSUME NEW m \in Messages, Begins(m) PROVE OneOpen'
  <2>1. \A n \in Messages : log[n] # "open"
      BY <1>3 DEF Begins
  <2>2. status' = "Running" /\ \A n \in Messages : log'[n] = "open" <=> n = m
      BY <1>3, <2>1 DEF Begins, TypeOK
  <2> QED BY <2>2
<1>4. ASSUME NEW m \in Messages, Ends(m) PROVE OneOpen'
  <2>1. log[m] = "open"
      BY <1>4 DEF Ends, Ended, EndIn, SettledOnce, TypeOK
  <2>2. \A n \in Messages : log'[n] # "open"
      BY <1>4, <2>1 DEF Ends, Ended, EndIn, TypeOK
  <2>3. status' # "Running"
      BY <1>4 DEF Ends
  <2> QED BY <2>2, <2>3
<1>5. ASSUME NEW m \in Messages, Reopened(m) PROVE OneOpen'
  <2>1. \A n \in Messages : log[n] # "open"
      BY <1>5 DEF Reopened
  <2>2. status' = "Running" /\ \A n \in Messages : log'[n] = "open" <=> n = m
      BY <1>1, <1>5, <2>1 DEF Reopened, SettledOnce, TypeOK
  <2> QED BY <2>2
<1>6. ASSUME NEW m \in Messages, Queues(m) \/ Unqueues(m) PROVE OneOpen'
    BY <1>6 DEF Queues, Unqueues
<1>7. ASSUME NEW m \in Messages, NEW n \in Messages, Crashes(m, n) PROVE OneOpen'
  <2>1. log[m] = "open"
      BY <1>7 DEF Crashes, Ended, EndIn, SettledOnce, TypeOK
  <2>2. m # n
      BY <1>7, <2>1 DEF Crashes, Ended, EndIn, SettledOnce, TypeOK
  <2>3. log[n] = "open"
      BY <1>7, <2>2 DEF Crashes, Ended, EndIn, SettledOnce, TypeOK
  <2> QED BY <2>1, <2>2, <2>3
<1> QED BY <1>2, <1>3, <1>4, <1>5, <1>6, <1>7 DEF DurableStep

\* In an archived thread the open turns only end.
LEMMA ArchivedOpenStep ==
    ASSUME TypeOK, DurableStep, status = "Archived", OneOpen
    PROVE  OneOpen'
<1>1. status' = "Archived" /\ \A n \in Messages : log'[n] = "open" => log[n] = "open"
    BY DEF DurableStep, Keeps, Archives, Begins, Ends, Ended, EndIn, Reopened, Queues, Unqueues, Crashes, TypeOK
<1> QED BY <1>1 DEF OneOpen, Open

-----------------------------------------------------------------------------
(* A thread nothing hits while it starts a turn.                           *)

Calm == Undisturbed /\ status # "Archived"

\* What may happen does not change over time, and no restart hits a thread that is calm.
LEMMA MayStays ==
    ASSUME TypeOK, [Next]_vars
    PROVE  left'.may = left.may
<1>1. CASE UNCHANGED left
    BY <1>1
<1>2. CASE Asks \/ Keeping
    BY <1>1, <1>2, AsksFrame, KeepingFrame DEF counts
<1>3. CASE Starts
    BY <1>1, <1>3, StartsFrame
<1>4. CASE Pumps
  <2>1. PICK s \in Sessions : ProviderExits(s) \/ PumpOutput(s) \/ PumpTakes(s) \/ PumpWork(s)
      BY <1>4 DEF Pumps
  <2>2. UNCHANGED left \/ left' = [left EXCEPT !.resumes = left.resumes - 1]
      BY <2>1 DEF PumpWork, ProviderExits, PumpOutput, PumpTakes, PumpWakes, PumpSettles, PumpTakesLast,
                  PumpFailsLast, PumpExits, Output, counts
  <2> QED BY <2>2 DEF TypeOK, Budget
<1>5. CASE Stopping
  <2>1. UNCHANGED left \/ left' = [left EXCEPT !.stops = left.stops - 1]
      BY <1>5 DEF Stopping, Stop, StopBegin, StopDone, StopForce, StopClose, StopCloseFails, StopTake, StopSettle, counts
  <2> QED BY <2>1 DEF TypeOK, Budget
<1>6. CASE Restart
    BY <1>6 DEF Restart, TypeOK, Budget
<1>7. CASE UNCHANGED vars
    BY <1>1, <1>7 DEF vars, counts
<1> QED BY <1>2, <1>3, <1>4, <1>5, <1>6, <1>7, NextByTask

Underway(m) == starter[m].pc \in {"spawn", "check", "install", "deliver"}
Placing(m) == starter[m].pc \in {"check", "install", "deliver"}

\* Who is named has its message at the provider, or on its way there in its session.
CalmNames ==
    /\ SettledOnce
    /\ \A m \in Messages :
         /\ starter[m].pc # "clear"
         /\ StopHas(m) \/ (\E s \in Sessions : Named(m, s)) => Handed(m)
         /\ starter[m].pc = "deliver" => turn[starter[m].live].id = m

\* The session in the map, and the start that is on its way to it.
CalmMap ==
    /\ \A m \in Messages :
         /\ Placing(m) => starter[m].live = current /\ proc[current] = "up"
         /\ starter[m].pc = "spawn" => current = None
    /\ \A s \in Sessions : s = current /\ proc[s] = "down" => turn[s] # NoTurn
    /\ sweeper.pc = "locked" => \A m \in Messages : ~Underway(m)

CInv ==
    /\ SInv /\ Custody /\ OneTurn
    /\ Calm => CalmNames /\ CalmMap
    /\ \A m \in Messages : starter[m].pc = "ensure" => starter[m].live = None

\* Initially nothing is on its way to a session.
LEMMA InitCInv == Init => CInv
<1> SUFFICES ASSUME Init PROVE CInv
    OBVIOUS
<1>1. Custody
    BY DEF Init, IdleTask, Custody, Handed, Delivered
<1>2. OneTurn
    BY DEF Init, OneTurn, Open
<1>3. CalmNames /\ CalmMap
    BY TurnsAssumption DEF Init, IdleTask, CalmNames, CalmMap, SettledOnce, StopHas, Named, NoTurn, IdleStop, NoPump, Underway, Placing
<1>4. \A m \in Messages : starter[m].pc = "ensure" => starter[m].live = None
    BY DEF Init, IdleTask
<1> QED BY <1>1, <1>2, <1>3, <1>4, InitSInv DEF CInv

\* What cannot happen to a calm thread, and what holds in it.
LEMMA CalmFacts ==
    ASSUME CInv, [Next]_vars, Calm'
    PROVE  /\ Calm /\ CalmNames /\ CalmMap /\ OneOpen
           /\ ~Restart /\ ~ArchiveClose /\ \A m \in Messages : ~StartArchived(m)
<1> USE DEF CInv, SInv, IInv
<1>1. left'.may = left.may
    BY MayStays
<1>2. status # "Archived"
    BY NextDurable DEF DurableStep, Keeps, Archives, Begins, Ends, Reopened, Queues, Unqueues, Crashes, Calm
<1>3. Calm
    BY <1>1, <1>2 DEF Calm, Undisturbed
<1>4. ~Restart
    BY <1>3 DEF Restart, May, Calm, Undisturbed
<1>5. ~ArchiveClose /\ \A m \in Messages : ~StartArchived(m)
    BY <1>2 DEF ArchiveClose, Removed, StartArchived
<1>6. OneOpen
    BY <1>3 DEF OneTurn, OneOpen, Calm
<1> QED BY <1>3, <1>4, <1>5, <1>6

\* A start that is on its way is the start of the one open turn.
LEMMA OnItsWay ==
    ASSUME CInv, CalmNames, NEW m \in Messages, Early(m) \/ starter[m].pc = "deliver"
    PROVE  m \in Open
<1> USE DEF CInv, SInv, IInv
<1>1. CASE Early(m)
    BY <1>1 DEF NamesBegun, Open
<1>2. CASE starter[m].pc = "deliver"
    BY <1>2 DEF CalmNames, Handed, Custody, HeldOn, Open, Placed
<1> QED BY <1>1, <1>2

\* A turn on a session, or in the pump, is the one open turn too.
LEMMA NamedOpen ==
    ASSUME CInv, CalmNames, NEW m \in Messages, NEW s \in Sessions, turn[s].id = m \/ pump[s].turn = m
    PROVE  m \in Open /\ Handed(m) /\ starter[m].live = s
<1>1. Handed(m)
    BY DEF CalmNames, Named
<1>2. HeldOn(m, starter[m].live)
    BY <1>1 DEF CInv, Custody
<1>3. starter[m].live = s
    BY <1>2 DEF HeldOn, Named
<1> QED BY <1>1, <1>2, <1>3 DEF HeldOn, Open

\* In a calm thread a message at the provider stays there.
LEMMA HandedStays ==
    ASSUME CInv, [Next]_vars, Calm', NEW m \in Messages, Handed(m)
    PROVE  Handed(m)'
<1> USE DEF CInv, SInv, IInv
<1>1. Calm /\ CalmMap /\ ~Restart
    BY CalmFacts
<1>2. ~Begin(m)
  <2>1. starter[m].pc # "idle"
      BY DEF Handed, Delivered
  <2>2. log[m] # "none"
      BY <2>1 DEF NamesBegun
  <2>3. Begin(m) => log'[m] = "twice"
      BY <2>2 DEF Begin, TypeOK
  <2> QED BY <2>3, NextDurable, QueueStep DEF StartedOnce
<1>3. ~StartDeliveryFails(m)
  <2>1. SUFFICES ASSUME StartDeliveryFails(m) PROVE FALSE
      OBVIOUS
  <2>2. proc[starter[m].live] = "up"
      BY <1>1, <2>1 DEF StartDeliveryFails, CalmMap, Placing
  <2> QED BY <1>1, <2>1, <2>2 DEF StartDeliveryFails, May, Calm, Undisturbed
<1>4. CASE Start(m)
  <2>1. StartDeliver(m)
      BY <1>3, <1>4 DEF Start, Handed, Delivered, StartReuse, StartWait, StartSpawn, StartSpawnFails, StartArchived, StartChecked,
                  StartInstall, StartClear
  <2>2. starter'[m] = [pc |-> "done", live |-> starter[m].live] /\ starter[m].live \in Sessions
      BY <2>1 DEF StartDeliver, Goto, TypeOK, Placed
  <2> QED BY <2>2, TurnsAssumption DEF Handed, Delivered
<1>5. CASE ~Start(m)
  <2>1. starter'[m] = starter[m]
      BY <1>1, <1>2, <1>5, OwnStarter
  <2> QED BY <2>1 DEF Handed, Delivered
<1> QED BY <1>4, <1>5

\* In a calm thread no turn is ended twice.
LEMMA CalmSettles ==
    ASSUME CInv, [Next]_vars, Calm'
    PROVE  SettledOnce'
<1> SUFFICES ASSUME NEW m \in Messages, log'[m] = "again" PROVE FALSE
    BY DEF SettledOnce
<1> USE DEF CInv, SInv, IInv
<1>1. Calm /\ CalmNames /\ ~Restart
    BY CalmFacts
<1>2. log[m] # "again"
    BY <1>1 DEF CalmNames, SettledOnce
<1>3. ~Begin(m)
    BY <1>2 DEF Begin, TypeOK
<1>4. ~Start(m)
  <2>1. SUFFICES ASSUME Start(m) PROVE FALSE
      OBVIOUS
  <2>2. CASE StartSpawnFails(m)
    <3>1. log[m] = "open"
        BY <2>2 DEF StartSpawnFails, Early, NamesBegun
    <3> QED BY <2>2, <3>1 DEF StartSpawnFails, Ended, EndIn, TypeOK
  <2>3. CASE StartDeliveryFails(m)
    <3>1. Handed(m)
        BY <2>3 DEF StartDeliveryFails, Handed
    <3>2. Handed(m)'
        BY <3>1, HandedStays
    <3> QED BY <2>3, <3>2 DEF StartDeliveryFails, Goto, Handed, Delivered, TypeOK
  <2> QED BY <1>2, <2>1, <2>2, <2>3 DEF Start, StartReuse, StartWait, StartSpawn, StartArchived, StartChecked, StartInstall,
                      StartDeliver, StartClear, durable
<1>5. CASE \E r \in Sessions : Settles(r) /\ pump[r].turn = m
  <2>1. PICK r \in Sessions : Settles(r) /\ pump[r].turn = m
      BY <1>5
  <2>2. log[m] = "open"
      BY <1>1, <2>1, NamedOpen DEF Open
  <2> QED BY <2>1, <2>2, SettleEffects, <1>2 DEF Ended, EndIn, TypeOK
<1>6. CASE \E r \in Sessions : Resumes(r) /\ cont[r].id = m
    BY <1>2, <1>6, SettleEffects DEF TypeOK
<1>7. CASE StopSettle /\ stopper.turn.id = m
  <2>1. Handed(m) /\ StopHas(m)
      BY <1>1, <1>7 DEF CalmNames, StopHas, StopSettle
  <2>2. log[m] = "open"
      BY <2>1 DEF Custody, HeldOn
  <2>3. log' = Ended(m)
      BY <1>7, TurnsAssumption DEF StopSettle, NoTurn
  <2> QED BY <2>2, <2>3 DEF Ended, EndIn, TypeOK
<1> QED BY <1>1, <1>2, <1>3, <1>4, <1>5, <1>6, <1>7, OwnLog DEF Events

\* ... and the names of its turns are those of messages the provider has or gets.
LEMMA CalmNamesStep ==
    ASSUME CInv, [Next]_vars, Calm'
    PROVE  CalmNames'
<1> USE DEF CInv, SInv, IInv
<1>1. Calm /\ CalmNames /\ CalmMap /\ OneOpen /\ ~Restart
    BY CalmFacts
<1>2. SettledOnce'
    BY CalmSettles
<1>3. ASSUME NEW m \in Messages PROVE starter'[m].pc # "clear"
  <2>1. ~StartDeliveryFails(m)
    <3>1. SUFFICES ASSUME StartDeliveryFails(m) PROVE FALSE
        OBVIOUS
    <3>2. Handed(m)
        BY <3>1 DEF StartDeliveryFails, Handed
    <3>3. Handed(m)'
        BY <3>2, HandedStays
    <3> QED BY <3>1, <3>3 DEF StartDeliveryFails, Goto, Handed, Delivered, TypeOK
  <2>2. starter[m].pc # "clear"
      BY <1>1 DEF CalmNames
  <2>3. CASE Begin(m)
      BY <2>3 DEF Begin, Goto, TypeOK
  <2>4. CASE Start(m)
      BY <2>1, <2>4 DEF Start, StartReuse, StartWait, StartSpawn, StartSpawnFails, StartArchived, StartChecked,
                  StartInstall, StartDeliver, StartClear, Goto, TypeOK
  <2> QED BY <1>1, <2>2, <2>3, <2>4, OwnStarter
<1>4. ASSUME NEW m \in Messages, StopHas(m)' \/ \E s \in Sessions : Named(m, s)' PROVE Handed(m)'
  <2>1. CASE StartInstall(m)
      BY <2>1 DEF StartInstall, Goto, Handed, TypeOK
  <2>2. CASE ~StartInstall(m)
    <3>1. StopHas(m) \/ \E s \in Sessions : Named(m, s)
      <4>1. ASSUME StopHas(m)' PROVE StopHas(m) \/ \E s \in Sessions : Named(m, s)
          BY <4>1, StopHasStep DEF Named, StopTake, Placed
      <4>2. ASSUME NEW s \in Sessions, Named(m, s)' PROVE Named(m, s)
          BY <2>2, <4>2, NamedStep
      <4> QED BY <1>4, <4>1, <4>2
    <3>2. Handed(m)
        BY <1>1, <3>1 DEF CalmNames
    <3> QED BY <3>2, HandedStays
  <2> QED BY <2>1, <2>2
<1>5. ASSUME NEW m \in Messages, starter'[m].pc = "deliver" PROVE turn'[starter'[m].live].id = m
  <2>1. CASE StartInstall(m)
      BY <2>1, SeatEffects DEF StartInstall, Goto, TypeOK, Placed
  <2>2. CASE Start(m) /\ ~StartInstall(m)
      BY <1>5, <2>2 DEF Start, StartReuse, StartWait, StartSpawn, StartSpawnFails, StartArchived, StartChecked,
                  StartDeliver, StartDeliveryFails, StartClear, Goto, TypeOK
  <2>3. CASE Begin(m)
      BY <1>5, <2>3 DEF Begin, Goto, TypeOK
  <2>4. CASE ~Start(m) /\ ~Begin(m)
    <3>1. starter'[m] = starter[m]
        BY <1>1, <2>4, OwnStarter
    <3>2. PICK s \in Sessions : s = starter[m].live
        BY <1>5, <3>1 DEF Placed
    <3>3. turn[s].id = m /\ current = s /\ proc[s] = "up" /\ s \notin cleanup /\ turn[s] # NoTurn
        BY <1>1, <1>5, <3>1, <3>2, TurnsAssumption DEF CalmNames, CalmMap, Placing, Removed, NoTurn
    <3>4. ~Seats(s)
      <4>1. ASSUME NEW n \in Messages, StartInstall(n) PROVE n = m
          BY <1>1, <1>5, <3>1, <4>1, OnItsWay DEF StartInstall, Early, OneOpen
      <4>2. ASSUME NEW n \in Messages, StartClear(n) PROVE FALSE
          BY <1>1, <4>2 DEF StartClear, CalmNames
      <4> QED BY <2>4, <4>1, <4>2 DEF Seats, Start
    <3>5. ~PumpTakes(s)
        BY <1>1, <1>5, <3>1, <3>3 DEF PumpTakes, May, Calm, Undisturbed
    <3>6. ~PumpTakesLast(s)
        BY <3>3 DEF PumpTakesLast, Removed
    <3>7. ~(StopTake /\ stopper.live = s)
        BY <3>3 DEF StopTake, Takers, StopBusy
    <3>8. CASE PumpOutput(s) \/ PumpWakes(s)
        BY <3>1, <3>2, <3>3, <3>8, PumpEffects DEF Resumes, Reopens
    <3>9. CASE PumpSettles(s) \/ PumpExits(s) \/ PumpFailsLast(s)
        BY <3>1, <3>2, <3>3, <3>9 DEF PumpSettles, PumpExits, PumpFailsLast, session
    <3> QED BY <1>1, <3>1, <3>2, <3>3, <3>4, <3>5, <3>6, <3>7, <3>8, <3>9, OwnTurn DEF PumpActs, PumpWork
  <2> QED BY <2>1, <2>2, <2>3, <2>4
<1> QED BY <1>2, <1>3, <1>4, <1>5 DEF CalmNames

\* What takes the process of a session down.
LEMMA ProcDown ==
    ASSUME TypeOK, Placed, [Next]_vars, NEW s \in Sessions, proc[s] = "up", proc'[s] # "up"
    PROVE  \/ ProviderExits(s) \/ (StopClose /\ stopper.live = s) \/ (SweepClose /\ sweeper.live = s)
           \/ (\E m \in Messages : StartArchived(m) /\ starter[m].live = s)
           \/ (ArchiveClose /\ current = s) \/ Restart
<1>1. ASSUME UNCHANGED proc PROVE FALSE
    BY <1>1
<1>2. ASSUME NEW r, proc' = [proc EXCEPT ![r] = "down"] PROVE r = s
    BY <1>2 DEF TypeOK
<1>3. CASE Asks
    BY <1>1, <1>3, AsksFrame DEF session
<1>4. CASE Starts
  <2>1. PICK m \in Messages : Start(m)
      BY <1>4 DEF Starts
  <2>2. CASE StartSpawn(m)
    <3>1. PICK r \in Sessions : proc' = [proc EXCEPT ![r] = "up"]
        BY <2>2 DEF StartSpawn
    <3> QED BY <3>1 DEF TypeOK
  <2>3. CASE StartArchived(m)
      BY <1>2, <2>3 DEF StartArchived
  <2>4. CASE ~StartSpawn(m) /\ ~StartArchived(m)
      BY <1>1, <2>1, <2>4 DEF Start, StartReuse, StartWait, StartSpawnFails, StartChecked, StartInstall,
                              StartDeliver, StartDeliveryFails, StartClear, session
  <2> QED BY <2>2, <2>3, <2>4
<1>5. CASE Pumps
  <2>1. PICK r \in Sessions : ProviderExits(r) \/ PumpOutput(r) \/ PumpTakes(r) \/ PumpWork(r)
      BY <1>5 DEF Pumps
  <2>2. CASE ProviderExits(r)
      BY <1>2, <2>2 DEF ProviderExits
  <2>3. CASE ~ProviderExits(r)
      BY <1>1, <2>1, <2>3 DEF PumpWork, PumpOutput, PumpTakes, PumpWakes, PumpSettles, PumpTakesLast,
                    PumpFailsLast, PumpExits, session
  <2> QED BY <2>2, <2>3
<1>6. CASE Stopping
  <2>1. CASE StopClose
      BY <1>2, <2>1 DEF StopClose
  <2>2. CASE ~StopClose
      BY <1>1, <1>6, <2>2 DEF Stopping, Stop, StopBegin, StopDone, StopForce, StopCloseFails, StopTake, StopSettle, session
  <2> QED BY <2>1, <2>2
<1>7. CASE Keeping
  <2>1. CASE ArchiveClose
      BY <1>1, <1>2, <2>1 DEF ArchiveClose
  <2>2. CASE SweepClose
      BY <1>2, <2>2 DEF SweepClose
  <2>3. CASE ~ArchiveClose /\ ~SweepClose
      BY <1>1, <1>7, <2>3 DEF Keeping, DrainBegin, Archive, SweepCheck, SweepClaim, session
  <2> QED BY <2>1, <2>2, <2>3
<1>8. CASE UNCHANGED vars
    BY <1>1, <1>8 DEF vars, session
<1> QED BY <1>3, <1>4, <1>5, <1>6, <1>7, <1>8, NextByTask

\* What takes a session out of the map.
LEMMA MapLeaves ==
    ASSUME TypeOK, Placed, [Next]_vars, current \in Sessions, current' # current
    PROVE  \/ Spawns(current') \/ PumpExits(current) \/ (StopForce /\ stopper.live = current)
           \/ (\E m \in Messages : StartArchived(m)) \/ ArchiveClose \/ SweepClaim \/ Restart
<1>1. ASSUME UNCHANGED current PROVE FALSE
    BY <1>1
<1>2. CASE Asks
    BY <1>1, <1>2, AsksFrame DEF session
<1>3. CASE Starts
  <2>1. PICK m \in Messages : Start(m)
      BY <1>3 DEF Starts
  <2>2. CASE StartSpawn(m)
    <3>1. PICK r \in Sessions : proc[r] = "unused" /\ current' = r /\ PumpGoto(r, "run")
        BY <2>2 DEF StartSpawn
    <3>2. Spawns(r)
        BY <2>2, <3>1 DEF Spawns
    <3> QED BY <3>1, <3>2
  <2>3. CASE ~StartSpawn(m) /\ ~StartArchived(m)
      BY <1>1, <2>1, <2>3 DEF Start, StartReuse, StartWait, StartSpawnFails, StartChecked, StartInstall,
                              StartDeliver, StartDeliveryFails, StartClear, session
  <2> QED BY <2>2, <2>3
<1>4. CASE Pumps
  <2>1. PICK r \in Sessions : ProviderExits(r) \/ PumpOutput(r) \/ PumpTakes(r) \/ PumpWork(r)
      BY <1>4 DEF Pumps
  <2>2. CASE PumpExits(r)
    <3>1. r = current
        BY <1>1, <2>2 DEF PumpExits
    <3> QED BY <2>2, <3>1
  <2>3. CASE ~PumpExits(r)
      BY <1>1, <2>1, <2>3 DEF PumpWork, ProviderExits, PumpOutput, PumpTakes, PumpWakes, PumpSettles, PumpTakesLast,
                    PumpFailsLast, session
  <2> QED BY <2>2, <2>3
<1>5. CASE Stopping
  <2>1. CASE StopForce
      BY <1>1, <2>1 DEF StopForce
  <2>2. CASE ~StopForce
      BY <1>1, <1>5, <2>2 DEF Stopping, Stop, StopBegin, StopDone, StopClose, StopCloseFails, StopTake, StopSettle, session
  <2> QED BY <2>1, <2>2
<1>6. CASE Keeping
    BY <1>1, <1>6 DEF Keeping, DrainBegin, Archive, ArchiveClose, SweepCheck, SweepClaim, SweepClose, session
<1>7. CASE UNCHANGED vars
    BY <1>1, <1>7 DEF vars, session
<1> QED BY <1>2, <1>3, <1>4, <1>5, <1>6, <1>7, NextByTask

\* In a calm thread the session a start is on its way to stays where it is, and up.
LEMMA CurrentStays ==
    ASSUME CInv, [Next]_vars, Calm', NEW m \in Messages, Placing(m)
    PROVE  starter[m].live = current /\ current' = current /\ proc'[current] = "up"
<1> USE DEF CInv, SInv, IInv
<1>1. Calm /\ CalmNames /\ CalmMap /\ ~Restart /\ ~ArchiveClose /\ \A n \in Messages : ~StartArchived(n)
    BY CalmFacts
<1>2. PICK s \in Sessions : s = current
    BY <1>1 DEF CalmMap, Placing, Placed
<1>3. starter[m].live = s /\ proc[s] = "up" /\ s \notin released
    BY <1>1, <1>2 DEF CalmMap, Removed
<1>4. Starting(s)
    BY <1>3 DEF Starting, Placing
<1>5. proc'[s] = "up"
  <2>1. ~ProviderExits(s)
      BY <1>1, <1>4 DEF ProviderExits, May, Calm, Undisturbed
  <2>2. ~(StopClose /\ stopper.live = s)
      BY <1>3 DEF StopClose, Takers, StopBusy, Removed
  <2>3. ~(SweepClose /\ sweeper.live = s)
      BY <1>3 DEF SweepClose, Removed
  <2> QED BY <1>1, <1>3, <2>1, <2>2, <2>3, ProcDown
<1>6. current' = current
  <2>1. \A n \in Messages : starter[n].pc # "spawn"
      BY <1>1, <1>2, TurnsAssumption DEF CalmMap
  <2>2. ~Spawns(current')
      BY <2>1 DEF Spawns, StartSpawn
  <2>3. ~PumpExits(s)
      BY <1>3 DEF PumpExits
  <2>4. ~(StopForce /\ stopper.live = s)
      BY <1>1, <1>4 DEF StopForce, May, Calm, Undisturbed
  <2>5. ~SweepClaim
      BY <1>1 DEF SweepClaim, CalmMap, Underway, Placing
  <2> QED BY <1>1, <1>2, <2>2, <2>3, <2>4, <2>5, MapLeaves
<1> QED BY <1>2, <1>3, <1>5, <1>6

\* The map of a calm thread over a step.
LEMMA CalmMapStep ==
    ASSUME CInv, [Next]_vars, Calm'
    PROVE  CalmMap'
<1> USE DEF CInv, SInv, IInv
<1>1. /\ Calm /\ CalmNames /\ CalmMap /\ OneOpen
      /\ ~Restart /\ ~ArchiveClose /\ \A m \in Messages : ~StartArchived(m)
    BY CalmFacts
<1>2. None \notin Sessions
    BY TurnsAssumption
<1>3. ASSUME NEW m \in Messages, Placing(m)' PROVE starter'[m].live = current' /\ proc'[current'] = "up"
  <2>1. CASE Placing(m)
    <3>1. starter[m].live = current /\ current' = current /\ proc'[current] = "up"
        BY <2>1, CurrentStays
    <3>2. starter'[m].live = starter[m].live
      <4>1. CASE Begin(m)
          BY <1>3, <4>1 DEF Begin, Goto, Placing, TypeOK
      <4>2. CASE Start(m)
          BY <1>3, <2>1, <4>2 DEF Start, StartReuse, StartWait, StartSpawn, StartSpawnFails, StartArchived, StartChecked,
                  StartInstall, StartDeliver, StartDeliveryFails, StartClear, Goto, Placing, TypeOK
      <4> QED BY <1>1, <4>1, <4>2, OwnStarter
    <3> QED BY <3>1, <3>2
  <2>2. CASE StartReuse(m)
    <3>1. current \in Sessions /\ UNCHANGED <<current, proc, turn>> /\ starter'[m].live = current
        BY <2>2 DEF StartReuse, Goto, session, TypeOK
    <3>2. proc[current] # "unused"
        BY <3>1 DEF Removed
    <3>3. proc[current] # "down"
      <4>1. SUFFICES ASSUME proc[current] = "down" PROVE FALSE
          OBVIOUS
      <4>2. turn[current] # NoTurn
          BY <1>1, <3>1, <4>1 DEF CalmMap
      <4>3. PICK x \in Messages : turn[current].id = x
          BY <3>1, <4>2 DEF TypeOK, ActiveTurn
      <4>4. x \in Open
          BY <1>1, <3>1, <4>3, NamedOpen
      <4>5. m \in Open /\ Unnamed(m)
          BY <1>1, <2>2, OnItsWay DEF StartReuse, Early, NamesBegun
      <4> QED BY <1>1, <3>1, <4>3, <4>4, <4>5 DEF OneOpen, Unnamed, Named
    <3> QED BY <3>1, <3>2, <3>3 DEF TypeOK
  <2>3. CASE StartSpawn(m)
    <3>1. PICK s \in Sessions : proc' = [proc EXCEPT ![s] = "up"] /\ current' = s /\ Goto(m, "check", s)
        BY <2>3 DEF StartSpawn
    <3> QED BY <3>1 DEF Goto, TypeOK
  <2>4. CASE Start(m) /\ ~Placing(m) /\ ~StartReuse(m) /\ ~StartSpawn(m)
      BY <1>3, <2>4 DEF Start, StartWait, StartSpawnFails, StartArchived, StartChecked,
                  StartInstall, StartDeliver, StartDeliveryFails, StartClear, Goto, Placing, TypeOK
  <2>5. CASE Begin(m)
      BY <1>3, <2>5 DEF Begin, Goto, Placing, TypeOK
  <2>6. CASE ~Placing(m) /\ ~Start(m) /\ ~Begin(m)
      BY <1>1, <1>3, <2>6, OwnStarter DEF Placing
  <2> QED BY <2>1, <2>2, <2>3, <2>4, <2>5, <2>6
<1>4. ASSUME NEW m \in Messages, starter'[m].pc = "spawn" PROVE current' = None
  <2>1. CASE StartWait(m)
      BY <2>1 DEF StartWait, session
  <2>2. CASE Start(m) /\ ~StartWait(m)
      BY <1>4, <2>2 DEF Start, StartReuse, StartSpawn, StartSpawnFails, StartArchived, StartChecked,
                  StartInstall, StartDeliver, StartDeliveryFails, StartClear, Goto, TypeOK
  <2>3. CASE Begin(m)
      BY <1>4, <2>3 DEF Begin, Goto, TypeOK
  <2>4. CASE ~Start(m) /\ ~Begin(m)
    <3>1. starter'[m] = starter[m]
        BY <1>1, <2>4, OwnStarter
    <3>2. current = None
        BY <1>1, <1>4, <3>1 DEF CalmMap
    <3>3. ASSUME NEW s \in Sessions, Spawns(s) PROVE FALSE
      <4>1. PICK n \in Messages : StartSpawn(n)
          BY <3>3 DEF Spawns
      <4>2. n = m
          BY <1>1, <1>4, <3>1, <4>1, OnItsWay DEF StartSpawn, Early, OneOpen
      <4> QED BY <2>4, <4>1, <4>2 DEF Start
    <3> QED BY <1>1, <3>2, <3>3, MapStep DEF MapMoves, Removed
  <2> QED BY <2>1, <2>2, <2>3, <2>4
<1>5. ASSUME NEW s \in Sessions, s = current', proc'[s] = "down" PROVE turn'[s] # NoTurn
  <2>1. ~Spawns(s)
    <3>1. SUFFICES ASSUME Spawns(s) PROVE FALSE
        OBVIOUS
    <3>2. PICK m \in Messages : StartSpawn(m) /\ current' = s
        BY <3>1 DEF Spawns
    <3> QED BY <1>5, <3>2 DEF StartSpawn, TypeOK
  <2>2. current = s
      BY <1>1, <1>2, <1>5, <2>1, MapStep DEF MapMoves, Removed, Spawns
  <2>3. s \notin released /\ s \notin cleanup /\ proc[s] # "unused"
      BY <2>2 DEF Removed
  <2>4. CASE proc[s] = "up"
    <3>1. ProviderExits(s)
        BY <1>1, <1>5, <2>3, <2>4, ProcDown DEF StopClose, Takers, StopBusy, SweepClose, Removed
    <3> QED BY <1>1, <3>1 DEF ProviderExits, May, Calm, Undisturbed
  <2>5. CASE proc[s] = "down"
    <3>1. turn[s] # NoTurn
        BY <1>1, <2>2, <2>5 DEF CalmMap
    <3>2. CASE Seats(s)
      <4>1. PICK n \in Messages : StartInstall(n) /\ starter[n].live = s
          BY <1>1, <3>2 DEF Seats, StartClear, CalmNames
      <4>2. turn'[s].id = n
          BY <4>1, SeatEffects
      <4> QED BY <4>2, TurnsAssumption DEF NoTurn
    <3>3. ~PumpTakes(s)
        BY <1>1, <2>5 DEF PumpTakes, May, Calm, Undisturbed
    <3>4. ~PumpTakesLast(s)
        BY <2>2 DEF PumpTakesLast, Removed
    <3>5. ~(StopTake /\ stopper.live = s)
        BY <2>3 DEF StopTake, Takers, StopBusy
    <3>6. CASE PumpOutput(s) \/ PumpWakes(s)
        BY <3>1, <3>6, PumpEffects DEF Resumes, Reopens
    <3>7. CASE PumpSettles(s) \/ PumpExits(s) \/ PumpFailsLast(s)
        BY <3>1, <3>7 DEF PumpSettles, PumpExits, PumpFailsLast, session
    <3> QED BY <1>1, <3>1, <3>2, <3>3, <3>4, <3>5, <3>6, <3>7, OwnTurn DEF PumpActs, PumpWork
  <2> QED BY <2>3, <2>4, <2>5 DEF TypeOK
<1>6. ASSUME sweeper'.pc = "locked", NEW m \in Messages PROVE ~Underway(m)'
  <2>1. CASE SweepCheck
    <3>1. starter' = starter /\ status # "Running"
        BY <2>1 DEF SweepCheck, Parked
    <3>2. Open = {}
        BY <1>1, <3>1 DEF OneOpen, Calm
    <3> QED BY <1>1, <3>1, <3>2, OnItsWay DEF Underway, Early
  <2>2. CASE ~SweepCheck
    <3>1. sweeper.pc = "locked"
      <4>1. CASE Keeping
          BY <1>6, <2>2, <4>1 DEF Keeping, DrainBegin, Archive, ArchiveClose, SweepClaim, SweepClose, IdleTask, TypeOK
      <4>2. CASE ~Keeping
          BY <1>1, <1>6, <4>2, AsksFrame, StartsFrame, PumpsFrame, StoppingFrame, NextByTask DEF vars, tasks
      <4> QED BY <4>1, <4>2
    <3>2. ~Underway(m) /\ ~SessionsFree
        BY <1>1, <3>1 DEF CalmMap, SessionsFree
    <3>3. CASE Begin(m)
        BY <3>3 DEF Begin, Goto, Underway, TypeOK
    <3>4. CASE Start(m)
        BY <3>2, <3>4 DEF Underway, Start, StartReuse, StartWait, StartSpawn, StartSpawnFails, StartArchived, StartChecked,
                  StartInstall, StartDeliver, StartDeliveryFails, StartClear, Goto, TypeOK
    <3> QED BY <1>1, <3>2, <3>3, <3>4, OwnStarter DEF Underway
  <2> QED BY <2>1, <2>2
<1> QED BY <1>3, <1>4, <1>5, <1>6 DEF CalmMap

\* The status and the open turns, whatever happens as long as no turn is ended twice.
LEMMA OneTurnStep == CInv /\ [Next]_vars => OneTurn'
<1> SUFFICES ASSUME CInv, [Next]_vars, Undisturbed' \/ SettledOnce' PROVE OneOpen'
    BY DEF OneTurn, OneOpen
<1> USE DEF CInv, SInv, IInv
<1>1. DurableStep
    BY NextDurable
<1>2. CASE SettledOnce'
  <2>1. SettledOnce
      BY <1>1, <1>2, AgainStays
  <2>2. OneOpen
      BY <2>1 DEF OneTurn, OneOpen
  <2> QED BY <1>1, <1>2, <2>2, OneOpenStep
<1>3. CASE Undisturbed' /\ ~SettledOnce'
  <2>1. status' = "Archived"
      BY <1>3, CalmSettles DEF Calm
  <2>2. Undisturbed
      BY <1>3, MayStays DEF Undisturbed
  <2>3. OneOpen
      BY <2>2 DEF OneTurn, OneOpen
  <2>4. CASE status = "Archived"
      BY <1>1, <2>3, <2>4, ArchivedOpenStep
  <2>5. CASE status # "Archived"
    <3>1. Archives
        BY <1>1, <2>1, <2>5 DEF DurableStep, Keeps, Begins, Ends, Reopened, Queues, Unqueues, Crashes
    <3> QED BY <2>1, <2>3, <3>1 DEF Archives, OneOpen, Open
  <2> QED BY <2>4, <2>5
<1> QED BY <1>2, <1>3

\* No step breaks the invariant of a calm thread, nor the agreement of status and log.
LEMMA CInvStep == CInv /\ [Next]_vars => CInv'
<1> SUFFICES ASSUME CInv, [Next]_vars PROVE CInv'
    OBVIOUS
<1>1. SInv' /\ Custody'
    BY SInvStep, CustodyStep DEF CInv
<1>2. Calm' => CalmNames' /\ CalmMap'
    BY CalmNamesStep, CalmMapStep
<1>3. ASSUME NEW m \in Messages, starter'[m].pc = "ensure" PROVE starter'[m].live = None
  <2> USE DEF CInv, SInv, IInv
  <2>1. CASE Begin(m)
      BY <2>1 DEF Begin, Goto, TypeOK
  <2>2. CASE Restart
      BY <1>3, <2>2 DEF Restart, IdleTask
  <2>3. CASE Start(m)
      BY <1>3, <2>3 DEF Start, StartReuse, StartWait, StartSpawn, StartSpawnFails, StartArchived, StartChecked,
                  StartInstall, StartDeliver, StartDeliveryFails, StartClear, Goto, TypeOK
  <2> QED BY <1>3, <2>1, <2>2, <2>3, OwnStarter
<1> QED BY <1>1, <1>2, <1>3, OneTurnStep DEF CInv

-----------------------------------------------------------------------------
(* One provider process.                                                   *)

\* Who has taken a session out of the map closes it behind the barrier it put up.
OneReleases ==
    /\ barrier # None => current = None
    /\ \A m \in Messages : starter[m].pc = "spawn" => current = None /\ barrier = None
    /\ StopBusy => barrier = stopper.live /\ sweeper.pc # "close" /\ \A s \in Sessions : ~pump[s].bars
    /\ sweeper.pc = "close" => barrier = sweeper.live /\ \A s \in Sessions : ~pump[s].bars
    /\ \A s \in Sessions : pump[s].bars => barrier = s
    /\ \A s \in Sessions : proc[s] = "up" =>
         \/ s = current
         \/ stopper.pc = "close" /\ stopper.live = s
         \/ sweeper.pc = "close" /\ sweeper.live = s

Closes == status # "Archived" /\ SettledOnce /\ ~May("close_fails")
PInv == CInv /\ (Closes => OneReleases)

\* Initially no barrier is up.
LEMMA InitPInv == Init => PInv
<1>1. Init => OneReleases
    BY DEF Init, IdleTask, IdleStop, NoPump, OneReleases, StopBusy
<1> QED BY <1>1, InitCInv DEF PInv

\* While processes close and no turn is ended twice, this holds and these do not happen.
LEMMA ClosesFacts ==
    ASSUME PInv, [Next]_vars, Closes'
    PROVE  /\ Closes /\ OneReleases /\ OneOpen
           /\ ~ArchiveClose /\ ~StopCloseFails /\ \A m \in Messages : ~StartArchived(m)
<1> USE DEF PInv, CInv, SInv, IInv
<1>1. status # "Archived" /\ SettledOnce
    BY NextDurable, AgainStays DEF DurableStep, Keeps, Archives, Begins, Ends, Reopened, Queues, Unqueues, Crashes, Closes
<1>2. Closes
    BY <1>1, MayStays DEF Closes, May
<1>3. OneOpen
    BY <1>1 DEF OneTurn, OneOpen
<1> QED BY <1>1, <1>2, <1>3 DEF Removed, ArchiveClose, StartArchived, StopCloseFails, Closes

\* A start waits for the barrier, and a pump marks the barrier as it puts it up.
LEMMA SpawnMoves ==
    ASSUME TypeOK, [Next]_vars, NEW m \in Messages, starter'[m].pc = "spawn"
    PROVE  starter[m].pc = "spawn" \/ StartWait(m)
<1>1. CASE Begin(m)
    BY <1>1 DEF Begin, Goto, TypeOK
<1>2. CASE Restart
    BY <1>2 DEF Restart, IdleTask
<1>3. CASE Start(m)
    BY <1>3 DEF Start, StartReuse, StartWait, StartSpawn, StartSpawnFails, StartArchived, StartChecked,
                StartInstall, StartDeliver, StartDeliveryFails, StartClear, Goto, TypeOK
<1> QED BY <1>1, <1>2, <1>3, OwnStarter

\* A pump that has put up the barrier did so as its session left the map.
LEMMA BarsMoves ==
    ASSUME TypeOK, Placed, [Next]_vars, NEW s \in Sessions, pump'[s].bars
    PROVE  \/ pump[s].bars /\ ~PumpFailsLast(s)
           \/ PumpExits(s) /\ current = s /\ s \notin cleanup
<1>1. CASE Restart
    BY <1>1, SeatEffects DEF NoPump
<1>2. CASE Spawns(s)
  <2>1. pump'[s].bars = pump[s].bars /\ pump'[s].pc = "run"
      BY <1>2, SeatEffects
  <2>2. ~PumpFailsLast(s)
      BY <2>1, PumpEffects DEF NoPump
  <2> QED BY <2>1, <2>2
<1>3. CASE PumpOutput(s) \/ PumpWakes(s) \/ PumpTakesLast(s)
  <2>1. pump'[s].bars = pump[s].bars /\ pump'[s].pc \in {"run", "wait", "exitfail"}
      BY <1>3, PumpEffects
  <2>2. ~PumpFailsLast(s)
      BY <2>1, PumpEffects DEF NoPump
  <2> QED BY <2>1, <2>2
<1>4. CASE PumpTakes(s) \/ PumpSettles(s) \/ PumpFailsLast(s)
  <2>1. pump'[s].bars = FALSE
      BY <1>4, PumpEffects DEF NoPump
  <2> QED BY <2>1
<1>5. CASE PumpExits(s)
  <2>1. pump[s].pc = "run"
      BY <1>5, PumpEffects
  <2>2. ~PumpFailsLast(s)
      BY <2>1 DEF PumpFailsLast
  <2>3. CASE pump'[s].bars = pump[s].bars
      BY <2>2, <2>3
  <2>4. CASE s \notin cleanup /\ pump'[s].bars = (current = s)
      BY <1>5, <2>4
  <2> QED BY <1>5, <2>3, <2>4, PumpEffects
<1>6. CASE ~Restart /\ ~Spawns(s) /\ ~PumpActs(s)
    BY <1>6, OwnPump DEF PumpActs, PumpWork
<1> QED BY <1>1, <1>2, <1>3, <1>4, <1>5, <1>6 DEF PumpActs, PumpWork

\* While processes close, no step lets a second one run, or a barrier fall too early.
LEMMA ReleasesStep ==
    ASSUME PInv, [Next]_vars, Closes'
    PROVE  OneReleases'
<1> USE DEF PInv, CInv, SInv, IInv
<1>1. /\ Closes /\ OneReleases /\ OneOpen
      /\ ~ArchiveClose /\ ~StopCloseFails /\ \A m \in Messages : ~StartArchived(m)
    BY ClosesFacts
<1>2. None \notin Sessions
    BY TurnsAssumption
<1>3. CASE Restart
    BY <1>3 DEF Restart, OneReleases, StopBusy, IdleTask, IdleStop, NoPump, TypeOK
<1>4. ASSUME NEW s \in Sessions, pump'[s].bars, current' = current \/ current # s PROVE pump[s].bars /\ ~PumpFailsLast(s)
    BY <1>2, <1>4, BarsMoves DEF PumpExits
<1>5. ASSUME NEW s \in Sessions, proc'[s] = "up", current' # s \/ current' = current PROVE proc[s] = "up"
    BY <1>5, ProcStep DEF Spawns, Removed
\* A step that leaves the map, the barrier and the two who close sessions alone.
<1>6. ASSUME UNCHANGED <<current, barrier, stopper, sweeper>>,
             \A m \in Messages : starter'[m].pc = "spawn" => starter[m].pc = "spawn"
      PROVE  OneReleases'
  <2>1. \A s \in Sessions : (pump'[s].bars => pump[s].bars) /\ (proc'[s] = "up" => proc[s] = "up")
      BY <1>4, <1>5, <1>6
  <2> QED BY <1>1, <1>6, <2>1 DEF OneReleases, StopBusy
<1>7. CASE Asks
  <2>1. PICK n \in Messages : Begin(n) \/ UNCHANGED starter
      BY <1>7 DEF Asks, Send, Enqueue, RemoveQueued, Drain, tasks
  <2>2. \A m \in Messages : starter'[m].pc = "spawn" => starter[m].pc = "spawn"
      BY <2>1 DEF Begin, Goto, TypeOK
  <2> QED BY <1>6, <1>7, <2>2, AsksFrame DEF session
<1>8. CASE UNCHANGED vars
    BY <1>6, <1>8 DEF vars, session, tasks
<1>9. CASE Starts
  <2>1. PICK m \in Messages : Start(m)
      BY <1>9 DEF Starts
  <2>2. UNCHANGED <<barrier, stopper, sweeper>>
      BY <1>9, StartsFrame
  <2>3. CASE StartWait(m)
    <3>1. current = None /\ barrier = None /\ UNCHANGED <<current, proc, pump>>
        BY <2>3 DEF StartWait, session
    <3> QED BY <1>1, <2>2, <3>1 DEF OneReleases, StopBusy
  <2>4. CASE StartSpawn(m)
    <3>1. PICK s \in Sessions :
            /\ proc[s] = "unused" /\ proc' = [proc EXCEPT ![s] = "up"] /\ current' = s
            /\ PumpGoto(s, "run") /\ Goto(m, "check", s)
        BY <2>4 DEF StartSpawn
    <3>2. current = None /\ barrier = None
        BY <1>1, <2>4 DEF StartSpawn, OneReleases
    <3>3. ASSUME NEW n \in Messages, starter'[n].pc = "spawn" PROVE FALSE
      <4>1. n # m /\ starter[n].pc = "spawn"
          BY <3>1, <3>3 DEF Goto, TypeOK
      <4>2. log[n] = "open" /\ log[m] = "open"
          BY <2>4, <4>1 DEF StartSpawn, Early, NamesBegun
      <4> QED BY <1>1, <4>1, <4>2 DEF OneOpen, Open
    <3>4. ~StopBusy /\ sweeper.pc # "close"
        BY <1>1, <1>2, <3>2 DEF OneReleases, StopBusy, Placed
    <3>5. \A r \in Sessions : ~pump[r].bars
        BY <1>1, <1>2, <3>2 DEF OneReleases
    <3>6. \A r \in Sessions : ~pump'[r].bars
        BY <1>4, <1>2, <3>2, <3>5
    <3>7. \A r \in Sessions : proc[r] # "up"
        BY <1>1, <1>2, <3>2, <3>4 DEF OneReleases, StopBusy
    <3>8. \A r \in Sessions : proc'[r] = "up" => r = current'
        BY <3>1, <3>7 DEF TypeOK
    <3> QED BY <2>2, <3>2, <3>3, <3>4, <3>6, <3>8 DEF OneReleases, StopBusy
  <2>5. CASE ~StartWait(m) /\ ~StartSpawn(m)
    <3>1. UNCHANGED current
        BY <1>1, <2>1, <2>5 DEF Start, StartReuse, StartSpawnFails, StartArchived, StartChecked,
                    StartInstall, StartDeliver, StartDeliveryFails, StartClear, session
    <3>2. PICK pc \in TaskSteps \ {"spawn"}, s \in {None, current, starter[m].live} : Goto(m, pc, s)
        BY <2>1, <2>5 DEF Start, StartReuse, StartSpawnFails, StartArchived, StartChecked,
                    StartInstall, StartDeliver, StartDeliveryFails, StartClear, TaskSteps
    <3>3. \A n \in Messages : starter'[n].pc = "spawn" => starter[n].pc = "spawn"
        BY <3>2 DEF Goto, TypeOK
    <3> QED BY <1>6, <2>2, <3>1, <3>3
  <2> QED BY <2>3, <2>4, <2>5
<1>10. CASE Pumps
  <2>1. PICK s \in Sessions : ProviderExits(s) \/ PumpOutput(s) \/ PumpTakes(s) \/ PumpWork(s)
      BY <1>10 DEF Pumps
  <2>2. UNCHANGED <<starter, stopper, sweeper>>
      BY <1>10, PumpsFrame
  <2>3. CASE PumpExits(s) /\ current = s /\ s \notin cleanup
    <3>1. current' = None /\ barrier' = s /\ proc' = proc
        BY <2>3 DEF PumpExits
    <3>2. barrier = None /\ \A m \in Messages : starter[m].pc # "spawn"
        BY <1>1, <1>2, <2>3 DEF OneReleases
    <3>3. ~StopBusy /\ sweeper.pc # "close" /\ \A r \in Sessions : ~pump[r].bars
        BY <1>1, <1>2, <3>2 DEF OneReleases, StopBusy, Placed
    <3>4. \A r \in Sessions : pump'[r].bars => r = s
        BY <2>3, <3>3, <1>4
    <3>5. \A r \in Sessions : proc[r] # "up"
        BY <1>1, <2>3, <3>3 DEF OneReleases, StopBusy, PumpExits
    <3> QED BY <2>2, <3>1, <3>2, <3>3, <3>4, <3>5 DEF OneReleases, StopBusy
  <2>4. CASE PumpExits(s) /\ ~(current = s /\ s \notin cleanup)
    <3>1. UNCHANGED <<current, barrier>>
        BY <2>4 DEF PumpExits
    <3> QED BY <1>6, <2>2, <3>1
  <2>5. CASE PumpFailsLast(s)
    <3>1. UNCHANGED <<current, proc>>
        BY <2>5 DEF PumpFailsLast, session
    <3>2. CASE ~pump[s].bars
        BY <1>6, <2>2, <2>5, <3>1, <3>2 DEF PumpFailsLast
    <3>3. CASE pump[s].bars
      <4>1. barrier = s /\ barrier' = None
          BY <1>1, <2>5, <3>3 DEF OneReleases, PumpFailsLast
      <4>2. ~StopBusy /\ sweeper.pc # "close"
          BY <1>1, <3>3 DEF OneReleases
      <4>3. \A r \in Sessions : ~pump'[r].bars
          BY <1>1, <1>4, <2>5, <3>1, <4>1 DEF OneReleases
      <4> QED BY <1>1, <2>2, <3>1, <4>1, <4>2, <4>3 DEF OneReleases, StopBusy
    <3> QED BY <3>2, <3>3
  <2>6. CASE ~PumpExits(s) /\ ~PumpFailsLast(s)
    <3>1. UNCHANGED <<current, barrier>>
        BY <2>1, <2>6 DEF PumpWork, ProviderExits, PumpOutput, PumpTakes, PumpWakes, PumpSettles, PumpTakesLast, session, tasks
    <3> QED BY <1>6, <2>2, <3>1
  <2> QED BY <2>3, <2>4, <2>5, <2>6
<1>11. CASE Stopping
  <2>1. UNCHANGED <<starter, pump, sweeper>>
      BY <1>11, StoppingFrame
  <2>2. CASE StopBegin \/ StopDone
    <3>1. UNCHANGED <<current, barrier, proc>> /\ ~StopBusy /\ ~StopBusy'
        BY <2>2 DEF StopBegin, StopDone, session, StopBusy, IdleStop
    <3> QED BY <1>1, <2>1, <3>1 DEF OneReleases, StopBusy
  <2>3. CASE StopForce
    <3>1. UNCHANGED proc /\ ~StopBusy /\ sweeper.pc # "locked"
        BY <2>3 DEF StopForce, StopBusy, SessionsFree
    <3>2. CASE stopper' = IdleStop /\ UNCHANGED <<barrier, current>>
        BY <1>1, <2>1, <3>1, <3>2 DEF OneReleases, StopBusy, IdleStop
    <3>3. CASE /\ current = stopper.live /\ barrier' = current /\ current' = None
               /\ stopper' = [stopper EXCEPT !.pc = "close"]
      <4>1. current \in Sessions /\ stopper'.pc = "close" /\ stopper'.live = current
          BY <2>3, <3>3 DEF StopForce, Placed, TypeOK
      <4>2. barrier = None /\ \A m \in Messages : starter[m].pc # "spawn"
          BY <1>1, <1>2, <4>1 DEF OneReleases
      <4>3. sweeper.pc # "close" /\ \A r \in Sessions : ~pump[r].bars
          BY <1>1, <1>2, <4>2 DEF OneReleases, Placed
      <4>4. \A r \in Sessions : proc[r] = "up" => r = current
          BY <1>1, <3>1, <4>3 DEF OneReleases, StopBusy
      <4> QED BY <2>1, <3>1, <3>3, <4>1, <4>2, <4>3, <4>4 DEF OneReleases, StopBusy
    <3> QED BY <2>3, <3>2, <3>3 DEF StopForce
  <2>4. CASE StopClose \/ StopTake
    <3>1. StopBusy /\ StopBusy' /\ stopper'.live = stopper.live /\ UNCHANGED <<current, barrier>>
        BY <2>4 DEF StopClose, StopTake, StopBusy, TypeOK, session
    <3>2. \A r \in Sessions : proc'[r] = "up" =>
            proc[r] = "up" /\ ~(stopper.pc = "close" /\ stopper.live = r)
        BY <2>4 DEF StopClose, StopTake, session, TypeOK
    <3> QED BY <1>1, <2>1, <3>1, <3>2 DEF OneReleases
  <2>5. CASE StopSettle
    <3>1. StopBusy /\ ~StopBusy' /\ barrier' = None /\ UNCHANGED <<current, proc>> /\ stopper.pc # "close"
        BY <2>5 DEF StopSettle, StopBusy, IdleStop, session
    <3> QED BY <1>1, <2>1, <3>1 DEF OneReleases, StopBusy
  <2> QED BY <1>1, <1>11, <2>2, <2>3, <2>4, <2>5 DEF Stopping, Stop
<1>12. CASE Keeping
  <2>1. UNCHANGED <<starter, pump, stopper>>
      BY <1>12, KeepingFrame
  <2>2. CASE DrainBegin \/ Archive
      BY <1>6, <2>1, <2>2 DEF DrainBegin, Archive, session
  <2>3. CASE SweepCheck
    <3>1. UNCHANGED <<current, barrier, proc>> /\ sweeper.pc = "idle" /\ sweeper'.pc = "locked"
        BY <2>3 DEF SweepCheck, session
    <3> QED BY <1>1, <2>1, <3>1 DEF OneReleases, StopBusy
  <2>4. CASE SweepClaim
    <3>1. /\ current = sweeper.live /\ current \in Sessions /\ barrier' = current /\ current' = None
          /\ sweeper'.pc = "close" /\ sweeper'.live = current /\ UNCHANGED proc
        BY <2>4 DEF SweepClaim, Removed, Placed, TypeOK
    <3>2. barrier = None /\ \A m \in Messages : starter[m].pc # "spawn"
        BY <1>1, <1>2, <3>1 DEF OneReleases
    <3>3. ~StopBusy /\ \A r \in Sessions : ~pump[r].bars
        BY <1>1, <1>2, <3>2 DEF OneReleases, Placed, StopBusy
    <3>4. \A r \in Sessions : proc[r] = "up" => r = current
        BY <1>1, <2>4, <3>3 DEF OneReleases, StopBusy, SweepClaim
    <3> QED BY <2>1, <3>1, <3>2, <3>3, <3>4 DEF OneReleases, StopBusy
  <2>5. CASE SweepClose
    <3>1. sweeper.pc = "close" /\ sweeper'.pc = "idle" /\ barrier' = None /\ UNCHANGED current
        BY <2>5 DEF SweepClose, IdleTask
    <3>2. \A r \in Sessions : proc'[r] = "up" => proc[r] = "up" /\ r # sweeper.live
        BY <2>5 DEF SweepClose, TypeOK
    <3> QED BY <1>1, <2>1, <3>1, <3>2 DEF OneReleases, StopBusy
  <2> QED BY <1>1, <1>12, <2>2, <2>3, <2>4, <2>5 DEF Keeping
<1> QED BY <1>3, <1>7, <1>8, <1>9, <1>10, <1>11, <1>12, NextByTask

-----------------------------------------------------------------------------
(* No running thread without a task that ends its turn.                    *)

\* The pump of the session, or a forced stop on it, will take its turn.
Alive(s) ==
    \/ pump[s].pc \in {"run", "wait", "settle", "exit"} /\ s \notin cleanup
    \/ stopper.pc \in {"close", "take"} /\ stopper.live = s

\* A session whose process is up is alive.
AliveInv ==
    /\ \A s \in Sessions :
         /\ proc[s] = "up" => Alive(s)
         /\ pump[s].pc \in {"exit", "exitfail", "end"} => proc[s] = "down"
    /\ stopper.pc = "take" => proc[stopper.live] = "down"

\* A session is alive until one of those takes its turn.
LEMMA AliveMoves ==
    ASSUME SInv, [Next]_vars, NEW s \in Sessions, Alive(s), ~StopCloseFails, ~Restart
    PROVE  Alive(s)' \/ PumpTakesLast(s) \/ (StopTake /\ stopper.live = s)
<1> USE DEF SInv, IInv
<1>1. CASE stopper.pc \in {"close", "take"} /\ stopper.live = s
  <2>1. CASE Stopping
      BY <1>1, <2>1 DEF Alive, Stopping, Stop, StopBegin, StopDone, StopForce, StopClose, StopTake, StopSettle, TypeOK
  <2>2. CASE ~Stopping
    <3>1. stopper' = stopper
        BY <2>2, AsksFrame, StartsFrame, PumpsFrame, KeepingFrame, NextByTask DEF vars, tasks
    <3> QED BY <1>1, <3>1 DEF Alive
  <2> QED BY <2>1, <2>2
<1>2. CASE pump[s].pc \in {"run", "wait", "settle", "exit"} /\ s \notin cleanup
  <2>1. CASE StopForce
      BY <1>2, <2>1 DEF StopForce, Alive, Placed, TypeOK
  <2>2. CASE ~StopForce
    <3>1. cleanup' = cleanup
      <4>1. CASE Stopping
          BY <2>2, <4>1 DEF Stopping, Stop, StopBegin, StopDone, StopClose, StopCloseFails, StopTake, StopSettle, session
      <4> QED BY <4>1, AsksFrame, StartsFrame, PumpsFrame, KeepingFrame, NextByTask DEF vars, session
    <3>2. CASE Spawns(s)
        BY <1>2, <3>1, <3>2, SeatEffects DEF Alive
    <3>3. CASE PumpOutput(s) \/ PumpWakes(s) \/ PumpTakes(s) \/ PumpExits(s)
        BY <1>2, <3>1, <3>3, PumpEffects DEF Alive
    <3>4. CASE PumpSettles(s)
        BY <1>2, <3>1, <3>4, PumpEffects DEF Alive, NoPump
    <3>5. CASE PumpFailsLast(s)
        BY <1>2, <3>5 DEF PumpFailsLast
    <3>6. CASE ~Spawns(s) /\ ~PumpActs(s)
        BY <1>2, <3>1, <3>6, OwnPump DEF Alive
    <3> QED BY <3>2, <3>3, <3>4, <3>5, <3>6 DEF PumpActs, PumpWork
  <2> QED BY <2>1, <2>2
<1> QED BY <1>1, <1>2 DEF Alive

\* A process that is gone stays gone.
LEMMA DownStays ==
    ASSUME TypeOK, Placed, TypeOK', [Next]_vars, NEW s \in Sessions, proc[s] = "down"
    PROVE  proc'[s] = "down"
<1>1. ~Spawns(s)
    BY DEF Spawns
<1> QED BY <1>1, ProcStep DEF TypeOK

\* No step leaves a running process without a pump or a forced stop that watches it.
LEMMA AliveStep ==
    ASSUME SInv, AliveInv, ~May("close_fails"), [Next]_vars
    PROVE  AliveInv'
<1> USE DEF SInv, IInv
<1>1. TypeOK' /\ Placed'
    BY TypeStep
<1>2. ~StopCloseFails
    BY DEF StopCloseFails
<1>3. ASSUME NEW s \in Sessions, pump'[s].pc \in {"exit", "exitfail", "end"} PROVE proc'[s] = "down"
  <2>1. proc[s] = "down"
    <3>1. CASE PumpExits(s)
        BY <3>1, PumpEffects
    <3>2. CASE PumpTakesLast(s) \/ PumpFailsLast(s)
        BY <3>2, PumpEffects DEF AliveInv
    <3>3. CASE PumpOutput(s) \/ PumpWakes(s) \/ PumpTakes(s) \/ PumpSettles(s)
        BY <1>3, <3>3, PumpEffects DEF NoPump
    <3>4. CASE Spawns(s) \/ Restart
        BY <1>3, <3>4, SeatEffects DEF NoPump
    <3> QED BY <1>3, <3>1, <3>2, <3>3, <3>4, OwnPump DEF PumpActs, PumpWork, AliveInv
  <2> QED BY <1>1, <2>1, DownStays
<1>4. ASSUME stopper'.pc = "take" PROVE proc'[stopper'.live] = "down"
  <2>1. CASE StopClose
      BY <2>1 DEF StopClose, Placed, TypeOK
  <2>2. CASE ~StopClose
    <3>1. stopper.pc = "take" /\ stopper'.live = stopper.live
      <4>1. CASE Stopping
          BY <1>4, <2>2, <4>1 DEF Stopping, Stop, StopBegin, StopDone, StopForce, StopCloseFails, StopTake, StopSettle, IdleStop, TypeOK
      <4>2. CASE Restart
          BY <1>4, <4>2 DEF Restart, IdleStop
      <4> QED BY <1>4, <4>1, <4>2, AsksFrame, StartsFrame, PumpsFrame, KeepingFrame, NextByTask DEF vars, tasks
    <3>2. stopper.live \in Sessions /\ proc[stopper.live] = "down"
        BY <3>1 DEF AliveInv, Placed
    <3> QED BY <1>1, <3>1, <3>2, DownStays
  <2> QED BY <2>1, <2>2
<1>5. ASSUME NEW s \in Sessions, proc'[s] = "up" PROVE Alive(s)'
  <2>1. CASE Spawns(s)
    <3>1. s \notin cleanup /\ pump'[s].pc = "run"
        BY <2>1, SeatEffects DEF Spawns, Removed
    <3>2. cleanup' = cleanup
        BY <2>1 DEF Spawns, StartSpawn
    <3> QED BY <3>1, <3>2 DEF Alive
  <2>2. CASE ~Spawns(s)
    <3>1. proc[s] = "up"
        BY <1>5, <2>2, ProcStep
    <3>2. Alive(s) /\ pump[s].pc \notin {"exit", "exitfail", "end"} /\ ~(stopper.pc = "take" /\ stopper.live = s)
        BY <3>1 DEF AliveInv
    <3>3. ~Restart
        BY <1>5 DEF Restart
    <3> QED BY <1>2, <3>2, <3>3, AliveMoves DEF PumpTakesLast, StopTake
  <2> QED BY <2>1, <2>2
<1> QED BY <1>3, <1>4, <1>5 DEF AliveInv

\* The thread is not archived, no turn was ended twice, no close fails and no provider refuses.
Regular == status # "Archived" /\ SettledOnce /\ ~May("close_fails") /\ ~May("refusal")

\* Something will end the turn.
Kept(x) ==
    \/ Early(x)
    \/ starter[x].pc = "deliver" /\ proc[starter[x].live] = "down"
    \/ \E s \in Sessions : turn[s].id = x /\ Alive(s)
    \/ \E s \in Sessions : pump[s].turn = x
    \/ StopHas(x)

\* A start that is over without its message at the provider.
Gone(m) == starter[m].pc = "clear" \/ (starter[m].pc = "done" /\ starter[m].live = None)

KeptInv == \A x \in Messages : log[x] = "open" => Kept(x)

\* An open turn that may resume is one its pump is about to settle.
ContInv == \A x \in Messages, s \in Sessions : log[x] = "open" /\ cont[s].id = x => pump[s].turn = x

\* While an open turn is handed over, no other turn is on its session.
SoleInv ==
    \A m, x \in Messages : starter[m].pc = "deliver" /\ log[m] = "open" /\ x # m =>
        turn[starter[m].live].id # x /\ cont[starter[m].live].id # x

\* A start that failed wipes no turn off its session that the provider has.
ClearInv ==
    \A m \in Messages : starter[m].pc = "clear" =>
        /\ proc[starter[m].live] = "down"
        /\ \A x \in Messages : turn[starter[m].live].id = x \/ cont[starter[m].live].id = x => ~Delivered(x)

GoneInv ==
    \A m \in Messages : Gone(m) => log[m] = "closed" /\ \A s \in Sessions : cont[s].id = m => pump[s].turn = m

OInv ==
    /\ PInv
    /\ ~May("close_fails") => AliveInv
    /\ \A m \in Messages : starter[m].pc = "idle" => Unnamed(m)
    /\ Regular => KeptInv /\ ContInv /\ SoleInv /\ ClearInv /\ GoneInv

\* The initial states satisfy the whole invariant.
LEMMA InitOInv == Init => OInv
<1> SUFFICES ASSUME Init PROVE OInv
    OBVIOUS
<1> USE TurnsAssumption DEF Init, IdleTask, IdleStop, NoPump, NoTurn
<1>1. AliveInv
    BY DEF AliveInv
<1>2. \A m \in Messages : Unnamed(m)
    BY DEF Unnamed, Named
<1>3. KeptInv /\ ContInv /\ SoleInv /\ ClearInv /\ GoneInv
    BY DEF KeptInv, ContInv, SoleInv, ClearInv, GoneInv, Gone
<1> QED BY <1>1, <1>2, <1>3, InitPInv DEF OInv

\* What holds, and what cannot happen, in a thread that is regular after the step.
LEMMA RegularFacts ==
    ASSUME OInv, [Next]_vars, Regular'
    PROVE  /\ Regular /\ KeptInv /\ ContInv /\ SoleInv /\ ClearInv /\ GoneInv /\ AliveInv /\ OneOpen /\ SettledOnce'
           /\ ~StopCloseFails /\ \A m \in Messages : ~StartArchived(m)
<1>1. Closes'
    BY DEF Regular, Closes
<1>2. Closes /\ OneOpen /\ ~StopCloseFails /\ \A m \in Messages : ~StartArchived(m)
    BY <1>1, ClosesFacts DEF OInv
<1>3. Regular
    BY <1>2, MayStays DEF Regular, Closes, May, OInv, PInv, CInv, SInv, IInv
<1> QED BY <1>2, <1>3 DEF Regular, OInv

\* Who is named on a session while its turn is open, or may resume there, is at the provider.
LEMMA NamedHanded ==
    ASSUME OInv, Regular, NEW x \in Messages, NEW s \in Sessions,
           \/ log[x] = "open" /\ Named(x, s)
           \/ cont[s].id = x /\ pump[s].turn # x
    PROVE  Handed(x) /\ starter[x].live = s
<1> USE DEF OInv, PInv, CInv, SInv, IInv
<1>1. Named(x, s)
    BY DEF Named
<1>2. starter[x].pc # "idle" /\ ~Early(x)
    BY <1>1 DEF NamesBegun, Unnamed
<1>3. ~Gone(x)
    BY DEF GoneInv
<1>4. Handed(x)
    BY <1>2, <1>3 DEF Handed, Delivered, Gone, Early, TypeOK, TaskSteps
<1> QED BY <1>1, <1>4 DEF Custody, HeldOn

\* A turn that may resume was there before, or its pump just took it.
LEMMA ContMoves ==
    ASSUME SInv, [Next]_vars, NEW m \in Messages, NEW s \in Sessions, cont'[s].id = m
    PROVE  /\ (cont[s].id = m /\ ~Resumes(s)) \/ (PumpTakes(s) /\ turn[s].id = m /\ pump'[s].turn = m)
           /\ ~Restart /\ ~(StopTake /\ stopper.live = s)
           /\ \A n \in Messages : ~(StartInstall(n) /\ starter[n].live = s)
<1> USE DEF SInv, IInv
<1>1. None # m /\ NoTurn.id = None
    BY TurnsAssumption DEF NoTurn
<1>2. ~Restart /\ ~(StopTake /\ stopper.live = s) /\ \A n \in Messages : ~(StartInstall(n) /\ starter[n].live = s)
    BY <1>1, SeatEffects
<1>3. ~Resumes(s)
  <2>1. SUFFICES ASSUME Resumes(s) PROVE cont'[s] = NoTurn
      BY <1>1
  <2>2. ~HeldBack(s)
      BY <2>1 DEF Resumes, Reopens, HeldBack
  <2>3. cont' = [cont EXCEPT ![s] = NoTurn]
      BY <2>1, <2>2 DEF Resumes, PumpOutput, PumpWakes, Output
  <2> QED BY <2>3 DEF TypeOK
<1>4. CASE cont'[s] = cont[s]
    BY <1>2, <1>3, <1>4
<1>5. CASE cont'[s] # cont[s]
  <2>1. ~Seats(s)
      BY <1>2, <1>5, SeatEffects DEF Seats
  <2>2. PumpActs(s)
      BY <1>2, <1>5, <2>1, OwnTurn
  <2>3. PumpTakes(s)
      BY <1>3, <1>5, <2>2, PumpEffects DEF PumpActs, PumpWork, PumpSettles, PumpExits, PumpFailsLast, session
  <2>4. cont'[s] = turn[s] /\ pump'[s].turn = turn[s].id
      BY <1>5, <2>3, PumpEffects
  <2> QED BY <1>2, <2>3, <2>4
<1> QED BY <1>4, <1>5

\* A pump keeps the turn it took until it settles it.
LEMMA PumpKeeps ==
    ASSUME SInv, [Next]_vars, NEW m \in Messages, NEW s \in Sessions, pump[s].turn = m, ~Settles(s), ~Restart
    PROVE  pump'[s].turn = m
<1> USE DEF SInv, IInv
<1>1. pump[s].pc \in {"settle", "exitfail"}
    BY TurnsAssumption DEF Takers
<1>2. ~PumpActs(s)
    BY <1>1, PumpEffects DEF PumpActs, PumpWork, Settles
<1>3. CASE Spawns(s)
    BY <1>3, SeatEffects
<1> QED BY <1>2, <1>3, OwnPump

\* An end that was not the first one shows.
LEMMA EndsOpen ==
    ASSUME OInv, [Next]_vars, Regular', NEW m \in Messages, log' = Ended(m)
    PROVE  log[m] = "open" /\ log'[m] = "closed"
<1> USE DEF OInv, PInv, CInv, SInv, IInv
<1>1. log'[m] # "again"
    BY RegularFacts DEF SettledOnce
<1> QED BY <1>1 DEF Ended, EndIn, TypeOK

\* A start that is over stays over, and its turn ended.
LEMMA GoneStep ==
    ASSUME OInv, [Next]_vars, Regular', NEW m \in Messages, Gone(m)'
    PROVE  log'[m] = "closed" /\ \A s \in Sessions : cont'[s].id = m => pump'[s].turn = m
<1> USE DEF OInv, PInv, CInv, SInv, IInv
<1>1. /\ Regular /\ GoneInv /\ ContInv /\ OneOpen /\ SettledOnce'
      /\ \A n \in Messages : ~StartArchived(n)
    BY RegularFacts
<1>2. ~Restart /\ ~Begin(m)
    BY DEF Gone, Restart, IdleTask, Begin, Goto, TypeOK
<1>3. CASE StartSpawnFails(m)
  <2>1. Unnamed(m) /\ log' = Ended(m)
      BY <1>3 DEF StartSpawnFails, Early, NamesBegun
  <2>2. ~StartInstall(m)
      BY <1>3 DEF StartSpawnFails, StartInstall
  <2>3. \A s \in Sessions : cont'[s].id # m
      BY <2>1, <2>2, UnnamedStep DEF Unnamed, Named
  <2> QED BY <2>1, <2>3, EndsOpen
<1>4. CASE StartDeliveryFails(m)
  <2>1. log' = Ended(m) /\ UNCHANGED <<cont, pump>>
      BY <1>4 DEF StartDeliveryFails, session
  <2>2. log[m] = "open" /\ log'[m] = "closed"
      BY <2>1, EndsOpen
  <2> QED BY <1>1, <2>1, <2>2 DEF ContInv
<1>5. CASE ~StartSpawnFails(m) /\ ~StartDeliveryFails(m)
  <2>1. Gone(m)
    <3>1. CASE Start(m)
      <4>1. starter[m].pc \in {"check", "install", "deliver"} => starter[m].live # None
          BY TurnsAssumption DEF Placed
      <4> QED BY SMTT(30), <1>1, <1>5, <3>1, <4>1 DEF Gone, Start, StartReuse, StartWait, StartSpawn, StartArchived, StartChecked, StartInstall,
                  StartDeliver, StartClear, Goto, TypeOK
    <3>2. CASE ~Start(m)
        BY <1>2, <3>2, OwnStarter DEF Gone
    <3> QED BY <3>1, <3>2
  <2>2. log[m] = "closed" /\ \A s \in Sessions : cont[s].id = m => pump[s].turn = m
      BY <1>1, <2>1 DEF GoneInv
  <2>3. Start(m) => log' = log
      BY <1>5 DEF Start, StartReuse, StartWait, StartSpawn, StartArchived, StartChecked, StartInstall,
                  StartDeliver, StartClear, durable
  <2>4. ASSUME NEW s \in Sessions, Settles(s), pump[s].turn = m PROVE FALSE
      BY <2>2, <2>4, SettleEffects, EndsOpen
  <2>5. ~(StopSettle /\ stopper.turn.id = m)
    <3>1. SUFFICES ASSUME StopSettle, stopper.turn.id = m PROVE log' = Ended(m)
        BY <2>2, EndsOpen
    <3> QED BY <3>1, TurnsAssumption DEF StopSettle, NoTurn
  <2>6. ASSUME NEW s \in Sessions, Resumes(s), cont[s].id = m PROVE FALSE
    <3>1. pump[s].turn = m
        BY <2>2, <2>6
    <3>2. pump[s].pc \in {"run", "wait"}
        BY <2>6 DEF Resumes, PumpOutput, PumpWakes
    <3> QED BY <3>1, <3>2, TurnsAssumption DEF Takers
  <2>7. ~Events(m)
      BY <2>4, <2>5, <2>6 DEF Events
  <2>8. log'[m] = "closed"
      BY <1>2, <2>2, <2>3, <2>7, OwnLog
  <2>9. ASSUME NEW s \in Sessions, cont'[s].id = m PROVE pump'[s].turn = m
    <3>1. CASE PumpTakes(s) /\ turn[s].id = m /\ pump'[s].turn = m
        BY <3>1
    <3>2. CASE cont[s].id = m /\ ~Resumes(s)
      <4>1. pump[s].turn = m
          BY <2>2, <3>2
      <4> QED BY <1>2, <2>4, <4>1, PumpKeeps
    <3> QED BY <2>9, <3>1, <3>2, ContMoves
  <2> QED BY <2>8, <2>9
<1> QED BY <1>3, <1>4, <1>5

\* An open turn was begun just now, was resumed just now, or was open and nothing ended it.
LEMMA OpenFrom ==
    ASSUME OInv, [Next]_vars, Regular', NEW x \in Messages, log'[x] = "open"
    PROVE  /\ ~Restart
           /\ \/ log[x] = "none" /\ Begin(x)
              \/ /\ \A n \in Messages : log[n] # "open"
                 /\ \E s \in Sessions : Resumes(s) /\ cont[s].id = x
              \/ /\ log[x] = "open" /\ ~Begin(x)
                 /\ \A s \in Sessions : ~Resumes(s) /\ (Settles(s) => pump[s].turn # x)
                 /\ ~(StopSettle /\ stopper.turn.id = x)
                 /\ ~StartDeliveryFails(x) /\ ~StartSpawnFails(x)
<1> USE DEF OInv, PInv, CInv, SInv, IInv
<1>1. Regular /\ OneOpen
    BY RegularFacts
<1>2. \A n \in Messages : log[n] = "open" => status = "Running"
    BY <1>1 DEF OneOpen, Open, Regular
<1>3. ~(log' = Ended(x))
    BY EndsOpen
<1>4. ~Restart
  <2>1. SUFFICES ASSUME Restart PROVE FALSE
      OBVIOUS
  <2>2. status' # "Running"
      BY <2>1 DEF Restart
  <2>3. x \in Open' /\ SettledOnce' /\ status' # "Archived"
      BY DEF Open, Regular
  <2> QED BY <2>2, <2>3, OneTurnStep DEF OneTurn
<1>5. ASSUME NEW s \in Sessions PROVE Settles(s) => pump[s].turn # x
    BY <1>3, <1>5, SettleEffects
<1>6. ~(StopSettle /\ stopper.turn.id = x)
    BY <1>3, TurnsAssumption DEF StopSettle, NoTurn
<1>7. CASE log[x] = "open"
  <2>1. ~Begin(x)
      BY <1>7 DEF Begin, TypeOK
  <2>2. ASSUME NEW s \in Sessions PROVE ~Resumes(s)
      BY <1>2, <1>7 DEF Resumes, Reopens
  <2>3. ~StartDeliveryFails(x) /\ ~StartSpawnFails(x)
      BY <1>3 DEF StartDeliveryFails, StartSpawnFails
  <2> QED BY <1>4, <1>5, <1>6, <1>7, <2>1, <2>2, <2>3
<1>8. CASE log[x] # "open"
  <2>1. CASE Begin(x)
    <3>1. log[x] = "none"
        BY <2>1 DEF Begin, TypeOK
    <3> QED BY <1>4, <2>1, <3>1
  <2>2. CASE Start(x)
    <3>1. log' = log \/ log' = Ended(x)
        BY <2>2 DEF Start, StartReuse, StartWait, StartSpawn, StartSpawnFails, StartArchived, StartChecked,
                  StartInstall, StartDeliver, StartDeliveryFails, StartClear, durable
    <3> QED BY <1>3, <1>8, <3>1
  <2>3. CASE ~Begin(x) /\ ~Start(x)
    <3>1. PICK s \in Sessions : Resumes(s) /\ cont[s].id = x
        BY <1>4, <1>5, <1>6, <1>8, <2>3, OwnLog DEF Events
    <3>2. \A n \in Messages : log[n] # "open"
        BY <1>2, <3>1 DEF Resumes, Reopens
    <3> QED BY <1>4, <3>1, <3>2
  <2> QED BY <2>1, <2>2, <2>3
<1> QED BY <1>7, <1>8

\* An open turn that may resume stays one its pump is about to settle.
LEMMA ContStep ==
    ASSUME OInv, [Next]_vars, Regular', NEW x \in Messages, NEW r \in Sessions, log'[x] = "open", cont'[r].id = x
    PROVE  pump'[r].turn = x
<1> USE DEF OInv, PInv, CInv, SInv, IInv
<1>1. Regular /\ ContInv
    BY RegularFacts
<1>2. CASE PumpTakes(r) /\ turn[r].id = x /\ pump'[r].turn = x
    BY <1>2
<1>3. CASE cont[r].id = x /\ ~Resumes(r)
  <2>1. CASE log[x] = "none"
      BY <1>3, <2>1 DEF NamesBegun, Unnamed, Named
  <2>2. ASSUME NEW s \in Sessions, Resumes(s), cont[s].id = x PROVE FALSE
    <3>1. pump[s].pc \in {"run", "wait"}
        BY <2>2 DEF Resumes, PumpOutput, PumpWakes
    <3>2. pump[s].turn # x
        BY <3>1, TurnsAssumption DEF Takers
    <3>3. starter[x].live = s
        BY <1>1, <2>2, <3>2, NamedHanded
    <3>4. Handed(x)
        BY <1>1, <2>2, <3>2, NamedHanded
    <3>5. r = s
        BY <1>3, <3>3, <3>4 DEF Custody, HeldOn, Named
    <3> QED BY <1>3, <2>2, <3>5
  <2>3. CASE log[x] = "open" /\ \A s \in Sessions : ~Resumes(s) /\ (Settles(s) => pump[s].turn # x)
    <3>1. pump[r].turn = x
        BY <1>1, <1>3, <2>3 DEF ContInv
    <3> QED BY <2>3, <3>1, PumpKeeps, OpenFrom
  <2> QED BY <2>1, <2>2, <2>3, OpenFrom
<1> QED BY <1>2, <1>3, ContMoves

\* A resume of a turn takes it from what may resume on the session.
LEMMA ResumeEffects ==
    ASSUME SInv, [Next]_vars, NEW s \in Sessions, Resumes(s)
    PROVE  /\ turn[s] = NoTurn /\ turn'[s].id = cont[s].id /\ cont'[s] = NoTurn
           /\ cont[s].id \in Messages /\ pump[s].turn = None
           /\ \A m \in Messages : ~Start(m) /\ ~Begin(m)
           /\ UNCHANGED <<starter, stopper, proc, cleanup>> /\ pump[s].pc \in {"run", "wait"} /\ pump'[s].pc = "run"
           /\ \A r \in Sessions : r # s => turn'[r] = turn[r] /\ cont'[r] = cont[r] /\ pump'[r] = pump[r]
<1> USE DEF SInv, IInv
<1>1. ~HeldBack(s) /\ Reopens(s) /\ s \notin cleanup
    BY DEF Resumes, Reopens, HeldBack
<1>2. /\ turn' = [turn EXCEPT ![s] = [id |-> cont[s].id, response |-> responses + 1]]
      /\ cont' = [cont EXCEPT ![s] = NoTurn]
      /\ PumpGoto(s, "run")
      /\ UNCHANGED <<starter, stopper, proc, cleanup>> /\ pump[s].pc \in {"run", "wait"}
    BY <1>1 DEF Resumes, PumpOutput, PumpWakes, Output
<1>3. pump' = [pump EXCEPT ![s].pc = "run"]
    BY <1>2 DEF PumpGoto
<1>4. cont[s].id \in Messages
    BY <1>1 DEF TypeOK, ActiveTurn, Reopens
<1>5. pump[s].turn = None
    BY <1>2 DEF Takers
<1>6. ASSUME NEW m \in Messages PROVE ~Start(m) /\ ~Begin(m)
  <2>1. ASSUME Start(m) PROVE starter' # starter
    <3>1. CASE StartSpawn(m)
        BY <3>1 DEF StartSpawn, Goto, TypeOK
    <3>2. CASE ~StartSpawn(m)
      <4>1. PICK pc \in TaskSteps : starter[m].pc # pc /\ \E r : Goto(m, pc, r)
          BY <2>1, <3>2 DEF Start, StartReuse, StartWait, StartSpawnFails, StartArchived, StartChecked, StartInstall,
                      StartDeliver, StartDeliveryFails, StartClear, TaskSteps
      <4> QED BY <4>1 DEF Goto, TypeOK
    <3> QED BY <3>1, <3>2
  <2>2. ~Begin(m)
    <3>1. SUFFICES ASSUME Begin(m) PROVE FALSE
        OBVIOUS
    <3>2. UNCHANGED <<pending, row, rows, lastTurn>> /\ log' = [log EXCEPT ![cont[s].id] = IF @ = "again" THEN "again" ELSE "open"]
        BY <1>1 DEF Resumes, PumpOutput, PumpWakes, Output
    <3>3. starter'[m] = [pc |-> "ensure", live |-> None]
        BY <3>1 DEF Begin, Goto, TypeOK
    <3>4. starter[m].pc = "ensure" /\ log'[m] \in {"open", "twice"} /\ log' = [log EXCEPT ![m] = IF @ = "none" THEN "open" ELSE "twice"]
        BY <1>2, <3>1, <3>3 DEF Begin, TypeOK
    <3>5. log[m] = "open"
        BY <3>4 DEF NamesBegun, Early
    <3>6. log'[m] = "twice"
        BY <3>4, <3>5 DEF TypeOK
    <3> QED BY <3>2, <3>5, <3>6 DEF TypeOK
  <2> QED BY <1>2, <2>1, <2>2
<1> QED BY <1>1, <1>2, <1>3, <1>4, <1>5, <1>6 DEF TypeOK, Reopens

\* While an open turn is handed over, nothing brings another turn to its session.
LEMMA SoleStep ==
    ASSUME OInv, [Next]_vars, Regular', NEW m \in Messages, NEW x \in Messages,
           starter'[m].pc = "deliver", log'[m] = "open", x # m
    PROVE  turn'[starter'[m].live].id # x /\ cont'[starter'[m].live].id # x
<1> USE DEF OInv, PInv, CInv, SInv, IInv
<1>1. Regular /\ SoleInv /\ OneOpen
    BY RegularFacts
<1>2. Handed(m)'
    BY DEF Handed
<1>3. PICK s \in Sessions : s = starter[m].live /\ starter'[m].live = s /\ (StartInstall(m) \/ Handed(m))
    BY <1>2, HandedStep
<1>4. SUFFICES turn'[s].id # x /\ cont'[s].id # x
    BY <1>3
<1>5. CASE StartInstall(m)
  <2>1. turn'[s].id = m /\ cont'[s] = NoTurn
      BY <1>3, <1>5, SeatEffects
  <2> QED BY <2>1, TurnsAssumption DEF NoTurn
<1>6. CASE ~StartInstall(m)
  <2>1. ~Start(m) /\ ~Begin(m)
    <3>1. ASSUME Start(m) PROVE starter'[m].pc \in {"clear", "done"}
        BY <1>3, <1>6, <3>1 DEF Start, StartReuse, StartWait, StartSpawn, StartSpawnFails, StartArchived, StartChecked,
                  StartDeliver, StartDeliveryFails, StartClear, Goto, TypeOK, Handed, Delivered
    <3> QED BY <3>1 DEF Begin, Goto, TypeOK
  <2>2. ~Restart
      BY OpenFrom
  <2>3. Handed(m) /\ starter[m].pc = "deliver"
      BY <2>1, <2>2, <1>3, <1>6, OwnStarter
  <2>4. CASE \E r \in Sessions : Resumes(r) /\ cont[r].id = m
    <3>1. PICK r \in Sessions : Resumes(r) /\ cont[r].id = m
        BY <2>4
    <3>2. r = s
        BY <1>3, <2>3, <3>1 DEF Custody, HeldOn, Named
    <3> QED BY <3>1, <3>2, ResumeEffects, TurnsAssumption DEF NoTurn
  <2>5. CASE log[m] = "open" /\ \A r \in Sessions : ~Resumes(r)
    <3>1. turn[s].id # x /\ cont[s].id # x
        BY <1>1, <1>3, <2>3, <2>5 DEF SoleInv
    <3>2. cont'[s].id # x
        BY <3>1, ContMoves
    <3>3. ~StartInstall(x)
        BY <1>1, <2>5 DEF StartInstall, Early, NamesBegun, OneOpen, Open
    <3> QED BY <3>1, <3>2, <3>3, TurnMoves
  <2>6. log[m] # "none"
      BY <2>3 DEF NamesBegun
  <2> QED BY <2>4, <2>5, <2>6, OpenFrom
<1> QED BY <1>5, <1>6

\* A start that failed finds no turn on its session that the provider has.
LEMMA ClearStep ==
    ASSUME OInv, [Next]_vars, Regular', NEW m \in Messages, starter'[m].pc = "clear"
    PROVE  /\ proc'[starter'[m].live] = "down"
           /\ \A x \in Messages : (turn'[starter'[m].live].id = x \/ cont'[starter'[m].live].id = x) => ~Delivered(x)'
<1> USE DEF OInv, PInv, CInv, SInv, IInv
<1>1. Regular /\ SoleInv /\ ClearInv /\ OneOpen
    BY RegularFacts
<1>2. ~Restart /\ ~Begin(m)
    BY DEF Restart, IdleTask, Begin, Goto, TypeOK
<1>3. TypeOK' /\ Placed'
    BY TypeStep
<1>4. CASE StartDeliveryFails(m)
  <2>1. PICK s \in Sessions : s = starter[m].live /\ starter'[m].live = s
      BY <1>4 DEF StartDeliveryFails, Goto, Placed, TypeOK
  <2>2. proc[s] = "down" /\ UNCHANGED <<proc, turn, cont>> /\ starter[m].pc = "deliver"
      BY <1>1, <1>4, <2>1 DEF StartDeliveryFails, Regular, May, session
  <2>3. log[m] = "open"
      BY <1>4, EndsOpen DEF StartDeliveryFails
  <2>4. \A x \in Messages : (turn'[s].id = x \/ cont'[s].id = x) => x = m
      BY <1>1, <2>1, <2>2, <2>3 DEF SoleInv
  <2>5. ~Delivered(m)'
      BY DEF Delivered
  <2> QED BY <2>1, <2>2, <2>4, <2>5
<1>5. CASE ~StartDeliveryFails(m)
  <2>1. ~Start(m)
      BY <1>5 DEF Start, StartReuse, StartWait, StartSpawn, StartSpawnFails, StartArchived, StartChecked, StartInstall,
                  StartDeliver, StartClear, Goto, TypeOK
  <2>2. starter'[m] = starter[m]
      BY <1>2, <2>1, OwnStarter
  <2>3. PICK s \in Sessions : s = starter[m].live /\ starter'[m].live = s
      BY <2>2 DEF Placed
  <2>4. proc[s] = "down" /\ \A x \in Messages : turn[s].id = x \/ cont[s].id = x => ~Delivered(x)
      BY <1>1, <2>2, <2>3 DEF ClearInv
  <2>5. proc'[s] = "down"
      BY <1>3, <2>4, DownStays
  <2>6. ASSUME NEW x \in Messages, turn'[s].id = x \/ cont'[s].id = x, Delivered(x)' PROVE FALSE
    <3>1. Handed(x)'
        BY <2>6 DEF Handed
    <3>2. ~StartInstall(x)
        BY <2>6 DEF StartInstall, Goto, Delivered, TypeOK
    <3>3. turn[s].id = x \/ cont[s].id = x
        BY <2>6, <3>2, TurnMoves, ContMoves
    <3>4. ~Delivered(x) /\ Handed(x) /\ starter[x].live = s
        BY <2>4, <3>1, <3>2, <3>3, HandedStep DEF Custody, HeldOn, Named
    <3>5. StartDeliver(x)
      <4>1. ~Begin(x)
          BY <2>6 DEF Begin, Goto, Delivered, TypeOK
      <4>2. CASE ~Start(x)
        <5>1. starter'[x] = starter[x]
            BY <1>2, <4>1, <4>2, OwnStarter
        <5> QED BY <2>6, <3>4, <5>1 DEF Delivered
      <4>3. CASE Start(x)
          BY <2>6, <3>4, <4>3 DEF Start, StartReuse, StartWait, StartSpawn, StartSpawnFails, StartArchived, StartChecked, StartInstall,
                  StartDeliveryFails, StartClear, Goto, TypeOK, Handed, Delivered
      <4> QED BY <4>2, <4>3
    <3> QED BY <2>4, <3>4, <3>5 DEF StartDeliver
  <2> QED BY <2>3, <2>5, <2>6
<1> QED BY <1>4, <1>5

\* Before its turn is installed, a start goes on, and puts it where its session's tasks find it.
LEMMA EarlyKept ==
    ASSUME OInv, [Next]_vars, Regular', NEW x \in Messages, log[x] = "open", log'[x] = "open", Early(x)
    PROVE  Kept(x)'
<1> USE DEF OInv, PInv, CInv, SInv, IInv
<1>1. AliveInv /\ ~Restart /\ ~Begin(x) /\ ~StartSpawnFails(x) /\ ~StartArchived(x)
    BY RegularFacts, OpenFrom
<1>2. CASE StartInstall(x)
  <2>1. PICK s \in Sessions : s = starter[x].live /\ starter'[x] = [pc |-> "deliver", live |-> s]
      BY <1>2 DEF StartInstall, Goto, Placed, TypeOK
  <2>2. UNCHANGED <<proc, pump, stopper, cleanup>> /\ turn'[s].id = x
      BY <1>2, <2>1, SeatEffects DEF StartInstall
  <2>3. proc[s] # "unused"
      BY <2>1, TurnsAssumption DEF Removed
  <2>4. CASE proc[s] = "up"
      BY <1>1, <2>2, <2>4 DEF AliveInv, Alive, Kept
  <2>5. CASE proc[s] = "down"
      BY <2>1, <2>2, <2>5 DEF Kept
  <2> QED BY <2>3, <2>4, <2>5 DEF TypeOK
<1>3. CASE Start(x) /\ ~StartInstall(x)
  <2>1. Early(x)'
      BY <1>1, <1>3 DEF Start, StartReuse, StartWait, StartSpawn, StartChecked, StartDeliver, StartDeliveryFails, StartClear,
                  Goto, TypeOK, Early
  <2> QED BY <2>1 DEF Kept
<1>4. CASE ~Start(x)
  <2>1. starter'[x] = starter[x]
      BY <1>1, <1>4, OwnStarter
  <2> QED BY <2>1 DEF Kept, Early
<1> QED BY <1>2, <1>3, <1>4

\* A turn on a session that is alive stays there, or passes to who settles it.
LEMMA TurnKept ==
    ASSUME OInv, [Next]_vars, Regular', NEW x \in Messages, NEW s \in Sessions, log[x] = "open", log'[x] = "open",
           turn[s].id = x, Alive(s)
    PROVE  Kept(x)'
<1> USE DEF OInv, PInv, CInv, SInv, IInv
<1>1. Regular /\ ClearInv /\ OneOpen /\ ~Restart /\ ~StopCloseFails /\ ~Resumes(s)
    BY RegularFacts, OpenFrom
<1>2. CASE PumpTakes(s) \/ PumpTakesLast(s)
    BY <1>2, PumpEffects DEF Kept
<1>3. CASE StopTake /\ stopper.live = s
    BY <1>3, SeatEffects DEF Kept, StopHas
<1>4. ASSUME NEW n \in Messages, StartInstall(n), starter[n].live = s PROVE Kept(x)'
  <2>1. log[n] = "open" /\ Unnamed(n)
      BY <1>4 DEF StartInstall, Early, NamesBegun
  <2>2. n # x
      BY <2>1 DEF Unnamed, Named
  <2> QED BY <1>1, <2>1, <2>2 DEF OneOpen, Open
<1>5. ASSUME NEW n \in Messages, StartClear(n), starter[n].live = s PROVE Kept(x)'
  <2>1. proc[s] = "down" /\ ~Delivered(x)
      BY <1>1, <1>5 DEF ClearInv, StartClear
  <2>2. starter[x].pc = "deliver" /\ starter[x].live = s
      BY <1>1, <2>1, NamedHanded DEF Named, Handed
  <2>3. n # x
      BY <1>5, <2>2 DEF StartClear
  <2>4. starter'[x] = starter[x] /\ proc' = proc
      BY <1>5, <2>3 DEF StartClear, Goto, TypeOK
  <2> QED BY <2>1, <2>2, <2>4 DEF Kept
<1>6. CASE /\ ~Seats(s) /\ ~PumpTakes(s) /\ ~PumpTakesLast(s) /\ ~(StopTake /\ stopper.live = s)
  <2>1. turn'[s] = turn[s]
    <3>1. CASE PumpOutput(s) \/ PumpWakes(s)
        BY <1>1, <3>1, PumpEffects
    <3>2. CASE PumpSettles(s) \/ PumpExits(s) \/ PumpFailsLast(s)
        BY <3>2 DEF PumpSettles, PumpExits, PumpFailsLast, session
    <3> QED BY <1>1, <1>6, <3>1, <3>2, OwnTurn DEF PumpActs, PumpWork
  <2>2. Alive(s)'
      BY <1>1, <1>6, AliveMoves
  <2> QED BY <2>1, <2>2 DEF Kept
<1> QED BY <1>2, <1>3, <1>4, <1>5, <1>6 DEF Seats

\* Something will end an open turn, after every step too.
LEMMA KeptStep ==
    ASSUME OInv, [Next]_vars, Regular', NEW x \in Messages, log'[x] = "open"
    PROVE  Kept(x)'
<1> USE DEF OInv, PInv, CInv, SInv, IInv
<1>1. KeptInv /\ ~Restart
    BY RegularFacts, OpenFrom
<1>2. CASE Begin(x)
    BY <1>2 DEF Begin, Goto, TypeOK, Kept, Early
<1>3. ASSUME NEW s \in Sessions, Resumes(s), cont[s].id = x PROVE Kept(x)'
  <2>1. turn'[s].id = x /\ pump'[s].pc = "run" /\ cleanup' = cleanup
      BY <1>3, ResumeEffects
  <2>2. s \notin cleanup
      BY <1>3 DEF Resumes
  <2> QED BY <2>1, <2>2 DEF Kept, Alive
<1>4. CASE /\ log[x] = "open" /\ ~Begin(x)
           /\ \A s \in Sessions : ~Resumes(s) /\ (Settles(s) => pump[s].turn # x)
           /\ ~(StopSettle /\ stopper.turn.id = x)
           /\ ~StartDeliveryFails(x)
  <2>1. CASE Early(x)
      BY <1>4, <2>1, EarlyKept
  <2>2. CASE starter[x].pc = "deliver" /\ proc[starter[x].live] = "down"
    <3>1. ~Start(x)
        BY <1>4, <2>2 DEF Start, StartReuse, StartWait, StartSpawn, StartSpawnFails, StartArchived, StartChecked, StartInstall,
                  StartDeliver, StartClear
    <3>2. starter'[x] = starter[x] /\ starter[x].live \in Sessions
        BY <1>1, <1>4, <2>2, <3>1, OwnStarter DEF Placed
    <3>3. proc'[starter[x].live] = "down"
        BY <2>2, <3>2, TypeStep, DownStays
    <3> QED BY <2>2, <3>2, <3>3 DEF Kept
  <2>3. ASSUME NEW s \in Sessions, turn[s].id = x, Alive(s) PROVE Kept(x)'
      BY <1>4, <2>3, TurnKept
  <2>4. ASSUME NEW s \in Sessions, pump[s].turn = x PROVE Kept(x)'
      BY <1>1, <1>4, <2>4, PumpKeeps DEF Kept
  <2>5. CASE StopHas(x)
    <3>1. ~Stopping
        BY <1>4, <2>5 DEF StopHas, Stopping, Stop, StopBegin, StopDone, StopForce, StopClose, StopCloseFails, StopTake, StopSettle
    <3>2. stopper' = stopper
        BY <1>1, <3>1, AsksFrame, StartsFrame, PumpsFrame, KeepingFrame, NextByTask DEF vars, tasks
    <3> QED BY <2>5, <3>2 DEF Kept, StopHas
  <2> QED BY <1>1, <1>4, <2>1, <2>2, <2>3, <2>4, <2>5 DEF KeptInv, Kept
<1> QED BY <1>2, <1>3, <1>4, OpenFrom

\* A message without a start_turn task is named nowhere.
LEMMA IdleStep ==
    ASSUME OInv, [Next]_vars, NEW m \in Messages, starter'[m].pc = "idle"
    PROVE  Unnamed(m)'
<1> USE DEF OInv, PInv, CInv, SInv, IInv
<1>1. CASE Restart
    BY <1>1, TurnsAssumption DEF Restart, Unnamed, Named, NoTurn, NoPump, IdleStop
<1>2. CASE ~Restart
  <2>1. ~Begin(m) /\ ~Start(m)
      BY DEF Begin, Start, StartReuse, StartWait, StartSpawn, StartSpawnFails, StartArchived, StartChecked, StartInstall,
             StartDeliver, StartDeliveryFails, StartClear, Goto, TypeOK
  <2>2. starter[m].pc = "idle" /\ ~StartInstall(m)
      BY <1>2, <2>1, OwnStarter DEF Start
  <2> QED BY <2>2, UnnamedStep
<1> QED BY <1>1, <1>2

\* Every step keeps the whole invariant.
LEMMA OInvStep == OInv /\ [Next]_vars => OInv'
<1> SUFFICES ASSUME OInv, [Next]_vars PROVE OInv'
    OBVIOUS
<1>1. PInv'
    BY CInvStep, ReleasesStep DEF OInv, PInv
<1>2. ~May("close_fails")' => AliveInv'
    BY AliveStep, MayStays DEF OInv, PInv, CInv, SInv, IInv, May
<1>3. \A m \in Messages : starter'[m].pc = "idle" => Unnamed(m)'
    BY IdleStep
<1>4. Regular' => KeptInv' /\ ContInv' /\ SoleInv' /\ ClearInv' /\ GoneInv'
  <2> SUFFICES ASSUME Regular' PROVE KeptInv' /\ ContInv' /\ SoleInv' /\ ClearInv' /\ GoneInv'
      OBVIOUS
  <2>1. KeptInv'
      BY KeptStep DEF KeptInv
  <2>2. ContInv'
      BY ContStep DEF ContInv
  <2>3. SoleInv'
      BY SoleStep DEF SoleInv
  <2>4. ClearInv'
      BY ClearStep DEF ClearInv
  <2>5. GoneInv'
      BY GoneStep DEF GoneInv
  <2> QED BY <2>1, <2>2, <2>3, <2>4, <2>5
<1> QED BY <1>1, <1>2, <1>3, <1>4 DEF OInv

-----------------------------------------------------------------------------
(* Ends that are told once, over restarts too.                             *)

\* The thread is not archived and no turn was ended twice.
Orderly == status # "Archived" /\ SettledOnce

\* A turn on a session is the last one, or the last one is not on its session yet.
OnLast(t) == t # NoTurn => t.id = lastTurn \/ \E m \in Messages : Early(m)

\* Only the last turn is started, and only the session in the map has a turn, or one
\* that may resume; it is the last turn, until the next one is installed.
LastInv ==
    /\ \A m \in Messages :
         /\ Early(m) => m = lastTurn
         /\ starter[m].pc = "spawn" => current = None
         /\ starter[m].pc \in {"check", "install"} =>
              starter[m].live = current \/ (current = None /\ starter[m].live \in released)
    /\ \A s \in Sessions \ released :
         /\ turn[s] # NoTurn \/ cont[s] # NoTurn => s = current
         /\ OnLast(turn[s]) /\ OnLast(cont[s])

\* While a thread runs, its last turn is open.
RunsLast == status = "Running" => lastTurn # None /\ log[lastTurn] = "open"

\* A message the provider got was delivered by a start that is over, or by a daemon that died.
GivenInv ==
    \A m \in given : log[m] # "none" /\ (Delivered(m) \/ (starter[m].pc = "idle" /\ May("restart")))

\* Output is held back only where turns may resume.
WaitInv == \A s \in Sessions : pump[s].pc = "wait" => May("resume")

EInv ==
    /\ OInv /\ GivenInv /\ WaitInv /\ EndedOnce
    /\ Orderly => LastInv
    /\ SettledOnce \/ ~May("resume") => RunsLast

\* The initial states satisfy it.
LEMMA InitEInv == Init => EInv
<1> SUFFICES ASSUME Init PROVE EInv
    OBVIOUS
<1> USE TurnsAssumption DEF Init, IdleTask, IdleStop, NoPump
<1>1. LastInv /\ RunsLast
    BY DEF LastInv, RunsLast, Early, OnLast
<1>2. GivenInv /\ WaitInv /\ EndedOnce
    BY DEF GivenInv, WaitInv, EndedOnce
<1> QED BY <1>1, <1>2, InitOInv DEF EInv

\* What holds, and what cannot happen, in a thread that is orderly after the step.
LEMMA OrderlyFacts ==
    ASSUME EInv, [Next]_vars, Orderly'
    PROVE  /\ Orderly /\ LastInv /\ OneOpen
           /\ ~ArchiveClose /\ \A m \in Messages : ~StartArchived(m)
<1> USE DEF EInv, OInv, PInv, CInv, SInv, IInv
<1>1. status # "Archived" /\ SettledOnce
    BY NextDurable, AgainStays DEF DurableStep, Keeps, Archives, Begins, Ends, Reopened, Queues, Unqueues, Crashes, Orderly
<1>2. OneOpen
    BY <1>1 DEF OneTurn, OneOpen
<1>3. ~ArchiveClose /\ \A m \in Messages : ~StartArchived(m)
    BY <1>1 DEF ArchiveClose, Removed, StartArchived
<1> QED BY <1>1, <1>2, <1>3 DEF Orderly

\* A turn that waits for its session was begun just now, or waited before.
LEMMA EarlyMoves ==
    ASSUME TypeOK, [Next]_vars, NEW m \in Messages, Early(m)'
    PROVE  ~Restart /\ (Begin(m) \/ Early(m))
<1>1. ~Restart
    BY DEF Restart, Early, IdleTask
<1>2. CASE Start(m)
    BY <1>1, <1>2 DEF Start, StartReuse, StartWait, StartSpawn, StartSpawnFails, StartArchived, StartChecked,
                StartInstall, StartDeliver, StartDeliveryFails, StartClear, Goto, TypeOK, Early
<1>3. CASE ~Start(m) /\ ~Begin(m)
    BY <1>1, <1>3, OwnStarter DEF Early
<1> QED BY <1>1, <1>2, <1>3

\* ... and it waits until it is installed, or no session comes up for it.
LEMMA EarlyStays ==
    ASSUME TypeOK, [Next]_vars, NEW m \in Messages, Early(m), ~StartArchived(m), ~Restart
    PROVE  Early(m)' \/ StartInstall(m) \/ StartSpawnFails(m)
<1>1. CASE Start(m)
    BY <1>1 DEF Start, StartReuse, StartWait, StartSpawn, StartArchived, StartChecked,
                StartDeliver, StartDeliveryFails, StartClear, Goto, TypeOK, Early
<1>2. CASE Begin(m)
    BY <1>2 DEF Begin, Goto, TypeOK, Early
<1>3. CASE ~Start(m) /\ ~Begin(m)
    BY <1>3, OwnStarter DEF Early
<1> QED BY <1>1, <1>2, <1>3

\* A session that leaves the map is marked released, unless another one takes its place.
LEMMA LeavesReleased ==
    ASSUME SInv, [Next]_vars, NEW s \in Sessions, s = current, current' # current, ~Restart,
           \A m \in Messages : ~StartArchived(m)
    PROVE  Spawns(current') \/ (current' = None /\ s \in released')
<1> USE DEF SInv, IInv
<1>1. CASE PumpExits(s)
    BY <1>1 DEF PumpExits
<1>2. CASE StopForce
    BY <1>2 DEF StopForce
<1>3. CASE ArchiveClose
    BY <1>3, TurnsAssumption DEF ArchiveClose
<1>4. CASE SweepClaim
    BY <1>4 DEF SweepClaim, Removed
<1> QED BY <1>1, <1>2, <1>3, <1>4, MapLeaves

\* The last turn is the one a step begins, or the one before.
LEMMA LastMoves ==
    ASSUME EInv, [Next]_vars, Orderly'
    PROVE  \/ lastTurn' = lastTurn
           \/ /\ lastTurn' \in Messages /\ Begin(lastTurn')
              /\ \A m \in Messages : ~Early(m)
<1> USE DEF EInv, OInv, PInv, CInv, SInv, IInv
<1>1. CASE lastTurn' # lastTurn
  <2>1. PICK m \in Messages : Begins(m)
      BY <1>1, NextDurable DEF DurableStep, Keeps, Archives, Ends, Reopened, Queues, Unqueues, Crashes
  <2>2. lastTurn' = m /\ log[m] = "none" /\ log'[m] = "open"
      BY <2>1 DEF Begins, TypeOK
  <2>3. \A n \in Messages : log[n] # "open"
      BY <2>1, OrderlyFacts DEF Begins, OneOpen, Open
  <2>4. \A n \in Messages : ~Early(n)
      BY <2>3 DEF NamesBegun
  <2>5. Begin(m)
    <3>1. SUFFICES ASSUME ~Begin(m) PROVE FALSE
        OBVIOUS
    <3>2. starter[m].pc = "idle" /\ Unnamed(m)
        BY <2>2 DEF NamesBegun
    <3>3. ~Events(m)
        BY <3>2 DEF Events, Unnamed, Named
    <3>4. ~Start(m)
        BY <3>2 DEF Start, StartReuse, StartWait, StartSpawn, StartSpawnFails, StartArchived, StartChecked,
                    StartInstall, StartDeliver, StartDeliveryFails, StartClear
    <3>5. ~Restart
        BY <1>1 DEF Restart
    <3> QED BY <2>2, <3>1, <3>3, <3>4, <3>5, OwnLog
  <2> QED BY <2>2, <2>4, <2>5
<1> QED BY <1>1

\* A turn comes to a session that is not released by an install, or by a resume there.
LEMMA TurnComes ==
    ASSUME SInv, [Next]_vars, NEW s \in Sessions, turn'[s] # NoTurn
    PROVE  /\ ~Restart
           /\ \/ turn'[s] = turn[s]
              \/ \E m \in Messages : StartInstall(m) /\ starter[m].live = s /\ turn'[s].id = m
              \/ Resumes(s) /\ cont[s] # NoTurn /\ turn'[s].id = cont[s].id
<1> USE DEF SInv, IInv
<1>1. ~Restart
    BY SeatEffects
<1>2. CASE Seats(s)
    BY <1>1, <1>2, SeatEffects DEF Seats
<1>3. CASE StopTake /\ stopper.live = s
    BY <1>3, SeatEffects
<1>4. CASE PumpOutput(s) \/ PumpWakes(s)
  <2>1. Resumes(s) => cont[s] # NoTurn
      BY DEF Resumes, Reopens
  <2> QED BY <1>1, <1>4, <2>1, PumpEffects
<1>5. CASE PumpTakes(s) \/ PumpTakesLast(s)
    BY <1>5, PumpEffects
<1>6. CASE PumpSettles(s) \/ PumpExits(s) \/ PumpFailsLast(s)
    BY <1>1, <1>6 DEF PumpSettles, PumpExits, PumpFailsLast, session
<1> QED BY <1>1, <1>2, <1>3, <1>4, <1>5, <1>6, OwnTurn DEF PumpActs, PumpWork

\* A turn that may resume was there before, or its pump took it off the session.
LEMMA ContComes ==
    ASSUME SInv, [Next]_vars, NEW s \in Sessions, cont'[s] # NoTurn
    PROVE  ~Restart /\ cont'[s] \in {cont[s], turn[s]} /\ \A m \in Messages : ~(StartInstall(m) /\ starter[m].live = s)
<1> USE DEF SInv, IInv
<1>1. ~Restart
    BY SeatEffects
<1>2. ASSUME NEW m \in Messages, StartInstall(m), starter[m].live = s PROVE FALSE
  <2>1. cont' = [cont EXCEPT ![s] = NoTurn]
      BY <1>2 DEF StartInstall
  <2> QED BY <2>1 DEF TypeOK
<1>3. CASE Seats(s)
    BY <1>1, <1>2, <1>3, SeatEffects DEF Seats
<1>4. CASE StopTake /\ stopper.live = s
    BY <1>4, SeatEffects
<1>5. CASE PumpOutput(s) \/ PumpWakes(s)
    BY <1>1, <1>2, <1>5, PumpEffects
<1>6. CASE PumpTakes(s) \/ PumpTakesLast(s)
    BY <1>1, <1>2, <1>6, PumpEffects
<1>7. CASE PumpSettles(s) \/ PumpExits(s) \/ PumpFailsLast(s)
    BY <1>1, <1>2, <1>7 DEF PumpSettles, PumpExits, PumpFailsLast, session
<1> QED BY <1>1, <1>2, <1>3, <1>4, <1>5, <1>6, <1>7, OwnTurn DEF PumpActs, PumpWork

\* Only the last turn is on its way to a session, after every step too.
LEMMA EarlyStep ==
    ASSUME EInv, [Next]_vars, Orderly', NEW m \in Messages, Early(m)'
    PROVE  m = lastTurn'
<1> USE DEF EInv, OInv, PInv, CInv, SInv, IInv
<1>1. CASE Begin(m)
    BY <1>1 DEF Begin
<1>2. CASE Early(m)
    BY <1>2, OrderlyFacts, LastMoves DEF LastInv
<1> QED BY <1>1, <1>2, EarlyMoves

\* A start that is about to spawn finds no session in the map ...
LEMMA SpawnStep ==
    ASSUME EInv, [Next]_vars, Orderly', NEW m \in Messages, starter'[m].pc = "spawn"
    PROVE  current' = None
<1> USE DEF EInv, OInv, PInv, CInv, SInv, IInv
<1>1. LastInv /\ ~Restart
    BY OrderlyFacts DEF Restart, IdleTask
<1>2. CASE StartWait(m)
    BY <1>2 DEF StartWait, session
<1>3. CASE starter[m].pc = "spawn"
  <2>1. current = None
      BY <1>1, <1>3 DEF LastInv
  <2>2. ASSUME NEW s \in Sessions, Spawns(s) PROVE FALSE
    <3>1. PICK n \in Messages : StartSpawn(n)
        BY <2>2 DEF Spawns
    <3>2. Early(n) /\ Early(m) /\ \A r : starter'[n].pc = "check"
        BY <1>3, <3>1 DEF StartSpawn, Goto, Early, TypeOK
    <3>3. n = m
        BY <1>1, <3>2 DEF LastInv
    <3> QED BY <3>2, <3>3
  <2> QED BY <1>1, <2>1, <2>2, MapStep DEF MapMoves, Removed
<1> QED BY <1>2, <1>3, SpawnMoves

\* ... and one that is about to install its turn has the session in the map, or one that
\* is released by now.
LEMMA PlacingStep ==
    ASSUME EInv, [Next]_vars, Orderly', NEW m \in Messages, starter'[m].pc \in {"check", "install"}
    PROVE  starter'[m].live = current' \/ (current' = None /\ starter'[m].live \in released')
<1> USE DEF EInv, OInv, PInv, CInv, SInv, IInv
<1>1. LastInv /\ ~Restart /\ \A n \in Messages : ~StartArchived(n)
    BY OrderlyFacts DEF Restart, IdleTask
<1>2. CASE StartReuse(m)
    BY <1>2 DEF StartReuse, Goto, TypeOK, session
<1>3. CASE StartSpawn(m)
  <2>1. PICK s \in Sessions : current' = s /\ Goto(m, "check", s)
      BY <1>3 DEF StartSpawn
  <2> QED BY <2>1 DEF Goto, TypeOK
<1>4. CASE ~StartReuse(m) /\ ~StartSpawn(m)
  <2>1. starter[m].pc \in {"check", "install"} /\ starter'[m].live = starter[m].live
    <3>1. CASE Start(m)
        BY <1>1, <1>4, <3>1 DEF Start, StartWait, StartSpawnFails, StartChecked,
                    StartInstall, StartDeliver, StartDeliveryFails, StartClear, Goto, TypeOK
    <3>2. CASE Begin(m)
        BY <3>2 DEF Begin, Goto, TypeOK
    <3> QED BY <1>1, <3>1, <3>2, OwnStarter
  <2>2. PICK s \in Sessions : s = starter[m].live
      BY <2>1 DEF Placed
  <2>3. s = current \/ (current = None /\ s \in released)
      BY <1>1, <2>1, <2>2 DEF LastInv
  <2>4. ASSUME NEW r \in Sessions, Spawns(r) PROVE FALSE
    <3>1. PICK n \in Messages : StartSpawn(n)
        BY <2>4 DEF Spawns
    <3>2. Early(n) /\ Early(m) /\ starter[n].pc = "spawn"
        BY <2>1, <3>1 DEF StartSpawn, Early
    <3>3. n = m
        BY <1>1, <3>2 DEF LastInv
    <3> QED BY <2>1, <3>2, <3>3
  <2>5. MapMoves
      BY <1>1, MapStep DEF Removed
  <2>6. CASE current' = current
      BY <2>1, <2>2, <2>3, <2>4, <2>5, <2>6 DEF MapMoves
  <2>7. CASE current' # current /\ s = current
      BY <1>1, <2>1, <2>2, <2>4, <2>7, LeavesReleased DEF TypeOK, MapMoves, Spawns, StartSpawn
  <2>8. CASE current' # current /\ current = None
      BY <2>4, <2>5, <2>8 DEF MapMoves
  <2> QED BY <2>3, <2>6, <2>7, <2>8
<1> QED BY <1>2, <1>3, <1>4

\* No step leaves a turn on a session that is neither in the map nor released ...
LEMMA SeatStep ==
    ASSUME EInv, [Next]_vars, Orderly', NEW s \in Sessions, s \notin released', turn'[s] # NoTurn \/ cont'[s] # NoTurn
    PROVE  s \notin released /\ s = current /\ s = current'
<1> USE DEF EInv, OInv, PInv, CInv, SInv, IInv
<1>1. LastInv /\ ~Restart /\ \A n \in Messages : ~StartArchived(n)
    BY OrderlyFacts, TurnComes, ContComes
<1>2. s \notin released
    BY <1>1, MapStep DEF MapMoves, Removed
<1>3. s = current
  <2>1. CASE turn[s] # NoTurn \/ cont[s] # NoTurn
      BY <1>1, <1>2, <2>1 DEF LastInv
  <2>2. ASSUME NEW m \in Messages, StartInstall(m), starter[m].live = s PROVE s = current
      BY <1>1, <1>2, <2>2 DEF LastInv, StartInstall
  <2> QED BY <2>1, <2>2, TurnComes, ContComes
<1>4. s = current'
  <2>1. SUFFICES ASSUME current' # current PROVE FALSE
      BY <1>3
  <2>2. Spawns(current')
      BY <1>1, <1>3, <2>1, LeavesReleased
  <2>3. PICK n \in Messages : StartSpawn(n)
      BY <2>2 DEF Spawns
  <2>4. current = None
      BY <1>1, <2>3 DEF LastInv, StartSpawn
  <2> QED BY <1>3, <2>4, TurnsAssumption
<1> QED BY <1>2, <1>3, <1>4

\* ... nor one there that is older than the last.
LEMMA OnLastStep ==
    ASSUME EInv, [Next]_vars, Orderly', NEW s \in Sessions, s \notin released'
    PROVE  OnLast(turn[s])' /\ OnLast(cont[s])'
<1> USE DEF EInv, OInv, PInv, CInv, SInv, IInv
<1>1. LastInv /\ \A n \in Messages : ~StartArchived(n)
    BY OrderlyFacts
\* A turn that was on the session, or could resume there.
<1>2. ASSUME turn'[s] # NoTurn \/ cont'[s] # NoTurn, \A m \in Messages : ~(StartInstall(m) /\ starter[m].live = s),
             NEW i, i = lastTurn \/ \E m \in Messages : Early(m)
      PROVE  i = lastTurn' \/ \E m \in Messages : Early(m)'
  <2>1. s \notin released /\ s = current /\ ~Restart
      BY <1>2, SeatStep, TurnComes, ContComes
  <2>2. CASE \A m \in Messages : ~Early(m)
    <3>1. CASE lastTurn' = lastTurn
        BY <1>2, <2>2, <3>1
    <3>2. CASE lastTurn' \in Messages /\ Begin(lastTurn')
        BY <3>2 DEF Begin, Goto, TypeOK, Early
    <3> QED BY <3>1, <3>2, LastMoves
  <2>3. ASSUME NEW m \in Messages, Early(m) PROVE Early(m)'
    <3>1. ~StartSpawnFails(m)
        BY <1>1, <2>1, TurnsAssumption DEF LastInv, StartSpawnFails
    <3>2. ~StartInstall(m)
      <4>1. SUFFICES ASSUME StartInstall(m) PROVE FALSE
          OBVIOUS
      <4>2. starter[m].live = current \/ current = None
          BY <1>1, <4>1 DEF LastInv, StartInstall
      <4> QED BY <1>2, <2>1, <4>1, <4>2, TurnsAssumption
    <3> QED BY <1>1, <2>1, <2>3, <3>1, <3>2, EarlyStays
  <2> QED BY <2>2, <2>3
<1>3. ASSUME turn'[s] # NoTurn PROVE turn'[s].id = lastTurn' \/ \E m \in Messages : Early(m)'
  <2>1. ASSUME NEW m \in Messages, StartInstall(m), starter[m].live = s, turn'[s].id = m
        PROVE  turn'[s].id = lastTurn'
      BY <1>1, <2>1 DEF LastInv, StartInstall, Early, durable
  <2>2. ASSUME \A m \in Messages : ~(StartInstall(m) /\ starter[m].live = s)
        PROVE  turn'[s].id = lastTurn' \/ \E m \in Messages : Early(m)'
    <3>1. s \notin released
        BY <1>3, SeatStep
    <3>2. turn'[s].id = lastTurn \/ \E m \in Messages : Early(m)
        BY <1>1, <1>3, <2>2, <3>1, TurnComes DEF LastInv, OnLast
    <3> QED BY <1>2, <1>3, <2>2, <3>2
  <2>3. CASE \E m \in Messages : StartInstall(m) /\ starter[m].live = s
    <3>1. PICK m \in Messages : StartInstall(m) /\ starter[m].live = s
        BY <2>3
    <3> QED BY <2>1, <3>1, SeatEffects
  <2> QED BY <2>2, <2>3
<1>4. ASSUME cont'[s] # NoTurn PROVE cont'[s].id = lastTurn' \/ \E m \in Messages : Early(m)'
  <2>1. s \notin released
      BY <1>4, SeatStep
  <2>2. cont'[s].id = lastTurn \/ \E m \in Messages : Early(m)
      BY <1>1, <1>4, <2>1, ContComes DEF LastInv, OnLast
  <2> QED BY <1>2, <1>4, <2>2, ContComes
<1> QED BY <1>3, <1>4 DEF OnLast, Early

\* In an orderly thread only the last turn is started, or may resume.
LEMMA LastStep ==
    ASSUME EInv, [Next]_vars, Orderly'
    PROVE  LastInv'
BY EarlyStep, SpawnStep, PlacingStep, SeatStep, OnLastStep DEF LastInv, Early, OnLast

\* No output is held back where turns never resume.
LEMMA WaitStep == EInv /\ [Next]_vars => WaitInv'
<1> SUFFICES ASSUME EInv, [Next]_vars, NEW s \in Sessions, pump'[s].pc = "wait" PROVE May("resume")'
    BY DEF WaitInv
<1> USE DEF EInv, OInv, PInv, CInv, SInv, IInv
<1>1. pump[s].pc = "wait" \/ PumpOutput(s)
  <2>1. CASE Restart \/ Spawns(s)
      BY <2>1, SeatEffects DEF NoPump
  <2>2. CASE PumpWakes(s)
      BY <2>2 DEF PumpWakes
  <2>3. CASE PumpTakes(s) \/ PumpExits(s) \/ PumpTakesLast(s)
      BY <2>3, PumpEffects
  <2>4. CASE PumpSettles(s) \/ PumpFailsLast(s)
      BY <2>4, PumpEffects DEF NoPump
  <2> QED BY <2>1, <2>2, <2>3, <2>4, OwnPump DEF PumpActs, PumpWork
<1>2. May("resume")
    BY <1>1 DEF WaitInv, PumpOutput
<1> QED BY <1>2, MayStays DEF May

\* While a thread runs its last turn is open, after every step too.
LEMMA RunsLastStep ==
    ASSUME EInv, [Next]_vars, SettledOnce' \/ ~May("resume")'
    PROVE  RunsLast'
<1> SUFFICES ASSUME status' = "Running" PROVE lastTurn' # None /\ log'[lastTurn'] = "open"
    BY DEF RunsLast
<1> USE DEF EInv, OInv, PInv, CInv, SInv, IInv
<1>1. DurableStep
    BY NextDurable
<1>2. SettledOnce \/ ~May("resume")
    BY <1>1, AgainStays, MayStays DEF May
<1>3. CASE Keeps
    BY <1>2, <1>3 DEF Keeps, RunsLast
<1>4. ASSUME NEW m \in Messages, Begins(m) PROVE lastTurn' # None /\ log'[lastTurn'] = "open"
    BY <1>4, TurnsAssumption DEF Begins, TypeOK
<1>5. ASSUME NEW m \in Messages, Queues(m) \/ Unqueues(m) PROVE lastTurn' # None /\ log'[lastTurn'] = "open"
    BY <1>2, <1>5 DEF Queues, Unqueues, RunsLast
<1>6. ASSUME NEW m \in Messages, Reopened(m) PROVE lastTurn' # None /\ log'[lastTurn'] = "open"
  <2>1. PICK s \in Sessions : Resumes(s) /\ cont[s].id = m
      BY <1>6 DEF Reopened
  <2>2. May("resume")
      BY <2>1 DEF Resumes, PumpOutput, PumpWakes, WaitInv
  <2>3. SettledOnce' /\ SettledOnce
      BY <1>1, <2>2, AgainStays, MayStays DEF May
  <2>4. LastInv /\ OneOpen
      BY <1>6, <2>3 DEF Orderly, Reopened, OneTurn, OneOpen
  <2>5. cont[s] # NoTurn /\ s \notin released
      BY <2>1 DEF Resumes, Reopens
  <2>6. \A n \in Messages : ~Early(n)
      BY <1>6, <2>4 DEF NamesBegun, OneOpen, Open, Reopened
  <2>7. m = lastTurn
      BY <2>1, <2>4, <2>5, <2>6 DEF LastInv, OnLast
  <2> QED BY <1>6, <2>3, <2>7, TurnsAssumption DEF Reopened, SettledOnce, TypeOK
<1> QED BY <1>1, <1>3, <1>4, <1>5, <1>6 DEF DurableStep, Archives, Ends, Crashes

\* A start that is over stays over, until the daemon dies.
LEMMA DoneStays ==
    ASSUME IInv, [Next]_vars, NEW m \in Messages, starter[m].pc \in {"done", "idle"}, log[m] # "none", ~Restart
    PROVE  starter'[m] = starter[m]
<1> USE DEF IInv
<1>1. ~Start(m)
    BY DEF Start, StartReuse, StartWait, StartSpawn, StartSpawnFails, StartArchived, StartChecked,
           StartInstall, StartDeliver, StartDeliveryFails, StartClear
<1>2. ~Begin(m)
  <2>1. Begin(m) => log'[m] = "twice"
      BY DEF Begin, TypeOK
  <2> QED BY <2>1, NextDurable, QueueStep DEF StartedOnce
<1> QED BY <1>1, <1>2, OwnStarter

\* What the provider got was delivered, over every step and every restart.
LEMMA GivenStep == EInv /\ [Next]_vars => GivenInv'
<1> SUFFICES ASSUME EInv, [Next]_vars, NEW m \in given'
             PROVE  log'[m] # "none" /\ (Delivered(m)' \/ (starter'[m].pc = "idle" /\ May("restart")'))
    BY DEF GivenInv
<1> USE DEF EInv, OInv, PInv, CInv, SInv, IInv
<1>1. May("restart")' = May("restart")
    BY MayStays DEF May
<1>2. CASE m \in given
  <2>1. m \in Messages /\ log[m] # "none" /\ (Delivered(m) \/ (starter[m].pc = "idle" /\ May("restart")))
      BY <1>2 DEF GivenInv, TypeOK
  <2>2. log'[m] # "none"
      BY <2>1, NextDurable, LogGrows
  <2>3. CASE Restart
      BY <1>1, <2>1, <2>2, <2>3 DEF Restart, IdleTask
  <2>4. CASE ~Restart
      BY <1>1, <2>1, <2>2, <2>4, DoneStays DEF Delivered
  <2> QED BY <2>3, <2>4
<1>3. CASE m \notin given
  <2>1. PICK n \in Messages : StartDeliver(n) /\ m = n
      BY <1>3, GivenMoves
  <2>2. log[m] # "none" /\ starter[m].live \in Sessions
      BY <2>1 DEF StartDeliver, NamesBegun, Placed
  <2>3. log'[m] # "none"
      BY <2>1, <2>2, NextDurable, LogGrows
  <2>4. Delivered(m)'
      BY <2>1, <2>2, TurnsAssumption DEF StartDeliver, Goto, TypeOK, Delivered
  <2> QED BY <2>3, <2>4
<1> QED BY <1>2, <1>3

\* A turn told to have ended twice is known as such for good.
LEMMA AgainKept ==
    ASSUME TypeOK, DurableStep, NEW n \in Messages, log[n] = "again"
    PROVE  log'[n] = "again"
<1>1. ASSUME NEW m \in Messages, Begins(m) PROVE log'[n] = "again"
    BY <1>1 DEF Begins, TypeOK
<1>2. ASSUME NEW m \in Messages, Ends(m) PROVE log'[n] = "again"
    BY <1>2 DEF Ends, Ended, EndIn, TypeOK
<1>3. ASSUME NEW m \in Messages, Reopened(m) PROVE log'[n] = "again"
    BY <1>3 DEF Reopened, TypeOK
<1>4. ASSUME NEW m \in Messages, NEW k \in Messages, Crashes(m, k) PROVE log'[n] = "again"
    BY <1>4 DEF Crashes, Ended, EndIn, TypeOK
<1> QED BY <1>1, <1>2, <1>3, <1>4 DEF DurableStep, Keeps, Archives, Queues, Unqueues

\* Who got its message has its end told once, or a crash or a turn ended before shows why.
LEMMA EndedStep == EInv /\ [Next]_vars => EndedOnce'
<1> SUFFICES ASSUME EInv, [Next]_vars, NEW m \in given', log'[m] = "again" PROVE May("restart")' /\ Muddled'
    BY DEF EndedOnce
<1> USE DEF EInv, OInv, PInv, CInv, SInv, IInv
<1>1. \A x \in Mishaps : May(x)' = May(x)
    BY MayStays DEF May
<1>2. GivenInv' /\ Custody' /\ m \in Messages
    BY GivenStep, CustodyStep, GivenMoves DEF TypeOK
<1>3. ~Delivered(m)'
    BY <1>2 DEF Custody, HeldOn, Handed
<1>4. starter'[m].pc = "idle" /\ May("restart")'
    BY <1>2, <1>3 DEF GivenInv
<1>5. m \in given
  <2>1. ~StartDeliver(m)
      BY <1>2, <1>4 DEF StartDeliver, Goto, TypeOK
  <2> QED BY <2>1, GivenMoves
\* The turns ended twice before their delivery are still that.
<1>6. ASSUME Muddled PROVE Muddled'
  <2>1. CASE May("torn")
      BY <1>1, <2>1 DEF Muddled, Mishaps
  <2>2. ASSUME May("resume"), NEW n \in Messages \ given, log[n] = "again" PROVE Muddled'
    <3>1. log'[n] = "again"
        BY <2>2, NextDurable, AgainKept
    <3>2. ~StartDeliver(n)
        BY <2>2 DEF StartDeliver, Handed, Custody, HeldOn
    <3>3. n \notin given'
        BY <2>2, <3>2, GivenMoves
    <3> QED BY <1>1, <2>2, <3>1, <3>3 DEF Muddled, Mishaps
  <2> QED BY <1>6, <2>1, <2>2 DEF Muddled
<1>7. CASE log[m] = "again"
    BY <1>4, <1>5, <1>6, <1>7 DEF EndedOnce
<1>8. CASE log[m] # "again" /\ ~Restart
  <2>1. starter[m].pc = "idle" /\ log[m] # "none"
      BY <1>2, <1>4, <1>5, <1>8, DoneStays DEF GivenInv, Delivered
  <2>2. Unnamed(m) /\ ~Start(m)
      BY <1>2, <2>1 DEF Start, StartReuse, StartWait, StartSpawn, StartSpawnFails, StartArchived, StartChecked,
                 StartInstall, StartDeliver, StartDeliveryFails, StartClear
  <2>3. ~Begin(m)
      BY <1>2, <1>4 DEF Begin, Goto, TypeOK
  <2>4. ~Events(m)
      BY <2>2 DEF Events, Unnamed, Named
  <2> QED BY <1>2, <1>8, <2>2, <2>3, <2>4, OwnLog
<1>9. CASE log[m] # "again" /\ Restart
  <2>1. CASE May("torn")
      BY <1>1, <1>4, <2>1 DEF Muddled, Mishaps
  <2>2. CASE ~May("torn")
    <3>1. status = "Running" /\ log' = EndIn(log, lastTurn)
        BY <1>9, <2>2 DEF Restart, Stores
    <3>2. m = lastTurn /\ log[m] # "open"
        BY <1>2, <1>9, <3>1 DEF EndIn, TypeOK
    <3>3. ~SettledOnce /\ May("resume")
        BY <3>1, <3>2 DEF RunsLast
    <3>4. PICK n \in Messages : log[n] = "again"
        BY <3>3 DEF SettledOnce
    <3>5. Muddled
        BY <3>3, <3>4 DEF EndedOnce, Muddled
    <3> QED BY <1>4, <1>6, <3>5
  <2> QED BY <2>1, <2>2
<1> QED BY <1>7, <1>8, <1>9

\* Every step keeps the whole invariant.
LEMMA EInvStep == EInv /\ [Next]_vars => EInv'
<1> SUFFICES ASSUME EInv, [Next]_vars PROVE EInv'
    OBVIOUS
<1>1. OInv'
    BY OInvStep DEF EInv
<1>2. Orderly' => LastInv'
    BY LastStep
<1>3. SettledOnce' \/ ~May("resume")' => RunsLast'
    BY RunsLastStep
<1> QED BY <1>1, <1>2, <1>3, GivenStep, WaitStep, EndedStep DEF EInv

-----------------------------------------------------------------------------
(* The theorems.                                                           *)

\* The invariant holds in every reachable state.
THEOREM Invariance == Spec => []EInv
BY InitEInv, EInvStep, PTL DEF Spec

\* Type correctness for any messages, sessions, bounds and mishaps.
THEOREM TypeCorrect == Spec => []TypeOK
<1>1. EInv => TypeOK
    BY DEF EInv, OInv, PInv, CInv, SInv, IInv
<1> QED BY <1>1, Invariance, PTL

\* A message starts at most one turn (send_with_id, drain_queues and
\* recover_after_restart together), with any number of restarts and mishaps.
THEOREM MessagesStartOnce == Spec => []StartedOnce
<1>1. EInv => StartedOnce
    BY DEF EInv, OInv, PInv, CInv, SInv, IInv
<1> QED BY <1>1, Invariance, PTL

\* A turn whose message reached the provider gets one terminal event, whoever of the
\* pump's TurnCompleted, fail_exited_turn, force_interrupt and recover_after_restart
\* comes first, with any number of sessions, stops, restarts and mishaps.  Two ways to a
\* second event are left, both over a restart: a crash that tears an end or a start, and
\* another turn that was ended twice before its delivery while turns may resume.
THEOREM TurnsEndOnce == Spec => []EndedOnce
<1>1. EInv => EndedOnce
    BY DEF EInv
<1> QED BY <1>1, Invariance, PTL

\* The stored status says Running exactly while the event log has an open turn, and it
\* has at most one (send_with_id, the pump's settlement and the output that reopens a turn), in
\* every undisturbed thread and in every one where no turn was ended twice.
THEOREM OneTurnHolds == Spec => []OneTurn
<1>1. EInv => OneTurn
    BY DEF EInv, OInv, PInv, CInv
<1> QED BY <1>1, Invariance, PTL

\* Two provider processes never work in the same thread: ensure_session waits for the
\* barrier that PumpExits, force_interrupt and the idle sweep put up before they take
\* the session out of the map, and each lets only its own barrier fall.  For a thread that
\* is not archived and had no turn ended twice, where every process can be closed.
THEOREM OneProcessHolds == Spec => []OneProcess
<1> SUFFICES EInv => OneProcess
    BY Invariance, PTL
<1> SUFFICES ASSUME EInv, Closes, NEW r \in Sessions, NEW s \in Sessions, proc[r] = "up", proc[s] = "up"
             PROVE  r = s
    BY DEF OneProcess, Closes
<1>1. OneReleases
    BY DEF EInv, OInv, PInv
<1> QED BY <1>1, TurnsAssumption DEF OneReleases, StopBusy

\* A thread that shows as running has something left that will end its turn: what a
\* task takes off a session (start_turn, the pump, fail_exited_turn, force_interrupt) it
\* still has or has settled.  Where every process can be closed, no provider refuses a
\* message, and no turn was ended twice.
THEOREM NoOrphanedRunHolds == Spec => []NoOrphanedRun
<1>1. ASSUME EInv, Regular, status = "Running" PROVE Settler
  <2> USE <1>1 DEF EInv, OInv, PInv, CInv, SInv, IInv
  <2>1. PICK x \in Messages : log[x] = "open"
      BY DEF OneTurn, Open, Regular
  <2>2. Kept(x)
      BY <2>1 DEF KeptInv
  <2>3. CASE Early(x) \/ starter[x].pc = "deliver"
      BY <2>3 DEF Early, Settler
  <2>4. ASSUME NEW s \in Sessions, turn[s].id = x, Alive(s) PROVE Settler
    <3>1. turn[s] # NoTurn
        BY <2>4, TurnsAssumption DEF NoTurn
    <3>2. CASE stopper.pc \in {"close", "take"} /\ stopper.live = s
        BY <3>1, <3>2 DEF Settler
    <3>3. CASE pump[s].pc \in {"run", "wait", "exit"}
        BY <3>1, <3>3 DEF Settler
    <3>4. CASE pump[s].pc = "settle"
        BY <3>4, TurnsAssumption DEF Settler, Placed
    <3> QED BY <2>4, <3>2, <3>3, <3>4 DEF Alive
  <2>5. ASSUME NEW s \in Sessions, pump[s].turn = x PROVE Settler
      BY <2>5, TurnsAssumption DEF Takers, Settler
  <2>6. CASE StopHas(x)
      BY <2>6, TurnsAssumption DEF StopHas, Settler, NoTurn
  <2> QED BY <2>2, <2>3, <2>4, <2>5, <2>6 DEF Kept
<1>2. EInv => NoOrphanedRun
    BY <1>1 DEF NoOrphanedRun, Regular
<1> QED BY <1>2, Invariance, PTL

\* The idle sweep never closes a session that a start_turn task is on its way to: a message
\* sent between the sweep's re-check and its claim makes the thread run, but its start cannot
\* take the session from the map, which the sweep holds meanwhile.  Undisturbed (only resumed
\* turns and stops), and as long as the thread is not archived.
THEOREM SweepSparesHolds == Spec => SweepSpares
<1>1. ASSUME EInv, [Next]_vars, NEW s \in released' \ released, NEW m \in Messages,
             Undisturbed, sweeper.pc = "locked", status # "Archived"
      PROVE  starter[m].live # s \/ starter[m].pc \in {"idle", "clear", "done"}
  <2> USE DEF EInv, OInv, PInv, CInv, SInv, IInv
  <2>1. s \in Sessions
      BY <1>1, TypeStep DEF TypeOK
  <2>2. ~Underway(m)
      BY <1>1 DEF Calm, CalmMap
  <2>3. starter[m].pc = "ensure" => starter[m].live # s
      BY <1>1, <2>1, TurnsAssumption
  <2> QED BY <1>1, <2>2, <2>3 DEF Underway, TypeOK, TaskSteps
<1>2. EInv /\ [Next]_vars =>
        [\A s \in released' \ released, m \in Messages :
         Undisturbed /\ sweeper.pc = "locked" /\ status # "Archived" =>
             starter[m].live # s \/ starter[m].pc \in {"idle", "clear", "done"}]_vars
    BY <1>1
<1> QED BY <1>2, Invariance, PTL DEF Spec, SweepSpares

\* What each way to change the rows is to the history of the thread.
LEMMA HistoryStep ==
    ASSUME EInv, EInv', [Next]_vars
    PROVE  [Promise!Next]_(Promise!vars)
<1> USE DEF EInv, OInv, PInv, CInv, SInv, IInv
<1>1. DurableStep /\ Undisturbed' = Undisturbed
    BY NextDurable, MayStays DEF Undisturbed
<1>2. log \in [Messages -> {"none", "open", "closed", "again"}]
    BY DEF TypeOK, StartedOnce
<1>3. SettledOnce <=> ~Promise!Broken
    BY DEF SettledOnce, Promise!Broken
<1>4. status \in {"Idle", "Failed"} => Promise!Free
  <2>1. SettledOnce /\ status \in {"Idle", "Failed"} => \A n \in Messages : log[n] # "open"
      BY DEF OneTurn, Open
  <2> QED BY <1>3, <2>1 DEF Promise!Free
<1>5. CASE Keeps
    BY <1>1, <1>5 DEF Keeps, Promise!vars
<1>6. CASE Archives
  <2>1. Promise!Archive
      BY <1>1, <1>6 DEF Archives, Promise!Archive
  <2> QED BY <2>1 DEF Promise!Next
<1>7. ASSUME NEW m \in Messages, Begins(m) PROVE Promise!Start(m)
  <2>1. Promise!Tell(m, "none", "open")
      BY <1>7 DEF Begins, Promise!Tell
  <2> QED BY <1>1, <1>4, <1>7, <2>1 DEF Begins, Promise!Start
<1>8. ASSUME NEW m \in Messages, Ends(m) PROVE Promise!Finish(m) \/ Promise!Repeat(m) \/ UNCHANGED Promise!vars
  <2>1. (status = "Archived")' = (status = "Archived") /\ pending' = pending
      BY <1>8 DEF Ends
  <2>2. CASE log[m] = "open"
    <3>1. Promise!Tell(m, "open", "closed")
        BY <1>8, <2>2 DEF Ends, Ended, EndIn, Promise!Tell
    <3> QED BY <1>1, <2>1, <3>1 DEF Promise!Finish
  <2>3. CASE log[m] = "closed"
    <3>1. Promise!Tell(m, "closed", "again")
        BY <1>8, <2>3 DEF Ends, Ended, EndIn, Promise!Tell
    <3>2. ~SettledOnce'
        BY <1>2, <3>1 DEF SettledOnce, Promise!Tell
    <3>3. ~Undisturbed \/ status = "Archived"
        BY <1>1, <2>1, <3>2 DEF Calm, CalmNames
    <3> QED BY <1>1, <2>1, <3>1, <3>3 DEF Promise!Repeat
  <2>4. CASE log[m] = "again"
    <3>1. log' = log
        BY <1>2, <1>8, <2>4 DEF Ends, Ended, EndIn
    <3> QED BY <1>1, <2>1, <3>1 DEF Promise!vars
  <2> QED BY <1>2, <1>8, <2>2, <2>3, <2>4 DEF Ends
<1>9. ASSUME NEW m \in Messages, Reopened(m) PROVE Promise!Resume(m) \/ UNCHANGED Promise!vars
  <2>1. (status = "Archived")' = (status = "Archived") /\ pending' = pending
      BY <1>9 DEF Reopened
  <2>2. CASE log[m] = "closed"
    <3>1. Promise!Tell(m, "closed", "open") /\ Promise!Free
        BY <1>4, <1>9, <2>2 DEF Reopened, Promise!Tell
    <3> QED BY <1>1, <2>1, <3>1 DEF Promise!Resume
  <2>3. CASE log[m] # "closed"
    <3>1. log' = log
        BY <1>2, <1>9, <2>3 DEF Reopened
    <3> QED BY <1>1, <2>1, <3>1 DEF Promise!vars
  <2> QED BY <2>2, <2>3
<1>10. ASSUME NEW m \in Messages, Queues(m) PROVE Promise!Queue(m)
    BY <1>1, <1>10 DEF Queues, Promise!Queue
<1>11. ASSUME NEW m \in Messages, Unqueues(m) PROVE Promise!Withdraw(m) \/ UNCHANGED Promise!vars
    BY <1>1, <1>11 DEF Unqueues, Promise!Withdraw, Promise!vars
<1>12. ASSUME NEW m \in Messages, NEW n \in Messages, Crashes(m, n) PROVE Promise!Crash(m, n)
  <2>1. log' = Promise!Told(Promise!Told(log, m), n)
      BY <1>12 DEF Crashes, Ended, EndIn, Promise!Told
  <2>2. ~Undisturbed
      BY <1>12 DEF Crashes, May, Undisturbed
  <2> QED BY <1>1, <1>12, <2>1, <2>2 DEF Crashes, Promise!Crash
<1> QED BY <1>1, <1>5, <1>6, <1>7, <1>8, <1>9, <1>10, <1>11, <1>12 DEF DurableStep, Promise!Next

\* The engine does what TurnHistory promises: a message starts one turn, turns do not
\* overlap, an end is told once, and an archived thread stays archived and starts nothing
\* (write_thread_update and the guards of send_with_id and drain_queues together).
THEOREM KeepsTheHistory == Spec => TurnHistory
<1>1. ASSUME Init PROVE Promise!Init
  <2>1. pending = {} /\ log = [m \in Messages |-> "none"] /\ (status = "Archived") = FALSE
      BY <1>1 DEF Init
  <2>2. Undisturbed \in BOOLEAN
      BY DEF Undisturbed
  <2> QED BY Zenon, <2>1, <2>2 DEF Promise!Init
<1>2. EInv /\ EInv' /\ [Next]_vars => [Promise!Next]_(Promise!vars)
    BY HistoryStep
<1> QED BY <1>1, <1>2, Invariance, PTL DEF Spec, TurnHistory, Promise!Spec

=============================================================================
