---------------------------- MODULE ThreadTurns ----------------------------
(***************************************************************************)
(* The turn engine of one thread (crates/kybern-daemon/src/orchestrator.rs):*)
(* a user message, sent at once or queued as a follow-up, starts a turn;    *)
(* a background task brings the provider session up and hands it the        *)
(* message; the session's pump settles the turn.  Stop, archive, the idle   *)
(* sweep and a daemon restart interleave with all of it.                    *)
(*                                                                         *)
(* A turn is named by the message that started it.  The sections the code   *)
(* guards with its `commands` lock, or with a session's turn lock, are one  *)
(* action; an await outside a lock separates two actions.  The lock on the  *)
(* sessions map is explicit, because the idle sweep awaits while it holds   *)
(* it.  A crash may tear an end (its event is stored, the status is not) or *)
(* a start (the other way round); other pairs of writes are one.            *)
(*                                                                         *)
(* Not in this module: permission requests (the AwaitingApproval status),   *)
(* context refresh, steering, a switch of account or model; a failed turn   *)
(* that is sent again once a rejected login is fixed                        *)
(* (recover_rejected_login); and the other places that close a session:     *)
(* what ensure_session prepares (prepare_for_computer), release_session and *)
(* idle_harness_for_update.                                                 *)
(***************************************************************************)
EXTENDS Naturals, FiniteSets

CONSTANTS
    Messages,        \* the messages users send; each names the turn it starts
    MaxSessions,     \* provider sessions the thread may go through
    Budgets,         \* bounds: how often turns resume, users stop and the daemon dies, and what may happen
    None

Sessions == 1 .. MaxSessions
NoTurn == [id |-> None, response |-> 0]
ActiveTurn == [id : Messages, response : Nat \ {0}]

\* The provider resumes settled turns (ClaudeCode does); the daemon restarts; while a
\* turn starts on it a provider exits, refuses the message, reports a result early, or
\* is stopped by force; the process of a forced stop cannot be closed; and the crash
\* before a restart tears an end or a start.
Mishaps == {"resume", "restart", "torn", "exit", "refusal", "early_result", "forced_stop", "close_fails"}
Budget == [resumes : Nat, stops : Nat, restarts : Nat, may : SUBSET Mishaps]

ASSUME TurnsAssumption ==
    /\ None \notin Messages \union Sessions
    /\ MaxSessions \in Nat
    /\ Budgets \subseteq Budget

VARIABLES
    status,     \* the stored thread's status
    pending,    \* queued follow-ups that still wait
    row,        \* the place of each message ever queued, 0 for the others
    log,        \* what the event log says of each turn
    lastTurn,   \* the turn of the newest TurnStarted event
    current,    \* the thread's entry in the sessions map
    proc,       \* each session's provider process
    released,   \* sessions marked released
    cleanup,    \* sessions whose settlement force_interrupt owns (stop_cleanup)
    turn,       \* live.turn of each session
    cont,       \* live.continuation of each session
    ready,      \* sessions holding a turn_ready permit
    pump,       \* the event pump of each session
    starter,    \* the start_turn task of each message
    stopper,    \* the task behind a user's stop
    sweeper,    \* the idle sweep
    archiving,  \* archive_single is between its command section and the close
    barrier,    \* the session `releasing` makes a new spawn wait for
    drain,      \* the rest of the queue worker's snapshot
    responses,  \* response ids handed out
    rows,       \* rows of the queue handed out
    given,      \* the messages the provider ever got
    left        \* what is left of the budget

durable == <<status, pending, row, rows, log, lastTurn>>
session == <<current, proc, released, cleanup, turn, cont, ready>>
tasks   == <<pump, starter, stopper, sweeper, archiving, barrier, drain>>
counts  == <<responses, given, left>>
vars    == <<durable, session, tasks, counts>>

Statuses == {"Idle", "Running", "Failed", "Archived"}
IdleTask == [pc |-> "idle", live |-> None]
IdleStop == [pc |-> "idle", live |-> None, turn |-> NoTurn]
NoPump   == [pc |-> "off", turn |-> None, next |-> "Idle", bars |-> FALSE]

Init ==
    /\ status = "Idle" /\ lastTurn = None
    /\ pending = {} /\ row = [m \in Messages |-> 0] /\ rows = 0
    /\ log = [m \in Messages |-> "none"]
    /\ current = None /\ released = {} /\ cleanup = {} /\ ready = {}
    /\ proc = [s \in Sessions |-> "unused"]
    /\ turn = [s \in Sessions |-> NoTurn] /\ cont = [s \in Sessions |-> NoTurn]
    /\ pump = [s \in Sessions |-> NoPump]
    /\ starter = [m \in Messages |-> IdleTask]
    /\ stopper = IdleStop /\ sweeper = IdleTask /\ archiving = FALSE
    /\ barrier = None /\ drain = {}
    /\ responses = 0 /\ given = {} /\ left \in Budgets

-----------------------------------------------------------------------------
(* Helpers: the stored status, the event log, the session a task holds.     *)

\* Mutant: the copy is written as it is.
StoredAny(s) == s

\* write_thread_update: a stale copy never unarchives the thread.
Stored(s) == IF status = "Archived" THEN "Archived" ELSE s

\* A terminal event for turn m: "again" marks a second one.
EndIn(l, m) == [l EXCEPT ![m] = IF @ = "open" THEN "closed" ELSE "again"]
Ended(m) == EndIn(log, m)

\* The sweep holds the sessions map while it re-checks and claims.
SessionsFree == sweeper.pc # "locked"

May(x) == x \in left.may

Goto(m, pc, s) == starter' = [starter EXCEPT ![m] = [pc |-> pc, live |-> s]]
PumpGoto(s, pc) == pump' = [pump EXCEPT ![s].pc = pc]

-----------------------------------------------------------------------------
(* Sending, queueing and draining.                                         *)

\* The accepted end of send_with_id: the turn is persisted and started.
Begin(m) ==
    /\ status' = "Running"
    /\ log' = [log EXCEPT ![m] = IF @ = "none" THEN "open" ELSE "twice"]
    /\ lastTurn' = m
    /\ pending' = pending \ {m}
    /\ Goto(m, "ensure", None)

\* A direct send.  A thread that runs is busy, an archived one refuses, a
\* message that already started a turn is replayed and a queued one waits.
Send(m) ==
    /\ m \notin pending
    /\ log[m] = "none"
    /\ status \in {"Idle", "Failed"}
    /\ Begin(m)
    /\ UNCHANGED <<row, rows, session, counts, pump, stopper, sweeper, archiving, barrier, drain>>

\* A message that was queued before is left as it is.  (A client never queues
\* a message that already started a turn; the daemon does not check that.)
Enqueue(m) ==
    /\ status # "Archived"
    /\ row[m] = 0 /\ log[m] = "none"
    /\ pending' = pending \union {m}
    /\ row' = [row EXCEPT ![m] = rows + 1]
    /\ rows' = rows + 1
    /\ UNCHANGED <<status, log, lastTurn, session, tasks, counts>>

RemoveQueued(m) ==
    /\ m \in pending
    /\ pending' = pending \ {m}
    /\ UNCHANGED <<status, row, rows, log, lastTurn, session, tasks, counts>>

\* drain_queues reads the queue once, then walks it from the oldest row.
DrainBegin ==
    /\ drain = {} /\ pending # {}
    /\ drain' = pending
    /\ UNCHANGED <<durable, session, counts, pump, starter, stopper, sweeper, archiving, barrier>>

Oldest(m, S) == m \in S /\ \A n \in S : row[m] <= row[n]

\* Mutants: the row is not read again under the command gate; a thread that
\* is busy is not skipped.
DrainUnchecked(m) ==
    /\ Oldest(m, drain)
    /\ drain' = drain \ {m}
    /\ IF status = "Idle" THEN Begin(m) ELSE UNCHANGED <<status, pending, log, lastTurn, starter>>
    /\ UNCHANGED <<row, rows, session, counts, pump, stopper, sweeper, archiving, barrier>>

DrainBusy(m) ==
    /\ Oldest(m, drain)
    /\ drain' = drain \ {m}
    /\ IF m \in pending /\ status # "Archived" THEN Begin(m) ELSE UNCHANGED <<status, pending, log, lastTurn, starter>>
    /\ UNCHANGED <<row, rows, session, counts, pump, stopper, sweeper, archiving, barrier>>

\* An item that still waits, of a thread that is idle now, starts the next
\* turn; every other item is skipped.
Drain(m) ==
    /\ Oldest(m, drain)
    /\ drain' = drain \ {m}
    /\ IF m \in pending /\ status = "Idle"
         THEN Begin(m)
         ELSE UNCHANGED <<status, pending, log, lastTurn, starter>>
    /\ UNCHANGED <<row, rows, session, counts, pump, stopper, sweeper, archiving, barrier>>

-----------------------------------------------------------------------------
(* start_turn: the task behind an accepted message.                        *)

\* ensure_session: the thread's live session, or a spawn once no session is
\* still being released.
StartReuse(m) ==
    /\ starter[m].pc = "ensure" /\ SessionsFree
    /\ current # None
    /\ Goto(m, "check", current)
    /\ UNCHANGED <<durable, session, counts, pump, stopper, sweeper, archiving, barrier, drain>>

StartWait(m) ==
    /\ starter[m].pc = "ensure" /\ SessionsFree
    /\ current = None /\ barrier = None
    /\ Goto(m, "spawn", None)
    /\ UNCHANGED <<durable, session, counts, pump, stopper, sweeper, archiving, barrier, drain>>

StartSpawn(m) ==
    /\ starter[m].pc = "spawn" /\ SessionsFree
    /\ \E s \in Sessions :
         /\ proc[s] = "unused" /\ \A r \in 1 .. s - 1 : proc[r] # "unused"
         /\ proc' = [proc EXCEPT ![s] = "up"]
         /\ current' = s
         /\ PumpGoto(s, "run")
         /\ Goto(m, "check", s)
    /\ UNCHANGED <<durable, counts, released, cleanup, turn, cont, ready, stopper, sweeper, archiving, barrier, drain>>

StartSpawnFails(m) ==
    /\ starter[m].pc = "spawn"
    /\ log' = Ended(m) /\ status' = Stored("Failed")
    /\ Goto(m, "done", None)
    /\ UNCHANGED <<pending, row, rows, lastTurn, session, counts, pump, stopper, sweeper, archiving, barrier, drain>>

\* The thread was archived while its session came up: nothing is delivered.
StartArchived(m) ==
    /\ starter[m].pc = "check" /\ SessionsFree
    /\ status = "Archived"
    /\ LET s == starter[m].live IN
         /\ released' = released \union {s}
         /\ ready' = ready \union {s}
         /\ proc' = [proc EXCEPT ![s] = "down"]
    /\ current' = None
    /\ Goto(m, "done", None)
    /\ UNCHANGED <<durable, counts, cleanup, turn, cont, pump, stopper, sweeper, archiving, barrier, drain>>

StartChecked(m) ==
    /\ starter[m].pc = "check"
    /\ status # "Archived"
    /\ Goto(m, "install", starter[m].live)
    /\ UNCHANGED <<durable, session, counts, pump, stopper, sweeper, archiving, barrier, drain>>

\* Under the turn lock: any settled turn the provider could still resume is
\* dropped, the new one is installed and held-back output is let through.
StartInstall(m) ==
    /\ starter[m].pc = "install"
    /\ LET s == starter[m].live IN
         /\ cont' = [cont EXCEPT ![s] = NoTurn]
         /\ turn' = [turn EXCEPT ![s] = [id |-> m, response |-> responses + 1]]
         /\ ready' = ready \union {s}
         /\ Goto(m, "deliver", s)
    /\ responses' = responses + 1
    /\ UNCHANGED <<durable, given, left, current, proc, released, cleanup, pump, stopper, sweeper, archiving, barrier, drain>>

\* The "before" checkpoint is taken; the provider gets the message.
StartDeliver(m) ==
    /\ starter[m].pc = "deliver"
    /\ proc[starter[m].live] = "up"
    /\ given' = given \union {m}
    /\ Goto(m, "done", starter[m].live)
    /\ UNCHANGED <<durable, session, responses, left, pump, stopper, sweeper, archiving, barrier, drain>>

StartDeliveryFails(m) ==
    /\ starter[m].pc = "deliver"
    /\ proc[starter[m].live] = "down" \/ May("refusal")
    /\ log' = Ended(m) /\ status' = Stored("Failed")
    /\ Goto(m, "clear", starter[m].live)
    /\ UNCHANGED <<pending, row, rows, lastTurn, session, counts, pump, stopper, sweeper, archiving, barrier, drain>>

\* ... and only then is the turn taken off the session.
StartClear(m) ==
    /\ starter[m].pc = "clear"
    /\ turn' = [turn EXCEPT ![starter[m].live] = NoTurn]
    /\ Goto(m, "done", None)
    /\ UNCHANGED <<durable, counts, current, proc, released, cleanup, cont, ready, pump, stopper, sweeper, archiving, barrier, drain>>

-----------------------------------------------------------------------------
(* The provider process and the session's pump.                            *)

Starting(s) == \E m \in Messages : starter[m].live = s /\ starter[m].pc \in {"check", "install", "deliver"}

ProviderExits(s) ==
    /\ proc[s] = "up"
    /\ turn[s] = NoTurn \/ Starting(s) => May("exit")
    /\ proc' = [proc EXCEPT ![s] = "down"]
    /\ UNCHANGED <<durable, tasks, counts, current, released, cleanup, turn, cont, ready>>

\* Output of the root agent while no turn is installed: held back while the
\* thread is Running, because a turn is being started; on an idle thread it
\* reopens the turn that settled last.
HeldBack(s) == turn[s] = NoTurn /\ s \notin released /\ status = "Running"
Reopens(s) == turn[s] = NoTurn /\ s \notin released /\ status = "Idle" /\ cont[s] # NoTurn

Output(s) ==
    \/ /\ HeldBack(s)
       /\ PumpGoto(s, "wait")
       /\ UNCHANGED <<durable, turn, cont, responses, left>>
    \/ /\ Reopens(s)
       /\ left.resumes > 0
       /\ log' = [log EXCEPT ![cont[s].id] = IF @ = "again" THEN "again" ELSE "open"]
       /\ status' = "Running"
       /\ turn' = [turn EXCEPT ![s] = [id |-> cont[s].id, response |-> responses + 1]]
       /\ cont' = [cont EXCEPT ![s] = NoTurn]
       /\ responses' = responses + 1 /\ left' = [left EXCEPT !.resumes = @ - 1]
       /\ PumpGoto(s, "run")
       /\ UNCHANGED <<pending, row, rows, lastTurn>>
    \/ /\ ~HeldBack(s) /\ ~Reopens(s)
       /\ PumpGoto(s, "run")
       /\ UNCHANGED <<durable, turn, cont, responses, left>>

PumpOutput(s) ==
    /\ pump[s].pc = "run" /\ s \notin cleanup
    /\ May("resume")
    /\ Output(s)
    /\ UNCHANGED <<given, current, proc, released, cleanup, ready, starter, stopper, sweeper, archiving, barrier, drain>>

PumpWakes(s) ==
    /\ pump[s].pc = "wait" /\ s \in ready
    /\ ready' = ready \ {s}
    /\ IF s \in cleanup
         THEN PumpGoto(s, "run") /\ UNCHANGED <<durable, turn, cont, responses, left>>
         ELSE Output(s)
    /\ UNCHANGED <<given, current, proc, released, cleanup, starter, stopper, sweeper, archiving, barrier, drain>>

\* TurnCompleted or TurnFailed: the turn is taken under its lock (the result
\* of unsolicited output may be early: it ends a turn whose message the
\* provider does not have yet) and kept, if it may resume within the bound, ...
PumpTakes(s) ==
    /\ pump[s].pc = "run" /\ s \notin cleanup
    /\ turn[s] # NoTurn
    /\ starter[turn[s].id].pc \in {"deliver", "clear"} => May("resume") /\ May("early_result")
    /\ proc[s] = "down" => May("exit")
    /\ \E next \in {"Idle", "Failed"}, keep \in BOOLEAN :
         /\ keep => left.resumes > 0 /\ next = "Idle"
         /\ pump' = [pump EXCEPT ![s] = [pc |-> "settle", turn |-> turn[s].id, next |-> next, bars |-> FALSE]]
         /\ cont' = [cont EXCEPT ![s] = IF keep THEN turn[s] ELSE @]
    /\ turn' = [turn EXCEPT ![s] = NoTurn]
    /\ UNCHANGED <<durable, counts, current, proc, released, cleanup, ready, starter, stopper, sweeper, archiving, barrier, drain>>

\* Mutant: the end is told, the status is not written.
PumpSettlesHalf(s) ==
    /\ pump[s].pc = "settle"
    /\ log' = Ended(pump[s].turn)
    /\ pump' = [pump EXCEPT ![s] = [NoPump EXCEPT !.pc = "run"]]
    /\ UNCHANGED <<status, pending, row, rows, lastTurn, session, counts, starter, stopper, sweeper, archiving, barrier, drain>>

\* ... and settled after its requests are resolved and its checkpoint taken.
PumpSettles(s) ==
    /\ pump[s].pc = "settle"
    /\ log' = Ended(pump[s].turn) /\ status' = Stored(pump[s].next)
    /\ pump' = [pump EXCEPT ![s] = [NoPump EXCEPT !.pc = "run"]]
    /\ UNCHANGED <<pending, row, rows, lastTurn, session, counts, starter, stopper, sweeper, archiving, barrier, drain>>

\* Exited: the session leaves the map, behind a barrier, unless a forced stop
\* owns its settlement.
PumpExits(s) ==
    /\ pump[s].pc = "run" /\ proc[s] = "down" /\ SessionsFree
    /\ IF s \in cleanup
         THEN PumpGoto(s, "end") /\ UNCHANGED <<current, released, barrier>>
         ELSE /\ pump' = [pump EXCEPT ![s] = [NoPump EXCEPT !.pc = "exit", !.bars = current = s]]
              /\ current' = IF current = s THEN None ELSE current
              /\ released' = IF current = s THEN released \union {s} ELSE released
              /\ barrier' = IF current = s THEN s ELSE barrier
    /\ UNCHANGED <<durable, counts, proc, cleanup, turn, cont, ready, starter, stopper, sweeper, archiving, drain>>

\* A turn the provider left unfinished is taken ...
PumpTakesLast(s) ==
    /\ pump[s].pc = "exit"
    /\ turn' = [turn EXCEPT ![s] = NoTurn]
    /\ pump' = [pump EXCEPT ![s] = [pc |-> "exitfail", turn |-> turn[s].id, next |-> "Failed", bars |-> pump[s].bars]]
    /\ UNCHANGED <<durable, counts, current, proc, released, cleanup, cont, ready, starter, stopper, sweeper, archiving, barrier, drain>>

\* Mutants: the exit leaves the turn unsettled, or the barrier up.
PumpFailsLastQuiet(s) ==
    /\ pump[s].pc = "exitfail"
    /\ pump' = [pump EXCEPT ![s] = [NoPump EXCEPT !.pc = "end"]]
    /\ barrier' = IF pump[s].bars THEN None ELSE barrier
    /\ UNCHANGED <<durable, session, counts, starter, stopper, sweeper, archiving, drain>>

PumpFailsLastBarred(s) ==
    /\ pump[s].pc = "exitfail"
    /\ IF pump[s].turn = None
         THEN UNCHANGED <<status, log>>
         ELSE log' = Ended(pump[s].turn) /\ status' = Stored("Failed")
    /\ pump' = [pump EXCEPT ![s] = [NoPump EXCEPT !.pc = "end"]]
    /\ UNCHANGED <<pending, row, rows, lastTurn, session, counts, starter, stopper, sweeper, archiving, barrier, drain>>

\* ... and fails (fail_exited_turn); then the barrier falls, if this pump put it up.
PumpFailsLast(s) ==
    /\ pump[s].pc = "exitfail"
    /\ IF pump[s].turn = None
         THEN UNCHANGED <<status, log>>
         ELSE log' = Ended(pump[s].turn) /\ status' = Stored("Failed")
    /\ pump' = [pump EXCEPT ![s] = [NoPump EXCEPT !.pc = "end"]]
    /\ barrier' = IF pump[s].bars THEN None ELSE barrier
    /\ UNCHANGED <<pending, row, rows, lastTurn, session, counts, starter, stopper, sweeper, archiving, drain>>

-----------------------------------------------------------------------------
(* Stop, archive, the idle sweep, a restart.                               *)

\* Mutant: the stop remembers the turn's id, which a resumed turn keeps.
StopBeginById ==
    /\ stopper.pc = "idle" /\ left.stops > 0
    /\ current # None /\ SessionsFree
    /\ stopper' = [pc |-> "grace", live |-> current, turn |-> turn[current].id]
    /\ left' = [left EXCEPT !.stops = @ - 1]
    /\ UNCHANGED <<durable, session, responses, given, pump, starter, sweeper, archiving, barrier, drain>>

StopBegin ==
    /\ stopper.pc = "idle" /\ left.stops > 0
    /\ current # None /\ SessionsFree
    /\ stopper' = [pc |-> "grace", live |-> current, turn |-> turn[current]]
    /\ left' = [left EXCEPT !.stops = @ - 1]
    /\ UNCHANGED <<durable, session, responses, given, pump, starter, sweeper, archiving, barrier, drain>>

\* The provider stopped in time (or there was no turn to stop).
StopDone ==
    /\ stopper.pc = "grace"
    /\ \/ stopper.live \in released
       \/ turn[stopper.live] # stopper.turn
       \/ stopper.turn = NoTurn
    /\ stopper' = IdleStop
    /\ UNCHANGED <<durable, session, counts, pump, starter, sweeper, archiving, barrier, drain>>

\* The grace ran out: force_interrupt checks and takes the session over under
\* the sessions and turn locks.
StopForce ==
    /\ stopper.pc = "grace" /\ SessionsFree
    /\ Starting(stopper.live) => May("forced_stop")
    /\ LET s == stopper.live IN
         IF current = s /\ s \notin released /\ turn[s] = stopper.turn
           THEN /\ barrier' = s
                /\ released' = released \union {s}
                /\ cleanup' = cleanup \union {s}
                /\ current' = None
                /\ stopper' = [stopper EXCEPT !.pc = "close"]
           ELSE stopper' = IdleStop /\ UNCHANGED <<barrier, released, cleanup, current>>
    /\ UNCHANGED <<durable, counts, proc, turn, cont, ready, pump, starter, sweeper, archiving, drain>>

\* Mutant: close waits for the provider to exit by itself.
StopCloseGraceful ==
    /\ stopper.pc = "close" /\ proc[stopper.live] = "down"
    /\ stopper' = [stopper EXCEPT !.pc = "take"]
    /\ UNCHANGED <<durable, session, counts, pump, starter, sweeper, archiving, barrier, drain>>

\* The process tree is closed, then the turn taken as interrupted ...
StopClose ==
    /\ stopper.pc = "close"
    /\ proc' = [proc EXCEPT ![stopper.live] = "down"]
    /\ stopper' = [stopper EXCEPT !.pc = "take"]
    /\ UNCHANGED <<durable, counts, current, released, cleanup, turn, cont, ready, pump, starter, sweeper, archiving, barrier, drain>>

\* The close fails: force_interrupt leaves there, and the barrier falls.
StopCloseFails ==
    /\ stopper.pc = "close" /\ May("close_fails")
    /\ stopper' = IdleStop /\ barrier' = None
    /\ UNCHANGED <<durable, session, counts, pump, starter, sweeper, archiving, drain>>

StopTake ==
    /\ stopper.pc = "take"
    /\ LET s == stopper.live IN
         /\ stopper' = [pc |-> "settle", live |-> s, turn |-> turn[s]]
         /\ turn' = [turn EXCEPT ![s] = NoTurn]
         /\ cont' = [cont EXCEPT ![s] = NoTurn]
    /\ UNCHANGED <<durable, counts, current, proc, released, cleanup, ready, pump, starter, sweeper, archiving, barrier, drain>>

\* ... and settled; only now may the next session start.
StopSettle ==
    /\ stopper.pc = "settle"
    /\ IF stopper.turn = NoTurn
         THEN UNCHANGED <<status, log>>
         ELSE log' = Ended(stopper.turn.id) /\ status' = Stored("Idle")
    /\ stopper' = IdleStop
    /\ barrier' = None
    /\ UNCHANGED <<pending, row, rows, lastTurn, session, counts, pump, starter, sweeper, archiving, drain>>

\* archive_single: the status and the queue under the command lock ...
Archive ==
    /\ status # "Archived"
    /\ status' = "Archived" /\ pending' = {}
    /\ archiving' = TRUE
    /\ UNCHANGED <<row, rows, log, lastTurn, session, counts, pump, starter, stopper, sweeper, barrier, drain>>

\* ... then the session.
ArchiveClose ==
    /\ archiving /\ SessionsFree
    /\ archiving' = FALSE
    /\ IF current = None
         THEN UNCHANGED <<current, proc, released>>
         ELSE /\ released' = released \union {current}
              /\ proc' = [proc EXCEPT ![current] = "down"]
              /\ current' = None
    /\ UNCHANGED <<durable, counts, cleanup, turn, cont, ready, pump, starter, stopper, sweeper, barrier, drain>>

\* Mutant: the stored status is not read.
ParkedByTurn(s) == turn[s] = NoTurn

\* session_parked: nothing uses the session.
Parked(s) == turn[s] = NoTurn /\ status # "Running"

\* The sweep re-checks a candidate while it holds the sessions map ...
SweepCheck ==
    /\ sweeper.pc = "idle"
    /\ current # None /\ Parked(current)
    /\ sweeper' = [pc |-> "locked", live |-> current]
    /\ UNCHANGED <<durable, session, counts, pump, starter, stopper, archiving, barrier, drain>>

\* Mutant: no barrier holds the next spawn back.
SweepClaimOpen ==
    /\ sweeper.pc = "locked"
    /\ released' = released \union {sweeper.live}
    /\ current' = None
    /\ sweeper' = [sweeper EXCEPT !.pc = "close"]
    /\ UNCHANGED <<durable, counts, proc, cleanup, turn, cont, ready, pump, starter, stopper, archiving, barrier, drain>>

\* ... claims it ...
SweepClaim ==
    /\ sweeper.pc = "locked"
    /\ barrier' = sweeper.live
    /\ released' = released \union {sweeper.live}
    /\ current' = None
    /\ sweeper' = [sweeper EXCEPT !.pc = "close"]
    /\ UNCHANGED <<durable, counts, proc, cleanup, turn, cont, ready, pump, starter, stopper, archiving, drain>>

\* ... and closes it behind the barrier.
SweepClose ==
    /\ sweeper.pc = "close"
    /\ proc' = [proc EXCEPT ![sweeper.live] = "down"]
    /\ barrier' = None
    /\ sweeper' = IdleTask
    /\ UNCHANGED <<durable, counts, current, released, cleanup, turn, cont, ready, pump, starter, stopper, archiving, drain>>

\* Some task is about to end turn m, or a recovery that was cut off itself; a send or
\* the queue could start a turn.
Ending(m) ==
    \/ status = "Running" /\ lastTurn = m
    \/ \E s \in Sessions : pump[s].pc \in {"settle", "exitfail"} /\ pump[s].turn = m
    \/ stopper.pc = "settle" /\ stopper.turn.id = m
    \/ starter[m].pc = "spawn"
    \/ /\ starter[m].pc = "deliver"
       /\ proc[starter[m].live] = "down" \/ May("refusal")
CanBegin ==
    \E m \in Messages :
        \/ m \notin pending /\ log[m] = "none" /\ status \in {"Idle", "Failed"}
        \/ m \in pending /\ Oldest(m, drain) /\ status = "Idle"

\* What a crash may leave stored: the last step whole; the event of an end without
\* its status; the status of a start without its event.
Stores(st, l) ==
    \/ st = status /\ l = log
    \/ May("torn") /\ st = status /\ \E m \in Messages : Ending(m) /\ l = Ended(m)
    \/ May("torn") /\ CanBegin /\ st = "Running" /\ l = log

\* The daemon dies with its providers and comes back: recover_after_restart.
Restart ==
    /\ May("restart") /\ left.restarts > 0
    /\ left' = [left EXCEPT !.restarts = @ - 1]
    /\ \E st \in Statuses, l \in {log} \union {Ended(m) : m \in Messages} :
         /\ Stores(st, l)
         /\ status' = IF st = "Running" THEN "Idle" ELSE st
         /\ log' = IF st = "Running" /\ lastTurn # None THEN EndIn(l, lastTurn) ELSE l
    /\ current' = None /\ released' = {} /\ cleanup' = {} /\ ready' = {}
    /\ proc' = [s \in Sessions |-> IF proc[s] = "unused" THEN "unused" ELSE "down"]
    /\ turn' = [s \in Sessions |-> NoTurn] /\ cont' = [s \in Sessions |-> NoTurn]
    /\ pump' = [s \in Sessions |-> NoPump]
    /\ starter' = [m \in Messages |-> IdleTask]
    /\ stopper' = IdleStop /\ sweeper' = IdleTask /\ archiving' = FALSE
    /\ barrier' = None /\ drain' = {}
    /\ UNCHANGED <<pending, row, rows, lastTurn, responses, given>>

-----------------------------------------------------------------------------
Start(m) ==
    \/ StartReuse(m) \/ StartWait(m) \/ StartSpawn(m) \/ StartSpawnFails(m)
    \/ StartArchived(m) \/ StartChecked(m) \/ StartInstall(m)
    \/ StartDeliver(m) \/ StartDeliveryFails(m) \/ StartClear(m)

PumpWork(s) == PumpWakes(s) \/ PumpSettles(s) \/ PumpExits(s) \/ PumpTakesLast(s) \/ PumpFailsLast(s)

QueueWork == DrainBegin \/ \E m \in Messages : Drain(m)

Stop == StopDone \/ StopForce \/ StopClose \/ StopCloseFails \/ StopTake \/ StopSettle

Next ==
    \/ \E m \in Messages : Send(m) \/ Enqueue(m) \/ RemoveQueued(m) \/ Drain(m) \/ Start(m)
    \/ DrainBegin
    \/ \E s \in Sessions : ProviderExits(s) \/ PumpOutput(s) \/ PumpTakes(s) \/ PumpWork(s)
    \/ StopBegin \/ Stop
    \/ Archive \/ ArchiveClose
    \/ SweepCheck \/ SweepClaim \/ SweepClose
    \/ Restart

Spec == Init /\ [][Next]_vars

\* The daemon's own tasks run on, and so does the queue worker.  Nothing obliges
\* a user to act, nor the sweep to look.
TasksRun ==
    /\ \A m \in Messages : WF_vars(Start(m))
    /\ \A s \in Sessions : WF_vars(PumpWork(s))
    /\ WF_vars(QueueWork) /\ WF_vars(Stop) /\ WF_vars(ArchiveClose) /\ WF_vars(SweepClaim \/ SweepClose)

FairSpec == Spec /\ TasksRun

\* ... and the provider ends the turns it was given.
ProviderAnswers == \A s \in Sessions : WF_vars(PumpTakes(s))

-----------------------------------------------------------------------------
(* Properties.                                                             *)

TaskSteps == {"idle", "ensure", "spawn", "check", "install", "deliver", "clear", "done"}
PumpSteps == {"off", "run", "wait", "settle", "exit", "exitfail", "end"}

\* Type correctness of the thread's rows, its sessions and the tasks on them.
TypeOK ==
    /\ status \in Statuses
    /\ pending \subseteq Messages /\ drain \subseteq Messages
    /\ row \in [Messages -> Nat] /\ rows \in Nat
    /\ log \in [Messages -> {"none", "open", "closed", "again", "twice"}]
    /\ lastTurn \in Messages \union {None}
    /\ current \in Sessions \union {None} /\ barrier \in Sessions \union {None}
    /\ proc \in [Sessions -> {"unused", "up", "down"}]
    /\ released \subseteq Sessions /\ cleanup \subseteq Sessions /\ ready \subseteq Sessions
    /\ turn \in [Sessions -> ActiveTurn \union {NoTurn}]
    /\ cont \in [Sessions -> ActiveTurn \union {NoTurn}]
    /\ pump \in [Sessions -> [pc : PumpSteps, turn : Messages \union {None}, next : {"Idle", "Failed"}, bars : BOOLEAN]]
    /\ starter \in [Messages -> [pc : TaskSteps, live : Sessions \union {None}]]
    /\ stopper \in [pc : {"idle", "grace", "close", "take", "settle"},
                    live : Sessions \union {None}, turn : ActiveTurn \union {NoTurn}]
    /\ sweeper \in [pc : {"idle", "locked", "close"}, live : Sessions \union {None}]
    /\ archiving \in BOOLEAN
    /\ responses \in Nat /\ given \subseteq Messages /\ left \in Budget

\* A message starts at most one turn, whether it was sent, queued, drained from
\* a snapshot that is stale by then, removed and sent, or found by a restarted
\* daemon.
StartedOnce == \A m \in Messages : log[m] # "twice"

\* A turn whose message reached the provider gets one terminal event, although the
\* pump, the exit of the provider, a forced stop and a restart may each want to end
\* it, and whatever happens to turns the provider does not have yet.  (A crash that
\* tears an end has it told again.  So may a restart after a turn was ended twice
\* before its delivery: two sessions may live on then, and the one that was replaced
\* resumes a turn that is not the last one.)
Muddled ==
    \/ May("torn")
    \/ May("resume") /\ \E n \in Messages \ given : log[n] = "again"
EndedOnce == \A m \in given : log[m] = "again" => May("restart") /\ Muddled

\* Two provider processes never work in the same thread: a spawn waits until the
\* process of the session before it is gone.  (A turn that was ended twice lets two
\* starts run at once; a session that was coming up when the thread was archived is
\* closed by its start_turn; a process that cannot be closed stays.)
SettledOnce == \A m \in Messages : log[m] # "again"
OneProcess ==
    status # "Archived" /\ SettledOnce /\ ~May("close_fails") =>
        \A r, s \in Sessions : proc[r] = "up" /\ proc[s] = "up" => r = s

\* A thread that shows as running has something left that will end its turn: a
\* start_turn task, a turn on a session whose pump is alive, or a task that took
\* a turn to settle it; unless a session could not be closed, a turn was ended twice, or
\* the end of a refused start wiped a later turn off its session.
Settler ==
    \/ \E m \in Messages : starter[m].pc \notin {"idle", "done", "clear"}
    \/ \E s \in Sessions :
         \/ turn[s] # NoTurn /\ pump[s].pc \in {"run", "wait", "exit"}
         \/ pump[s].pc \in {"settle", "exitfail"} /\ pump[s].turn # None
         \/ stopper.pc \in {"close", "take"} /\ stopper.live = s /\ turn[s] # NoTurn
    \/ stopper.pc = "settle" /\ stopper.turn # NoTurn
NoOrphanedRun ==
    status = "Running" /\ SettledOnce /\ ~May("close_fails") /\ ~May("refusal") => Settler

\* The daemon stays up, and nothing hits a session while a turn is started on it.
Undisturbed == left.may \subseteq {"resume"}

\* Undisturbed, and whatever happens as long as no turn is ended twice, the stored
\* status and the event log agree: a running thread has the one turn the log has not
\* ended, and any other has none (an archived one may leave it behind).
Open == {m \in Messages : log[m] = "open"}
OneTurn ==
    Undisturbed \/ SettledOnce =>
        /\ \A m, n \in Open : m = n
        /\ status = "Running" => Open # {}
        /\ Open # {} => status \in {"Running", "Archived"}

\* Undisturbed, the idle sweep never closes a session under a message: no start_turn
\* task is on its way to the session it claims (GUIDE.md: running threads are never
\* touched).
SweepSpares ==
    [][\A s \in released' \ released, m \in Messages :
         Undisturbed /\ sweeper.pc = "locked" /\ status # "Archived" =>
             starter[m].live # s \/ starter[m].pc \in {"idle", "clear", "done"}]_vars

\* The engine does what TurnHistory promises of a thread, through stale queue
\* snapshots, late completions, stops, resumed turns, restarts and mishaps.
Promise == INSTANCE TurnHistory WITH
    waiting <- pending, archived <- status = "Archived", steady <- Undisturbed
TurnHistory == Promise!Spec

\* A turn the user stops ends, even when the provider ignores the interrupt and
\* never reports an end: the forced stop, the exit or a late answer settles it.
StopEnds ==
    \A m \in Messages :
        stopper.pc # "idle" /\ stopper.turn.id = m ~> log[m] # "open" \/ status = "Archived"

\* With a provider that answers, a message that was queued or has started its turn is
\* over at some time: removed, or its turn ended; unless the thread is archived, or a
\* turn failed: then the queue waits for the user.  No start waits forever for a
\* barrier or the sweep's lock, nor held-back output for a permit.
Waits(m) == m \in pending \/ log[m] = "open"
TurnsEnd ==
    ProviderAnswers => \A m \in Messages :
        Waits(m) ~> ~Waits(m) \/ status = "Archived" \/ (m \in pending /\ status = "Failed")

=============================================================================
