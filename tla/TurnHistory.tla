---------------------------- MODULE TurnHistory ----------------------------
(***************************************************************************)
(* What a thread promises its users, whatever processes, stops, sweeps and *)
(* restarts bring it about (ThreadTurns): a message that was sent or queued *)
(* starts one turn; one turn runs at a time; a turn that is over is not     *)
(* ended again, and only its provider resumes it; an archived thread starts *)
(* nothing.  In a thread that is not steady an end may be told twice, after *)
(* which turns may overlap.                                                 *)
(***************************************************************************)
CONSTANT Messages    \* each names the turn it starts

VARIABLES
    waiting,    \* queued messages
    log,        \* what is told of each turn
    archived,
    steady      \* nothing hits a turn while it starts

vars == <<waiting, log, archived, steady>>

Init ==
    /\ waiting = {} /\ log = [m \in Messages |-> "none"]
    /\ archived = FALSE /\ steady \in BOOLEAN

Broken == \E m \in Messages : log[m] = "again"
Free == ~archived /\ (Broken \/ \A m \in Messages : log[m] # "open")

Tell(m, from, to) == log[m] = from /\ log' = [log EXCEPT ![m] = to]

\* A message waits until it starts its turn, is withdrawn, or the thread is archived.
Queue(m) ==
    /\ log[m] = "none" /\ ~archived
    /\ waiting' = waiting \union {m}
    /\ UNCHANGED <<log, archived, steady>>
Withdraw(m) ==
    /\ m \in waiting /\ waiting' = waiting \ {m}
    /\ UNCHANGED <<log, archived, steady>>

Start(m) ==
    /\ Free /\ Tell(m, "none", "open")
    /\ waiting' = waiting \ {m}
    /\ UNCHANGED <<archived, steady>>
Finish(m) ==
    /\ Tell(m, "open", "closed")
    /\ UNCHANGED <<waiting, archived, steady>>
Resume(m) ==
    /\ Free /\ Tell(m, "closed", "open")
    /\ UNCHANGED <<waiting, archived, steady>>

\* A crash cuts an end short, and it is told again.
Told(l, m) == [l EXCEPT ![m] = IF @ = "open" THEN "closed" ELSE "again"]
Crash(m, n) ==
    /\ ~steady /\ log[m] # "none" /\ log[n] # "none"
    /\ log' = Told(Told(log, m), n)
    /\ UNCHANGED <<waiting, archived, steady>>

\* An end is told twice.
Repeat(m) ==
    /\ ~steady \/ archived
    /\ Tell(m, "closed", "again")
    /\ UNCHANGED <<waiting, archived, steady>>

Archive ==
    /\ archived' = TRUE /\ waiting' = {}
    /\ UNCHANGED <<log, steady>>

Next ==
    \/ Archive
    \/ \E m \in Messages : Queue(m) \/ Withdraw(m) \/ Start(m) \/ Finish(m) \/ Resume(m) \/ Repeat(m)
    \/ \E m, n \in Messages : Crash(m, n)

Spec == Init /\ [][Next]_vars
=============================================================================
