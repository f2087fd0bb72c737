-------------------------- MODULE MoveThreadProofs --------------------------
(* The safety properties of MoveThread, for any budgets.  What holds with  *)
(* every mishap comes first; that the thread has one owner, and that the   *)
(* one it has knows everything, needs that there is none; at the end, that *)
(* no call, commit or item of a move is left to nobody.                    *)
EXTENDS MoveThread, TLAPS

\* While a call that can end the move is out, the lease is uncertain; while the
\* work is sent, it is held or was given up.
TaskLease ==
    /\ task.pc \in {"commit", "get", "abandon"} => lease = "uncertain"
    /\ task.pc = "prepare" => lease \in {"none", "held"}

\* The target makes a thread once and tells nobody of one it has not made.
TargetTrue ==
    /\ slot = "committed" => there # None
    /\ task.pc \in {"commit", "get", "abandon"} /\ answer = "ok" => there # None

IInv == TypeOK /\ TaskLease /\ TargetTrue /\ NeverLost /\ DeliveredDeparted

\* Without mishaps the lease of a running attempt is not given up,
AttemptHolds == task.pc = "prepare" => lease = "held"

\* a thread on the target is known to its slot, and was told to go on or will be,
ThereKnown ==
    there # None => slot = "committed" /\ (told \in {"yes", "cut"} \/ opening # None)

\* a prepare that has looked at the slot finds it as it was when it writes,
Reserving == late \/ (task.pc = "prepare" /\ answer = "taken")
ReservesFirst == Reserving => there = None /\ opening = None

\* a refusal and the answer "nothing" are final: nothing is there, and nothing is
\* under way that could make it,
NothingThere ==
    \/ task.pc = "commit" /\ answer = "refused"
    \/ task.pc \in {"get", "abandon"} /\ answer = "nothing"
    => there = None /\ opening = None

\* the source keeps its hands off a thread that is, or is being, opened, unless
\* its user was told and took it,
Opened == there # None \/ opening # None
Guarded == Opened /\ ~forced => lease \in {"uncertain", "departed"}

\* and what was sent, opened and made is all the source has.
Complete ==
    /\ task.pc \in {"prepare", "commit"} => task.history = messages
    /\ ~forced /\ opening # None => opening = messages
    /\ ~forced /\ there # None => there = messages

QuietInv == IInv /\ AttemptHolds /\ ThereKnown /\ ReservesFirst /\ NothingThere /\ Guarded /\ Complete

-----------------------------------------------------------------------------
\* The type invariant in two parts: Zenon is better at Booleans, SMT at the rest.
FlagsOK ==
    /\ busy \in BOOLEAN /\ forced \in BOOLEAN /\ abort \in BOOLEAN
    /\ online \in BOOLEAN /\ late \in BOOLEAN
DataOK ==
    /\ messages \in Histories
    /\ lease \in {"none", "held", "uncertain", "departed"}
    /\ item \in {"none", "queued", "sending", "delivered", "failed", "cancelled"}
    /\ task \in [pc : {"idle", "prepare", "commit", "get", "abandon"}, history : Histories]
    /\ answer \in {"none", "taken", "ok", "prepared", "nothing", "refused", "busy", "lost"}
    /\ slot \in {"none", "prepared", "aborted", "committed"}
    /\ opening \in {None} \union Histories /\ there \in {None} \union Histories
    /\ told \in {"no", "yes", "cut"}
    /\ left \in Budget

\* The initial states satisfy the invariants.
LEMMA InitIInv == Init => IInv /\ (Quiet => QuietInv)
<1> SUFFICES ASSUME Init PROVE IInv /\ (Quiet => QuietInv)
    OBVIOUS
<1> USE MoveAssumption DEF Init, IdleTask, Histories
<1>1. TypeOK
  <2>1. FlagsOK
      BY Zenon DEF FlagsOK
  <2>2. DataOK
      BY DEF DataOK
  <2> QED BY <2>1, <2>2 DEF TypeOK, FlagsOK, DataOK
<1>2. TaskLease /\ TargetTrue /\ NeverLost /\ DeliveredDeparted
    BY DEF TaskLease, TargetTrue, NeverLost, DeliveredDeparted
<1>3. AttemptHolds /\ ThereKnown /\ ReservesFirst /\ NothingThere /\ Guarded /\ Complete
    BY DEF AttemptHolds, ThereKnown, ReservesFirst, Reserving, NothingThere, Guarded, Opened, Complete
<1> QED BY <1>1, <1>2, <1>3 DEF IInv, QuietInv

\* Every step keeps the types of the flags.
LEMMA FlagsStep == FlagsOK /\ [Next]_vars => FlagsOK'
<1> SUFFICES ASSUME FlagsOK, [Next]_vars PROVE FlagsOK'
    OBVIOUS
<1> USE DEF source, caller, target, IdleTask, Unsettled, Histories, FlagsOK
<1>1. CASE UNCHANGED vars
    BY <1>1, Zenon DEF vars
<1>2. CASE Send \/ TurnEnds \/ Sweep
    BY <1>2, Zenon DEF Send, TurnEnds, Sweep
<1>3. CASE User
    BY <1>3, Zenon DEF User, MoveToMachine, GiveUp, Release, Retry, AbandonAsks,
            Call, AbandonReleases, CancelItem
<1>4. CASE Attempt
    BY <1>4, Zenon DEF Attempt, AttemptDone, Due, AttemptAsks, Call, AttemptBegins
<1>5. CASE Reaction
    BY <1>5, Zenon DEF Reaction, Reserved, Call, NotSent, Release, Finish, TaskEnds,
            Finalize, CommitRefused, Clear, Unsure, Resend, StartOver,
            AbandonCompletes, CancelItem, AbandonFrees, AbandonUnanswered
<1>6. CASE Target
    BY <1>6, Zenon DEF Target, Asked, Undisturbed, PrepareTaken, PrepareEnds, LatePrepare, Reserves,
            Status, Abort, DropSlot, CommitTaken, CommitOpens, Replies, NoteSent, NoteFails
<1>7. CASE Environment
    BY <1>7, Zenon DEF Environment, AbortArrives, Undisturbed, DropSlot,
            SlotRunsOut, GoOffline, ComeOnline, Disconnected, TimesOut, LeftBehind,
            RestartSource, Finish, TaskEnds, RestartTarget
<1> QED
    BY <1>1, <1>2, <1>3, <1>4, <1>5, <1>6, <1>7 DEF Next

\* Every step keeps the types of the rest.
LEMMA DataStep == DataOK /\ [Next]_vars => DataOK'
<1> SUFFICES ASSUME DataOK, [Next]_vars PROVE DataOK'
    OBVIOUS
<1> USE MoveAssumption DEF source, caller, target, Budget, IdleTask, Unsettled, Histories,
        DataOK
<1>1. CASE UNCHANGED vars
    BY <1>1 DEF vars
<1>2. CASE Send \/ TurnEnds \/ Sweep
    BY <1>2 DEF Send, TurnEnds, Sweep
<1>3. CASE User
    BY <1>3 DEF User, MoveToMachine, GiveUp, Release, Retry, AbandonAsks, Call,
            AbandonReleases, CancelItem
<1>4. CASE Attempt
    BY <1>4 DEF Attempt, AttemptDone, Due, AttemptAsks, Call, AttemptBegins
<1>5. CASE Reaction
    BY <1>5 DEF Reaction, Reserved, Call, NotSent, Release, Finish, TaskEnds,
            Finalize, CommitRefused, Clear, Unsure, Resend, StartOver,
            AbandonCompletes, CancelItem, AbandonFrees, AbandonUnanswered
<1>6. CASE Target
    BY <1>6 DEF Target, Asked, Undisturbed, PrepareTaken, PrepareEnds, LatePrepare, Reserves,
            Status, Abort, DropSlot, CommitTaken, CommitOpens, Replies, NoteSent, NoteFails
<1>7. CASE Environment
    BY <1>7 DEF Environment, AbortArrives, Undisturbed, DropSlot, SlotRunsOut,
            GoOffline, ComeOnline, Disconnected, TimesOut, LeftBehind,
            RestartSource, Finish, TaskEnds, RestartTarget
<1> QED
    BY <1>1, <1>2, <1>3, <1>4, <1>5, <1>6, <1>7 DEF Next

\* Every step keeps the types.
LEMMA TypeStep == TypeOK /\ [Next]_vars => TypeOK'
  BY FlagsStep, DataStep DEF TypeOK, FlagsOK, DataOK

\* Every step keeps what holds with mishaps too.
LEMMA CommonStep ==
    IInv /\ [Next]_vars => (TaskLease /\ TargetTrue /\ NeverLost /\ DeliveredDeparted)'
<1> SUFFICES ASSUME IInv, [Next]_vars
             PROVE  (TaskLease /\ TargetTrue /\ NeverLost /\ DeliveredDeparted)'
    OBVIOUS
<1> USE MoveAssumption DEF source, caller, target, Budget, IdleTask, Unsettled, Histories,
        IInv, TypeOK, TaskLease, TargetTrue, NeverLost, DeliveredDeparted
<1>1. CASE UNCHANGED vars
    BY <1>1 DEF vars
<1>2. CASE Send \/ TurnEnds \/ Sweep
    BY <1>2 DEF Send, TurnEnds, Sweep
<1>3. CASE User
    BY <1>3 DEF User, MoveToMachine, GiveUp, Release, Retry, AbandonAsks, Call,
            AbandonReleases, CancelItem
<1>4. CASE Attempt
    BY <1>4 DEF Attempt, AttemptDone, Due, AttemptAsks, Call, AttemptBegins
<1>5. CASE Reaction
    BY <1>5 DEF Reaction, Reserved, Call, NotSent, Release, Finish, TaskEnds,
            Finalize, CommitRefused, Clear, Unsure, Resend, StartOver,
            AbandonCompletes, CancelItem, AbandonFrees, AbandonUnanswered
<1>6. CASE Target
    BY <1>6 DEF Target, Asked, Undisturbed, PrepareTaken, PrepareEnds, LatePrepare, Reserves,
            Status, Abort, DropSlot, CommitTaken, CommitOpens, Replies, NoteSent, NoteFails
<1>7. CASE Environment
    BY <1>7 DEF Environment, AbortArrives, Undisturbed, DropSlot, SlotRunsOut,
            GoOffline, ComeOnline, Disconnected, TimesOut, LeftBehind,
            RestartSource, Finish, TaskEnds, RestartTarget
<1> QED
    BY <1>1, <1>2, <1>3, <1>4, <1>5, <1>6, <1>7 DEF Next

\* Without mishaps an attempt keeps its lease.
LEMMA AttemptStep ==
    ASSUME Quiet, QuietInv, [Next]_vars PROVE AttemptHolds'
<1> USE MoveAssumption DEF May, Quiet, source, caller, target, Budget, IdleTask, Unsettled,
        Histories, QuietInv, IInv, TypeOK, TaskLease, AttemptHolds
<1>1. CASE UNCHANGED vars
    BY <1>1 DEF vars
<1>2. CASE Send \/ TurnEnds \/ Sweep
    BY <1>2 DEF Send, TurnEnds, Sweep
<1>3. CASE User
    BY <1>3 DEF User, MoveToMachine, GiveUp, Release, Retry, AbandonAsks, Call,
            AbandonReleases, CancelItem
<1>4. CASE Attempt
    BY <1>4 DEF Attempt, AttemptDone, Due, AttemptAsks, Call, AttemptBegins
<1>5. CASE Reaction
    BY <1>5 DEF Reaction, Reserved, Call, NotSent, Release, Finish, TaskEnds,
            Finalize, CommitRefused, Clear, Unsure, Resend, StartOver,
            AbandonCompletes, CancelItem, AbandonFrees, AbandonUnanswered
<1>6. CASE Target
    BY <1>6 DEF Target, Asked, Undisturbed, PrepareTaken, PrepareEnds, LatePrepare, Reserves,
            Status, Abort, DropSlot, CommitTaken, CommitOpens, Replies, NoteSent, NoteFails
<1>7. CASE Environment
    BY <1>7 DEF Environment, AbortArrives, Undisturbed, DropSlot, SlotRunsOut,
            GoOffline, ComeOnline, Disconnected, TimesOut, LeftBehind,
            RestartSource, Finish, TaskEnds, RestartTarget
<1> QED
    BY <1>1, <1>2, <1>3, <1>4, <1>5, <1>6, <1>7 DEF Next

\* Without mishaps what the target says of its thread is so.
LEMMA ThereStep ==
    ASSUME Quiet, QuietInv, [Next]_vars PROVE (ThereKnown /\ ReservesFirst /\ NothingThere)'
<1> USE MoveAssumption DEF May, Quiet, source, caller, target, Budget, IdleTask, Unsettled,
        Histories, QuietInv, IInv, TypeOK, TargetTrue, ThereKnown, ReservesFirst, Reserving,
        NothingThere, TaskLease
<1>1. CASE UNCHANGED vars
    BY <1>1 DEF vars
<1>2. CASE Send \/ TurnEnds \/ Sweep
    BY <1>2 DEF Send, TurnEnds, Sweep
<1>3. CASE User
    BY <1>3 DEF User, MoveToMachine, GiveUp, Release, Retry, AbandonAsks, Call,
            AbandonReleases, CancelItem
<1>4. CASE Attempt
    BY <1>4 DEF Attempt, AttemptDone, Due, AttemptAsks, Call, AttemptBegins
<1>5. CASE Reaction
    BY <1>5 DEF Reaction, Reserved, Call, NotSent, Release, Finish, TaskEnds,
            Finalize, CommitRefused, Clear, Unsure, Resend, StartOver,
            AbandonCompletes, CancelItem, AbandonFrees, AbandonUnanswered
<1>6. CASE Target
    BY <1>6 DEF Target, Asked, Undisturbed, PrepareTaken, PrepareEnds, LatePrepare, Reserves,
            Status, Abort, DropSlot, CommitTaken, CommitOpens, Replies, NoteSent, NoteFails
<1>7. CASE Environment
    BY <1>7 DEF Environment, AbortArrives, Undisturbed, DropSlot, SlotRunsOut,
            GoOffline, ComeOnline, Disconnected, TimesOut, LeftBehind,
            RestartSource, Finish, TaskEnds, RestartTarget
<1> QED
    BY <1>1, <1>2, <1>3, <1>4, <1>5, <1>6, <1>7 DEF Next

\* Without mishaps the source keeps off an opened thread.
LEMMA GuardedStep ==
    ASSUME Quiet, QuietInv, [Next]_vars PROVE Guarded'
<1> USE MoveAssumption DEF May, Quiet, source, caller, target, Budget, IdleTask, Unsettled,
        Histories, QuietInv, IInv, TypeOK, TaskLease, AttemptHolds, TargetTrue,
        ThereKnown, ReservesFirst, Reserving, NothingThere, Opened, Guarded
<1>1. CASE UNCHANGED vars
    BY <1>1 DEF vars
<1>2. CASE Send \/ TurnEnds \/ Sweep
    BY <1>2 DEF Send, TurnEnds, Sweep
<1>3. CASE User
    BY <1>3 DEF User, MoveToMachine, GiveUp, Release, Retry, AbandonAsks, Call,
            AbandonReleases, CancelItem
<1>4. CASE Attempt
    BY <1>4 DEF Attempt, AttemptDone, Due, AttemptAsks, Call, AttemptBegins
<1>5. CASE Reaction
    BY <1>5 DEF Reaction, Reserved, Call, NotSent, Release, Finish, TaskEnds,
            Finalize, CommitRefused, Clear, Unsure, Resend, StartOver,
            AbandonCompletes, CancelItem, AbandonFrees, AbandonUnanswered
<1>6. CASE Target
    BY <1>6 DEF Target, Asked, Undisturbed, PrepareTaken, PrepareEnds, LatePrepare, Reserves,
            Status, Abort, DropSlot, CommitTaken, CommitOpens, Replies, NoteSent, NoteFails
<1>7. CASE Environment
    BY <1>7 DEF Environment, AbortArrives, Undisturbed, DropSlot, SlotRunsOut,
            GoOffline, ComeOnline, Disconnected, TimesOut, LeftBehind,
            RestartSource, Finish, TaskEnds, RestartTarget
<1> QED
    BY <1>1, <1>2, <1>3, <1>4, <1>5, <1>6, <1>7 DEF Next

\* Without mishaps what was carried is complete.
LEMMA CompleteStep ==
    ASSUME Quiet, QuietInv, [Next]_vars PROVE Complete'
<1> USE MoveAssumption DEF May, Quiet, source, caller, target, Budget, IdleTask, Unsettled,
        Histories, QuietInv, IInv, TypeOK, TaskLease, AttemptHolds, Opened, Guarded,
        Complete
<1>1. CASE UNCHANGED vars
    BY <1>1 DEF vars
<1>2. CASE Send \/ TurnEnds \/ Sweep
    BY <1>2 DEF Send, TurnEnds, Sweep
<1>3. CASE User
    BY <1>3 DEF User, MoveToMachine, GiveUp, Release, Retry, AbandonAsks, Call,
            AbandonReleases, CancelItem
<1>4. CASE Attempt
    BY <1>4 DEF Attempt, AttemptDone, Due, AttemptAsks, Call, AttemptBegins
<1>5. CASE Reaction
    BY <1>5 DEF Reaction, Reserved, Call, NotSent, Release, Finish, TaskEnds,
            Finalize, CommitRefused, Clear, Unsure, Resend, StartOver,
            AbandonCompletes, CancelItem, AbandonFrees, AbandonUnanswered
<1>6. CASE Target
    BY <1>6 DEF Target, Asked, Undisturbed, PrepareTaken, PrepareEnds, LatePrepare, Reserves,
            Status, Abort, DropSlot, CommitTaken, CommitOpens, Replies, NoteSent, NoteFails
<1>7. CASE Environment
    BY <1>7 DEF Environment, AbortArrives, Undisturbed, DropSlot, SlotRunsOut,
            GoOffline, ComeOnline, Disconnected, TimesOut, LeftBehind,
            RestartSource, Finish, TaskEnds, RestartTarget
<1> QED
    BY <1>1, <1>2, <1>3, <1>4, <1>5, <1>6, <1>7 DEF Next

\* Nothing changes what may happen.
LEMMA QuietStays == TypeOK /\ [Next]_vars => (Quiet' <=> Quiet)
<1> SUFFICES ASSUME TypeOK, [Next]_vars PROVE left'.mishaps = left.mishaps
    BY DEF Quiet
<1> USE DEF TypeOK, Budget
<1>1. CASE left' = left
    BY <1>1
<1>2. CASE \E n \in {"losses", "restarts", "requests"} : left' = [left EXCEPT ![n] = @ - 1]
    BY <1>2
<1>3. CASE UNCHANGED vars \/ Send \/ TurnEnds \/ Sweep \/ Attempt \/ Reaction
    BY <1>1, <1>3, Zenon DEF vars, Send, TurnEnds, Sweep, Attempt, AttemptDone, AttemptAsks, AttemptBegins,
       Reaction, Reserved, NotSent, Finalize, CommitRefused, Unsure, Resend, StartOver, AbandonCompletes,
       AbandonFrees, AbandonUnanswered
<1>4. CASE User
    BY <1>1, <1>2, <1>4 DEF User, MoveToMachine, GiveUp, Retry, AbandonAsks, AbandonReleases
<1>5. CASE Target
    BY <1>1, <1>2, <1>5 DEF Target, PrepareTaken, PrepareEnds, LatePrepare, Status, Abort,
       CommitTaken, CommitOpens, NoteSent, NoteFails
<1>6. CASE Environment
    BY <1>1, <1>2, <1>6 DEF Environment, AbortArrives, SlotRunsOut, GoOffline, ComeOnline, Disconnected,
       TimesOut, RestartSource, RestartTarget
<1> QED BY <1>3, <1>4, <1>5, <1>6 DEF Next

\* Without mishaps a step of the machines is a step of Handover, or none.
LEMMA QuietPromiseStep ==
    ASSUME Quiet, QuietInv, [Next]_vars PROVE [Promise!Next]_(Promise!vars)
<1> USE MoveAssumption DEF May, Quiet, source, caller, target, Budget, IdleTask, Unsettled,
        Histories, QuietInv, IInv, TypeOK, TaskLease, AttemptHolds, Opened, Guarded,
        Complete, ThereKnown, NothingThere, TargetTrue, Promise!Next, Promise!vars,
        Promise!Accept, Promise!Close, Promise!Reopen, Promise!Give
<1>0. Quiet'
    BY QuietStays
<1> USE <1>0
<1>1. CASE UNCHANGED vars
    BY <1>1 DEF vars
<1>2. CASE Send \/ TurnEnds \/ Sweep
    BY <1>2 DEF Send, TurnEnds, Sweep
<1>3. CASE User
    BY <1>3 DEF User, MoveToMachine, GiveUp, Release, Retry, AbandonAsks, Call,
            AbandonReleases, CancelItem
<1>4. CASE Attempt
    BY <1>4 DEF Attempt, AttemptDone, Due, AttemptAsks, Call, AttemptBegins
<1>5. CASE Reaction
    BY <1>5 DEF Reaction, Reserved, Call, NotSent, Release, Finish, TaskEnds,
            Finalize, CommitRefused, Clear, Unsure, Resend, StartOver,
            AbandonCompletes, CancelItem, AbandonFrees, AbandonUnanswered
<1>6. CASE Target
  <2>1. CASE CommitOpens
    <3>1. there' = opening /\ opening \in Histories
        BY <2>1 DEF CommitOpens
    <3>2. there = None
        BY <2>1 DEF CommitOpens
    <3>3. UNCHANGED <<messages, lease, forced>>
        BY <2>1 DEF CommitOpens
    <3> QED BY <3>1, <3>2, <3>3
  <2>2. CASE \/ PrepareTaken \/ PrepareEnds \/ LatePrepare \/ Status \/ Abort
             \/ CommitTaken \/ NoteSent \/ NoteFails
    <3>1. UNCHANGED <<messages, lease, forced, there>>
        BY <2>2, Zenon DEF PrepareTaken, PrepareEnds, LatePrepare, Reserves, Status, Abort, CommitTaken,
           NoteSent, NoteFails
    <3> QED BY <3>1
  <2> QED BY <1>6, <2>1, <2>2 DEF Target
<1>7. CASE Environment
    BY <1>7 DEF Environment, AbortArrives, Undisturbed, DropSlot, SlotRunsOut,
            GoOffline, ComeOnline, Disconnected, TimesOut, LeftBehind,
            RestartSource, Finish, TaskEnds, RestartTarget
<1> QED
    BY <1>1, <1>2, <1>3, <1>4, <1>5, <1>6, <1>7 DEF Next

\* With a mishap the target's thread is still made once, and closing and opening the
\* source is all else that shows.
LEMMA VoidPromiseStep ==
    ASSUME ~Quiet, IInv, [Next]_vars PROVE [Promise!Next]_(Promise!vars)
<1>0. ~Quiet' /\ None \notin Nat /\ MaxMessages \in Nat
    BY QuietStays, MoveAssumption DEF IInv
<1>1. CASE Send
  <2>1. lease = "none" /\ lease' = "none" /\ messages' = messages + 1 /\ there' = there
      BY <1>1 DEF Send, target
  <2> QED BY <1>0, <2>1 DEF Promise!Next, Promise!Accept
<1>2. CASE CommitOpens \/ RestartTarget
  <2>1. UNCHANGED <<messages, lease>>
      BY <1>2, Zenon DEF CommitOpens, RestartTarget, source
  <2>2. there' = there \/ (there = None /\ there' \in 0 .. MaxMessages)
      BY <1>2 DEF CommitOpens, RestartTarget, IInv, TargetTrue, TypeOK, Histories
  <2> QED BY <1>0, <2>1, <2>2 DEF Promise!Next, Promise!Give, Promise!vars
<1>3. CASE UNCHANGED <<messages, there>>
    BY <1>0, <1>3 DEF Promise!Next, Promise!Close, Promise!Reopen, Promise!vars
<1>4. CASE UNCHANGED vars
    BY <1>3, <1>4 DEF vars, source, target
<1>5. CASE TurnEnds \/ Sweep \/ User \/ Attempt
    BY <1>3, <1>5, Zenon DEF TurnEnds, Sweep, User, MoveToMachine, GiveUp, Retry, AbandonAsks,
       AbandonReleases, Attempt, AttemptDone, AttemptAsks, AttemptBegins, source, target
<1>6. CASE Reaction
    BY <1>3, <1>6, Zenon DEF Reaction, Reserved, NotSent, Finalize, CommitRefused, Unsure, Resend, StartOver,
       AbandonCompletes, AbandonFrees, AbandonUnanswered, source, target
<1>7. CASE Target
    BY <1>2, <1>3, <1>7, Zenon DEF Target, PrepareTaken, PrepareEnds, LatePrepare, Reserves, Status, Abort,
       CommitTaken, NoteSent, NoteFails, source, target
<1>8. CASE Environment
    BY <1>2, <1>3, <1>8, Zenon DEF Environment, AbortArrives, SlotRunsOut, GoOffline, ComeOnline,
       Disconnected, TimesOut, LeftBehind, RestartSource, source, target
<1> QED BY <1>1, <1>4, <1>5, <1>6, <1>7, <1>8 DEF Next

-----------------------------------------------------------------------------
\* Every variable keeps its type.
THEOREM TypeCorrect == Spec => []TypeOK
<1>1. Init => TypeOK
    BY InitIInv DEF IInv
<1> QED BY <1>1, TypeStep, PTL DEF Spec

\* The invariant, mishaps or none.
LEMMA Invariant == Spec => []IInv
<1>1. Init => IInv
    BY InitIInv
<1>2. IInv /\ [Next]_vars => IInv'
    BY TypeStep, CommonStep DEF IInv
<1> QED BY <1>1, <1>2, PTL DEF Spec

\* A thread is read-only for good only when the target has it, whatever went wrong.
THEOREM NeverLostHolds == Spec => []NeverLost
<1>1. IInv => NeverLost
    BY DEF IInv
<1> QED BY <1>1, Invariant, PTL

\* What the outbox reports as delivered has departed, whatever went wrong.
THEOREM DeliveredIsDeparted == Spec => []DeliveredDeparted
<1>1. IInv => DeliveredDeparted
    BY DEF IInv
<1> QED BY <1>1, Invariant, PTL

\* The invariant of a move without mishaps.
LEMMA QuietInvariant == Spec => [](IInv /\ (Quiet => QuietInv))
<1>1. Init => IInv /\ (Quiet => QuietInv)
    BY InitIInv
<1>2. IInv /\ (Quiet => QuietInv) /\ [Next]_vars => (IInv /\ (Quiet => QuietInv))'
  <2> SUFFICES ASSUME IInv, Quiet => QuietInv, [Next]_vars PROVE (IInv /\ (Quiet => QuietInv))'
      OBVIOUS
  <2>1. IInv'
      BY TypeStep, CommonStep DEF IInv
  <2>2. Quiet' <=> Quiet
      BY QuietStays DEF IInv
  <2>3. Quiet => QuietInv'
      BY <2>1, AttemptStep, ThereStep, GuardedStep, CompleteStep DEF QuietInv
  <2> QED BY <2>1, <2>2, <2>3
<1> QED BY <1>1, <1>2, PTL DEF Spec

\* Two machines never both take messages for the thread.
THEOREM OneMachineOwns == Spec => []OneOwner
<1>1. (Quiet => QuietInv) => OneOwner
    BY DEF QuietInv, Guarded, Opened, OneOwner
<1> QED BY <1>1, QuietInvariant, PTL

\* The thread that continues has everything the source ever accepted.
THEOREM NothingLeftBehind == Spec => []CarriesAll
<1>1. (Quiet => QuietInv) => CarriesAll
    BY DEF QuietInv, Complete, CarriesAll
<1> QED BY <1>1, QuietInvariant, PTL

\* And once the source is read-only it was told to go on, or is being told, or its
\* machine stopped just then.
THEOREM DepartedGoesOn == Spec => []DepartedRuns
<1>1. (Quiet => QuietInv) => DepartedRuns
    BY DEF QuietInv, IInv, NeverLost, ThereKnown, DepartedRuns
<1> QED BY <1>1, QuietInvariant, PTL

\* The machines keep the promise of Handover, unless a mishap makes it void: they
\* implement it.
THEOREM MoveKeepsThePromise == Spec => Handover
<1>1. Init => Promise!Init
    BY MoveAssumption DEF Init, Promise!Init, Histories
<1>2. IInv /\ (Quiet => QuietInv) /\ [Next]_vars => [Promise!Next]_(Promise!vars)
    BY QuietPromiseStep, VoidPromiseStep
<1> QED BY <1>1, <1>2, QuietInvariant, PTL DEF Spec, Handover, Promise!Spec

-----------------------------------------------------------------------------
\* Who does nothing carries nothing.
Rests == task.pc = "idle" => task = IdleTask

LEMMA RestsStep == TypeOK /\ Rests /\ [Next]_vars => Rests'
<1> SUFFICES ASSUME TypeOK, Rests, [Next]_vars PROVE Rests'
    OBVIOUS
<1>1. task' = task \/ task' = IdleTask \/ task'.pc # "idle"
    BY DEF Next, vars, caller, TypeOK, Send, TurnEnds, Sweep,
       User, MoveToMachine, GiveUp, Retry, AbandonAsks, Call, AbandonReleases,
       Attempt, AttemptDone, AttemptAsks, AttemptBegins,
       Reaction, Reserved, NotSent, TaskEnds, Finalize, CommitRefused, Unsure, Resend, StartOver,
       AbandonCompletes, AbandonFrees, AbandonUnanswered,
       Target, PrepareTaken, PrepareEnds, LatePrepare, Status, Abort, CommitTaken, CommitOpens,
       NoteSent, NoteFails,
       Environment, AbortArrives, SlotRunsOut, GoOffline, ComeOnline, Disconnected, TimesOut,
       RestartSource, RestartTarget
<1> QED BY <1>1 DEF Rests

\* Every step leaves what is out with somebody who goes on with it.
LEMMA UnstuckStep == IInv /\ Rests /\ Unstuck /\ [Next]_vars => Unstuck'
<1> SUFFICES ASSUME IInv, Rests, Unstuck, [Next]_vars PROVE Unstuck'
    OBVIOUS
<1> USE MoveAssumption DEF source, caller, target, Budget, IdleTask, Unsettled, Histories,
        IInv, TypeOK, Rests, Unstuck, Handled
<1>1. CASE UNCHANGED vars
    BY <1>1 DEF vars
<1>2. CASE Send \/ TurnEnds \/ Sweep
    BY <1>2 DEF Send, TurnEnds, Sweep
<1>3. CASE User
  <2>1. CASE AbandonAsks
      BY <2>1 DEF AbandonAsks, Call
  <2>2. CASE MoveToMachine \/ GiveUp \/ Retry \/ AbandonReleases
    <3>1. UNCHANGED <<task, answer, opening>> /\ (item' = "sending" => item = "sending")
        BY <2>2 DEF MoveToMachine, GiveUp, Retry, AbandonReleases, CancelItem
    <3> QED BY <3>1
  <2> QED BY <1>3, <2>1, <2>2 DEF User
<1>4. CASE Attempt
    BY <1>4 DEF Attempt, AttemptDone, Due, AttemptAsks, Call, AttemptBegins
<1>5. CASE Reaction
    BY <1>5 DEF Reaction, Reserved, Call, NotSent, Release, Finish, TaskEnds,
            Finalize, CommitRefused, Clear, Unsure, Resend, StartOver,
            AbandonCompletes, CancelItem, AbandonFrees, AbandonUnanswered
<1>6. CASE Target
  <2>1. CASE Status \/ Abort
      BY <2>1 DEF Asked, Status, Abort
  <2>2. CASE PrepareTaken \/ PrepareEnds
    <3>1. task.pc = "prepare" /\ answer' \in {"taken", "ok", "refused"} /\ UNCHANGED <<item, task>>
        BY <2>2 DEF PrepareTaken, Asked, PrepareEnds
    <3> QED BY <3>1
  <2>3. CASE CommitTaken
      BY <2>3 DEF CommitTaken, Asked
  <2>4. CASE LatePrepare \/ CommitOpens
    <3>1. UNCHANGED <<item, task, answer, opening>>
        BY <2>4, Zenon DEF LatePrepare, Reserves, CommitOpens, caller
    <3> QED BY <3>1
  <2>5. CASE NoteSent \/ NoteFails
    <3>1. UNCHANGED <<item, task>>
        BY <2>5 DEF NoteSent, NoteFails
    <3>2. CASE task.pc = "commit" /\ answer = "taken"
      <4>1. answer' \in {"ok", "refused", "busy"}
          BY <2>5, <3>2 DEF NoteSent, NoteFails, Replies
      <4>2. task # IdleTask
          BY <3>2
      <4> QED BY <3>1, <3>2, <4>1, <4>2
    <3>3. CASE ~(task.pc = "commit" /\ answer = "taken")
      <4>1. answer' = answer
          BY <2>5, <3>3 DEF NoteSent, NoteFails, Replies
      <4> QED BY <3>1, <3>3, <4>1
    <3> QED BY <3>2, <3>3
  <2> QED BY <1>6, <2>1, <2>2, <2>3, <2>4, <2>5 DEF Target
<1>7. CASE Environment
  <2>1. CASE AbortArrives \/ SlotRunsOut \/ GoOffline \/ ComeOnline
    <3>1. UNCHANGED <<item, task, answer, opening>>
        BY <2>1 DEF AbortArrives, SlotRunsOut, GoOffline, ComeOnline
    <3> QED BY <3>1
  <2>2. CASE Disconnected \/ TimesOut
    <3>1. task # IdleTask /\ answer' = "lost" /\ UNCHANGED <<item, task>>
        BY <2>2 DEF Disconnected, TimesOut
    <3> QED BY <3>1
  <2>3. CASE RestartSource
      BY <2>3 DEF RestartSource, Finish, TaskEnds
  <2>4. CASE RestartTarget
    <3>1. /\ UNCHANGED <<item, task>>
          /\ answer' = IF task # IdleTask /\ answer \in {"none", "taken"} THEN "lost" ELSE answer
        BY <2>4 DEF RestartTarget
    <3>2. CASE task = IdleTask
        BY <3>1, <3>2
    <3>3. CASE task # IdleTask
      <4>1. task.pc \in {"prepare", "commit", "get", "abandon"}
          BY <3>3
      <4> QED BY <3>1, <3>3, <4>1
    <3> QED BY <3>2, <3>3
  <2> QED BY <1>7, <2>1, <2>2, <2>3, <2>4 DEF Environment
<1> QED
    BY <1>1, <1>2, <1>3, <1>4, <1>5, <1>6, <1>7 DEF Next

\* No call of a move gets an answer its caller does nothing about, no commit is
\* taken and then forgotten, and no item is left in sending, with every mishap.
THEOREM NothingStuck == Spec => []Unstuck
<1>1. Init => Unstuck
    BY DEF Init, Unstuck, IdleTask
<1>2. Init => Rests
    BY DEF Init, Rests
<1>3. IInv => TypeOK
    BY DEF IInv
<1> QED BY <1>1, <1>2, <1>3, RestsStep, UnstuckStep, Invariant, PTL DEF Spec
=============================================================================
