------------------------------- MODULE MCPhone -------------------------------
EXTENDS PhoneThreads

MCMachines == {"home", "away"}
Both(home, away) == [m \in MCMachines |-> IF m = "home" THEN home ELSE away]

\* The thread of the computer the phone is at, seen twice in two launches.
HomeAlone == [events |-> Both(2, 0), breaks |-> Both(2, 0), visits |-> Both(2, 0), launches |-> 1]
\* Threads of both machines.
TwoMachines == [events |-> Both(1, 1), breaks |-> Both(1, 0), visits |-> Both(0, 1), launches |-> 0]
\* A thread of the other machine while the computer the phone is at breaks off.
HomeBreaksOff == [events |-> Both(0, 1), breaks |-> Both(1, 0), visits |-> Both(0, 1), launches |-> 0]

BothWays == {HomeAlone, TwoMachines}
AwayOnly == {HomeBreaksOff}
=============================================================================
