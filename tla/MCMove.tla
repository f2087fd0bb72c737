------------------------------- MODULE MCMove -------------------------------
(* MoveThread for TLC: the two machines, small budgets.                    *)
EXTENDS MoveThread

Only(losses, restarts, requests, mishaps) ==
    [losses |-> losses, restarts |-> restarts, requests |-> requests, mishaps |-> mishaps]

\* A longer history without a mishap, a shorter one with all of them.
WithAndWithout == {Only(2, 1, 3, {}), Only(1, 1, 2, Mishaps)}
NoteMayFail == {Only(1, 0, 1, {"note_fails"})}
=============================================================================
