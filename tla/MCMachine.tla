----------------------------- MODULE MCMachine -----------------------------
(* Small instances of MachineSlot for TLC.                                 *)
EXTENDS MachineSlot

Only(drops, moves, grants, asks, pauses, stuck, may) ==
    [drops |-> drops, moves |-> moves, grants |-> grants, asks |-> asks, pauses |-> pauses,
     stuck |-> stuck, may |-> may]

\* Lost connections, moved addresses and revoked tokens; a token replaced while
\* the user asks; a stuck attempt and a better route; a machine paused and resumed;
\* one removed while reach or a list waits; one resumed too soon; one removed or
\* paused while it is paired again, with and without somebody holding its slot.
Ways == {Only(1, 1, 1, 0, 0, 0, {}),
         Only(1, 0, 1, 1, 0, 0, {}),
         Only(1, 1, 0, 1, 0, 1, {}),
         Only(1, 0, 0, 1, 2, 0, {}),
         Only(0, 1, 0, 1, 1, 1, {"forgotten"}),
         Only(0, 0, 0, 1, 1, 0, {"resume"}),
         Only(0, 0, 1, 0, 1, 0, {}),
         Only(0, 0, 1, 0, 1, 0, {"forgotten"})}
=============================================================================
