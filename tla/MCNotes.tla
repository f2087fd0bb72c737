------------------------------ MODULE MCNotes ------------------------------
(* Small instances of PhoneNotes for TLC.                                  *)
EXTENDS PhoneNotes

Only(edits, others, losses, choices, may) ==
    [edits |-> edits, others |-> others, losses |-> losses, choices |-> choices, may |-> may]

\* In order, typed twice; in order, two saves elsewhere and a choice made twice;
\* a lost connection; a lost connection and answers out of order; a note left or
\* taken back while its save is out.
Ways == {Only(2, 1, 0, 1, {}),
         Only(1, 2, 0, 2, {}),
         Only(2, 0, 1, 0, {"loss"}),
         Only(1, 1, 1, 1, {"loss", "late"}),
         Only(2, 1, 0, 1, {"reopen", "revert"})}
=============================================================================
