------------------------------ MODULE Handover ------------------------------
(***************************************************************************)
(* What "continue on another machine" promises of a thread, in whatever    *)
(* way the machines bring it about (MoveThread): it takes messages on one  *)
(* machine; it is closed before the other machine gets it, which gets all  *)
(* of it; and it is opened again only while the other does not have it.    *)
(* The promise may be void from the start, and a user who takes the thread *)
(* by force makes it so.                                                   *)
(***************************************************************************)
EXTENDS Naturals

CONSTANTS MaxMessages, None

VARIABLES
    open,      \* the source takes messages
    messages,  \* what the thread has there
    there,     \* what the other machine got, or None
    void       \* nothing is promised (any more)

vars == <<open, messages, there, void>>

Init ==
    /\ open = TRUE /\ messages \in 0 .. MaxMessages
    /\ there = None /\ void \in BOOLEAN

\* A message goes to a thread that is open.
Accept ==
    /\ open /\ messages' = messages + 1
    /\ UNCHANGED <<open, there, void>>

Close ==
    /\ open /\ open' = FALSE
    /\ UNCHANGED <<messages, there, void>>

\* Only a user who insists, and voids the promise, opens a thread that may be elsewhere.
Reopen ==
    /\ ~open /\ open' = TRUE
    /\ there = None \/ void'
    /\ void => void'
    /\ UNCHANGED <<messages, there>>

\* The other machine gets the whole thread, once.
Give ==
    /\ there = None
    /\ ~void => ~open /\ there' = messages
    /\ void => there' \in 0 .. MaxMessages
    /\ UNCHANGED <<open, messages, void>>

Next == Accept \/ Close \/ Reopen \/ Give

Spec == Init /\ [][Next]_vars
=============================================================================
