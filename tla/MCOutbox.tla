------------------------------ MODULE MCOutbox ------------------------------
(* Small instances of Outbox: two items of one kind.                       *)
EXTENDS Outbox

CONSTANTS a, b

MCKindOf == [i \in Items |-> "send"]

Only(losses, outages, requests, restarts) ==
    [losses |-> losses, outages |-> outages, requests |-> requests, restarts |-> restarts]

\* A cancel and a retry around a lost call or a restart; an outage around both.
MCBudgets == {Only(1, 0, 2, 0), Only(0, 0, 2, 1), Only(0, 1, 1, 0), Only(1, 0, 0, 1)}
=============================================================================
