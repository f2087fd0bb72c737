----------------------------- MODULE MCStream -----------------------------
(* EventStream on a ring of one or two events of one byte each.            *)
EXTENDS EventStream

MCSize(e) == 1
MCEvents == 1 .. MaxEvents
=============================================================================
