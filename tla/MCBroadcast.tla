---------------------------- MODULE MCBroadcast ----------------------------
(* A small instance of BroadcastRecv for TLC: three small events fit the   *)
(* bytes but not the count, an oversized one fits beside nothing.          *)
EXTENDS BroadcastRecv

CONSTANTS r1, r2, small, oversized

MCSize(e) == IF e = small THEN 1 ELSE 4
=============================================================================
