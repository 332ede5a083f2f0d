---------------------------- MODULE MCListeners ----------------------------
(* Small instances of Listeners for TLC. *)
EXTENDS Listeners

CONSTANTS c1, c2, a1, a2

TwoConns == {c1, c2}
TwoAddrs == {a1, a2}
Second   == {a2}
=============================================================================
