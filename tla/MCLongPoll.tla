---------------------------- MODULE MCLongPoll ----------------------------
(* Model values and bounds for LongPoll.                                   *)
EXTENDS LongPoll

CONSTANTS w1, w2, j1
=============================================================================
