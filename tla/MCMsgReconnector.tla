-------------------------- MODULE MCMsgReconnector ---------------------------
(* Model-checking instance of MsgReconnector.                               *)
EXTENDS MsgReconnector, TLC

TimerSymmetry == Permutations(TimerIds)
==============================================================================
