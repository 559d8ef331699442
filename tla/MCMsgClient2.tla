---------------------------- MODULE MCMsgClient2 -----------------------------
(* Model-checking instance of MsgClient2.                                   *)
EXTENDS MsgClient2, TLC

PoolSymmetry ==
  Permutations(Users) \cup Permutations(Workers) \cup Permutations(Conns)
    \cup Permutations(Recs) \cup Permutations(TimerIds)
    \cup Permutations(Observers)
==============================================================================
