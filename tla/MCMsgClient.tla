---------------------------- MODULE MCMsgClient ------------------------------
(* Model-checking instance of MsgClient.                                    *)
EXTENDS MsgClient, TLC

PoolSymmetry ==
  Permutations(Users) \cup Permutations(Workers) \cup Permutations(Conns)
    \cup Permutations(Recs) \cup Permutations(TimerIds)
==============================================================================
