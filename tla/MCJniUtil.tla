------------------------------ MODULE MCJniUtil ------------------------------
(* Model-checking instance of JniUtil.                                      *)
EXTENDS JniUtil, TLC

PoolSymmetry ==
  Permutations(Javas) \cup Permutations(Workers) \cup Permutations(Objs)
==============================================================================
