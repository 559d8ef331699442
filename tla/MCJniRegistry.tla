---------------------------- MODULE MCJniRegistry ----------------------------
(* Model-checking instances of JniRegistry.                                 *)
EXTENDS JniRegistry, TLC

PoolSymmetry ==
  Permutations(Javas) \cup Permutations(Workers) \cup Permutations(Objs)
    \cup Permutations(Reactors)

User(c, u, i) == [classId |-> c, userId |-> u, instId |-> i]

\* A user, and two that come to the same one if they are cut to width: an id of
\* too many bits, which is legal to the code, and a class that is not.
MCUsers == {User(1, 1, 0), User(1, 5, 0), User(257, 1, 0)}
==============================================================================
