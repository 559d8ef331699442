------------------------------ MODULE JniUser --------------------------------
(* The users of Java and of C++ and the way from one to the other.  A Java   *)
(* user has a short, a long and an int, a C++ user 8, 40 and 16 bits.        *)
EXTENDS Integers

CONSTANT IdLimit    \* 2^40: a C++ user keeps its user id modulo this

ASSUME UserAssumption == IdLimit \in Nat \ {0}

Shorts == -32768 .. 32767
InstIds == 0 .. 65535

JavaUsers == [classId : Shorts, userId : Int, instId : Int]
CppUsers == [classId : 0 .. 255, userId : 0 .. IdLimit - 1, instId : InstIds]

\* RTP_MSG_USER::Zero: nobody.
Zero == [classId |-> 0, userId |-> 0, instId |-> 0]

\* The check of MSG_USER_java2cpp_i; it leaves the size of the user id open.
Legal(u) == u.classId \in 1 .. 255 /\ u.userId >= 0 /\ u.instId \in InstIds

\* Mutant of ToCpp: no check, every member is cut to its width.
ToCppUnchecked(u) == [classId |-> u.classId % 256, userId |-> u.userId % IdLimit,
                      instId |-> u.instId % 65536]

\* MSG_USER_java2cpp_i, with the class references at hand.
ToCpp(u) ==
  IF Legal(u)
  THEN [classId |-> u.classId, userId |-> u.userId % IdLimit, instId |-> u.instId]
  ELSE Zero

\* NewJavaUser_i and MSG_USER_cpp2java_i: Java's members are wide enough.
ToJava(c) == [classId |-> c.classId, userId |-> c.userId, instId |-> c.instId]
==============================================================================
