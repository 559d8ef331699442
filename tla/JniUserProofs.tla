---------------------------- MODULE JniUserProofs ----------------------------
(* Theorems about the conversion of users, for every width of the user id.   *)
EXTENDS JniUser, TLAPS

\* The modulus in the ranges where it is used.
LEMMA ModBounds ==
  ASSUME NEW n \in Nat
  PROVE  n % IdLimit \in 0 .. IdLimit - 1
BY UserAssumption

(* And an id that fits loses nothing.                                       *)
LEMMA ModSmall ==
  ASSUME NEW n \in 0 .. IdLimit - 1
  PROVE  n % IdLimit = n
BY UserAssumption

\* Whatever Java passes, the C++ user is well formed
\* (com_pro_msg_ProMsgJni.cpp:126-157).
THEOREM ToCppTyped ==
  ASSUME NEW u \in JavaUsers
  PROVE  ToCpp(u) \in CppUsers
<1>1. CASE Legal(u)
  <2>1. u.userId \in Nat
    BY <1>1 DEF Legal, JavaUsers
  <2>2. u.userId % IdLimit \in 0 .. IdLimit - 1
    BY <2>1, ModBounds
  <2>3. u.classId \in 0 .. 255 /\ u.instId \in InstIds
    BY <1>1 DEF Legal, JavaUsers
  <2> QED
    BY <1>1, <2>2, <2>3 DEF ToCpp, CppUsers
<1>2. CASE ~Legal(u)
  <2>1. 0 \in InstIds
    BY DEF InstIds
  <2> QED
    BY <1>2, <2>1, UserAssumption DEF ToCpp, CppUsers, Zero
<1> QED
  BY <1>1, <1>2

\* A user that an event has given to Java names the same user when Java passes it
\* back, for instance to kick it out (com_pro_msg_ProMsgJni.cpp:90-157).
THEOREM RoundTrip ==
  ASSUME NEW c \in CppUsers, c.classId # 0
  PROVE  ToCpp(ToJava(c)) = c
<1>1. c.classId \in 1 .. 255
  BY UserAssumption DEF CppUsers
<1>2. c.userId \in 0 .. IdLimit - 1
  BY UserAssumption DEF CppUsers
<1>3. c.instId \in InstIds
  BY UserAssumption DEF CppUsers
<1>4. Legal(ToJava(c))
  BY <1>1, <1>2, <1>3, UserAssumption DEF Legal, ToJava
<1>5. c.userId % IdLimit = c.userId
  BY <1>2, ModSmall
<1>6. c = [classId |-> c.classId, userId |-> c.userId, instId |-> c.instId]
  BY DEF CppUsers
<1> QED
  BY <1>4, <1>5, <1>6 DEF ToCpp, ToJava

\* Two legal users whose ids fit never become one
\* (com_pro_msg_ProMsgJni.cpp:148-156, ProMsgJni.java:30-32).
THEOREM FittingUsersDistinct ==
  ASSUME NEW u \in JavaUsers, NEW v \in JavaUsers,
         Legal(u), Legal(v), u.userId < IdLimit, v.userId < IdLimit,
         ToCpp(u) = ToCpp(v)
  PROVE  u = v
<1>1. u.userId \in 0 .. IdLimit - 1 /\ v.userId \in 0 .. IdLimit - 1
  BY UserAssumption DEF Legal, JavaUsers
<1>2. u.userId % IdLimit = u.userId /\ v.userId % IdLimit = v.userId
  BY <1>1, ModSmall
<1>3. /\ u.classId = v.classId
      /\ u.userId = v.userId
      /\ u.instId = v.instId
  BY <1>2 DEF ToCpp
<1>4. /\ u = [classId |-> u.classId, userId |-> u.userId, instId |-> u.instId]
      /\ v = [classId |-> v.classId, userId |-> v.userId, instId |-> v.instId]
  BY DEF JavaUsers
<1> QED
  BY <1>3, <1>4
==============================================================================
