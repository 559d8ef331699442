------------------------ MODULE MsgReconnectorProofs -------------------------
(****************************************************************************)
(* Proofs about MsgReconnector, for every interval, clock bound and set of  *)
(* timer ids.  The safety invariants are not inductive by themselves: they  *)
(* need that no two live timers or callbacks share an id, that ticks lie in *)
(* the past, and that a closed reconnector names no timer.                  *)
(****************************************************************************)
EXTENDS MsgReconnector, TLAPS

\* The ids of pending timers and of waiting callbacks are all different
\* (what SetupTimer promises to CMsgReconnector::OnTimer's comparison).
IdsDistinct ==
  /\ \A t \in timers, f \in fired : t.id # f.id
  /\ \A f, g \in fired : f.id = g.id => f = g

\* No recorded tick lies in the future (msg_reconnector.cpp:75,180).
TicksPast ==
  /\ m_connectTick <= now
  /\ \A f \in fired : f.tick <= now

\* After Fini no timer is named (msg_reconnector.cpp:94-99).
ClosedIdle == ~m_client => m_timerId = NoTimer

IInv ==
  /\ TypeOK
  /\ IdsDistinct
  /\ TicksPast
  /\ ClosedIdle
  /\ ArmedNotLost
  /\ NoOrphanTimer
  /\ DueSpaced

------------------------------------------------------------------------------
(* The interval and the due tick are natural numbers, and the due tick is   *)
(* neither in the past nor too close to the last attempt                    *)
(* (msg_reconnector.cpp:120-143).                                           *)
LEMMA DueTickBounds ==
  ASSUME m_connectTick \in Nat, now \in Nat
  PROVE  /\ TickInterval \in Nat
         /\ DueTick \in Nat
         /\ DueTick >= m_connectTick + TickInterval
         /\ DueTick >= now
<1>1. TickInterval \in Nat
  BY ReconnectorAssumption, SMT DEF TickInterval
<1>. QED  BY <1>1 DEF DueTick

(* Every state the program starts in satisfies the invariant                *)
(* (msg_reconnector.cpp:38-44).                                             *)
LEMMA InitIInv == Init => IInv
<1>. SUFFICES ASSUME Init PROVE IInv
  OBVIOUS
<1>. USE DEF Init
<1>1. TypeOK
  BY DEF TypeOK
<1>2. IdsDistinct /\ TicksPast /\ ClosedIdle /\ ArmedNotLost
  BY DEF IdsDistinct, TicksPast, ClosedIdle, ArmedNotLost
<1>3. NoOrphanTimer /\ DueSpaced
  BY DEF NoOrphanTimer, DueSpaced
<1>. QED  BY <1>1, <1>2, <1>3 DEF IInv

(* Re-arming leaves exactly one timer, the one m_timerId names, due at least *)
(* one interval after the last attempt (msg_reconnector.cpp:133-145).       *)
LEMMA RearmIInv ==
  ASSUME IInv, m_client, Rearm,
         UNCHANGED <<m_client, m_connectTick, now, fired>>,
         attempts' \in Nat
  PROVE  IInv'
<1>. USE DEF IInv, TypeOK
<1>1. PICK id \in FreshIds :
        /\ timers' = CancelTimer(m_timerId) \cup {[id |-> id, due |-> DueTick]}
        /\ m_timerId' = id
  BY DEF Rearm
<1>2. CancelTimer(m_timerId) = {}
  BY DEF CancelTimer, NoOrphanTimer
<1>3. timers' = {[id |-> id, due |-> DueTick]}
  BY <1>1, <1>2
<1>4. /\ id \in TimerIds
      /\ \A f \in fired : f.id # id
  BY <1>1 DEF FreshIds
<1>5. DueTick \in Nat /\ TickInterval \in Nat
        /\ DueTick >= m_connectTick + TickInterval
  BY DueTickBounds
<1>6. TypeOK'
  BY <1>1, <1>3, <1>4, <1>5 DEF Timers
<1>7. IdsDistinct'
  BY <1>3, <1>4 DEF IdsDistinct
<1>8. TicksPast' /\ ClosedIdle'
  BY DEF TicksPast, ClosedIdle
<1>9. ArmedNotLost'
  <2>1. [id |-> id, due |-> DueTick].id = m_timerId'
    BY <1>1
  <2>. QED  BY <1>3, <2>1 DEF ArmedNotLost
<1>10. NoOrphanTimer'
  BY <1>1, <1>3 DEF NoOrphanTimer
<1>11. DueSpaced'
  BY <1>1, <1>3, <1>4, <1>5 DEF DueSpaced, TickInterval
<1>. QED  BY <1>6, <1>7, <1>8, <1>9, <1>10, <1>11

(* An OnTimer call that passes the test finds its own timer to be the only  *)
(* one, already out of the queue, and at least one interval old             *)
(* (msg_reconnector.cpp:167-183).                                           *)
LEMMA CurrentFiring ==
  ASSUME IInv, NEW f \in fired, IsCurrent(f)
  PROVE  /\ m_client
         /\ m_timerId \in TimerIds
         /\ timers = {}
         /\ f.tick \in Nat
         /\ f.tick >= m_connectTick + TickInterval
         /\ f.tick <= now
         /\ \A g \in fired : g # f => g.id # m_timerId
<1>. USE DEF IInv, TypeOK, IsCurrent
<1>1. f.id \in TimerIds /\ f.tick \in Nat
  BY DEF Firings
<1>2. timers = {}
  BY DEF NoOrphanTimer, IdsDistinct
<1>. QED  BY <1>1, <1>2 DEF DueSpaced, TicksPast, IdsDistinct

(* Every step of the reconnector, of its client and of the reactor keeps    *)
(* the invariant.                                                           *)
LEMMA NextIInv == IInv /\ [Next]_vars => IInv'
<1>. SUFFICES ASSUME IInv, [Next]_vars PROVE IInv'
  OBVIOUS
<1>0. TickInterval \in Nat
  BY DueTickBounds DEF IInv, TypeOK
<1>. USE DEF IInv, TypeOK
<1>1. CASE Bind
  <2>1. timers = {} /\ m_timerId = NoTimer
    BY <1>1 DEF Bind, NoOrphanTimer, ClosedIdle
  <2>2. \A f \in fired : f.id # NoTimer
    BY ReconnectorAssumption DEF Firings
  <2>3. TypeOK' /\ IdsDistinct' /\ TicksPast' /\ ClosedIdle'
    BY <1>1 DEF Bind, IdsDistinct, TicksPast, ClosedIdle
  <2>4. ArmedNotLost' /\ NoOrphanTimer' /\ DueSpaced'
    BY <1>1, <2>1, <2>2
       DEF Bind, ArmedNotLost, NoOrphanTimer, DueSpaced, TickInterval
  <2>. QED  BY <2>3, <2>4
<1>2. CASE Fini
  <2>1. timers' = {} /\ m_timerId' = NoTimer
    BY <1>2 DEF Fini, CancelTimer, NoOrphanTimer
  <2>2. \A f \in fired : f.id # NoTimer
    BY ReconnectorAssumption DEF Firings
  <2>3. TypeOK' /\ IdsDistinct' /\ TicksPast' /\ ClosedIdle'
    BY <1>2, <2>1 DEF Fini, IdsDistinct, TicksPast, ClosedIdle
  <2>4. ArmedNotLost' /\ NoOrphanTimer' /\ DueSpaced'
    BY <1>2, <2>1, <2>2
       DEF Fini, ArmedNotLost, NoOrphanTimer, DueSpaced, TickInterval
  <2>. QED  BY <2>3, <2>4
<1>3. CASE Reconnect
  BY <1>3, RearmIInv DEF Reconnect
<1>4. ASSUME NEW t \in timers, Fire(t) PROVE IInv'
  <2>. DEFINE f == [id |-> t.id, tick |-> now]
  <2>1. t \in Timers /\ timers' = {} /\ fired' = fired \cup {f}
    BY <1>4 DEF Fire, NoOrphanTimer
  <2>2. f.tick >= m_connectTick + TickInterval /\ f.id = m_timerId
    BY <1>0, <1>4, <2>1 DEF Fire, DueSpaced, NoOrphanTimer, Timers
  <2>3. TypeOK'
    BY <1>4, <2>1 DEF Fire, Timers, Firings
  <2>4. IdsDistinct' /\ TicksPast' /\ ClosedIdle'
    BY <1>4, <2>1 DEF Fire, IdsDistinct, TicksPast, ClosedIdle
  <2>5. ArmedNotLost' /\ NoOrphanTimer'
    BY <1>4, <2>1, <2>2 DEF Fire, ArmedNotLost, NoOrphanTimer
  <2>6. DueSpaced'
    BY <1>4, <2>1, <2>2 DEF Fire, DueSpaced, TickInterval
  <2>. QED  BY <2>3, <2>4, <2>5, <2>6
<1>5. ASSUME NEW f \in fired, OnTimer(f) PROVE IInv'
  <2>1. CASE IsCurrent(f)
    <3>1. /\ timers = {} /\ timers' = {}
          /\ m_timerId \in TimerIds /\ m_timerId' = NoTimer
          /\ m_client /\ m_connectTick' = f.tick
          /\ f.tick \in Nat /\ f.tick <= now
          /\ fired' = fired \ {f} /\ attempts' = attempts + 1
          /\ UNCHANGED <<m_client, now>>
      BY <1>5, <2>1, CurrentFiring DEF OnTimer, CancelTimer
    <3>2. \A g \in fired : g.id # NoTimer
      BY ReconnectorAssumption DEF Firings
    <3>3. TypeOK' /\ IdsDistinct' /\ TicksPast' /\ ClosedIdle'
      BY <3>1 DEF IdsDistinct, TicksPast, ClosedIdle
    <3>4. ArmedNotLost' /\ NoOrphanTimer' /\ DueSpaced'
      BY <3>1, <3>2 DEF ArmedNotLost, NoOrphanTimer, DueSpaced
    <3>. QED  BY <3>3, <3>4
  <2>2. CASE ~IsCurrent(f)
    <3>1. /\ fired' = fired \ {f}
          /\ UNCHANGED <<m_client, now, timers, m_timerId, m_connectTick,
                         attempts>>
      BY <1>5, <2>2 DEF OnTimer
    <3>2. m_timerId = NoTimer \/ f.id # m_timerId
      BY <2>2 DEF IsCurrent, ClosedIdle
    <3>3. TypeOK' /\ IdsDistinct' /\ TicksPast' /\ ClosedIdle'
      BY <3>1 DEF IdsDistinct, TicksPast, ClosedIdle
    <3>4. ArmedNotLost' /\ NoOrphanTimer' /\ DueSpaced'
      BY <3>1, <3>2 DEF ArmedNotLost, NoOrphanTimer, DueSpaced, TickInterval
    <3>. QED  BY <3>3, <3>4
  <2>. QED  BY <2>1, <2>2
<1>6. CASE AttemptDone
  <2>1. TypeOK' /\ IdsDistinct' /\ TicksPast' /\ ClosedIdle'
    BY <1>6 DEF AttemptDone, IdsDistinct, TicksPast, ClosedIdle
  <2>2. ArmedNotLost' /\ NoOrphanTimer' /\ DueSpaced'
    BY <1>6 DEF AttemptDone, ArmedNotLost, NoOrphanTimer, DueSpaced,
                TickInterval
  <2>. QED  BY <2>1, <2>2
<1>7. CASE AttemptFailed
  BY <1>7, RearmIInv DEF AttemptFailed
<1>8. CASE Tick
  <2>1. TypeOK' /\ IdsDistinct' /\ TicksPast' /\ ClosedIdle'
    BY <1>8 DEF Tick, IdsDistinct, TicksPast, ClosedIdle, Firings
  <2>2. ArmedNotLost' /\ NoOrphanTimer' /\ DueSpaced'
    BY <1>8 DEF Tick, ArmedNotLost, NoOrphanTimer, DueSpaced, TickInterval
  <2>. QED  BY <2>1, <2>2
<1>9. CASE UNCHANGED vars
  <2>1. TypeOK' /\ IdsDistinct' /\ TicksPast' /\ ClosedIdle'
    BY <1>9 DEF vars, IdsDistinct, TicksPast, ClosedIdle
  <2>2. ArmedNotLost' /\ NoOrphanTimer' /\ DueSpaced'
    BY <1>9 DEF vars, ArmedNotLost, NoOrphanTimer, DueSpaced, TickInterval
  <2>. QED  BY <2>1, <2>2
<1>. QED
  BY <1>1, <1>2, <1>3, <1>4, <1>5, <1>6, <1>7, <1>8, <1>9 DEF Next

(* The invariant holds of every behaviour of the reconnector.               *)
THEOREM ReconnectorIInv == Spec => []IInv
<1>. QED  BY InitIInv, NextIInv, PTL DEF Spec

(* Every variable keeps its type.                                           *)
THEOREM ReconnectorTypeCorrect == Spec => []TypeOK
<1>1. IInv => TypeOK
  BY DEF IInv
<1>. QED  BY <1>1, ReconnectorIInv, PTL

(* A request is never lost: m_timerId always names a live timer or callback *)
(* (msg_reconnector.cpp:133-145,172-178).                                   *)
THEOREM ReconnectorArmedNotLost == Spec => []ArmedNotLost
<1>1. IInv => ArmedNotLost
  BY DEF IInv
<1>. QED  BY <1>1, ReconnectorIInv, PTL

(* The reactor never holds a timer the reconnector does not name            *)
(* (msg_reconnector.cpp:94-95,133-145).                                     *)
THEOREM ReconnectorNoOrphanTimer == Spec => []NoOrphanTimer
<1>1. IInv => NoOrphanTimer
  BY DEF IInv
<1>. QED  BY <1>1, ReconnectorIInv, PTL

(* The current timer is one interval away from the last attempt             *)
(* (msg_reconnector.cpp:136-145,180).                                       *)
THEOREM ReconnectorDueSpaced == Spec => []DueSpaced
<1>1. IInv => DueSpaced
  BY DEF IInv
<1>. QED  BY <1>1, ReconnectorIInv, PTL

------------------------------------------------------------------------------
(* Refinement of ReconnectPolicy.                                           *)

(* A fresh reconnector is a fresh policy.                                   *)
LEMMA InitPolicy == Init => Policy!Init
BY DEF Init, Policy!Init

(* Each step of the reconnector is a step of the policy, or hidden from it. *)
LEMMA NextPolicy == IInv /\ [Next]_vars => [Policy!Next]_(Policy!policyVars)
<1>. SUFFICES ASSUME IInv, [Next]_vars
              PROVE  Policy!Next \/ UNCHANGED Policy!policyVars
  OBVIOUS
<1>. USE DEF Policy!policyVars
<1>0. TickInterval \in Nat /\ m_connectTick \in Nat /\ now \in Nat
  BY DueTickBounds DEF IInv, TypeOK
<1>1. ASSUME m_client, Rearm, UNCHANGED <<m_client, m_connectTick, now>>
      PROVE  Policy!Request
  <2>1. m_timerId' \in TimerIds
    BY <1>1 DEF Rearm, FreshIds
  <2>2. m_timerId' # NoTimer
    BY <2>1, ReconnectorAssumption
  <2>. QED  BY <1>1, <2>2 DEF Policy!Request
<1>2. CASE Bind
  <2>1. Policy!Open
    BY <1>2 DEF Bind, Policy!Open
  <2>. QED  BY <2>1 DEF Policy!Next
<1>3. CASE Fini
  <2>1. Policy!Close
    BY <1>3 DEF Fini, Policy!Close
  <2>. QED  BY <2>1 DEF Policy!Next
<1>4. CASE Reconnect \/ AttemptFailed
  <2>1. Policy!Request
    BY <1>1, <1>4 DEF Reconnect, AttemptFailed
  <2>. QED  BY <2>1 DEF Policy!Next
<1>5. ASSUME NEW t \in timers, Fire(t) PROVE UNCHANGED Policy!policyVars
  BY <1>5 DEF Fire
<1>6. ASSUME NEW f \in fired, OnTimer(f)
      PROVE  Policy!Next \/ UNCHANGED Policy!policyVars
  <2>1. CASE IsCurrent(f)
    <3>1. /\ m_client /\ m_client' = m_client
          /\ m_timerId \in TimerIds /\ m_timerId' = NoTimer
          /\ m_connectTick' = f.tick /\ f.tick \in Nat
          /\ f.tick >= m_connectTick + TickInterval /\ f.tick <= now
          /\ now' = now
      BY <1>6, <2>1, CurrentFiring DEF OnTimer
    <3>2. m_timerId # NoTimer /\ ~(m_timerId' # NoTimer)
      BY <3>1, ReconnectorAssumption
    <3>3. m_connectTick' \in (m_connectTick + TickInterval) .. now
      BY <1>0, <3>1
    <3>4. Policy!Attempt
      BY <3>1, <3>2, <3>3 DEF Policy!Attempt
    <3>. QED  BY <3>4 DEF Policy!Next
  <2>2. CASE ~IsCurrent(f)
    BY <1>6, <2>2 DEF OnTimer
  <2>. QED  BY <2>1, <2>2
<1>7. CASE AttemptDone
  BY <1>7 DEF AttemptDone
<1>8. CASE Tick
  <2>1. Policy!Advance
    BY <1>8 DEF Tick, Policy!Advance
  <2>. QED  BY <2>1 DEF Policy!Next
<1>9. CASE UNCHANGED vars
  BY <1>9 DEF vars
<1>. QED
  BY <1>2, <1>3, <1>4, <1>5, <1>6, <1>7, <1>8, <1>9 DEF Next

(* The timer, the ids and the waiting callbacks implement the policy: at    *)
(* most one attempt per request, attempts an interval apart, none for a     *)
(* client that has finished (msg_reconnector.cpp:81-188).                   *)
THEOREM ReconnectorRefinesPolicy == Spec => ImplementsPolicy
<1>. QED
  BY InitPolicy, NextPolicy, ReconnectorIInv, PTL
     DEF Spec, ImplementsPolicy, Policy!Spec
==============================================================================
