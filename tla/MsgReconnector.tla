--------------------------- MODULE MsgReconnector ----------------------------
(****************************************************************************)
(* CMsgReconnector: the timer that spaces the connection attempts of one    *)
(* CMsgClient.  Each method is one critical section of m_lock, so each is   *)
(* one action; a reactor thread that has picked a due timer and waits for   *)
(* m_lock in OnTimer is an element of "fired".                              *)
(*                                                                          *)
(* The reactor (libpronet) is external.  What the code relies on: a timer   *)
(* fires at most once and not before it is due, OnTimer is told the tick at *)
(* which it fired, and CancelTimer does not recall a callback that a        *)
(* reactor thread has already started, which is why OnTimer compares ids.   *)
(****************************************************************************)
EXTENDS Integers

CONSTANTS
  TimerIds,             \* the ids SetupTimer can return
  NoTimer,              \* the value 0 of m_timerId
  IntervalInSeconds,    \* the argument of Reconnect, msgc_reconnect_interval
  TicksPerSecond,       \* 1000 in the code
  MaxTick               \* bound of the model: the last tick of the clock

ASSUME ReconnectorAssumption ==
  /\ NoTimer \notin TimerIds
  /\ IntervalInSeconds \in Nat
  /\ TicksPerSecond \in Nat \ {0}
  /\ MaxTick \in Nat

VARIABLES
  m_client,         \* m_client and m_reactor are set (they change together)
  m_timerId,
  m_connectTick,
  now,              \* ProGetTickCount64()
  timers,           \* the reactor's pending timers of this object
  fired,            \* OnTimer calls that wait for m_lock
  attempts          \* OnTimer calls past m_lock, not yet through Reconnect_i

vars == <<m_client, m_timerId, m_connectTick, now, timers, fired, attempts>>

Timers == [id : TimerIds, due : Nat]
Firings == [id : TimerIds, tick : Nat]

\* The one type invariant (msg_reconnector.h:68-73).
TypeOK ==
  /\ m_client \in BOOLEAN
  /\ m_timerId \in TimerIds \cup {NoTimer}
  /\ m_connectTick \in Nat
  /\ now \in Nat
  /\ timers \subseteq Timers
  /\ fired \subseteq Firings
  /\ attempts \in Nat

------------------------------------------------------------------------------
(* The reactor's timer interface.                                           *)

\* SetupTimer never returns the id of a timer that is pending or running.
FreshIds == {id \in TimerIds : /\ \A t \in timers : t.id # id
                               /\ \A f \in fired : f.id # id}

\* The pending timers that are left once id is cancelled.
CancelTimer(id) == {t \in timers : t.id # id}

------------------------------------------------------------------------------
(* An interval of 0 seconds counts as 1.                                    *)
TickInterval ==
  (IF IntervalInSeconds = 0 THEN 1 ELSE IntervalInSeconds) * TicksPerSecond

\* Mutant of DueTick: the interval is neither raised to 1 nor converted.
DueTickUnconverted == IF m_connectTick + IntervalInSeconds < now
                        THEN now
                        ELSE m_connectTick + IntervalInSeconds

\* When the timer set up now is due: never before the last attempt's tick
\* plus the interval, and at once if that has passed.
DueTick == IF m_connectTick + TickInterval < now
             THEN now
             ELSE m_connectTick + TickInterval

\* Mutant of Rearm: the pending timer is not cancelled.
RearmKeepsTimer ==
  /\ DueTick <= MaxTick
  /\ \E id \in FreshIds :
       /\ timers' = timers \cup {[id |-> id, due |-> DueTick]}
       /\ m_timerId' = id

\* Mutant of Rearm: the id of the first timer is kept.
RearmKeepsId ==
  /\ DueTick <= MaxTick
  /\ \E id \in FreshIds :
       /\ timers' = CancelTimer(m_timerId) \cup {[id |-> id, due |-> DueTick]}
       /\ m_timerId' = IF m_timerId = NoTimer THEN id ELSE m_timerId

\* The pending timer is replaced by one with another id.
Rearm ==
  /\ DueTick <= MaxTick
  /\ \E id \in FreshIds :
       /\ timers' = CancelTimer(m_timerId) \cup {[id |-> id, due |-> DueTick]}
       /\ m_timerId' = id

Init ==
  /\ m_client = FALSE
  /\ m_timerId = NoTimer
  /\ m_connectTick = 0
  /\ now = 0
  /\ timers = {}
  /\ fired = {}
  /\ attempts = 0

\* CMsgReconnector::Init.
Bind ==
  /\ ~m_client
  /\ m_client' = TRUE
  /\ m_connectTick' = now
  /\ UNCHANGED <<m_timerId, now, timers, fired, attempts>>

\* CMsgReconnector::Fini.
Fini ==
  /\ m_client
  /\ timers' = CancelTimer(m_timerId)
  /\ m_timerId' = NoTimer
  /\ m_client' = FALSE
  /\ UNCHANGED <<m_connectTick, now, fired, attempts>>

\* CMsgReconnector::Reconnect, asked for by the application through
\* CMsgClient::Reconnect.
Reconnect ==
  /\ m_client
  /\ Rearm
  /\ UNCHANGED <<m_client, m_connectTick, now, fired, attempts>>

\* A reactor thread takes a due timer out of the queue and calls OnTimer.
Fire(t) ==
  /\ t.due <= now
  /\ timers' = timers \ {t}
  /\ fired' = fired \cup {[id |-> t.id, tick |-> now]}
  /\ UNCHANGED <<m_client, m_timerId, m_connectTick, now, attempts>>

\* Mutant of IsCurrent: the ids are not compared.
IsOpen(f) == m_client

\* The test OnTimer makes under m_lock.
IsCurrent(f) == m_client /\ f.id = m_timerId

\* Mutant of OnTimer: m_timerId is not reset.
OnTimerKeepsId(f) ==
  /\ fired' = fired \ {f}
  /\ IF IsCurrent(f)
       THEN m_connectTick' = f.tick /\ attempts' = attempts + 1
       ELSE UNCHANGED <<m_connectTick, attempts>>
  /\ UNCHANGED <<m_client, m_timerId, now, timers>>

\* Mutant of OnTimer: m_connectTick = timerId, the other 64-bit argument.
OnTimerMixesArgs(f) ==
  /\ fired' = fired \ {f}
  /\ IF IsCurrent(f)
       THEN /\ timers' = CancelTimer(m_timerId) /\ m_timerId' = NoTimer
            /\ m_connectTick' = f.id /\ attempts' = attempts + 1
       ELSE UNCHANGED <<timers, m_timerId, m_connectTick, attempts>>
  /\ UNCHANGED <<m_client, now>>

\* CMsgReconnector::OnTimer, up to the release of m_lock.
OnTimer(f) ==
  /\ fired' = fired \ {f}
  /\ \/ /\ IsCurrent(f)
        /\ timers' = CancelTimer(m_timerId)
        /\ m_timerId' = NoTimer
        /\ m_connectTick' = f.tick
        /\ attempts' = attempts + 1
     \/ /\ ~IsCurrent(f)
        /\ UNCHANGED <<timers, m_timerId, m_connectTick, attempts>>
  /\ UNCHANGED <<m_client, now>>

\* The Reconnect_i call that ends OnTimer opened a connection, or found that
\* the client had been finished.
AttemptDone ==
  /\ attempts > 0
  /\ attempts' = attempts - 1
  /\ UNCHANGED <<m_client, m_timerId, m_connectTick, now, timers, fired>>

\* The Reconnect_i call could not create a connection: it asks again.
AttemptFailed ==
  /\ attempts > 0
  /\ attempts' = attempts - 1
  /\ m_client
  /\ Rearm
  /\ UNCHANGED <<m_client, m_connectTick, now, fired>>

Tick ==
  /\ now < MaxTick
  /\ now' = now + 1
  /\ UNCHANGED <<m_client, m_timerId, m_connectTick, timers, fired, attempts>>

Next ==
  \/ Bind
  \/ Fini
  \/ Reconnect
  \/ \E t \in timers : Fire(t)
  \/ \E f \in fired : OnTimer(f)
  \/ AttemptDone
  \/ AttemptFailed
  \/ Tick

Spec == Init /\ [][Next]_vars

\* The clock advances, reactor threads take due timers, m_lock is granted and
\* Reconnect_i returns.  Nothing obliges the application to call anything.
Fairness ==
  /\ WF_vars(Tick)
  /\ WF_vars(\E t \in timers : Fire(t))
  /\ WF_vars(\E f \in fired : OnTimer(f))
  /\ WF_vars(AttemptDone \/ AttemptFailed)

FairSpec == Spec /\ Fairness

------------------------------------------------------------------------------
(* Properties.                                                              *)

\* A request is never lost: while m_timerId is set, its timer is pending or
\* its callback is on the way to m_lock (msg_reconnector.cpp:133-145,172-178).
ArmedNotLost ==
  m_timerId # NoTimer =>
    \/ \E t \in timers : t.id = m_timerId
    \/ \E f \in fired : f.id = m_timerId

\* The reactor never keeps a timer the object has forgotten: cancelling and
\* re-arming in any order leaves at most the timer that m_timerId names, and
\* none after Fini (msg_reconnector.cpp:94-95,133-145).
NoOrphanTimer ==
  \A t, u \in timers : t = u /\ t.id = m_timerId /\ m_client

\* The current timer, pending or already fired, is dated at least one interval
\* after the last attempt, however often Reconnect moved it
\* (msg_reconnector.cpp:136-145,180).
DueSpaced ==
  /\ \A t \in timers : t.due >= m_connectTick + TickInterval
  /\ \A f \in fired : f.id = m_timerId => f.tick >= m_connectTick + TickInterval

\* The reconnector implements the policy.
Policy == INSTANCE ReconnectPolicy
            WITH MinGap <- TickInterval,
                 open <- m_client,
                 requested <- m_timerId # NoTimer,
                 last <- m_connectTick,
                 clock <- now

\* What CMsgClient may rely on: attempts only on request, one for any number
\* of requests, one interval apart, none after Fini
\* (msg_reconnector.cpp:81-188).
ImplementsPolicy == Policy!Spec

\* Once the application stops asking again, a request that is set up leads to
\* an attempt, or the client lets go of the reconnector.
RequestServed ==
  <>[][~Reconnect]_vars =>
    ((m_timerId # NoTimer) ~> (attempts > 0 \/ ~m_client))
==============================================================================
