------------------------------ MODULE MsgClient2 -----------------------------
(****************************************************************************)
(* CMsgClient2: a CMsgClient that passes events on to an observer.  Init    *)
(* sets the observer and the base class in one section of m_lock (the lock  *)
(* is recursive); Fini takes the observer away in a section of its own,     *)
(* releases it, and then finishes the base class.  This module composes     *)
(* MsgClient with the observer: every action is one of MsgClient's, or one  *)
(* of the observer's steps around it.                                       *)
(****************************************************************************)
EXTENDS Integers, FiniteSets

CONSTANTS Users, Workers, Conns, Recs, Ssls, TimerIds, NULL, Redlines, W,
          Observers     \* IMsgClientObserver objects of the application

VARIABLES
  m_reactor, m_msgClient, m_reconnector, m_sslConfig, m_redline, refs,
  open, crefs, cssl, cred, bound, rtimer, rrefs, onTimer, sslLive, holds,
  pc, lconn, lrec, lssl, ltimer,    \* MsgClient's variables
  m_observer,
  lobs,     \* the observer a thread releases or delivers to, or NULL
  place,    \* where a user is in CMsgClient2::Fini, before CMsgClient::Fini
  orefs,    \* reference counts of the observers
  kept,     \* the observers the application itself still refers to
  owner     \* history: m_observer when the connection became the client's

C == INSTANCE MsgClient

ASSUME Client2Assumption == C!ClientAssumption /\ NULL \notin Observers

observerVars == <<m_observer, lobs, place, orefs, kept, owner>>

\* All of MsgClient's variables but the threads' places, and all of them.
baseVars == <<m_reactor, m_msgClient, m_reconnector, m_sslConfig, m_redline,
              refs, open, crefs, cssl, cred, bound, rtimer, rrefs, onTimer,
              sslLive, holds, lconn, lrec, lssl, ltimer>>
clientVars == <<baseVars, pc>>

vars == <<clientVars, observerVars>>

Places == {"out", "relObs", "baseFini"}

\* The one type invariant.
TypeOK ==
  /\ C!TypeOK
  /\ m_observer \in Observers \cup {NULL}
  /\ lobs \in [C!Threads -> Observers \cup {NULL}]
  /\ \A w \in Workers : pc[w] = "deliver" => lobs[w] \in Observers
  /\ place \in [Users -> Places]
  /\ orefs \in [Observers -> Nat]
  /\ kept \subseteq Observers
  /\ owner \in [Conns -> Observers \cup {NULL}]

Init ==
  /\ C!Init
  /\ m_observer = NULL
  /\ lobs = [t \in C!Threads |-> NULL]
  /\ place = [u \in Users |-> "out"]
  /\ orefs = [o \in Observers |-> 1]
  /\ kept = Observers
  /\ owner = [c \in Conns |-> NULL]

Calls(u) == C!Calls(u) /\ place[u] = "out"

\* Mutant of Init2: the observer is set in a section of its own, after the
\* base class has been initialised.
Init2ObserverLater(u, o) ==
  /\ Calls(u)
  /\ o \in kept
  /\ m_observer = NULL
  /\ \/ /\ C!InitOk(u)
        /\ owner' = [owner EXCEPT ![m_msgClient'] = o]
        /\ UNCHANGED <<m_observer, orefs>>
     \/ /\ m_reactor /\ \A v \in Users : place[v] = "out"
        /\ m_observer' = o
        /\ orefs' = [orefs EXCEPT ![o] = @ + 1]
        /\ UNCHANGED <<clientVars, owner>>
  /\ UNCHANGED <<lobs, place, kept>>

\* CMsgClient2::Init that succeeds.  When CMsgClient::Init fails, m_lock keeps
\* its error path out of sight.
Init2(u, o) ==
  /\ Calls(u)
  /\ o \in kept
  /\ m_observer = NULL
  /\ C!InitOk(u)
  /\ m_observer' = o
  /\ orefs' = [orefs EXCEPT ![o] = @ + 1]
  /\ owner' = [owner EXCEPT ![m_msgClient'] = o]
  /\ UNCHANGED <<lobs, place, kept>>

\* CMsgClient2::Fini, under m_lock.
FiniObserver(u) ==
  /\ Calls(u)
  /\ m_observer # NULL
  /\ lobs' = [lobs EXCEPT ![u] = m_observer]
  /\ m_observer' = NULL
  /\ place' = [place EXCEPT ![u] = "relObs"]
  /\ UNCHANGED <<clientVars, orefs, kept, owner>>

ReleaseObserver(u) ==
  /\ place[u] = "relObs"
  /\ orefs' = [orefs EXCEPT ![lobs[u]] = @ - 1]
  /\ lobs' = [lobs EXCEPT ![u] = NULL]
  /\ place' = [place EXCEPT ![u] = "baseFini"]
  /\ UNCHANGED <<clientVars, m_observer, kept, owner>>

\* CMsgClient::Fini, called last.
BaseFini(u) ==
  /\ place[u] = "baseFini"
  /\ C!FiniLocked(u)
  /\ place' = [place EXCEPT ![u] = "out"]
  /\ UNCHANGED <<m_observer, lobs, orefs, kept, owner>>

\* The calls CMsgClient2 inherits, and the rest of the base class's Fini.
Inherited(u) ==
  /\ \/ Calls(u) /\ (C!SendBegin(u) \/ C!SetOutputRedline(u) \/ C!Reconnect(u))
     \/ Calls(u) /\ \E v \in Users : place[v] = "out" /\ C!AddRef(u, v)
     \/ Calls(u) /\ C!Release(u)
     \/ C!UserReturns(u)
  /\ UNCHANGED observerVars

\* The application drops its own reference to an observer.
Forget(o) ==
  /\ o \in kept
  /\ kept' = kept \ {o}
  /\ orefs' = [orefs EXCEPT ![o] = @ - 1]
  /\ UNCHANGED <<clientVars, m_observer, lobs, place, owner>>

------------------------------------------------------------------------------
\* Timers and the library's part of callbacks.
Base(w) ==
  /\ \/ C!WorkerBegins(w)
     \/ C!OnTimer(w) \/ C!ReconnectAgain(w) \/ C!ReconnectClosed(w)
     \/ C!DeleteOld(w) \/ C!RelTimer(w) \/ C!RelRec(w)
  /\ UNCHANGED observerVars

Swap(w) ==
  /\ C!ReconnectSwap(w)
  /\ owner' = [owner EXCEPT ![m_msgClient'] = m_observer]
  /\ UNCHANGED <<m_observer, lobs, place, orefs, kept>>

\* Mutant of CbCheck: events of a replaced connection are passed on.
CbCheckAnyConn(w) ==
  /\ pc[w] = "callback"
  /\ m_observer # NULL
  /\ orefs' = [orefs EXCEPT ![m_observer] = @ + 1]
  /\ lobs' = [lobs EXCEPT ![w] = m_observer]
  /\ C!Goto(w, "deliver")
  /\ UNCHANGED <<baseVars, m_observer, place, kept, owner>>

\* Mutant of CbCheck: the observer is used without a reference.
CbCheckNoRef(w) ==
  /\ pc[w] = "callback"
  /\ m_observer # NULL /\ m_msgClient = lconn[w]
  /\ lobs' = [lobs EXCEPT ![w] = m_observer]
  /\ C!Goto(w, "deliver")
  /\ UNCHANGED <<baseVars, m_observer, place, orefs, kept, owner>>

\* Mutant of CbCheck: the base class's test, that the reactor is set.
CbCheckOfBase(w) ==
  /\ pc[w] = "callback"
  /\ m_reactor /\ m_msgClient = lconn[w]
  /\ lobs' = [lobs EXCEPT ![w] = m_observer]
  /\ orefs' = [o \in Observers |-> orefs[o] + C!One(o = m_observer)]
  /\ C!Goto(w, "deliver")
  /\ UNCHANGED <<baseVars, m_observer, place, kept, owner>>

\* The section of m_lock that OnOkMsg, OnRecvMsg, OnCloseMsg and
\* OnHeartbeatMsg start with.
CbCheck(w) ==
  /\ pc[w] = "callback"
  /\ \/ /\ m_observer # NULL /\ m_msgClient = lconn[w]
        /\ orefs' = [orefs EXCEPT ![m_observer] = @ + 1]
        /\ lobs' = [lobs EXCEPT ![w] = m_observer]
        /\ C!Goto(w, "deliver")
     \/ /\ m_observer = NULL \/ m_msgClient # lconn[w]
        /\ C!Goto(w, "cbEnd")
        /\ UNCHANGED <<orefs, lobs>>
  /\ UNCHANGED <<baseVars, m_observer, place, kept, owner>>

\* The observer's method returns, the observer is released, and the library
\* ends the callback.
CbEnd(w) ==
  /\ C!CbEnd(w)
  /\ orefs' = [o \in Observers |-> orefs[o] - C!One(o = lobs[w])]
  /\ lobs' = [lobs EXCEPT ![w] = NULL]
  /\ UNCHANGED <<m_observer, place, kept, owner>>

Next ==
  \/ \E u \in Users :
       \/ \E o \in Observers : Init2(u, o)
       \/ FiniObserver(u) \/ ReleaseObserver(u) \/ BaseFini(u)
       \/ Inherited(u)
  \/ \E o \in Observers : Forget(o)
  \/ \E w \in Workers : Base(w) \/ Swap(w) \/ CbCheck(w) \/ CbEnd(w)
  \/ C!Abandoned /\ UNCHANGED observerVars

Spec == Init /\ [][Next]_vars

------------------------------------------------------------------------------
(* Properties.                                                              *)

\* The users between the two halves of CMsgClient2::Fini.
InFini == {u \in Users : place[u] # "out"}

\* While there is a connection there is an observer for its events, but for
\* the gap inside one thread's Fini: no first event of a connection is dropped
\* because Init has not set the observer yet (msg_client2.cpp:65-82,92-106).
Observed ==
  /\ m_msgClient # NULL <=> (m_observer # NULL \/ InFini # {})
  /\ m_observer # NULL => InFini = {}
  /\ \A u, v \in InFini : u = v

\* An observer lives as long as the application, the client, a thread in Fini
\* or a delivery refers to it (msg_client2.cpp:80,104,138,168).
ObserverRefs ==
  \A o \in Observers :
    orefs[o] = C!One(o \in kept) + C!One(o = m_observer)
                 + Cardinality({t \in C!Threads : lobs[t] = o})

\* An event is delivered to the observer its connection was made for, even if
\* the client was finished and initialised again with another observer between
\* the event and its delivery (msg_client2.cpp:126-140).
RightObserver ==
  \A w \in Workers : pc[w] = "deliver" => lobs[w] = owner[lconn[w]]

\* What the assertions at the top of CMsgClient::Init say of a call that
\* CMsgClient2::Init lets through: the base class is not initialised
\* (msg_client.cpp:301-304, msg_client2.cpp:68-75).
InitAssertions ==
  \A u \in Users :
    Calls(u) /\ m_observer = NULL =>
      /\ ~m_reactor
      /\ m_sslConfig = NULL /\ m_msgClient = NULL /\ m_reconnector = NULL
==============================================================================
