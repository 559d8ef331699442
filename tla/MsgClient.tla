------------------------------ MODULE MsgClient ------------------------------
(****************************************************************************)
(* One CMsgClient, the CMsgReconnector it creates, and the objects of the   *)
(* library (libpronet, external) they own: message connections, the TLS     *)
(* configuration and reactor timers.  Users are application threads that    *)
(* call the client; workers are reactor threads that run timers and         *)
(* callbacks.  Code under m_lock is one action; code after the unlock is    *)
(* one action per call, so that every interleaving the locks allow is here. *)
(*                                                                          *)
(* Objects are addresses from finite pools that are reused once free, as an *)
(* allocator does.  When MsgReconnector dates its timers, this module drops *)
(* the clock: a pending timer may fire at any moment.                       *)
(*                                                                          *)
(* Calls made from inside a callback need no actions of their own: m_lock   *)
(* is free while a callback is delivered, so such a call has the effect of  *)
(* the same call made by a user at that moment.                             *)
(****************************************************************************)
EXTENDS Integers, FiniteSets

CONSTANTS
  Users, Workers,   \* application threads, reactor threads
  Conns,            \* IRtpMsgClient objects
  Recs,             \* CMsgReconnector objects
  Ssls,             \* PRO_SSL_CLIENT_CONFIG objects
  TimerIds,         \* ids of reactor timers
  NULL,             \* a null pointer, and the timer id 0
  Redlines,         \* arguments of SetOutputRedline (size_t)
  W                 \* 2^32 in the code: values of an unsigned int

ASSUME ClientAssumption ==
  /\ NULL \notin Conns \cup Recs \cup Ssls \cup TimerIds
  /\ Users \cap Workers = {}
  /\ IsFiniteSet(Users) /\ IsFiniteSet(Workers) /\ IsFiniteSet(TimerIds)
  /\ IsFiniteSet(Conns) /\ IsFiniteSet(Recs)
  /\ Redlines \subseteq Nat
  /\ W \in Nat \ {0}

Threads == Users \cup Workers

VARIABLES
  m_reactor,        \* the pointer is set
  m_msgClient, m_reconnector, m_sslConfig,
  m_redline,        \* m_msgConfigInfo.msgc_redline_bytes
  refs,             \* the CProRefCount of the client
  open,             \* connections created and not yet deleted
  crefs, cssl, cred,    \* of a connection: references, TLS config, redline
  bound,            \* reconnectors whose m_client is set
  rtimer, rrefs,    \* of a reconnector: m_timerId, references
  onTimer,          \* the reconnector each pending timer calls, or NULL
  sslLive,          \* TLS configurations created and not deleted
  holds,            \* the users that own a reference to the client
  pc, lconn, lrec, lssl, ltimer     \* each thread's place and locals

fields == <<m_reactor, m_msgClient, m_reconnector, m_sslConfig>>
connVars == <<open, crefs, cssl, cred>>
recVars == <<bound, rtimer, rrefs, onTimer>>
locals == <<lconn, lrec, lssl, ltimer>>
vars == <<fields, m_redline, refs, connVars, recVars, sslLive, holds, pc,
          locals>>

UserPlaces == {"idle", "send", "exit", "finiRec", "finiRel", "finiConn",
               "finiSsl"}
WorkerPlaces == {"idle", "timer", "reconn", "delOld", "relTimer", "relRec",
                 "callback", "deliver", "cbEnd"}

\* The one type invariant.
TypeOK ==
  /\ m_reactor \in BOOLEAN
  /\ m_msgClient \in Conns \cup {NULL}
  /\ m_reconnector \in Recs \cup {NULL}
  /\ m_sslConfig \in Ssls \cup {NULL}
  /\ m_redline \in 0 .. (W - 1)
  /\ refs \in Int
  /\ open \subseteq Conns
  /\ crefs \in [Conns -> Int]
  /\ cssl \in [Conns -> Ssls \cup {NULL}]
  /\ cred \in [Conns -> Nat]
  /\ bound \subseteq Recs
  /\ rtimer \in [Recs -> TimerIds \cup {NULL}]
  /\ rrefs \in [Recs -> Int]
  /\ onTimer \in [TimerIds -> Recs \cup {NULL}]
  /\ sslLive \subseteq Ssls
  /\ holds \subseteq Users
  /\ pc \in [Threads -> UserPlaces \cup WorkerPlaces]
  /\ \A u \in Users : pc[u] \in UserPlaces
  /\ \A w \in Workers : pc[w] \in WorkerPlaces
  /\ lconn \in [Threads -> Conns \cup {NULL}]
  /\ lrec \in [Threads -> Recs \cup {NULL}]
  /\ lssl \in [Threads -> Ssls \cup {NULL}]
  /\ ltimer \in [Threads -> TimerIds \cup {NULL}]

------------------------------------------------------------------------------
(* Helpers.                                                                 *)

Goto(t, place) == pc' = [pc EXCEPT ![t] = place]

\* An address can be allocated once nothing refers to the object it held.
FreeConns == {c \in Conns \ open : crefs[c] = 0}
FreeRecs == {r \in Recs \ bound : rrefs[r] = 0}
FreeSsls == Ssls \ sslLive

\* SetupTimer never returns the id of a timer that is pending or running.
FreshIds == {i \in TimerIds : onTimer[i] = NULL /\ \A t \in Threads : ltimer[t] # i}

\* The pending timers once timer i is cancelled.
CancelTimer(i) == [j \in TimerIds |-> IF j = i THEN NULL ELSE onTimer[j]]

\* References to the reconnector that cancelling timer i drops.
Pending(i) == IF i # NULL /\ onTimer[i] # NULL THEN 1 ELSE 0

\* CreateRtpMsgClient followed by SetOutputRedline: the connection holds a
\* reference to its observer, the client, and the creator holds one to it.
CreateConn(c, s, v) ==
  /\ open' = open \cup {c}
  /\ crefs' = [crefs EXCEPT ![c] = 1]
  /\ cssl' = [cssl EXCEPT ![c] = s]
  /\ cred' = [cred EXCEPT ![c] = v]

\* DeleteRtpMsgClient: no callback starts any more, the reference to the
\* observer and the creator's reference are dropped.
DeleteConn(c) ==
  /\ open' = open \ {c}
  /\ crefs' = [crefs EXCEPT ![c] = @ - 1]
  /\ UNCHANGED <<cssl, cred>>

\* CMsgReconnector::Reconnect under its m_lock.
Rearm(r) ==
  \/ /\ r \in bound
     /\ \E i \in FreshIds :
          /\ onTimer' = [CancelTimer(rtimer[r]) EXCEPT ![i] = r]
          /\ rtimer' = [rtimer EXCEPT ![r] = i]
          /\ rrefs' = [rrefs EXCEPT ![r] = @ + 1 - Pending(rtimer[r])]
     /\ UNCHANGED bound
  \/ /\ r \notin bound
     /\ UNCHANGED recVars

------------------------------------------------------------------------------
(* CMsgClient::CreateInstance: one user owns the new client.                *)
Init ==
  /\ m_reactor = FALSE
  /\ m_msgClient = NULL /\ m_reconnector = NULL /\ m_sslConfig = NULL
  /\ m_redline = 0
  /\ refs = 1
  /\ open = {}
  /\ crefs = [c \in Conns |-> 0]
  /\ cssl = [c \in Conns |-> NULL]
  /\ cred = [c \in Conns |-> 0]
  /\ bound = {}
  /\ rtimer = [r \in Recs |-> NULL]
  /\ rrefs = [r \in Recs |-> 0]
  /\ onTimer = [i \in TimerIds |-> NULL]
  /\ sslLive = {}
  /\ \E u \in Users : holds = {u}
  /\ pc = [t \in Threads |-> "idle"]
  /\ lconn = [t \in Threads |-> NULL]
  /\ lrec = [t \in Threads |-> NULL]
  /\ lssl = [t \in Threads |-> NULL]
  /\ ltimer = [t \in Threads |-> NULL]

\* A user that owns a reference calls the client.
Calls(u) == u \in holds /\ pc[u] = "idle"

\* CMsgClient::Init that succeeds: a TLS configuration or none, a connection,
\* a reconnector bound to the client.
InitOk(u) ==
  /\ Calls(u)
  /\ ~m_reactor /\ m_sslConfig = NULL /\ m_msgClient = NULL
  /\ m_reconnector = NULL
  /\ \E c \in FreeConns, r \in FreeRecs, s \in FreeSsls \cup {NULL},
        v \in {x \in Redlines : x < W} :
       /\ CreateConn(c, s, v)
       /\ bound' = bound \cup {r}
       /\ rtimer' = [rtimer EXCEPT ![r] = NULL]
       /\ rrefs' = [rrefs EXCEPT ![r] = 1]
       /\ sslLive' = sslLive \cup ({s} \ {NULL})
       /\ m_msgClient' = c
       /\ m_reconnector' = r
       /\ m_sslConfig' = s
       /\ m_redline' = v
  /\ m_reactor' = TRUE
  /\ refs' = refs + 2
  /\ UNCHANGED <<onTimer, holds, pc, locals>>

\* CMsgClient::Init that fails after it created the TLS configuration: EXIT
\* is reached outside m_lock.
InitFail(u) ==
  /\ Calls(u)
  /\ ~m_reactor /\ m_sslConfig = NULL /\ m_msgClient = NULL
  /\ m_reconnector = NULL
  /\ \E s \in FreeSsls :
       /\ sslLive' = sslLive \cup {s}
       /\ lssl' = [lssl EXCEPT ![u] = s]
  /\ Goto(u, "exit")
  /\ UNCHANGED <<fields, m_redline, refs, connVars, recVars, holds, lconn,
                 lrec, ltimer>>

ExitSsl(u) ==
  /\ pc[u] = "exit"
  /\ sslLive' = sslLive \ {lssl[u]}
  /\ lssl' = [lssl EXCEPT ![u] = NULL]
  /\ Goto(u, "idle")
  /\ UNCHANGED <<fields, m_redline, refs, connVars, recVars, holds, lconn,
                 lrec, ltimer>>

\* Mutant of FiniLocked: the TLS configuration is deleted under m_lock.
FiniLockedSslFirst(u) ==
  /\ Calls(u)
  /\ m_reactor
  /\ lrec' = [lrec EXCEPT ![u] = m_reconnector]
  /\ lconn' = [lconn EXCEPT ![u] = m_msgClient]
  /\ sslLive' = sslLive \ {m_sslConfig}
  /\ m_reconnector' = NULL /\ m_msgClient' = NULL
  /\ m_sslConfig' = NULL /\ m_reactor' = FALSE
  /\ Goto(u, "finiRec")
  /\ UNCHANGED <<m_redline, refs, connVars, recVars, holds, lssl, ltimer>>

\* CMsgClient::Fini, under m_lock.
FiniLocked(u) ==
  /\ Calls(u)
  /\ m_reactor
  /\ lrec' = [lrec EXCEPT ![u] = m_reconnector]
  /\ lconn' = [lconn EXCEPT ![u] = m_msgClient]
  /\ lssl' = [lssl EXCEPT ![u] = m_sslConfig]
  /\ m_reconnector' = NULL
  /\ m_msgClient' = NULL
  /\ m_sslConfig' = NULL
  /\ m_reactor' = FALSE
  /\ Goto(u, "finiRec")
  /\ UNCHANGED <<m_redline, refs, connVars, recVars, sslLive, holds, ltimer>>

\* Mutant of FiniRec: the timer is not cancelled.
FiniRecKeepsTimer(u) ==
  /\ pc[u] = "finiRec"
  /\ lrec[u] \in bound
  /\ rtimer' = [rtimer EXCEPT ![lrec[u]] = NULL]
  /\ bound' = bound \ {lrec[u]}
  /\ Goto(u, "finiRel")
  /\ UNCHANGED <<fields, m_redline, refs, connVars, rrefs, onTimer, sslLive,
                 holds, locals>>

\* reconnector->Fini under the reconnector's m_lock.
FiniRec(u) ==
  /\ pc[u] = "finiRec"
  /\ LET r == lrec[u]
     IN /\ r \in bound
        /\ onTimer' = CancelTimer(rtimer[r])
        /\ rrefs' = [rrefs EXCEPT ![r] = @ - Pending(rtimer[r])]
        /\ rtimer' = [rtimer EXCEPT ![r] = NULL]
        /\ bound' = bound \ {r}
  /\ Goto(u, "finiRel")
  /\ UNCHANGED <<fields, m_redline, refs, connVars, sslLive, holds, locals>>

\* The reconnector releases the client, the client releases the reconnector.
FiniRel(u) ==
  /\ pc[u] = "finiRel"
  /\ refs' = refs - 1
  /\ rrefs' = [rrefs EXCEPT ![lrec[u]] = @ - 1]
  /\ lrec' = [lrec EXCEPT ![u] = NULL]
  /\ Goto(u, "finiConn")
  /\ UNCHANGED <<fields, m_redline, connVars, bound, rtimer, onTimer, sslLive,
                 holds, lconn, lssl, ltimer>>

FiniConn(u) ==
  /\ pc[u] = "finiConn"
  /\ DeleteConn(lconn[u])
  /\ refs' = refs - 1
  /\ lconn' = [lconn EXCEPT ![u] = NULL]
  /\ Goto(u, "finiSsl")
  /\ UNCHANGED <<fields, m_redline, recVars, sslLive, holds, lrec, lssl,
                 ltimer>>

FiniSsl(u) ==
  /\ pc[u] = "finiSsl"
  /\ sslLive' = sslLive \ {lssl[u]}
  /\ lssl' = [lssl EXCEPT ![u] = NULL]
  /\ Goto(u, "idle")
  /\ UNCHANGED <<fields, m_redline, refs, connVars, recVars, holds, lconn,
                 lrec, ltimer>>

\* Mutant of SendBegin: the connection is used without a reference.
SendBeginNoRef(u) ==
  /\ Calls(u)
  /\ m_reactor /\ m_msgClient # NULL
  /\ lconn' = [lconn EXCEPT ![u] = m_msgClient]
  /\ Goto(u, "send")
  /\ UNCHANGED <<fields, m_redline, refs, connVars, recVars, sslLive, holds,
                 lrec, lssl, ltimer>>

\* CMsgClient::SendMsg2: the connection is kept alive across the unlock.
SendBegin(u) ==
  /\ Calls(u)
  /\ m_reactor /\ m_msgClient # NULL
  /\ crefs' = [crefs EXCEPT ![m_msgClient] = @ + 1]
  /\ lconn' = [lconn EXCEPT ![u] = m_msgClient]
  /\ Goto(u, "send")
  /\ UNCHANGED <<fields, m_redline, refs, open, cssl, cred, recVars, sslLive,
                 holds, lrec, lssl, ltimer>>

SendEnd(u) ==
  /\ pc[u] = "send"
  /\ crefs' = [crefs EXCEPT ![lconn[u]] = @ - 1]
  /\ lconn' = [lconn EXCEPT ![u] = NULL]
  /\ Goto(u, "idle")
  /\ UNCHANGED <<fields, m_redline, refs, open, cssl, cred, recVars, sslLive,
                 holds, lrec, lssl, ltimer>>

\* Mutant of SetOutputRedline: the configuration keeps a size_t.
SetOutputRedlineUncut(u) ==
  /\ Calls(u)
  /\ m_reactor /\ m_msgClient # NULL
  /\ \E v \in Redlines : cred' = [cred EXCEPT ![m_msgClient] = v]
                        /\ m_redline' = v
  /\ UNCHANGED <<fields, refs, open, crefs, cssl, recVars, sslLive, holds, pc,
                 locals>>

\* CMsgClient::SetOutputRedline: the size_t goes to the connection, what it
\* reports goes to the configuration, cut to an unsigned int.
SetOutputRedline(u) ==
  /\ Calls(u)
  /\ m_reactor /\ m_msgClient # NULL
  /\ \E v \in Redlines :
       /\ cred' = [cred EXCEPT ![m_msgClient] = v]
       /\ m_redline' = v % W
  /\ UNCHANGED <<fields, refs, open, crefs, cssl, recVars, sslLive, holds, pc,
                 locals>>

\* CMsgClient::Reconnect.
Reconnect(u) ==
  /\ Calls(u)
  /\ m_reactor /\ m_reconnector # NULL
  /\ Rearm(m_reconnector)
  /\ UNCHANGED <<fields, m_redline, refs, connVars, sslLive, holds, pc, locals>>

\* A user hands a reference to another user.
AddRef(u, v) ==
  /\ Calls(u)
  /\ v \in Users \ holds /\ pc[v] = "idle"
  /\ refs' = refs + 1
  /\ holds' = holds \cup {v}
  /\ UNCHANGED <<fields, m_redline, connVars, recVars, sslLive, pc, locals>>

Release(u) ==
  /\ Calls(u)
  /\ refs' = refs - 1
  /\ holds' = holds \ {u}
  /\ UNCHANGED <<fields, m_redline, connVars, recVars, sslLive, pc, locals>>

------------------------------------------------------------------------------
(* Reactor threads.                                                         *)

\* The reactor's reference to the reconnector moves to the running callback.
Fire(w, i) ==
  /\ pc[w] = "idle"
  /\ onTimer[i] # NULL
  /\ lrec' = [lrec EXCEPT ![w] = onTimer[i]]
  /\ ltimer' = [ltimer EXCEPT ![w] = i]
  /\ onTimer' = [onTimer EXCEPT ![i] = NULL]
  /\ Goto(w, "timer")
  /\ UNCHANGED <<fields, m_redline, refs, connVars, bound, rtimer, rrefs,
                 sslLive, holds, lconn, lssl>>

\* CMsgReconnector::OnTimer under its m_lock.
OnTimer(w) ==
  /\ pc[w] = "timer"
  /\ \/ /\ lrec[w] \in bound
        /\ ltimer[w] = rtimer[lrec[w]]
        /\ rtimer' = [rtimer EXCEPT ![lrec[w]] = NULL]
        /\ refs' = refs + 1
        /\ Goto(w, "reconn")
     \/ /\ lrec[w] \notin bound \/ ltimer[w] # rtimer[lrec[w]]
        /\ Goto(w, "relRec")
        /\ UNCHANGED <<rtimer, refs>>
  /\ ltimer' = [ltimer EXCEPT ![w] = NULL]
  /\ UNCHANGED <<fields, m_redline, connVars, bound, rrefs, onTimer, sslLive,
                 holds, lconn, lrec, lssl>>

\* Mutant of ReconnectSwap, with its three parts replaceable: a client that is
\* finished is served too, the old connection is forgotten, the new one keeps
\* the library's redline.
ReconnectSwapAs(w, serves, after, redline) ==
  /\ pc[w] = "reconn"
  /\ serves
  /\ \E c \in FreeConns : CreateConn(c, m_sslConfig, redline) /\ m_msgClient' = c
  /\ refs' = refs + 1
  /\ lconn' = [lconn EXCEPT ![w] = IF after = "delOld" THEN m_msgClient ELSE NULL]
  /\ Goto(w, after)
  /\ UNCHANGED <<m_reactor, m_reconnector, m_sslConfig, m_redline, recVars,
                 sslLive, holds, lrec, lssl, ltimer>>

ReconnectSwapUnguarded(w) == ReconnectSwapAs(w, TRUE, "delOld", m_redline)
ReconnectSwapLeaks(w) == ReconnectSwapAs(w, m_reactor, "relTimer", m_redline)
ReconnectSwapNoRedline(w) == ReconnectSwapAs(w, m_reactor, "delOld", 0)

\* CMsgClient::Reconnect_i under m_lock: the new connection takes the place of
\* the old one, which is deleted after the unlock.
ReconnectSwap(w) ==
  /\ pc[w] = "reconn"
  /\ m_reactor /\ m_reconnector # NULL
  /\ \E c \in FreeConns :
       /\ CreateConn(c, m_sslConfig, m_redline)
       /\ m_msgClient' = c
  /\ refs' = refs + 1
  /\ lconn' = [lconn EXCEPT ![w] = m_msgClient]
  /\ Goto(w, "delOld")
  /\ UNCHANGED <<m_reactor, m_reconnector, m_sslConfig, m_redline, recVars,
                 sslLive, holds, lrec, lssl, ltimer>>

\* Mutant of ReconnectAgain: no further attempt.
ReconnectAgainNot(w) ==
  /\ pc[w] = "reconn"
  /\ m_reactor /\ m_reconnector # NULL
  /\ Goto(w, "relTimer")
  /\ UNCHANGED <<fields, m_redline, refs, connVars, recVars, sslLive, holds,
                 locals>>

\* CreateRtpMsgClient fails: the next attempt is set up.
ReconnectAgain(w) ==
  /\ pc[w] = "reconn"
  /\ m_reactor /\ m_reconnector # NULL
  /\ Rearm(m_reconnector)
  /\ Goto(w, "relTimer")
  /\ UNCHANGED <<fields, m_redline, refs, connVars, sslLive, holds, locals>>

\* The client has been finished in the meantime.
ReconnectClosed(w) ==
  /\ pc[w] = "reconn"
  /\ ~m_reactor \/ m_reconnector = NULL
  /\ Goto(w, "relTimer")
  /\ UNCHANGED <<fields, m_redline, refs, connVars, recVars, sslLive, holds,
                 locals>>

DeleteOld(w) ==
  /\ pc[w] = "delOld"
  /\ DeleteConn(lconn[w])
  /\ refs' = refs - 1
  /\ lconn' = [lconn EXCEPT ![w] = NULL]
  /\ Goto(w, "relTimer")
  /\ UNCHANGED <<fields, m_redline, recVars, sslLive, holds, lrec, lssl,
                 ltimer>>

\* Mutant of RelTimer: the reference OnTimer took is not given back.
RelTimerForgets(w) ==
  /\ pc[w] = "relTimer"
  /\ Goto(w, "relRec")
  /\ UNCHANGED <<fields, m_redline, refs, connVars, recVars, sslLive, holds,
                 locals>>

\* OnTimer's client->Release.
RelTimer(w) ==
  /\ pc[w] = "relTimer"
  /\ refs' = refs - 1
  /\ Goto(w, "relRec")
  /\ UNCHANGED <<fields, m_redline, connVars, recVars, sslLive, holds, locals>>

\* The reactor's own release once OnTimer has returned.
RelRec(w) ==
  /\ pc[w] = "relRec"
  /\ rrefs' = [rrefs EXCEPT ![lrec[w]] = @ - 1]
  /\ lrec' = [lrec EXCEPT ![w] = NULL]
  /\ Goto(w, "idle")
  /\ UNCHANGED <<fields, m_redline, refs, connVars, bound, rtimer, onTimer,
                 sslLive, holds, lconn, lssl, ltimer>>

\* An open connection starts one of the observer's callbacks: the library
\* holds references to the connection and to the observer meanwhile.
CbBegin(w, c) ==
  /\ pc[w] = "idle"
  /\ c \in open
  /\ crefs' = [crefs EXCEPT ![c] = @ + 1]
  /\ refs' = refs + 1
  /\ lconn' = [lconn EXCEPT ![w] = c]
  /\ Goto(w, "callback")
  /\ UNCHANGED <<fields, m_redline, open, cssl, cred, recVars, sslLive, holds,
                 lrec, lssl, ltimer>>

\* The section of m_lock that OnOkMsg, OnRecvMsg and OnCloseMsg start with.
CbCheck(w) ==
  /\ pc[w] = "callback"
  /\ \/ /\ m_reactor /\ m_msgClient = lconn[w]
        /\ Goto(w, "deliver")
     \/ /\ ~m_reactor \/ m_msgClient # lconn[w]
        /\ Goto(w, "cbEnd")
  /\ UNCHANGED <<fields, m_redline, refs, connVars, recVars, sslLive, holds,
                 locals>>

CbEnd(w) ==
  /\ pc[w] \in {"deliver", "cbEnd"}
  /\ crefs' = [crefs EXCEPT ![lconn[w]] = @ - 1]
  /\ refs' = refs - 1
  /\ lconn' = [lconn EXCEPT ![w] = NULL]
  /\ Goto(w, "idle")
  /\ UNCHANGED <<fields, m_redline, open, cssl, cred, recVars, sslLive, holds,
                 lrec, lssl, ltimer>>

------------------------------------------------------------------------------
\* The rest of a call that a user has begun.
UserReturns(u) ==
  \/ ExitSsl(u) \/ SendEnd(u)
  \/ FiniRec(u) \/ FiniRel(u) \/ FiniConn(u) \/ FiniSsl(u)

UserCalls(u) ==
  \/ InitOk(u) \/ InitFail(u) \/ FiniLocked(u) \/ SendBegin(u)
  \/ SetOutputRedline(u) \/ Reconnect(u) \/ Release(u)
  \/ \E v \in Users : AddRef(u, v)

\* The rest of a timer or callback that a worker has begun.
WorkerReturns(w) ==
  \/ OnTimer(w)
  \/ ReconnectSwap(w) \/ ReconnectAgain(w) \/ ReconnectClosed(w)
  \/ DeleteOld(w) \/ RelTimer(w) \/ RelRec(w)
  \/ CbCheck(w) \/ CbEnd(w)

WorkerBegins(w) ==
  \/ \E i \in TimerIds : Fire(w, i)
  \/ \E c \in Conns : CbBegin(w, c)

\* Nobody is left to call the client and no thread is inside it.
Abandoned ==
  /\ holds = {}
  /\ \A t \in Threads : pc[t] = "idle"
  /\ UNCHANGED vars

Next ==
  \/ \E u \in Users : UserCalls(u) \/ UserReturns(u)
  \/ \E w \in Workers : WorkerBegins(w) \/ WorkerReturns(w)
  \/ Abandoned

Spec == Init /\ [][Next]_vars

\* Locks are granted and started calls go on.  No user has to call anything.
Fairness ==
  /\ \A u \in Users : WF_vars(UserReturns(u))
  /\ \A w \in Workers : WF_vars(WorkerReturns(w))

FairSpec == Spec /\ Fairness

------------------------------------------------------------------------------
(* Properties.                                                              *)

\* Thread t has taken connection c, reconnector r, TLS configuration s out of
\* the members and is about to delete or finish it.
Deletes(t, c) ==
  pc[t] \in {"delOld", "finiConn", "finiRec", "finiRel"} /\ lconn[t] = c
Finishes(t, r) == pc[t] = "finiRec" /\ lrec[t] = r
DeletesSsl(t, s) == lssl[t] = s

\* Of the objects in Live, member is the client's; each other one has a thread
\* that will give it back, and no two have the same one to give back.
Owned(Objects, Live, member, GivesBack(_, _)) ==
  \A x \in Objects :
    /\ x \in Live <=> (x = member \/ \E t \in Threads : GivesBack(t, x))
    /\ \A t \in Threads : GivesBack(t, x) => x # member
    /\ \A t, u \in Threads : GivesBack(t, x) /\ GivesBack(u, x) => t = u

\* An open connection, a bound reconnector and a live TLS configuration is
\* either the client's or due to be given back by exactly one thread: a swap, a
\* Fini or the error path of Init leaks nothing and deletes nothing twice
\* (msg_client.cpp:417-426,446-462,719-723).
ConnOwned == Owned(Conns, open, m_msgClient, Deletes)
RecOwned == Owned(Recs, bound, m_reconnector, Finishes)
SslOwned == Owned(Ssls, sslLive, m_sslConfig, DeletesSsl)
OneOwner == ConnOwned /\ RecOwned /\ SslOwned

\* A finished client is never brought back to life by a reconnect that was
\* under way: the members are set and reset together
\* (msg_client.cpp:305-309,441-452,692-695).
FieldsTogether ==
  /\ m_reactor <=> m_msgClient # NULL
  /\ m_reactor <=> m_reconnector # NULL
  /\ m_sslConfig # NULL => m_reactor

\* The threads that hold a reference to connection c.
ConnHolders(c) ==
  {t \in Threads : pc[t] \in {"send", "callback", "deliver", "cbEnd"}
                   /\ lconn[t] = c}

\* The pending timers of reconnector r and the threads that hold a reference.
RecTimers(r) == {i \in TimerIds : onTimer[i] = r}
RecHolders(r) == {t \in Threads : lrec[t] = r}

\* The threads, besides the users' own references, that hold one to the client.
ClientHolders ==
  {t \in Threads : pc[t] \in {"reconn", "delOld", "relTimer", "callback",
                              "deliver", "cbEnd", "finiRel"}}

One(b) == IF b THEN 1 ELSE 0

ConnRefs == \A c \in Conns : crefs[c] = One(c \in open) + Cardinality(ConnHolders(c))
RecRefs == \A r \in Recs : rrefs[r] = One(r = m_reconnector)
                                        + Cardinality(RecTimers(r))
                                        + Cardinality(RecHolders(r))
ClientRefs == refs = Cardinality(holds) + Cardinality(open) + Cardinality(bound)
                       + Cardinality(ClientHolders)

\* Reference counts are exact, so an object dies with its last reference and
\* no thread ever uses a dead one (msg_client.cpp:612-617,
\* msg_reconnector.cpp:72,102,182-187).
RefsExact == ConnRefs /\ RecRefs /\ ClientRefs

\* When the last reference goes, Fini has run to its end of the connection and
\* no timer can call in again: the destructor's Fini finds nothing to do
\* (msg_client.cpp:202-205, msg_reconnector.cpp:46-49).
DestroyedClean ==
  /\ refs = 0 => /\ ~m_reactor
                 /\ open = {}
                 /\ bound = {}
                 /\ \A i \in TimerIds : onTimer[i] = NULL
  /\ \A r \in Recs : rrefs[r] = 0 => r \notin bound /\ RecTimers(r) = {}

\* The only connection that can outlive its TLS configuration is one a
\* reconnect has replaced and not deleted yet when Fini runs
\* (msg_client.cpp:461-462,719-723).
SslOutlived ==
  \A c \in open :
    cssl[c] # NULL /\ cssl[c] \notin sslLive =>
      \E w \in Workers : pc[w] = "delOld" /\ lconn[w] = c

\* The current connection works with the redline the configuration keeps, up
\* to the cut to 32 bits (msg_client.cpp:399,632-633,717).
RedlineAgrees ==
  m_reactor => cred[m_msgClient] % W = m_redline

\* A reconnect is due: the client's reconnector has a timer pending, or a worker
\* runs it and has not come to its end.
Wanted ==
  /\ m_reactor
  /\ \/ \E i \in TimerIds : onTimer[i] = m_reconnector
     \/ \E w \in Workers :
          /\ lrec[w] = m_reconnector
          /\ \/ pc[w] = "timer" /\ ltimer[w] = rtimer[m_reconnector]
             \/ pc[w] = "reconn"

\* The connection whose event each worker is delivering.
Delivers == [w \in Workers |-> IF pc[w] = "deliver" THEN lconn[w] ELSE NULL]

Life == INSTANCE ClientLife WITH
          conn <- m_msgClient,
          wanted <- Wanted,
          delivers <- Delivers

\* The client implements ClientLife: a reconnect that has been asked for, or has
\* failed, is tried again until it succeeds or the client is closed, whatever
\* cancelled timers and reconnects of an earlier life are still under way; a new
\* life starts with no request, and a callback of a replaced connection is dropped
\* (msg_client.cpp:692-721,742-752, msg_reconnector.cpp:133-145,167-177).
ImplementsLife == Life!Spec

\* After Fini and the last Release, everything is given back.
Reclaimed ==
  (~m_reactor /\ holds = {}) ~>
    /\ refs = 0 /\ open = {} /\ bound = {} /\ sslLive = {}
    /\ \A c \in Conns : crefs[c] = 0
    /\ \A r \in Recs : rrefs[r] = 0
==============================================================================
