--------------------------- MODULE MsgClientProofs ---------------------------
(****************************************************************************)
(* Proofs about MsgClient, for any numbers of threads and objects.          *)
(****************************************************************************)
EXTENDS MsgClient, FiniteSetTheorems, TLAPS

(* Type correctness holds initially (msg_client.cpp:194-200).               *)
LEMMA InitTypeOK == Init => TypeOK
<1>. SUFFICES ASSUME Init PROVE TypeOK
  OBVIOUS
<1>. USE DEF Init
<1>1. 0 \in 0 .. (W - 1)
  BY ClientAssumption
<1>2. holds \subseteq Users
  OBVIOUS
<1>3. /\ pc \in [Threads -> UserPlaces \cup WorkerPlaces]
      /\ \A u \in Users : pc[u] \in UserPlaces
      /\ \A w \in Workers : pc[w] \in WorkerPlaces
  BY DEF Threads, UserPlaces, WorkerPlaces
<1>4. /\ m_reactor \in BOOLEAN
      /\ open \subseteq Conns /\ bound \subseteq Recs /\ sslLive \subseteq Ssls
  OBVIOUS
<1>5. /\ crefs \in [Conns -> Int]
      /\ cssl \in [Conns -> Ssls \cup {NULL}]
      /\ cred \in [Conns -> Nat]
      /\ rtimer \in [Recs -> TimerIds \cup {NULL}]
      /\ rrefs \in [Recs -> Int]
      /\ onTimer \in [TimerIds -> Recs \cup {NULL}]
  OBVIOUS
<1>6. /\ lconn \in [Threads -> Conns \cup {NULL}]
      /\ lrec \in [Threads -> Recs \cup {NULL}]
      /\ lssl \in [Threads -> Ssls \cup {NULL}]
      /\ ltimer \in [Threads -> TimerIds \cup {NULL}]
  OBVIOUS
<1>7. /\ m_msgClient \in Conns \cup {NULL} /\ m_reconnector \in Recs \cup {NULL}
      /\ m_sslConfig \in Ssls \cup {NULL} /\ m_redline \in 0 .. (W - 1)
      /\ refs \in Int
  BY <1>1
<1>. QED  BY <1>2, <1>3, <1>4, <1>5, <1>6, <1>7 DEF TypeOK

(* The places a thread moves to are its own.                                *)
LEMMA GotoType ==
  ASSUME TypeOK, NEW t \in Threads, NEW p, Goto(t, p),
         t \in Users => p \in UserPlaces,
         t \in Workers => p \in WorkerPlaces
  PROVE  /\ pc' \in [Threads -> UserPlaces \cup WorkerPlaces]
         /\ \A u \in Users : pc'[u] \in UserPlaces
         /\ \A w \in Workers : pc'[w] \in WorkerPlaces
BY DEF TypeOK, Goto, Threads

(* Reference counts of cancelled timers are 0 or 1.                         *)
LEMMA PendingType == ASSUME NEW i PROVE Pending(i) \in {0, 1}
BY DEF Pending

(* Re-arming keeps the types of the reconnector's variables                 *)
(* (msg_reconnector.cpp:117-147).                                           *)
LEMMA RearmType ==
  ASSUME TypeOK, NEW r \in Recs, Rearm(r)
  PROVE  /\ bound' \subseteq Recs
         /\ rtimer' \in [Recs -> TimerIds \cup {NULL}]
         /\ rrefs' \in [Recs -> Int]
         /\ onTimer' \in [TimerIds -> Recs \cup {NULL}]
<1>. USE DEF TypeOK
<1>1. CASE r \notin bound
  BY <1>1 DEF Rearm, recVars
<1>2. CASE r \in bound
  <2>1. PICK i \in TimerIds :
          /\ onTimer' = [CancelTimer(rtimer[r]) EXCEPT ![i] = r]
          /\ rtimer' = [rtimer EXCEPT ![r] = i]
          /\ rrefs' = [rrefs EXCEPT ![r] = @ + 1 - Pending(rtimer[r])]
    BY <1>2 DEF Rearm, FreshIds
  <2>2. rrefs' \in [Recs -> Int]
    BY <2>1, PendingType
  <2>. QED  BY <1>2, <2>1, <2>2 DEF Rearm, CancelTimer
<1>. QED  BY <1>1, <1>2

(* Every call of a user keeps the types.                                    *)
LEMMA UserTypeOK ==
  ASSUME TypeOK, NEW u \in Users, UserCalls(u) \/ UserReturns(u)
  PROVE  TypeOK'
<1>. USE DEF TypeOK, fields, connVars, recVars, locals, UserPlaces, CreateConn,
             DeleteConn
<1>0. u \in Threads /\ u \notin Workers /\ W \in Nat \ {0}
        /\ Redlines \subseteq Nat
  BY ClientAssumption DEF Threads
<1>1. CASE InitOk(u)
  <2>1. \A v \in Redlines : v < W => v \in 0 .. (W - 1)
    BY <1>0
  <2>. QED  BY <1>0, <1>1, <2>1 DEF InitOk, FreeConns, FreeRecs, FreeSsls
<1>2. CASE InitFail(u)
  BY <1>0, <1>2, GotoType DEF InitFail, FreeSsls
<1>3. CASE FiniLocked(u)
  BY <1>0, <1>3, GotoType DEF FiniLocked
<1>4. CASE SendBegin(u) \/ SendEnd(u)
  BY <1>0, <1>4, GotoType DEF SendBegin, SendEnd
<1>5. CASE SetOutputRedline(u)
  <2>1. \A v \in Redlines : v % W \in 0 .. (W - 1)
    BY <1>0
  <2>. QED  BY <1>0, <1>5, <2>1 DEF SetOutputRedline
<1>6. CASE Reconnect(u)
  BY <1>6, RearmType DEF Reconnect
<1>7. CASE Release(u) \/ \E v \in Users : AddRef(u, v)
  BY <1>7 DEF Release, AddRef
<1>8. CASE ExitSsl(u) \/ FiniSsl(u)
  BY <1>0, <1>8, GotoType DEF ExitSsl, FiniSsl
<1>9. CASE FiniRec(u)
  BY <1>0, <1>9, GotoType, PendingType DEF FiniRec, CancelTimer
<1>10. CASE FiniRel(u) \/ FiniConn(u)
  BY <1>0, <1>10, GotoType DEF FiniRel, FiniConn
<1>. QED
  BY <1>1, <1>2, <1>3, <1>4, <1>5, <1>6, <1>7, <1>8, <1>9, <1>10
     DEF UserCalls, UserReturns

(* Every timer and callback keeps the types.                                *)
LEMMA WorkerTypeOK ==
  ASSUME TypeOK, NEW w \in Workers, WorkerBegins(w) \/ WorkerReturns(w)
  PROVE  TypeOK'
<1>. USE DEF TypeOK, fields, connVars, recVars, locals, WorkerPlaces, CreateConn,
             DeleteConn
<1>0. w \in Threads /\ w \notin Users
  BY ClientAssumption DEF Threads
<1>1. ASSUME NEW i \in TimerIds, Fire(w, i) PROVE TypeOK'
  BY <1>0, <1>1, GotoType DEF Fire
<1>2. ASSUME NEW c \in Conns, CbBegin(w, c) PROVE TypeOK'
  BY <1>0, <1>2, GotoType DEF CbBegin
<1>3. CASE OnTimer(w)
  BY <1>0, <1>3, GotoType DEF OnTimer
<1>4. CASE ReconnectSwap(w)
  BY <1>0, <1>4, GotoType DEF ReconnectSwap, FreeConns
<1>5. CASE ReconnectAgain(w)
  BY <1>0, <1>5, GotoType, RearmType DEF ReconnectAgain
<1>6. CASE ReconnectClosed(w) \/ RelTimer(w)
  BY <1>0, <1>6, GotoType DEF ReconnectClosed, RelTimer
<1>7. CASE DeleteOld(w) \/ RelRec(w)
  BY <1>0, <1>7, GotoType DEF DeleteOld, RelRec
<1>8. CASE CbCheck(w) \/ CbEnd(w)
  BY <1>0, <1>8, GotoType DEF CbCheck, CbEnd
<1>. QED
  BY <1>1, <1>2, <1>3, <1>4, <1>5, <1>6, <1>7, <1>8
     DEF WorkerBegins, WorkerReturns

(* Every step keeps the types.                                              *)
LEMMA NextTypeOK == TypeOK /\ [Next]_vars => TypeOK'
<1>. SUFFICES ASSUME TypeOK, [Next]_vars PROVE TypeOK'
  OBVIOUS
<1>1. CASE UNCHANGED vars
  BY <1>1 DEF vars, fields, connVars, recVars, locals, TypeOK
<1>. QED  BY <1>1, UserTypeOK, WorkerTypeOK DEF Next, Abandoned

(* Every variable keeps its type, whatever the threads and pools.           *)
THEOREM ClientTypeCorrect == Spec => []TypeOK
<1>. QED  BY InitTypeOK, NextTypeOK, PTL DEF Spec

------------------------------------------------------------------------------
(****************************************************************************)
(* Ownership.  OneOwner and FieldsTogether support each other: a swap or a  *)
(* Fini moves an object from a member to one thread only because the        *)
(* members are set together, and a thread outside Init's error path and     *)
(* Fini has no TLS configuration to delete.                                 *)
(****************************************************************************)

\* Only a thread in Init's error path or in Fini has a TLS configuration to
\* delete (msg_client.cpp:294,434).
SslHeld ==
  \A t \in Threads :
    lssl[t] # NULL =>
      pc[t] \in {"exit", "finiRec", "finiRel", "finiConn", "finiSsl"}

IInv == TypeOK /\ FieldsTogether /\ SslHeld /\ OneOwner

(* The program starts owning nothing (msg_client.cpp:194-200).              *)
LEMMA InitIInv == Init => IInv
<1>. SUFFICES ASSUME Init PROVE IInv
  OBVIOUS
<1>1. TypeOK
  BY InitTypeOK
<1>2. FieldsTogether /\ SslHeld
  BY DEF Init, FieldsTogether, SslHeld
<1>3. ConnOwned
  BY ClientAssumption DEF Init, ConnOwned, Owned, Deletes
<1>4. RecOwned
  BY ClientAssumption DEF Init, RecOwned, Owned, Finishes
<1>5. SslOwned
  BY ClientAssumption DEF Init, SslOwned, Owned, DeletesSsl
<1>. QED  BY <1>1, <1>2, <1>3, <1>4, <1>5 DEF IInv, OneOwner

(* A step that moves no connection keeps their owners.                      *)
LEMMA ConnFrame ==
  ASSUME ConnOwned, UNCHANGED <<open, m_msgClient>>,
         \A t \in Threads, c \in Conns : Deletes(t, c)' <=> Deletes(t, c)
  PROVE  ConnOwned'
BY DEF ConnOwned, Owned

(* A step that moves no reconnector keeps their owners.                     *)
LEMMA RecFrame ==
  ASSUME RecOwned, UNCHANGED <<bound, m_reconnector>>,
         \A t \in Threads, r \in Recs : Finishes(t, r)' <=> Finishes(t, r)
  PROVE  RecOwned'
BY DEF RecOwned, Owned

(* A step that moves no TLS configuration keeps their owners.               *)
LEMMA SslFrame ==
  ASSUME SslOwned, UNCHANGED <<sslLive, m_sslConfig, lssl>>
  PROVE  SslOwned'
BY DEF SslOwned, Owned, DeletesSsl

(* CMsgClient::Init gives the members new objects (msg_client.cpp:298-413).  *)
LEMMA InitOkOwner ==
  ASSUME IInv, NEW u \in Users, InitOk(u) PROVE OneOwner'
<1>. USE DEF IInv, TypeOK
<1>1. PICK c \in FreeConns, r \in FreeRecs, s \in FreeSsls \cup {NULL} :
        /\ open' = open \cup {c}
        /\ bound' = bound \cup {r}
        /\ sslLive' = sslLive \cup ({s} \ {NULL})
        /\ m_msgClient' = c
        /\ m_reconnector' = r
        /\ m_sslConfig' = s
  BY DEF InitOk, CreateConn
<1>2. /\ m_msgClient = NULL /\ m_reconnector = NULL /\ m_sslConfig = NULL
      /\ UNCHANGED <<pc, lconn, lrec, lssl>>
  BY DEF InitOk, locals
<1>3. ConnOwned'
  BY <1>1, <1>2, ClientAssumption
     DEF OneOwner, ConnOwned, Owned, Deletes, FreeConns
<1>4. RecOwned'
  BY <1>1, <1>2, ClientAssumption
     DEF OneOwner, RecOwned, Owned, Finishes, FreeRecs
<1>5. SslOwned'
  BY <1>1, <1>2, ClientAssumption
     DEF OneOwner, SslOwned, Owned, DeletesSsl, FreeSsls
<1>. QED  BY <1>3, <1>4, <1>5 DEF OneOwner

(* CMsgClient::Fini moves the members' objects to the calling thread        *)
(* (msg_client.cpp:438-453).                                                *)
LEMMA FiniLockedOwner ==
  ASSUME IInv, NEW u \in Users, FiniLocked(u) PROVE OneOwner'
<1>. USE DEF IInv, TypeOK
<1>1. /\ u \in Threads /\ pc[u] = "idle" /\ pc' = [pc EXCEPT ![u] = "finiRec"]
      /\ lrec' = [lrec EXCEPT ![u] = m_reconnector]
      /\ lconn' = [lconn EXCEPT ![u] = m_msgClient]
      /\ lssl' = [lssl EXCEPT ![u] = m_sslConfig]
      /\ m_reconnector' = NULL /\ m_msgClient' = NULL /\ m_sslConfig' = NULL
      /\ UNCHANGED <<open, bound, sslLive>>
  BY DEF FiniLocked, Goto, Calls, Threads, connVars, recVars
<1>2. ConnOwned'
  BY <1>1, ClientAssumption DEF OneOwner, ConnOwned, Owned, Deletes
<1>3. RecOwned'
  BY <1>1, ClientAssumption DEF OneOwner, RecOwned, Owned, Finishes
<1>4. lssl[u] = NULL
  BY <1>1 DEF SslHeld
<1>5. SslOwned'
  BY <1>1, <1>4, ClientAssumption DEF OneOwner, SslOwned, Owned, DeletesSsl
<1>. QED  BY <1>2, <1>3, <1>5 DEF OneOwner

(* A thread that gives a connection back was the one to do so               *)
(* (msg_client.cpp:461,723).                                                *)
LEMMA DeleteConnOwner ==
  ASSUME IInv, NEW t \in Threads, NEW p \in {"finiSsl", "relTimer"},
         pc[t] \in {"finiConn", "delOld"}, Goto(t, p),
         DeleteConn(lconn[t]), lconn' = [lconn EXCEPT ![t] = NULL],
         UNCHANGED <<m_msgClient, m_reconnector, m_sslConfig, bound, sslLive,
                     lrec, lssl>>
  PROVE  OneOwner'
<1>. USE DEF IInv, TypeOK, Goto
<1>1. ConnOwned'
  BY ClientAssumption DEF OneOwner, ConnOwned, Owned, Deletes, DeleteConn
<1>2. RecOwned'
  BY RecFrame DEF OneOwner, Finishes
<1>3. SslOwned'
  BY SslFrame DEF OneOwner
<1>. QED  BY <1>1, <1>2, <1>3 DEF OneOwner

(* The same of a TLS configuration (msg_client.cpp:426,462).                *)
LEMMA DeleteSslOwner ==
  ASSUME IInv, NEW t \in Threads, pc[t] \in {"exit", "finiSsl"},
         Goto(t, "idle"),
         sslLive' = sslLive \ {lssl[t]}, lssl' = [lssl EXCEPT ![t] = NULL],
         UNCHANGED <<m_msgClient, m_reconnector, m_sslConfig, open, bound,
                     lconn, lrec>>
  PROVE  OneOwner'
<1>. USE DEF IInv, TypeOK, Goto
<1>1. ConnOwned'
  BY ConnFrame DEF OneOwner, Deletes
<1>2. RecOwned'
  BY RecFrame DEF OneOwner, Finishes
<1>3. SslOwned'
  BY ClientAssumption DEF OneOwner, SslOwned, Owned, DeletesSsl
<1>. QED  BY <1>1, <1>2, <1>3 DEF OneOwner

(* Init's error path takes over the TLS configuration it created            *)
(* (msg_client.cpp:354-376,417-426).                                        *)
LEMMA InitFailOwner ==
  ASSUME IInv, NEW u \in Users, InitFail(u) PROVE OneOwner'
<1>. USE DEF IInv, TypeOK
<1>1. PICK s \in FreeSsls : /\ sslLive' = sslLive \cup {s}
                            /\ lssl' = [lssl EXCEPT ![u] = s]
  BY DEF InitFail
<1>2. /\ u \in Threads /\ pc[u] = "idle" /\ pc' = [pc EXCEPT ![u] = "exit"]
      /\ m_sslConfig = NULL
      /\ UNCHANGED <<m_msgClient, m_reconnector, m_sslConfig, open, bound,
                     lconn, lrec>>
  BY DEF InitFail, Goto, Calls, Threads, fields, connVars, recVars
<1>3. ConnOwned'
  BY <1>2, ConnFrame DEF OneOwner, Deletes
<1>4. RecOwned'
  BY <1>2, RecFrame DEF OneOwner, Finishes
<1>5. lssl[u] = NULL
  BY <1>2 DEF SslHeld
<1>6. SslOwned'
  BY <1>1, <1>2, <1>5, ClientAssumption
     DEF OneOwner, SslOwned, Owned, DeletesSsl, FreeSsls
<1>. QED  BY <1>3, <1>4, <1>6 DEF OneOwner

(* The reconnector is unbound by the thread that took it                    *)
(* (msg_client.cpp:457, msg_reconnector.cpp:86-100).                        *)
LEMMA FiniRecOwner ==
  ASSUME IInv, NEW u \in Users, FiniRec(u) PROVE OneOwner'
<1>. USE DEF IInv, TypeOK
<1>1. /\ u \in Threads /\ pc[u] = "finiRec" /\ pc' = [pc EXCEPT ![u] = "finiRel"]
      /\ bound' = bound \ {lrec[u]}
      /\ UNCHANGED <<m_msgClient, m_reconnector, m_sslConfig, open, sslLive,
                     lconn, lrec, lssl>>
  BY DEF FiniRec, Goto, Threads, fields, connVars, locals
<1>2. ConnOwned'
  BY <1>1, ConnFrame DEF OneOwner, Deletes
<1>3. RecOwned'
  BY <1>1, ClientAssumption DEF OneOwner, RecOwned, Owned, Finishes
<1>4. SslOwned'
  BY <1>1, SslFrame DEF OneOwner
<1>. QED  BY <1>2, <1>3, <1>4 DEF OneOwner

(* CMsgClient::Reconnect_i hands the old connection to the worker           *)
(* (msg_client.cpp:717-720).                                                *)
LEMMA SwapOwner ==
  ASSUME IInv, NEW w \in Workers, ReconnectSwap(w) PROVE OneOwner'
<1>. USE DEF IInv, TypeOK
<1>1. PICK c \in FreeConns : open' = open \cup {c} /\ m_msgClient' = c
  BY DEF ReconnectSwap, CreateConn
<1>2. /\ w \in Threads /\ pc[w] = "reconn" /\ pc' = [pc EXCEPT ![w] = "delOld"]
      /\ lconn' = [lconn EXCEPT ![w] = m_msgClient]
      /\ UNCHANGED <<m_reconnector, m_sslConfig, bound, sslLive, lrec, lssl>>
  BY DEF ReconnectSwap, Goto, Threads, recVars
<1>3. ConnOwned'
  BY <1>1, <1>2, ClientAssumption
     DEF OneOwner, ConnOwned, Owned, Deletes, FreeConns
<1>4. RecOwned'
  BY <1>2, RecFrame DEF OneOwner, Finishes
<1>5. SslOwned'
  BY <1>2, SslFrame DEF OneOwner
<1>. QED  BY <1>3, <1>4, <1>5 DEF OneOwner

(* A step that moves no object and changes no deleter keeps all owners.     *)
LEMMA OwnerFrame ==
  ASSUME IInv, UNCHANGED <<m_msgClient, m_reconnector, m_sslConfig, open, bound,
                           sslLive, lssl>>,
         \A t \in Threads, c \in Conns : Deletes(t, c)' <=> Deletes(t, c),
         \A t \in Threads, r \in Recs : Finishes(t, r)' <=> Finishes(t, r)
  PROVE  OneOwner'
BY ConnFrame, RecFrame, SslFrame DEF IInv, OneOwner

(* Re-arming binds and unbinds nothing.                                     *)
LEMMA RearmBound == ASSUME NEW r, Rearm(r) PROVE bound' = bound
BY DEF Rearm, recVars

(* Every step keeps the ownership of every object.                          *)
LEMMA NextOneOwner == IInv /\ [Next]_vars => OneOwner'
<1>. SUFFICES ASSUME IInv, [Next]_vars PROVE OneOwner'
  OBVIOUS
<1>. USE DEF TypeOK, fields, connVars, recVars, locals
<1>0. /\ pc \in [Threads -> UserPlaces \cup WorkerPlaces]
      /\ lconn \in [Threads -> Conns \cup {NULL}]
      /\ lrec \in [Threads -> Recs \cup {NULL}]
  BY DEF IInv
<1>1. CASE UNCHANGED vars
  BY <1>1, OwnerFrame DEF vars, Deletes, Finishes
<1>2. ASSUME NEW u \in Users, UserCalls(u) PROVE OneOwner'
  <2>0. u \in Threads
    BY DEF Threads
  <2>1. CASE SendBegin(u)
    BY <1>0, <2>0, <2>1, OwnerFrame DEF SendBegin, Calls, Goto, Deletes, Finishes
  <2>2. CASE SetOutputRedline(u)
    BY <2>2, OwnerFrame DEF SetOutputRedline, Deletes, Finishes
  <2>3. CASE Reconnect(u)
    BY <2>3, OwnerFrame, RearmBound DEF Reconnect, Deletes, Finishes
  <2>4. CASE Release(u) \/ \E v \in Users : AddRef(u, v)
    BY <2>4, OwnerFrame DEF Release, AddRef, Deletes, Finishes
  <2>. QED
    BY <1>2, <2>1, <2>2, <2>3, <2>4, InitOkOwner, InitFailOwner,
       FiniLockedOwner DEF UserCalls
<1>3. ASSUME NEW u \in Users, UserReturns(u) PROVE OneOwner'
  <2>0. u \in Threads
    BY DEF Threads
  <2>1. CASE ExitSsl(u) \/ FiniSsl(u)
    BY <2>0, <2>1, DeleteSslOwner DEF ExitSsl, FiniSsl
  <2>2. CASE SendEnd(u)
    BY <1>0, <2>0, <2>2, OwnerFrame DEF SendEnd, Goto, Deletes, Finishes
  <2>3. CASE FiniRel(u)
    BY <1>0, <2>0, <2>3, OwnerFrame DEF FiniRel, Goto, Deletes, Finishes
  <2>4. CASE FiniConn(u)
    BY <2>0, <2>4, DeleteConnOwner DEF FiniConn
  <2>. QED
    BY <1>3, <2>1, <2>2, <2>3, <2>4, FiniRecOwner DEF UserReturns
<1>4. ASSUME NEW w \in Workers, WorkerBegins(w) PROVE OneOwner'
  <2>0. w \in Threads
    BY DEF Threads
  <2>1. ASSUME NEW i \in TimerIds, Fire(w, i) PROVE OneOwner'
    BY <1>0, <2>0, <2>1, OwnerFrame DEF Fire, Goto, Deletes, Finishes
  <2>2. ASSUME NEW c \in Conns, CbBegin(w, c) PROVE OneOwner'
    BY <1>0, <2>0, <2>2, OwnerFrame DEF CbBegin, Goto, Deletes, Finishes
  <2>. QED  BY <1>4, <2>1, <2>2 DEF WorkerBegins
<1>5. ASSUME NEW w \in Workers, WorkerReturns(w) PROVE OneOwner'
  <2>0. w \in Threads
    BY DEF Threads
  <2>1. CASE OnTimer(w)
    BY <1>0, <2>0, <2>1, OwnerFrame DEF OnTimer, Goto, Deletes, Finishes
  <2>2. CASE ReconnectAgain(w)
    BY <1>0, <2>0, <2>2, OwnerFrame, RearmBound
       DEF ReconnectAgain, Goto, Deletes, Finishes
  <2>3. CASE ReconnectClosed(w) \/ RelTimer(w)
    BY <1>0, <2>0, <2>3, OwnerFrame
       DEF ReconnectClosed, RelTimer, Goto, Deletes, Finishes
  <2>4. CASE DeleteOld(w)
    BY <2>0, <2>4, DeleteConnOwner DEF DeleteOld
  <2>5. CASE RelRec(w)
    BY <1>0, <2>0, <2>5, OwnerFrame DEF RelRec, Goto, Deletes, Finishes
  <2>6. CASE CbCheck(w) \/ CbEnd(w)
    BY <1>0, <2>0, <2>6, OwnerFrame DEF CbCheck, CbEnd, Goto, Deletes, Finishes
  <2>. QED
    BY <1>5, <2>1, <2>2, <2>3, <2>4, <2>5, <2>6, SwapOwner DEF WorkerReturns
<1>. QED
  BY <1>1, <1>2, <1>3, <1>4, <1>5 DEF Next, Abandoned

(* The members are set and reset together (msg_client.cpp:408-412,446-452). *)
LEMMA NextFields == IInv /\ [Next]_vars => FieldsTogether'
<1>. SUFFICES ASSUME IInv, [Next]_vars PROVE FieldsTogether'
  OBVIOUS
<1>. USE DEF IInv, TypeOK, FieldsTogether
<1>1. CASE UNCHANGED fields
  BY <1>1 DEF fields
<1>2. ASSUME NEW u \in Users, UserCalls(u) PROVE FieldsTogether'
  <2>1. CASE InitOk(u)
    BY <2>1, ClientAssumption DEF InitOk, FreeConns, FreeRecs
  <2>2. CASE FiniLocked(u)
    BY <2>2 DEF FiniLocked
  <2>. QED
    BY <1>1, <1>2, <2>1, <2>2
       DEF UserCalls, InitFail, SendBegin, SetOutputRedline, Reconnect, Release,
           AddRef
<1>3. ASSUME NEW w \in Workers, ReconnectSwap(w) PROVE FieldsTogether'
  BY <1>3, ClientAssumption DEF ReconnectSwap, FreeConns
<1>4. ASSUME NEW u \in Users, UserReturns(u) PROVE UNCHANGED fields
  BY <1>4 DEF UserReturns, ExitSsl, SendEnd, FiniRec, FiniRel, FiniConn, FiniSsl
<1>5. ASSUME NEW w \in Workers, WorkerBegins(w) PROVE UNCHANGED fields
  BY <1>5 DEF WorkerBegins, Fire, CbBegin
<1>6. ASSUME NEW w \in Workers, WorkerReturns(w), ~ReconnectSwap(w)
      PROVE  UNCHANGED fields
  BY <1>6 DEF WorkerReturns, OnTimer, ReconnectAgain, ReconnectClosed, DeleteOld,
              RelTimer, RelRec, CbCheck, CbEnd
<1>. QED
  BY <1>1, <1>2, <1>3, <1>4, <1>5, <1>6 DEF Next, Abandoned, vars

(* Only Init's error path and Fini hold a TLS configuration.                *)
LEMMA NextSslHeld == IInv /\ [Next]_vars => SslHeld'
<1>. SUFFICES ASSUME IInv, [Next]_vars PROVE SslHeld'
  OBVIOUS
<1>. USE DEF SslHeld, Goto, fields, connVars, recVars, locals
<1>0. /\ pc \in [Threads -> UserPlaces \cup WorkerPlaces]
      /\ lssl \in [Threads -> Ssls \cup {NULL}]
      /\ SslHeld
  BY DEF IInv, TypeOK
<1>1. CASE UNCHANGED vars
  BY <1>0, <1>1 DEF vars
<1>2. ASSUME NEW u \in Users, UserCalls(u) PROVE SslHeld'
  BY <1>0, <1>2 DEF UserCalls, InitOk, InitFail, FiniLocked, SendBegin,
                    SetOutputRedline, Reconnect, Release, AddRef, Calls
<1>3. ASSUME NEW u \in Users, UserReturns(u) PROVE SslHeld'
  BY <1>0, <1>3 DEF UserReturns, ExitSsl, SendEnd, FiniRec, FiniRel, FiniConn,
                    FiniSsl
<1>4. ASSUME NEW w \in Workers, WorkerBegins(w) PROVE SslHeld'
  BY <1>0, <1>4 DEF WorkerBegins, Fire, CbBegin
<1>5. ASSUME NEW w \in Workers, WorkerReturns(w) PROVE SslHeld'
  BY <1>0, <1>5 DEF WorkerReturns, OnTimer, ReconnectSwap, ReconnectAgain,
                    ReconnectClosed, DeleteOld, RelTimer, RelRec, CbCheck, CbEnd
<1>. QED
  BY <1>1, <1>2, <1>3, <1>4, <1>5 DEF Next, Abandoned

(* The inductive invariant holds of every behaviour.                        *)
THEOREM ClientIInv == Spec => []IInv
<1>1. IInv /\ [Next]_vars => IInv'
  BY NextTypeOK, NextFields, NextSslHeld, NextOneOwner DEF IInv
<1>. QED  BY <1>1, InitIInv, PTL DEF Spec

(* No connection, reconnector or TLS configuration is leaked or given back  *)
(* twice, however reconnects, Fini and failing Inits interleave             *)
(* (msg_client.cpp:417-426,446-462,719-723).                                *)
THEOREM ClientOneOwner == Spec => []OneOwner
<1>1. IInv => OneOwner
  BY DEF IInv
<1>. QED  BY <1>1, ClientIInv, PTL

(* A reconnect under way never brings a finished client back to life        *)
(* (msg_client.cpp:305-309,441-452,692-695).                                *)
THEOREM ClientFieldsTogether == Spec => []FieldsTogether
<1>1. IInv => FieldsTogether
  BY DEF IInv
<1>. QED  BY <1>1, ClientIInv, PTL

------------------------------------------------------------------------------
(****************************************************************************)
(* References.  The counts of a reconnector are exact only because a timer  *)
(* it names is its own, pending or being delivered; all counts because a    *)
(* thread has an object in its locals exactly in the places where it holds  *)
(* a reference to it, or is to delete it.                                   *)
(****************************************************************************)

ConnPlaces == {"send", "finiRec", "finiRel", "finiConn", "delOld", "callback",
               "deliver", "cbEnd"}
RecPlaces == {"finiRec", "finiRel", "timer", "reconn", "delOld", "relTimer",
              "relRec"}

\* What a thread has where (msg_client.cpp:456-462,612-617,717-723,
\* msg_reconnector.cpp:161-187).
LocalsHeld ==
  \A t \in Threads :
    /\ lconn[t] # NULL <=> pc[t] \in ConnPlaces
    /\ lrec[t] # NULL <=> pc[t] \in RecPlaces
    /\ ltimer[t] # NULL <=> pc[t] = "timer"

\* A pending timer is the one that its reconnector, a bound one, names; a timer
\* a reconnector names is pending or its callback has begun, and not both
\* (msg_reconnector.cpp:94-99,133-145,167-177).
TimersNamed ==
  /\ \A w \in Workers : pc[w] = "timer" => onTimer[ltimer[w]] = NULL
  /\ \A i \in TimerIds : onTimer[i] # NULL =>
       onTimer[i] \in bound /\ rtimer[onTimer[i]] = i
  /\ \A r \in Recs : rtimer[r] # NULL => r \in bound
  /\ \A r \in Recs : rtimer[r] # NULL =>
       \/ onTimer[rtimer[r]] = r
       \/ /\ onTimer[rtimer[r]] = NULL
          /\ \E w \in Workers : pc[w] = "timer" /\ lrec[w] = r
                                /\ ltimer[w] = rtimer[r]

\* A connection has the TLS configuration of the members or of the Fini it is
\* with (msg_client.cpp:395,717).
SslTogether ==
  \A c \in open :
    /\ c = m_msgClient => cssl[c] = m_sslConfig
    /\ \A u \in Users : Deletes(u, c) => cssl[c] = lssl[u]

RInv == IInv /\ LocalsHeld /\ TimersNamed /\ RefsExact /\ SslTogether /\ RedlineAgrees

(* Adding and removing one element changes a count by one.                  *)
LEMMA CountMore ==
  ASSUME NEW S, IsFiniteSet(S), NEW x, x \notin S
  PROVE  /\ IsFiniteSet(S \cup {x})
         /\ Cardinality(S \cup {x}) = Cardinality(S) + 1
BY FS_AddElement

(* And removing one.                                                        *)
LEMMA CountLess ==
  ASSUME NEW S, IsFiniteSet(S), NEW x \in S
  PROVE  /\ IsFiniteSet(S \ {x})
         /\ Cardinality(S \ {x}) = Cardinality(S) - 1
BY FS_RemoveElement

(* A thread has its locals where it needs them.                             *)
LEMMA NextLocals ==
  ASSUME IInv, LocalsHeld, [Next]_vars PROVE LocalsHeld'
<1>. USE DEF LocalsHeld, ConnPlaces, RecPlaces, Goto, fields, connVars, recVars,
             locals
<1>0. /\ pc \in [Threads -> UserPlaces \cup WorkerPlaces]
      /\ lconn \in [Threads -> Conns \cup {NULL}]
      /\ lrec \in [Threads -> Recs \cup {NULL}]
      /\ ltimer \in [Threads -> TimerIds \cup {NULL}]
      /\ Threads = Users \cup Workers
      /\ NULL \notin Conns \cup Recs \cup TimerIds
      /\ m_reactor => m_msgClient # NULL /\ m_reconnector # NULL
  BY ClientAssumption DEF IInv, TypeOK, FieldsTogether, Threads
<1>1. CASE UNCHANGED vars
  BY <1>0, <1>1 DEF vars
<1>2. ASSUME NEW u \in Users, UserCalls(u) PROVE LocalsHeld'
  <2>1. CASE InitFail(u) \/ FiniLocked(u) \/ SendBegin(u)
    BY <1>0, <2>1 DEF InitFail, FiniLocked, SendBegin, Calls
  <2>. QED
    BY <1>0, <1>2, <2>1
       DEF UserCalls, InitOk, SetOutputRedline, Reconnect, Release, AddRef
<1>3. ASSUME NEW u \in Users, UserReturns(u) PROVE LocalsHeld'
  BY <1>0, <1>3 DEF UserReturns, ExitSsl, SendEnd, FiniRec, FiniRel, FiniConn,
                    FiniSsl
<1>4. ASSUME NEW w \in Workers, WorkerBegins(w) PROVE LocalsHeld'
  <2>1. \A i \in TimerIds : onTimer[i] \in Recs \cup {NULL}
    BY DEF IInv, TypeOK
  <2>2. open \subseteq Conns
    BY DEF IInv, TypeOK
  <2>. QED  BY <1>0, <1>4, <2>1, <2>2 DEF WorkerBegins, Fire, CbBegin
<1>5. ASSUME NEW w \in Workers, WorkerReturns(w) PROVE LocalsHeld'
  BY <1>0, <1>5 DEF WorkerReturns, OnTimer, ReconnectSwap, ReconnectAgain,
                    ReconnectClosed, DeleteOld, RelTimer, RelRec, CbCheck, CbEnd
<1>. QED
  BY <1>1, <1>2, <1>3, <1>4, <1>5 DEF Next, Abandoned

(* A step that leaves timers, their names and bindings alone, and takes no  *)
(* worker out of a timer callback, keeps timers named.                      *)
LEMMA TimersFrame ==
  ASSUME TimersNamed, UNCHANGED <<bound, rtimer, onTimer>>,
         \A w \in Workers :
           /\ pc[w] = "timer" <=> pc'[w] = "timer"
           /\ pc[w] = "timer" => lrec'[w] = lrec[w] /\ ltimer'[w] = ltimer[w]
  PROVE  TimersNamed'
BY DEF TimersNamed

(* A reconnector re-arms with a fresh id, which nobody names                *)
(* (msg_reconnector.cpp:133-145).                                           *)
LEMMA RearmNamed ==
  ASSUME TypeOK, LocalsHeld, TimersNamed, NEW r \in Recs, Rearm(r),
         \A w \in Workers :
           /\ pc[w] = "timer" <=> pc'[w] = "timer"
           /\ pc[w] = "timer" => lrec'[w] = lrec[w] /\ ltimer'[w] = ltimer[w]
  PROVE  TimersNamed'
<1>. USE DEF TypeOK
<1>1. CASE r \notin bound
  BY <1>1, TimersFrame DEF Rearm, recVars
<1>2. CASE r \in bound
  <2>1. PICK i \in FreshIds :
          /\ onTimer' = [CancelTimer(rtimer[r]) EXCEPT ![i] = r]
          /\ rtimer' = [rtimer EXCEPT ![r] = i]
          /\ UNCHANGED bound
    BY <1>2 DEF Rearm
  <2>2. /\ i \in TimerIds /\ onTimer[i] = NULL
        /\ \A w \in Workers : ltimer[w] # i
    BY DEF FreshIds, Threads
  <2>3. NULL \notin TimerIds \cup Recs
    BY ClientAssumption
  <2>4. \A j \in TimerIds :
          onTimer'[j] = IF j = i THEN r ELSE IF j = rtimer[r] THEN NULL ELSE onTimer[j]
    BY <2>1, <2>2 DEF CancelTimer
  <2>5. ASSUME NEW j \in TimerIds, onTimer'[j] # NULL
        PROVE  onTimer'[j] \in bound' /\ rtimer'[onTimer'[j]] = j
    BY <1>2, <2>1, <2>2, <2>4, <2>5 DEF TimersNamed
  <2>6. ASSUME NEW q \in Recs, rtimer'[q] # NULL
        PROVE  \/ onTimer'[rtimer'[q]] = q
               \/ /\ onTimer'[rtimer'[q]] = NULL
                  /\ \E w \in Workers : pc'[w] = "timer" /\ lrec'[w] = q
                                        /\ ltimer'[w] = rtimer'[q]
    <3>1. CASE q = r
      BY <2>1, <2>2, <2>4, <3>1
    <3>2. CASE q # r
      <4>1. rtimer'[q] = rtimer[q] /\ rtimer[q] \in TimerIds
        BY <2>1, <2>6, <3>2
      <4>2. rtimer[q] # i
        BY <2>2, <2>3, <4>1 DEF TimersNamed
      <4>3. CASE onTimer[rtimer[q]] = q
        <5>1. rtimer[r] # rtimer[q]
          BY <2>3, <3>2, <4>1, <4>3 DEF TimersNamed
        <5>. QED  BY <2>4, <4>1, <4>2, <4>3, <5>1
      <4>4. CASE onTimer[rtimer[q]] = NULL
        <5>1. PICK w \in Workers : pc[w] = "timer" /\ lrec[w] = q
                                  /\ ltimer[w] = rtimer[q]
          BY <2>3, <2>6, <4>1, <4>4 DEF TimersNamed
        <5>. QED  BY <2>4, <4>1, <4>2, <4>4, <5>1
      <4>. QED  BY <2>3, <4>1, <4>3, <4>4 DEF TimersNamed
    <3>. QED  BY <3>1, <3>2
  <2>7. \A w \in Workers : pc'[w] = "timer" => onTimer'[ltimer'[w]] = NULL
    BY <2>2, <2>4 DEF TimersNamed, LocalsHeld, Threads
  <2>8. \A q \in Recs : rtimer'[q] # NULL => q \in bound'
    BY <1>2, <2>1 DEF TimersNamed
  <2>. QED  BY <2>5, <2>6, <2>7, <2>8 DEF TimersNamed
<1>. QED  BY <1>1, <1>2

(* Fini cancels the timer its reconnector names (msg_reconnector.cpp:86-100). *)
LEMMA FiniRecNamed ==
  ASSUME IInv, LocalsHeld, TimersNamed, NEW u \in Users, FiniRec(u)
  PROVE  TimersNamed'
<1>. USE DEF IInv, TypeOK
<1>. DEFINE r == lrec[u]
<1>0. u \in Threads /\ u \notin Workers /\ NULL \notin TimerIds \cup Recs
  BY ClientAssumption DEF Threads
<1>1. /\ r \in bound /\ r \in Recs
      /\ onTimer' = CancelTimer(rtimer[r])
      /\ rtimer' = [rtimer EXCEPT ![r] = NULL]
      /\ bound' = bound \ {r}
      /\ UNCHANGED <<lrec, ltimer>>
      /\ \A w \in Workers : pc'[w] = pc[w]
  BY <1>0 DEF FiniRec, Goto, locals
<1>2. \A j \in TimerIds :
        onTimer'[j] = IF j = rtimer[lrec[u]] THEN NULL ELSE onTimer[j]
  BY <1>1 DEF CancelTimer
<1>3. ASSUME NEW j \in TimerIds, onTimer'[j] # NULL
      PROVE  onTimer'[j] \in bound' /\ rtimer'[onTimer'[j]] = j
  <2>1. onTimer'[j] = onTimer[j] /\ j # rtimer[lrec[u]]
    BY <1>2, <1>3
  <2>2. onTimer[j] \in bound /\ rtimer[onTimer[j]] = j /\ onTimer[j] # lrec[u]
    BY <1>3, <2>1 DEF TimersNamed
  <2>. QED  BY <1>1, <2>1, <2>2
<1>4. ASSUME NEW q \in Recs, rtimer'[q] # NULL
      PROVE  \/ onTimer'[rtimer'[q]] = q
             \/ /\ onTimer'[rtimer'[q]] = NULL
                /\ \E w \in Workers : pc'[w] = "timer" /\ lrec'[w] = q
                                      /\ ltimer'[w] = rtimer'[q]
  <2>1. q # lrec[u] /\ rtimer'[q] = rtimer[q] /\ rtimer[q] \in TimerIds
    BY <1>1, <1>4
  <2>2. CASE onTimer[rtimer[q]] = q
    <3>1. rtimer[lrec[u]] # rtimer[q]
      BY <1>0, <1>1, <2>1, <2>2 DEF TimersNamed
    <3>. QED  BY <1>2, <2>1, <2>2, <3>1
  <2>3. CASE onTimer[rtimer[q]] = NULL
    <3>1. PICK w \in Workers : pc[w] = "timer" /\ lrec[w] = q
                               /\ ltimer[w] = rtimer[q]
      BY <1>0, <1>4, <2>1, <2>3 DEF TimersNamed
    <3>. QED  BY <1>1, <1>2, <2>1, <2>3, <3>1
  <2>. QED  BY <1>0, <2>1, <2>2, <2>3 DEF TimersNamed
<1>5. \A w \in Workers : pc'[w] = "timer" => onTimer'[ltimer'[w]] = NULL
  BY <1>1, <1>2 DEF TimersNamed, LocalsHeld, Threads
<1>6. \A q \in Recs : rtimer'[q] # NULL => q \in bound'
  BY <1>1 DEF TimersNamed
<1>. QED  BY <1>3, <1>4, <1>5, <1>6 DEF TimersNamed

(* A timer fires once; its callback then stands for it until OnTimer has    *)
(* compared the ids (msg_reconnector.cpp:157-177).                          *)
LEMMA FireNamed ==
  ASSUME TypeOK, LocalsHeld, TimersNamed,
         NEW w \in Workers, NEW i \in TimerIds, Fire(w, i)
  PROVE  TimersNamed'
<1>. USE DEF TypeOK
<1>0. NULL \notin TimerIds \cup Recs /\ w \in Threads
  BY ClientAssumption DEF Threads
<1>1. /\ pc[w] = "idle" /\ onTimer[i] # NULL
      /\ pc' = [pc EXCEPT ![w] = "timer"]
      /\ lrec' = [lrec EXCEPT ![w] = onTimer[i]]
      /\ ltimer' = [ltimer EXCEPT ![w] = i]
      /\ onTimer' = [onTimer EXCEPT ![i] = NULL]
      /\ UNCHANGED <<bound, rtimer>>
  BY DEF Fire, Goto
<1>2. onTimer[i] \in Recs /\ rtimer[onTimer[i]] = i
  BY <1>1 DEF TimersNamed
<1>3. ASSUME NEW q \in Recs, rtimer'[q] # NULL
      PROVE  \/ onTimer'[rtimer'[q]] = q
             \/ /\ onTimer'[rtimer'[q]] = NULL
                /\ \E v \in Workers : pc'[v] = "timer" /\ lrec'[v] = q
                                      /\ ltimer'[v] = rtimer'[q]
  <2>1. CASE onTimer[rtimer[q]] = q
    BY <1>0, <1>1, <1>2, <1>3, <2>1
  <2>2. CASE onTimer[rtimer[q]] = NULL
    <3>1. PICK v \in Workers : pc[v] = "timer" /\ lrec[v] = q
                               /\ ltimer[v] = rtimer[q]
      BY <1>0, <1>1, <1>3, <2>2 DEF TimersNamed
    <3>2. v # w /\ v \in Threads /\ rtimer[q] # i
      BY <1>1, <2>2, <3>1 DEF Threads
    <3>. QED  BY <1>1, <1>3, <2>2, <3>1, <3>2
  <2>. QED  BY <1>1, <1>3, <2>1, <2>2 DEF TimersNamed
<1>4. \A j \in TimerIds : onTimer'[j] # NULL =>
        onTimer'[j] \in bound' /\ rtimer'[onTimer'[j]] = j
  BY <1>1 DEF TimersNamed
<1>5. \A v \in Workers : pc'[v] = "timer" => onTimer'[ltimer'[v]] = NULL
  BY <1>1 DEF TimersNamed, LocalsHeld, Threads
<1>6. \A q \in Recs : rtimer'[q] # NULL => q \in bound'
  BY <1>1 DEF TimersNamed
<1>. QED  BY <1>3, <1>4, <1>5, <1>6 DEF TimersNamed

(* OnTimer drops the id it was called with, if it is still the reconnector's *)
(* (msg_reconnector.cpp:161-180).                                           *)
LEMMA OnTimerNamed ==
  ASSUME TypeOK, LocalsHeld, TimersNamed, NEW w \in Workers, OnTimer(w)
  PROVE  TimersNamed'
<1>. USE DEF TypeOK
<1>0. NULL \notin TimerIds \cup Recs /\ w \in Threads
  BY ClientAssumption DEF Threads
<1>1. /\ pc[w] = "timer" /\ pc'[w] # "timer"
      /\ \A v \in Workers \ {w} : pc'[v] = pc[v] /\ ltimer'[v] = ltimer[v]
      /\ UNCHANGED <<bound, onTimer, lrec>>
  BY <1>0 DEF OnTimer, Goto, Threads
<1>2. ltimer[w] \in TimerIds /\ lrec[w] \in Recs
  BY <1>0, <1>1 DEF LocalsHeld, RecPlaces
<1>3. \A v \in Workers : pc'[v] = "timer" => onTimer'[ltimer'[v]] = NULL
  BY <1>1 DEF TimersNamed
<1>4. CASE lrec[w] \in bound /\ ltimer[w] = rtimer[lrec[w]]
  <2>1. rtimer' = [rtimer EXCEPT ![lrec[w]] = NULL]
    BY <1>4 DEF OnTimer
  <2>2. \A j \in TimerIds : onTimer'[j] # NULL =>
          onTimer'[j] \in bound' /\ rtimer'[onTimer'[j]] = j
    <3>1. \A j \in TimerIds : onTimer[j] # NULL => onTimer[j] # lrec[w]
      BY <1>1, <1>4 DEF TimersNamed
    <3>. QED  BY <1>1, <2>1, <3>1 DEF TimersNamed
  <2>3. ASSUME NEW q \in Recs, rtimer'[q] # NULL
        PROVE  \/ onTimer'[rtimer'[q]] = q
               \/ /\ onTimer'[rtimer'[q]] = NULL
                  /\ \E v \in Workers : pc'[v] = "timer" /\ lrec'[v] = q
                                        /\ ltimer'[v] = rtimer'[q]
    <3>1. q # lrec[w] /\ rtimer'[q] = rtimer[q]
      BY <1>2, <2>1, <2>3
    <3>2. CASE onTimer[rtimer[q]] = q
      BY <1>1, <3>1, <3>2
    <3>3. CASE onTimer[rtimer[q]] # q
      <4>1. PICK v \in Workers : /\ pc[v] = "timer" /\ lrec[v] = q
                                 /\ ltimer[v] = rtimer[q]
                                 /\ onTimer[rtimer[q]] = NULL
        BY <2>3, <3>1, <3>3 DEF TimersNamed
      <4>2. v # w
        BY <3>1, <4>1
      <4>. QED  BY <1>1, <3>1, <4>1, <4>2
    <3>. QED  BY <3>2, <3>3
  <2>4. \A q \in Recs : rtimer'[q] # NULL => q \in bound'
    BY <1>1, <2>1 DEF TimersNamed
  <2>. QED  BY <1>3, <2>2, <2>3, <2>4 DEF TimersNamed
<1>5. CASE ~ (lrec[w] \in bound /\ ltimer[w] = rtimer[lrec[w]])
  <2>1. UNCHANGED rtimer
    BY <1>5 DEF OnTimer
  <2>2. ASSUME NEW q \in Recs, rtimer[q] # NULL
        PROVE  \/ onTimer[rtimer[q]] = q
               \/ /\ onTimer[rtimer[q]] = NULL
                  /\ \E v \in Workers : pc'[v] = "timer" /\ lrec[v] = q
                                        /\ ltimer'[v] = rtimer[q]
    <3>1. CASE onTimer[rtimer[q]] # q
      <4>1. PICK v \in Workers : /\ pc[v] = "timer" /\ lrec[v] = q
                                 /\ ltimer[v] = rtimer[q]
                                 /\ onTimer[rtimer[q]] = NULL
        BY <2>2, <3>1 DEF TimersNamed
      <4>2. rtimer[q] \in TimerIds
        BY <2>2
      <4>3. CASE v = w
        <5>1. q \notin bound
          BY <1>5, <4>1, <4>3
        <5>. QED  BY <2>2, <5>1 DEF TimersNamed
      <4>. QED  BY <1>1, <4>1, <4>3
    <3>. QED  BY <3>1
  <2>. QED  BY <1>1, <1>3, <2>1, <2>2 DEF TimersNamed
<1>. QED  BY <1>4, <1>5

(* Every step keeps timers named.                                           *)
LEMMA NextTimers ==
  ASSUME IInv, LocalsHeld, TimersNamed, [Next]_vars PROVE TimersNamed'
<1>. USE DEF fields, connVars, recVars, locals, Goto
<1>0. /\ pc \in [Threads -> UserPlaces \cup WorkerPlaces]
      /\ lrec \in [Threads -> Recs \cup {NULL}]
      /\ Users \cap Workers = {} /\ Threads = Users \cup Workers
      /\ NULL \notin Recs \cup TimerIds
  BY ClientAssumption DEF IInv, TypeOK, Threads
<1>1. CASE UNCHANGED vars
  BY <1>1, TimersFrame DEF vars
<1>2. ASSUME NEW u \in Users, UserCalls(u) PROVE TimersNamed'
  <2>1. CASE InitOk(u)
    <3>1. PICK r \in Recs \ bound :
            /\ bound' = bound \cup {r}
            /\ rtimer' = [rtimer EXCEPT ![r] = NULL]
            /\ UNCHANGED <<onTimer, pc, lrec, ltimer>>
      BY <2>1 DEF InitOk, FreeRecs
    <3>2. rtimer[r] = NULL
      BY <3>1 DEF TimersNamed
    <3>3. rtimer' = rtimer
      BY <3>1, <3>2 DEF IInv, TypeOK
    <3>. QED  BY <3>1, <3>3 DEF TimersNamed
  <2>2. CASE InitFail(u) \/ FiniLocked(u) \/ SendBegin(u)
    <3>1. /\ UNCHANGED <<bound, rtimer, onTimer, ltimer>>
          /\ \A w \in Workers : pc'[w] = pc[w] /\ lrec'[w] = lrec[w]
      BY <1>0, <2>2 DEF InitFail, FiniLocked, SendBegin
    <3>. QED  BY <3>1, TimersFrame
  <2>3. CASE Reconnect(u)
    BY <2>3, RearmNamed DEF Reconnect, IInv, TypeOK
  <2>4. CASE \/ SetOutputRedline(u) \/ Release(u)
             \/ \E v \in Users : AddRef(u, v)
    BY <2>4, TimersFrame DEF SetOutputRedline, Release, AddRef
  <2>. QED  BY <1>2, <2>1, <2>2, <2>3, <2>4 DEF UserCalls
<1>3. ASSUME NEW u \in Users, UserReturns(u) PROVE TimersNamed'
  <2>1. CASE ~ FiniRec(u)
    <3>1. /\ UNCHANGED <<bound, rtimer, onTimer, ltimer>>
          /\ \A w \in Workers : pc'[w] = pc[w] /\ lrec'[w] = lrec[w]
      BY <1>0, <1>3, <2>1
         DEF UserReturns, ExitSsl, SendEnd, FiniRel, FiniConn, FiniSsl
    <3>. QED  BY <3>1, TimersFrame
  <2>. QED  BY <2>1, FiniRecNamed
<1>4. ASSUME NEW w \in Workers, WorkerBegins(w) PROVE TimersNamed'
  <2>1. ASSUME NEW c \in Conns, CbBegin(w, c) PROVE TimersNamed'
    BY <1>0, <2>1, TimersFrame DEF CbBegin
  <2>. QED  BY <1>4, <2>1, FireNamed DEF WorkerBegins, IInv
<1>5. ASSUME NEW w \in Workers, WorkerReturns(w) PROVE TimersNamed'
  <2>1. CASE ReconnectAgain(w)
    BY <1>0, <2>1, RearmNamed DEF ReconnectAgain, IInv, TypeOK
  <2>2. CASE ~ (OnTimer(w) \/ ReconnectAgain(w))
    <3>1. /\ UNCHANGED <<bound, rtimer, onTimer, ltimer>>
          /\ \A v \in Workers \ {w} : pc'[v] = pc[v] /\ lrec'[v] = lrec[v]
          /\ pc[w] # "timer" /\ pc'[w] # "timer"
      BY <1>0, <1>5, <2>2
         DEF WorkerReturns, ReconnectSwap, ReconnectClosed, DeleteOld, RelTimer,
             RelRec, CbCheck, CbEnd
    <3>. QED  BY <3>1, TimersFrame
  <2>. QED  BY <1>5, <2>1, <2>2, OnTimerNamed DEF IInv
<1>. QED
  BY <1>1, <1>2, <1>3, <1>4, <1>5 DEF Next, Abandoned

(* There are finitely many threads and timers.                              *)
LEMMA CountsFinite ==
  /\ \A c : IsFiniteSet(ConnHolders(c)) /\ Cardinality(ConnHolders(c)) \in Nat
  /\ \A r : /\ IsFiniteSet(RecHolders(r)) /\ Cardinality(RecHolders(r)) \in Nat
            /\ IsFiniteSet(RecTimers(r)) /\ Cardinality(RecTimers(r)) \in Nat
  /\ IsFiniteSet(ClientHolders) /\ Cardinality(ClientHolders) \in Nat
<1>1. IsFiniteSet(Threads) /\ IsFiniteSet(TimerIds)
  BY ClientAssumption, FS_Union DEF Threads
<1>2. /\ \A c : ConnHolders(c) \in SUBSET Threads
      /\ \A r : RecHolders(r) \in SUBSET Threads /\ RecTimers(r) \in SUBSET TimerIds
      /\ ClientHolders \in SUBSET Threads
  BY DEF ConnHolders, RecHolders, RecTimers, ClientHolders
<1>3. /\ \A c : IsFiniteSet(ConnHolders(c))
      /\ \A r : IsFiniteSet(RecHolders(r)) /\ IsFiniteSet(RecTimers(r))
      /\ IsFiniteSet(ClientHolders)
  BY <1>1, <1>2, FS_Subset
<1>. QED  BY <1>3, FS_CardinalityType

(* Counts of connections stay exact where no reference moves.               *)
LEMMA ConnRefsFrame ==
  ASSUME ConnRefs, UNCHANGED <<crefs, open>>,
         \A c \in Conns : ConnHolders(c)' = ConnHolders(c)
  PROVE  ConnRefs'
BY DEF ConnRefs

(* A thread that begins to use a connection takes a reference to it         *)
(* (msg_client.cpp:612-617).                                                *)
LEMMA ConnRefsJoin ==
  ASSUME TypeOK, ConnRefs, NEW t \in Threads, NEW c \in Conns,
         NEW p \in {"send", "callback"},
         lconn[t] = NULL, Goto(t, p), lconn' = [lconn EXCEPT ![t] = c],
         crefs' = [crefs EXCEPT ![c] = @ + 1], open' = open
  PROVE  ConnRefs'
<1>. USE DEF TypeOK
<1>1. NULL \notin Conns
  BY ClientAssumption
<1>2. t \notin ConnHolders(c) /\ ConnHolders(c)' = ConnHolders(c) \cup {t}
  BY <1>1 DEF ConnHolders, Goto
<1>3. \A x \in Conns \ {c} : ConnHolders(x)' = ConnHolders(x)
  BY <1>1 DEF ConnHolders, Goto
<1>4. Cardinality(ConnHolders(c)') = Cardinality(ConnHolders(c)) + 1
  BY <1>2, CountsFinite, CountMore
<1>. QED  BY <1>3, <1>4, CountsFinite DEF ConnRefs, One

(* A thread that ends its use gives the reference back.                     *)
LEMMA ConnRefsLeave ==
  ASSUME TypeOK, ConnRefs, NEW t \in Threads, lconn[t] \in Conns,
         pc[t] \in {"send", "deliver", "cbEnd"}, Goto(t, "idle"),
         lconn' = [lconn EXCEPT ![t] = NULL],
         crefs' = [crefs EXCEPT ![lconn[t]] = @ - 1], open' = open
  PROVE  ConnRefs'
<1>. USE DEF TypeOK
<1>1. NULL \notin Conns
  BY ClientAssumption
<1>2. PICK c \in Conns : c = lconn[t]
  OBVIOUS
<1>3. t \in ConnHolders(c) /\ ConnHolders(c)' = ConnHolders(c) \ {t}
  BY <1>1, <1>2 DEF ConnHolders, Goto
<1>4. \A x \in Conns \ {c} : ConnHolders(x)' = ConnHolders(x)
  BY <1>1, <1>2 DEF ConnHolders, Goto
<1>5. Cardinality(ConnHolders(c)') = Cardinality(ConnHolders(c)) - 1
  BY <1>3, CountsFinite, CountLess
<1>6. crefs'[c] = One(c \in open') + Cardinality(ConnHolders(c)')
  BY <1>2, <1>5, CountsFinite DEF ConnRefs, One
<1>7. \A x \in Conns \ {c} :
        crefs'[x] = One(x \in open') + Cardinality(ConnHolders(x)')
  BY <1>2, <1>4 DEF ConnRefs
<1>. QED  BY <1>6, <1>7 DEF ConnRefs

(* A connection is created with one reference, that of its owner, ...       *)
LEMMA ConnRefsCreate ==
  ASSUME TypeOK, ConnRefs, NEW c \in FreeConns, NEW s, NEW v,
         CreateConn(c, s, v), \A x \in Conns : ConnHolders(x)' = ConnHolders(x)
  PROVE  ConnRefs'
BY CountsFinite DEF TypeOK, ConnRefs, FreeConns, CreateConn, One

(* ... and who deletes it gives that one back (msg_client.cpp:461,723).      *)
LEMMA ConnRefsDelete ==
  ASSUME IInv, LocalsHeld, ConnRefs, NEW t \in Threads,
         NEW p \in {"finiSsl", "relTimer"},
         pc[t] \in {"finiConn", "delOld"}, Goto(t, p),
         DeleteConn(lconn[t]), lconn' = [lconn EXCEPT ![t] = NULL]
  PROVE  ConnRefs'
<1>. USE DEF IInv, TypeOK
<1>1. PICK c \in Conns : c = lconn[t]
  BY DEF LocalsHeld, ConnPlaces
<1>2. c \in open
  BY <1>1 DEF OneOwner, ConnOwned, Owned, Deletes
<1>3. \A x \in Conns : ConnHolders(x)' = ConnHolders(x)
  BY DEF ConnHolders, Goto
<1>. QED  BY <1>1, <1>2, <1>3, CountsFinite DEF ConnRefs, DeleteConn, One

(* Every step keeps the counts of connections exact.                        *)
LEMMA NextConnRefs ==
  ASSUME IInv, LocalsHeld, ConnRefs, [Next]_vars PROVE ConnRefs'
<1>. USE DEF fields, connVars, locals
<1>0. /\ pc \in [Threads -> UserPlaces \cup WorkerPlaces]
      /\ lconn \in [Threads -> Conns \cup {NULL}]
      /\ Threads = Users \cup Workers /\ NULL \notin Conns
      /\ m_msgClient \in Conns \cup {NULL}
      /\ TypeOK
  BY ClientAssumption DEF IInv, TypeOK, Threads
<1>1. CASE UNCHANGED vars
  BY <1>1, ConnRefsFrame DEF vars, ConnHolders
<1>2. ASSUME NEW u \in Users, UserCalls(u) PROVE ConnRefs'
  <2>1. CASE InitOk(u)
    <3>1. PICK c \in FreeConns, s \in FreeSsls \cup {NULL}, v \in Redlines :
            CreateConn(c, s, v)
      BY <2>1 DEF InitOk
    <3>2. \A x \in Conns : ConnHolders(x)' = ConnHolders(x)
      BY <2>1 DEF InitOk, ConnHolders
    <3>. QED  BY <1>0, <3>1, <3>2, ConnRefsCreate
  <2>2. CASE InitFail(u) \/ FiniLocked(u)
    <3>1. pc[u] = "idle" /\ lconn[u] = NULL
      BY <1>0, <2>2
         DEF InitFail, FiniLocked, Calls, LocalsHeld, ConnPlaces
    <3>2. \A x \in Conns : ConnHolders(x)' = ConnHolders(x)
      BY <1>0, <2>2, <3>1 DEF InitFail, FiniLocked, Goto, ConnHolders
    <3>. QED  BY <2>2, <3>2, ConnRefsFrame DEF InitFail, FiniLocked
  <2>3. CASE SendBegin(u)
    <3>1. lconn[u] = NULL
      BY <1>0, <2>3 DEF SendBegin, Calls, LocalsHeld, ConnPlaces
    <3>. QED  BY <1>0, <2>3, <3>1, ConnRefsJoin DEF SendBegin
  <2>4. CASE \/ SetOutputRedline(u) \/ Reconnect(u) \/ Release(u)
             \/ \E v \in Users : AddRef(u, v)
    BY <2>4, ConnRefsFrame
       DEF SetOutputRedline, Reconnect, Release, AddRef, ConnHolders
  <2>. QED  BY <1>2, <2>1, <2>2, <2>3, <2>4 DEF UserCalls
<1>3. ASSUME NEW u \in Users, UserReturns(u) PROVE ConnRefs'
  <2>1. CASE SendEnd(u)
    <3>1. lconn[u] \in Conns
      BY <1>0, <2>1 DEF SendEnd, LocalsHeld, ConnPlaces
    <3>. QED  BY <1>0, <2>1, <3>1, ConnRefsLeave DEF SendEnd
  <2>2. CASE FiniConn(u)
    BY <1>0, <2>2, ConnRefsDelete DEF FiniConn
  <2>3. CASE ExitSsl(u) \/ FiniRec(u) \/ FiniRel(u) \/ FiniSsl(u)
    <3>1. /\ UNCHANGED <<crefs, open, lconn>>
          /\ \E p \in {"idle", "finiRel", "finiConn"} : Goto(u, p)
          /\ pc[u] \in {"exit", "finiRec", "finiRel", "finiSsl"}
      BY <2>3 DEF ExitSsl, FiniRec, FiniRel, FiniSsl
    <3>2. \A x \in Conns : ConnHolders(x)' = ConnHolders(x)
      BY <1>0, <3>1 DEF Goto, ConnHolders
    <3>. QED  BY <3>1, <3>2, ConnRefsFrame
  <2>. QED  BY <1>3, <2>1, <2>2, <2>3 DEF UserReturns
<1>4. ASSUME NEW w \in Workers, WorkerBegins(w) PROVE ConnRefs'
  <2>0. pc[w] = "idle" /\ lconn[w] = NULL
    BY <1>0, <1>4 DEF WorkerBegins, Fire, CbBegin, LocalsHeld, ConnPlaces
  <2>1. ASSUME NEW i \in TimerIds, Fire(w, i) PROVE ConnRefs'
    <3>1. \A x \in Conns : ConnHolders(x)' = ConnHolders(x)
      BY <1>0, <2>0, <2>1 DEF Fire, Goto, ConnHolders
    <3>. QED  BY <2>1, <3>1, ConnRefsFrame DEF Fire
  <2>2. ASSUME NEW c \in Conns, CbBegin(w, c) PROVE ConnRefs'
    BY <1>0, <2>0, <2>2, ConnRefsJoin DEF CbBegin
  <2>. QED  BY <1>4, <2>1, <2>2 DEF WorkerBegins
<1>5. ASSUME NEW w \in Workers, WorkerReturns(w) PROVE ConnRefs'
  <2>1. CASE CbEnd(w)
    <3>1. lconn[w] \in Conns
      BY <1>0, <2>1 DEF CbEnd, LocalsHeld, ConnPlaces
    <3>2. pc[w] \in {"deliver", "cbEnd"}
      BY <2>1 DEF CbEnd
    <3>. QED  BY <1>0, <2>1, <3>1, <3>2, ConnRefsLeave DEF CbEnd
  <2>2. CASE DeleteOld(w)
    BY <1>0, <2>2, ConnRefsDelete DEF DeleteOld
  <2>3. CASE ReconnectSwap(w)
    <3>1. PICK c \in FreeConns : CreateConn(c, m_sslConfig, m_redline)
      BY <2>3 DEF ReconnectSwap
    <3>2. lconn[w] = NULL
      BY <1>0, <2>3 DEF ReconnectSwap, LocalsHeld, ConnPlaces
    <3>3. \A x \in Conns : ConnHolders(x)' = ConnHolders(x)
      BY <1>0, <2>3, <3>2 DEF ReconnectSwap, Goto, ConnHolders
    <3>. QED  BY <1>0, <3>1, <3>3, ConnRefsCreate
  <2>4. CASE CbCheck(w)
    <3>1. \A x \in Conns : ConnHolders(x)' = ConnHolders(x)
      BY <1>0, <2>4 DEF CbCheck, Goto, ConnHolders
    <3>. QED  BY <2>4, <3>1, ConnRefsFrame DEF CbCheck
  <2>5. CASE \/ OnTimer(w) \/ ReconnectAgain(w) \/ ReconnectClosed(w)
             \/ RelTimer(w) \/ RelRec(w)
    <3>1. /\ UNCHANGED <<crefs, open, lconn>>
          /\ \E p \in {"idle", "reconn", "relTimer", "relRec"} : Goto(w, p)
          /\ pc[w] \in {"timer", "reconn", "relTimer", "relRec"}
      BY <2>5 DEF OnTimer, ReconnectAgain, ReconnectClosed, RelTimer, RelRec
    <3>2. \A x \in Conns : ConnHolders(x)' = ConnHolders(x)
      BY <1>0, <3>1 DEF Goto, ConnHolders
    <3>. QED  BY <3>1, <3>2, ConnRefsFrame
  <2>. QED  BY <1>5, <2>1, <2>2, <2>3, <2>4, <2>5 DEF WorkerReturns
<1>. QED
  BY <1>1, <1>2, <1>3, <1>4, <1>5 DEF Next, Abandoned

(* Cancelling the timer a reconnector names drops one of its references if  *)
(* the timer was pending, and touches no other reconnector                  *)
(* (msg_reconnector.cpp:94-99,133-138).                                     *)
LEMMA CancelCount ==
  ASSUME TypeOK, TimersNamed, NEW r \in Recs
  PROVE  /\ Cardinality({j \in TimerIds : CancelTimer(rtimer[r])[j] = r})
              = Cardinality(RecTimers(r)) - Pending(rtimer[r])
         /\ \A q \in Recs \ {r} :
              {j \in TimerIds : CancelTimer(rtimer[r])[j] = q} = RecTimers(q)
<1>. USE DEF TypeOK
<1>0. NULL \notin Recs \cup TimerIds
  BY ClientAssumption
<1>1. rtimer[r] # NULL /\ onTimer[rtimer[r]] # NULL => onTimer[rtimer[r]] = r
  BY DEF TimersNamed
<1>2. {j \in TimerIds : CancelTimer(rtimer[r])[j] = r}
        = RecTimers(r) \ {rtimer[r]}
  BY <1>0 DEF CancelTimer, RecTimers
<1>3. \A q \in Recs \ {r} :
        {j \in TimerIds : CancelTimer(rtimer[r])[j] = q} = RecTimers(q)
  BY <1>0, <1>1 DEF CancelTimer, RecTimers
<1>4. CASE rtimer[r] \in RecTimers(r)
  <2>1. Pending(rtimer[r]) = 1
    BY <1>0, <1>4 DEF Pending, RecTimers
  <2>2. Cardinality(RecTimers(r) \ {rtimer[r]}) = Cardinality(RecTimers(r)) - 1
    BY <1>4, CountsFinite, CountLess
  <2>. QED  BY <1>2, <1>3, <2>1, <2>2
<1>5. CASE rtimer[r] \notin RecTimers(r)
  <2>1. Pending(rtimer[r]) = 0
    BY <1>1, <1>5 DEF Pending, RecTimers
  <2>2. RecTimers(r) \ {rtimer[r]} = RecTimers(r)
    BY <1>5
  <2>3. Cardinality(RecTimers(r)) = Cardinality(RecTimers(r)) - 0
    BY CountsFinite
  <2>. QED  BY <1>2, <1>3, <2>1, <2>2, <2>3, Zenon
<1>. QED  BY <1>4, <1>5

(* Counts of reconnectors stay exact where no reference moves.              *)
LEMMA RecRefsFrame ==
  ASSUME RecRefs, UNCHANGED <<rrefs, m_reconnector, onTimer>>,
         \A r \in Recs : RecHolders(r)' = RecHolders(r)
  PROVE  RecRefs'
BY DEF RecRefs, RecTimers

(* A thread that gives its reconnector back gives one reference back        *)
(* (msg_client.cpp:458, msg_reconnector.cpp:182-187).                       *)
LEMMA RecRefsLeave ==
  ASSUME TypeOK, RecRefs, NEW t \in Threads, lrec[t] \in Recs,
         lrec' = [lrec EXCEPT ![t] = NULL],
         rrefs' = [rrefs EXCEPT ![lrec[t]] = @ - 1],
         UNCHANGED <<m_reconnector, onTimer>>
  PROVE  RecRefs'
<1>. USE DEF TypeOK
<1>1. NULL \notin Recs
  BY ClientAssumption
<1>2. PICK r \in Recs : r = lrec[t]
  OBVIOUS
<1>3. t \in RecHolders(r) /\ RecHolders(r)' = RecHolders(r) \ {t}
  BY <1>1, <1>2 DEF RecHolders
<1>4. \A x \in Recs \ {r} : RecHolders(x)' = RecHolders(x)
  BY <1>1, <1>2 DEF RecHolders
<1>5. Cardinality(RecHolders(r)') = Cardinality(RecHolders(r)) - 1
  BY <1>3, CountsFinite, CountLess
<1>6. \A x \in Recs : RecTimers(x)' = RecTimers(x)
  BY DEF RecTimers
<1>7. rrefs'[r] = One(r = m_reconnector') + Cardinality(RecTimers(r)')
                    + Cardinality(RecHolders(r)')
  <2>1. rrefs[r] = One(r = m_reconnector) + Cardinality(RecTimers(r))
                      + Cardinality(RecHolders(r))
    BY DEF RecRefs
  <2>2. rrefs'[r] = rrefs[r] - 1
    BY <1>2
  <2>3. /\ Cardinality(RecTimers(r)) \in Nat /\ Cardinality(RecHolders(r)) \in Nat
        /\ One(r = m_reconnector) \in Nat
    BY CountsFinite DEF One
  <2>4. One(r = m_reconnector') = One(r = m_reconnector)
    OBVIOUS
  <2>. QED  BY <1>5, <1>6, <2>1, <2>2, <2>3, <2>4
<1>8. \A x \in Recs \ {r} :
        rrefs'[x] = One(x = m_reconnector') + Cardinality(RecTimers(x)')
                      + Cardinality(RecHolders(x)')
  BY <1>2, <1>4, <1>6 DEF RecRefs
<1>. QED  BY <1>7, <1>8 DEF RecRefs

(* A reconnector that re-arms trades the pending timer for a new one        *)
(* (msg_reconnector.cpp:133-145).                                           *)
LEMMA RecRefsRearm ==
  ASSUME TypeOK, TimersNamed, RecRefs, NEW r \in Recs, Rearm(r),
         UNCHANGED <<m_reconnector, lrec>>
  PROVE  RecRefs'
<1>. USE DEF TypeOK
<1>0. NULL \notin Recs /\ \A x \in Recs : RecHolders(x)' = RecHolders(x)
  BY ClientAssumption DEF RecHolders
<1>1. CASE r \notin bound
  BY <1>0, <1>1, RecRefsFrame DEF Rearm, recVars
<1>2. CASE r \in bound
  <2>1. PICK i \in FreshIds :
          /\ onTimer' = [CancelTimer(rtimer[r]) EXCEPT ![i] = r]
          /\ rrefs' = [rrefs EXCEPT ![r] = @ + 1 - Pending(rtimer[r])]
    BY <1>2 DEF Rearm
  <2>2. i \in TimerIds /\ onTimer[i] = NULL
    BY DEF FreshIds
  <2>. DEFINE Rest(q) == {j \in TimerIds : CancelTimer(rtimer[r])[j] = q}
  <2>3. i \notin Rest(r) /\ RecTimers(r)' = Rest(r) \cup {i}
    BY <1>0, <2>1, <2>2 DEF RecTimers, CancelTimer
  <2>4. \A q \in Recs \ {r} : RecTimers(q)' = Rest(q)
    BY <1>0, <2>1, <2>2 DEF RecTimers, CancelTimer
  <2>5. IsFiniteSet(Rest(r))
    BY ClientAssumption, FS_Subset
  <2>6. Cardinality(RecTimers(r)') = Cardinality(Rest(r)) + 1
    BY <2>3, <2>5, CountMore
  <2>7. /\ Cardinality(Rest(r)) = Cardinality(RecTimers(r)) - Pending(rtimer[r])
        /\ \A q \in Recs \ {r} : Rest(q) = RecTimers(q)
    BY CancelCount
  <2>. HIDE DEF Rest
  <2>8. rrefs'[r] = One(r = m_reconnector') + Cardinality(RecTimers(r)')
                      + Cardinality(RecHolders(r)')
    BY <1>0, <2>1, <2>6, <2>7, CountsFinite, PendingType DEF RecRefs, One
  <2>9. \A x \in Recs \ {r} :
          rrefs'[x] = One(x = m_reconnector') + Cardinality(RecTimers(x)')
                        + Cardinality(RecHolders(x)')
    BY <1>0, <2>1, <2>4, <2>7 DEF RecRefs
  <2>. QED  BY <2>8, <2>9 DEF RecRefs
<1>. QED  BY <1>1, <1>2

(* Fini of a reconnector drops the reference of its pending timer           *)
(* (msg_reconnector.cpp:86-100).                                            *)
LEMMA RecRefsFini ==
  ASSUME TypeOK, TimersNamed, RecRefs, NEW u \in Users, FiniRec(u)
  PROVE  RecRefs'
<1>. USE DEF TypeOK
<1>1. PICK r \in Recs : r = lrec[u] /\ r \in bound
  BY DEF FiniRec
<1>2. /\ onTimer' = CancelTimer(rtimer[r])
      /\ rrefs' = [rrefs EXCEPT ![r] = @ - Pending(rtimer[r])]
      /\ UNCHANGED <<m_reconnector, lrec>>
  BY <1>1 DEF FiniRec, fields, locals
<1>3. /\ Cardinality(RecTimers(r)')
           = Cardinality(RecTimers(r)) - Pending(rtimer[r])
      /\ \A q \in Recs \ {r} : RecTimers(q)' = RecTimers(q)
  <2>1. \A q \in Recs :
          RecTimers(q)' = {j \in TimerIds : CancelTimer(rtimer[r])[j] = q}
    BY <1>2 DEF RecTimers
  <2>. QED  BY <2>1, CancelCount
<1>4. \A x \in Recs : RecHolders(x)' = RecHolders(x)
  BY <1>2 DEF RecHolders
<1>5. rrefs'[r] = One(r = m_reconnector') + Cardinality(RecTimers(r)')
                    + Cardinality(RecHolders(r)')
  BY <1>2, <1>3, <1>4, CountsFinite, PendingType DEF RecRefs, One
<1>6. \A x \in Recs \ {r} :
        rrefs'[x] = One(x = m_reconnector') + Cardinality(RecTimers(x)')
                      + Cardinality(RecHolders(x)')
  BY <1>2, <1>3, <1>4 DEF RecRefs
<1>. QED  BY <1>5, <1>6 DEF RecRefs

(* The reference of the reactor becomes that of the callback                *)
(* (msg_reconnector.cpp:157-187).                                           *)
LEMMA RecRefsFire ==
  ASSUME TypeOK, LocalsHeld, RecRefs,
         NEW w \in Workers, NEW i \in TimerIds, Fire(w, i)
  PROVE  RecRefs'
<1>. USE DEF TypeOK
<1>0. NULL \notin Recs /\ w \in Threads /\ lrec[w] = NULL
  BY ClientAssumption DEF Fire, LocalsHeld, RecPlaces, Threads
<1>1. PICK r \in Recs : r = onTimer[i]
  BY DEF Fire
<1>2. /\ lrec' = [lrec EXCEPT ![w] = r]
      /\ onTimer' = [onTimer EXCEPT ![i] = NULL]
      /\ UNCHANGED <<rrefs, m_reconnector>>
  BY <1>1 DEF Fire, fields
<1>3. /\ i \in RecTimers(r) /\ RecTimers(r)' = RecTimers(r) \ {i}
      /\ \A q \in Recs \ {r} : RecTimers(q)' = RecTimers(q)
  BY <1>0, <1>1, <1>2 DEF RecTimers
<1>4. /\ w \notin RecHolders(r) /\ RecHolders(r)' = RecHolders(r) \cup {w}
      /\ \A q \in Recs \ {r} : RecHolders(q)' = RecHolders(q)
  BY <1>0, <1>2 DEF RecHolders
<1>5. /\ Cardinality(RecTimers(r)') = Cardinality(RecTimers(r)) - 1
      /\ Cardinality(RecHolders(r)') = Cardinality(RecHolders(r)) + 1
  BY <1>3, <1>4, CountsFinite, CountMore, CountLess
<1>6. rrefs'[r] = One(r = m_reconnector') + Cardinality(RecTimers(r)')
                    + Cardinality(RecHolders(r)')
  BY <1>2, <1>5, CountsFinite DEF RecRefs, One
<1>7. \A x \in Recs \ {r} :
        rrefs'[x] = One(x = m_reconnector') + Cardinality(RecTimers(x)')
                      + Cardinality(RecHolders(x)')
  BY <1>2, <1>3, <1>4 DEF RecRefs
<1>. QED  BY <1>6, <1>7 DEF RecRefs

(* Fini moves the member's reference to the calling thread                  *)
(* (msg_client.cpp:446-453).                                                *)
LEMMA RecRefsTake ==
  ASSUME IInv, LocalsHeld, RecRefs, NEW u \in Users, FiniLocked(u)
  PROVE  RecRefs'
<1>. USE DEF IInv, TypeOK
<1>0. NULL \notin Recs /\ u \in Threads /\ lrec[u] = NULL
  BY ClientAssumption DEF FiniLocked, Calls, LocalsHeld, RecPlaces, Threads
<1>1. PICK r \in Recs : r = m_reconnector
  BY DEF FiniLocked, FieldsTogether
<1>2. /\ lrec' = [lrec EXCEPT ![u] = r] /\ m_reconnector' = NULL
      /\ UNCHANGED <<rrefs, onTimer>>
  BY <1>1 DEF FiniLocked, recVars
<1>3. /\ u \notin RecHolders(r) /\ RecHolders(r)' = RecHolders(r) \cup {u}
      /\ \A q \in Recs \ {r} : RecHolders(q)' = RecHolders(q)
  BY <1>0, <1>2 DEF RecHolders
<1>4. Cardinality(RecHolders(r)') = Cardinality(RecHolders(r)) + 1
  BY <1>3, CountsFinite, CountMore
<1>5. \A x \in Recs : RecTimers(x)' = RecTimers(x)
  BY <1>2 DEF RecTimers
<1>6. rrefs'[r] = One(r = m_reconnector') + Cardinality(RecTimers(r)')
                    + Cardinality(RecHolders(r)')
  <2>1. rrefs[r] = One(r = m_reconnector) + Cardinality(RecTimers(r))
                      + Cardinality(RecHolders(r))
    BY DEF RecRefs
  <2>2. /\ Cardinality(RecTimers(r)) \in Nat /\ Cardinality(RecHolders(r)) \in Nat
        /\ One(r = m_reconnector) = 1 /\ One(r = m_reconnector') = 0
    BY <1>0, <1>1, <1>2, CountsFinite DEF One
  <2>. QED  BY <1>2, <1>4, <1>5, <2>1, <2>2
<1>7. \A x \in Recs \ {r} :
        rrefs'[x] = One(x = m_reconnector') + Cardinality(RecTimers(x)')
                      + Cardinality(RecHolders(x)')
  BY <1>0, <1>1, <1>2, <1>3, <1>5 DEF RecRefs, One
<1>. QED  BY <1>6, <1>7 DEF RecRefs

(* A free reconnector has no timer and is in no thread's hands.             *)
LEMMA FreeRecUnused ==
  ASSUME RecRefs, NEW r \in FreeRecs
  PROVE  RecTimers(r) = {} /\ RecHolders(r) = {}
<1>1. Cardinality(RecTimers(r)) = 0 /\ Cardinality(RecHolders(r)) = 0
  BY CountsFinite DEF RecRefs, FreeRecs, One
<1>. QED  BY <1>1, CountsFinite, FS_EmptySet

(* Init creates a reconnector with the one reference of its member          *)
(* (msg_client.cpp:399-411).                                                *)
LEMMA RecRefsCreate ==
  ASSUME TypeOK, RecRefs, NEW u \in Users, InitOk(u)
  PROVE  RecRefs'
<1>. USE DEF TypeOK
<1>1. PICK r \in FreeRecs : /\ rrefs' = [rrefs EXCEPT ![r] = 1]
                            /\ m_reconnector' = r
  BY DEF InitOk
<1>2. /\ r \in Recs /\ m_reconnector = NULL /\ NULL \notin Recs
      /\ UNCHANGED <<onTimer, lrec>>
  BY ClientAssumption DEF InitOk, FreeRecs, locals
<1>3. \A x \in Recs : RecTimers(x)' = RecTimers(x) /\ RecHolders(x)' = RecHolders(x)
  BY <1>2 DEF RecTimers, RecHolders
<1>4. Cardinality(RecTimers(r)) = 0 /\ Cardinality(RecHolders(r)) = 0
  BY FreeRecUnused, FS_EmptySet
<1>5. rrefs'[r] = One(r = m_reconnector') + Cardinality(RecTimers(r)')
                    + Cardinality(RecHolders(r)')
  BY <1>1, <1>2, <1>3, <1>4 DEF One
<1>6. \A x \in Recs \ {r} :
        rrefs'[x] = One(x = m_reconnector') + Cardinality(RecTimers(x)')
                      + Cardinality(RecHolders(x)')
  BY <1>1, <1>2, <1>3 DEF RecRefs, One
<1>. QED  BY <1>5, <1>6 DEF RecRefs

(* Every step keeps the counts of reconnectors exact.                       *)
LEMMA NextRecRefs ==
  ASSUME IInv, LocalsHeld, TimersNamed, RecRefs, [Next]_vars PROVE RecRefs'
<1>. USE DEF fields, connVars, recVars, locals
<1>0. /\ lrec \in [Threads -> Recs \cup {NULL}]
      /\ Threads = Users \cup Workers
      /\ m_reconnector \in Recs \cup {NULL}
      /\ TypeOK
  BY DEF IInv, TypeOK, Threads
<1>1. CASE UNCHANGED vars
  BY <1>1, RecRefsFrame DEF vars, RecHolders
<1>2. ASSUME NEW u \in Users, UserCalls(u) PROVE RecRefs'
  <2>1. CASE Reconnect(u)
    <3>1. m_reconnector \in Recs
      BY <1>0, <2>1 DEF Reconnect
    <3>. QED  BY <1>0, <2>1, <3>1, RecRefsRearm DEF Reconnect
  <2>2. CASE \/ InitFail(u) \/ SendBegin(u) \/ SetOutputRedline(u) \/ Release(u)
             \/ \E v \in Users : AddRef(u, v)
    BY <2>2, RecRefsFrame
       DEF InitFail, SendBegin, SetOutputRedline, Release, AddRef, RecHolders
  <2>. QED
    BY <1>0, <1>2, <2>1, <2>2, RecRefsCreate, RecRefsTake DEF UserCalls
<1>3. ASSUME NEW u \in Users, UserReturns(u) PROVE RecRefs'
  <2>1. CASE FiniRel(u)
    <3>1. lrec[u] \in Recs
      BY <1>0, <2>1 DEF FiniRel, LocalsHeld, RecPlaces
    <3>. QED  BY <1>0, <2>1, <3>1, RecRefsLeave DEF FiniRel
  <2>2. CASE ExitSsl(u) \/ SendEnd(u) \/ FiniConn(u) \/ FiniSsl(u)
    BY <2>2, RecRefsFrame DEF ExitSsl, SendEnd, FiniConn, FiniSsl, RecHolders
  <2>. QED  BY <1>0, <1>3, <2>1, <2>2, RecRefsFini DEF UserReturns
<1>4. ASSUME NEW w \in Workers, WorkerBegins(w) PROVE RecRefs'
  <2>1. ASSUME NEW c \in Conns, CbBegin(w, c) PROVE RecRefs'
    BY <2>1, RecRefsFrame DEF CbBegin, RecHolders
  <2>. QED  BY <1>0, <1>4, <2>1, RecRefsFire DEF WorkerBegins
<1>5. ASSUME NEW w \in Workers, WorkerReturns(w) PROVE RecRefs'
  <2>1. CASE ReconnectAgain(w)
    <3>1. m_reconnector \in Recs
      BY <1>0, <2>1 DEF ReconnectAgain
    <3>. QED  BY <1>0, <2>1, <3>1, RecRefsRearm DEF ReconnectAgain
  <2>2. CASE RelRec(w)
    <3>1. lrec[w] \in Recs
      BY <1>0, <2>2 DEF RelRec, LocalsHeld, RecPlaces
    <3>. QED  BY <1>0, <2>2, <3>1, RecRefsLeave DEF RelRec
  <2>3. CASE \/ OnTimer(w) \/ ReconnectSwap(w) \/ ReconnectClosed(w)
             \/ DeleteOld(w) \/ RelTimer(w) \/ CbCheck(w) \/ CbEnd(w)
    BY <2>3, RecRefsFrame DEF OnTimer, ReconnectSwap, ReconnectClosed, DeleteOld,
                              RelTimer, CbCheck, CbEnd, RecHolders
  <2>. QED  BY <1>5, <2>1, <2>2, <2>3 DEF WorkerReturns
<1>. QED
  BY <1>1, <1>2, <1>3, <1>4, <1>5 DEF Next, Abandoned

(* The sets the references to the client are counted by are finite.         *)
LEMMA ClientFinite ==
  ASSUME TypeOK
  PROVE  /\ IsFiniteSet(holds) /\ Cardinality(holds) \in Nat
         /\ IsFiniteSet(open) /\ Cardinality(open) \in Nat
         /\ IsFiniteSet(bound) /\ Cardinality(bound) \in Nat
<1>1. holds \in SUBSET Users /\ open \in SUBSET Conns /\ bound \in SUBSET Recs
  BY DEF TypeOK
<1>2. IsFiniteSet(holds) /\ IsFiniteSet(open) /\ IsFiniteSet(bound)
  BY <1>1, ClientAssumption, FS_Subset
<1>. QED  BY <1>2, FS_CardinalityType

\* The places where a thread, besides its user's own, has a reference to the
\* client.
ClientPlaces == {"reconn", "delOld", "relTimer", "callback", "deliver", "cbEnd",
                 "finiRel"}

(* A thread counts for a reference as long as it is in one of them.         *)
LEMMA HoldersGoto ==
  ASSUME TypeOK, NEW t \in Threads, NEW p, Goto(t, p)
  PROVE  /\ pc[t] \in ClientPlaces <=> t \in ClientHolders
         /\ p \in ClientPlaces => ClientHolders' = ClientHolders \cup {t}
         /\ p \notin ClientPlaces => ClientHolders' = ClientHolders \ {t}
<1>1. \A v \in Threads : pc'[v] = IF v = t THEN p ELSE pc[v]
  BY DEF TypeOK, Goto
<1>. QED  BY <1>1 DEF ClientHolders, ClientPlaces

(* A step of one thread changes the number of holders by its own place.     *)
LEMMA HoldersCount ==
  ASSUME TypeOK, NEW t \in Threads, NEW p, Goto(t, p)
  PROVE  Cardinality(ClientHolders') = Cardinality(ClientHolders)
           + One(p \in ClientPlaces) - One(pc[t] \in ClientPlaces)
<1>1. CASE p \in ClientPlaces /\ pc[t] \notin ClientPlaces
  <2>1. t \notin ClientHolders /\ ClientHolders' = ClientHolders \cup {t}
    BY <1>1, HoldersGoto
  <2>. QED  BY <1>1, <2>1, CountsFinite, CountMore DEF One
<1>2. CASE p \notin ClientPlaces /\ pc[t] \in ClientPlaces
  <2>1. t \in ClientHolders /\ ClientHolders' = ClientHolders \ {t}
    BY <1>2, HoldersGoto
  <2>2. Cardinality(ClientHolders') = Cardinality(ClientHolders) - 1
    BY <2>1, CountsFinite, CountLess
  <2>. QED  BY <1>2, <2>2, CountsFinite DEF One
<1>3. CASE p \in ClientPlaces <=> pc[t] \in ClientPlaces
  <2>1. ClientHolders' = ClientHolders
    BY <1>3, HoldersGoto
  <2>2. One(p \in ClientPlaces) = One(pc[t] \in ClientPlaces)
          /\ One(p \in ClientPlaces) \in Nat
    BY <1>3 DEF One
  <2>. QED  BY <2>1, <2>2, CountsFinite
<1>. QED  BY <1>1, <1>2, <1>3

(* Users keep the count of the client exact (msg_client.cpp:182-192,405-413, *)
(* 456-461).                                                                *)
LEMMA UserClientRefs ==
  ASSUME IInv, LocalsHeld, ClientRefs,
         NEW u \in Users, UserCalls(u) \/ UserReturns(u)
  PROVE  ClientRefs'
<1>. USE DEF fields, connVars, recVars, locals
<1>0. u \in Threads /\ refs \in Int /\ TypeOK
  BY DEF Threads, IInv, TypeOK
<1>f. /\ Cardinality(holds) \in Nat /\ Cardinality(open) \in Nat
      /\ Cardinality(bound) \in Nat /\ Cardinality(ClientHolders) \in Nat
      /\ refs = Cardinality(holds) + Cardinality(open) + Cardinality(bound)
                  + Cardinality(ClientHolders)
  BY <1>0, ClientFinite, CountsFinite DEF ClientRefs
<1>1. CASE InitOk(u)
  <2>1. PICK c \in FreeConns, r \in FreeRecs :
          open' = open \cup {c} /\ bound' = bound \cup {r}
    BY <1>1 DEF InitOk, CreateConn
  <2>2. /\ Cardinality(open') = Cardinality(open) + 1
        /\ Cardinality(bound') = Cardinality(bound) + 1
    BY <1>0, <2>1, ClientFinite, CountMore DEF FreeConns, FreeRecs
  <2>3. refs' = refs + 2 /\ holds' = holds /\ ClientHolders' = ClientHolders
    BY <1>1 DEF InitOk, ClientHolders
  <2>. QED  BY <1>f, <2>2, <2>3 DEF ClientRefs
<1>2. CASE FiniRec(u)
  <2>1. /\ lrec[u] \in bound /\ bound' = bound \ {lrec[u]}
        /\ UNCHANGED <<refs, holds, open>>
        /\ pc[u] = "finiRec" /\ Goto(u, "finiRel")
    BY <1>2 DEF FiniRec
  <2>2. Cardinality(bound') = Cardinality(bound) - 1
    BY <1>0, <2>1, ClientFinite, CountLess
  <2>3. Cardinality(ClientHolders') = Cardinality(ClientHolders) + 1 - 0
    BY <1>0, <2>1, HoldersCount DEF ClientPlaces, One
  <2>. QED  BY <1>f, <2>1, <2>2, <2>3 DEF ClientRefs
<1>3. CASE FiniRel(u)
  <2>1. /\ refs' = refs - 1 /\ UNCHANGED <<holds, open, bound>>
        /\ pc[u] = "finiRel" /\ Goto(u, "finiConn")
    BY <1>3 DEF FiniRel
  <2>2. Cardinality(ClientHolders') = Cardinality(ClientHolders) + 0 - 1
    BY <1>0, <2>1, HoldersCount DEF ClientPlaces, One
  <2>. QED  BY <1>f, <2>1, <2>2 DEF ClientRefs
<1>4. CASE FiniConn(u)
  <2>1. /\ refs' = refs - 1 /\ open' = open \ {lconn[u]}
        /\ UNCHANGED <<holds, bound>>
        /\ pc[u] = "finiConn" /\ Goto(u, "finiSsl")
    BY <1>4 DEF FiniConn, DeleteConn
  <2>2. lconn[u] \in open
    BY <1>0, <2>1 DEF LocalsHeld, ConnPlaces, IInv, TypeOK, OneOwner, ConnOwned,
                      Owned, Deletes
  <2>3. Cardinality(open') = Cardinality(open) - 1
    BY <1>0, <2>1, <2>2, ClientFinite, CountLess
  <2>4. Cardinality(ClientHolders') = Cardinality(ClientHolders) + 0 - 0
    BY <1>0, <2>1, HoldersCount DEF ClientPlaces, One
  <2>. QED  BY <1>f, <2>1, <2>3, <2>4 DEF ClientRefs
<1>5. ASSUME NEW v \in Users, AddRef(u, v) PROVE ClientRefs'
  <2>1. v \notin holds /\ holds' = holds \cup {v} /\ refs' = refs + 1
          /\ open' = open /\ bound' = bound /\ ClientHolders' = ClientHolders
    BY <1>5 DEF AddRef, ClientHolders
  <2>2. Cardinality(holds') = Cardinality(holds) + 1
    BY <1>0, <2>1, ClientFinite, CountMore
  <2>. QED  BY <1>f, <2>1, <2>2 DEF ClientRefs
<1>6. CASE Release(u)
  <2>1. u \in holds /\ holds' = holds \ {u} /\ refs' = refs - 1
          /\ open' = open /\ bound' = bound /\ ClientHolders' = ClientHolders
    BY <1>6 DEF Release, Calls, ClientHolders
  <2>2. Cardinality(holds') = Cardinality(holds) - 1
    BY <1>0, <2>1, ClientFinite, CountLess
  <2>. QED  BY <1>f, <2>1, <2>2 DEF ClientRefs
<1>7. CASE SetOutputRedline(u) \/ Reconnect(u)
  <2>1. UNCHANGED <<refs, holds, open, bound, pc>>
    BY <1>7, RearmBound DEF SetOutputRedline, Reconnect
  <2>. QED  BY <2>1 DEF ClientRefs, ClientHolders
<1>8. CASE \/ InitFail(u) \/ ExitSsl(u) \/ FiniLocked(u) \/ FiniSsl(u)
           \/ SendBegin(u) \/ SendEnd(u)
  <2>1. /\ UNCHANGED <<refs, holds, open, bound>>
        /\ \E p \in {"exit", "idle", "finiRec", "send"} : Goto(u, p)
        /\ pc[u] \in {"idle", "exit", "finiSsl", "send"}
    BY <1>8 DEF InitFail, ExitSsl, FiniLocked, FiniSsl, SendBegin, SendEnd, Calls
  <2>2. Cardinality(ClientHolders') = Cardinality(ClientHolders) + 0 - 0
    BY <1>0, <2>1, HoldersCount DEF ClientPlaces, One
  <2>. QED  BY <1>f, <2>1, <2>2 DEF ClientRefs
<1>. QED
  BY <1>1, <1>2, <1>3, <1>4, <1>5, <1>6, <1>7, <1>8 DEF UserCalls, UserReturns

(* Timers and callbacks keep the count of the client exact                  *)
(* (msg_client.cpp:717-723, msg_reconnector.cpp:177-187).                    *)
LEMMA WorkerClientRefs ==
  ASSUME IInv, LocalsHeld, ClientRefs,
         NEW w \in Workers, WorkerBegins(w) \/ WorkerReturns(w)
  PROVE  ClientRefs'
<1>. USE DEF fields, connVars, recVars, locals
<1>0. w \in Threads /\ refs \in Int /\ TypeOK
  BY DEF Threads, IInv, TypeOK
<1>f. /\ Cardinality(holds) \in Nat /\ Cardinality(open) \in Nat
      /\ Cardinality(bound) \in Nat /\ Cardinality(ClientHolders) \in Nat
      /\ refs = Cardinality(holds) + Cardinality(open) + Cardinality(bound)
                  + Cardinality(ClientHolders)
  BY <1>0, ClientFinite, CountsFinite DEF ClientRefs
<1>1. ASSUME UNCHANGED <<holds, open, bound>>, NEW p, Goto(w, p),
             \/ /\ p \in ClientPlaces /\ pc[w] \notin ClientPlaces
                /\ refs' = refs + 1
             \/ /\ p \notin ClientPlaces /\ pc[w] \in ClientPlaces
                /\ refs' = refs - 1
             \/ /\ p \in ClientPlaces <=> pc[w] \in ClientPlaces
                /\ refs' = refs
      PROVE  ClientRefs'
  <2>1. /\ Cardinality(ClientHolders') = Cardinality(ClientHolders)
             + One(p \in ClientPlaces) - One(pc[w] \in ClientPlaces)
        /\ holds' = holds /\ open' = open /\ bound' = bound
    BY <1>0, <1>1, HoldersCount
  <2>2. refs' = refs + One(p \in ClientPlaces) - One(pc[w] \in ClientPlaces)
    BY <1>0, <1>1 DEF One
  <2>3. One(p \in ClientPlaces) \in Int /\ One(pc[w] \in ClientPlaces) \in Int
    BY DEF One
  <2>. QED  BY <1>f, <2>1, <2>2, <2>3 DEF ClientRefs
<1>2. CASE WorkerBegins(w)
  BY <1>1, <1>2 DEF WorkerBegins, Fire, CbBegin, ClientPlaces
<1>3. CASE ReconnectSwap(w)
  <2>1. PICK c \in FreeConns : open' = open \cup {c}
    BY <1>3 DEF ReconnectSwap, CreateConn
  <2>2. Cardinality(open') = Cardinality(open) + 1
    BY <1>0, <2>1, ClientFinite, CountMore DEF FreeConns
  <2>3. /\ refs' = refs + 1 /\ holds' = holds /\ bound' = bound
        /\ pc[w] = "reconn" /\ Goto(w, "delOld")
    BY <1>3 DEF ReconnectSwap
  <2>4. Cardinality(ClientHolders') = Cardinality(ClientHolders) + 1 - 1
    BY <1>0, <2>3, HoldersCount DEF ClientPlaces, One
  <2>. QED  BY <1>f, <2>2, <2>3, <2>4 DEF ClientRefs
<1>4. CASE DeleteOld(w)
  <2>1. /\ refs' = refs - 1 /\ open' = open \ {lconn[w]}
        /\ holds' = holds /\ bound' = bound
        /\ pc[w] = "delOld" /\ Goto(w, "relTimer")
    BY <1>4 DEF DeleteOld, DeleteConn
  <2>2. lconn[w] \in open
    BY <1>0, <2>1 DEF LocalsHeld, ConnPlaces, IInv, TypeOK, OneOwner, ConnOwned,
                      Owned, Deletes
  <2>3. Cardinality(open') = Cardinality(open) - 1
    BY <1>0, <2>1, <2>2, ClientFinite, CountLess
  <2>4. Cardinality(ClientHolders') = Cardinality(ClientHolders) + 1 - 1
    BY <1>0, <2>1, HoldersCount DEF ClientPlaces, One
  <2>. QED  BY <1>f, <2>1, <2>3, <2>4 DEF ClientRefs
<1>5. CASE OnTimer(w)
  BY <1>1, <1>5 DEF OnTimer, ClientPlaces
<1>6. CASE ReconnectAgain(w)
  <2>1. bound' = bound
    BY <1>6, RearmBound DEF ReconnectAgain
  <2>. QED  BY <1>1, <1>6, <2>1 DEF ReconnectAgain, ClientPlaces
<1>7. CASE ReconnectClosed(w) \/ RelTimer(w) \/ RelRec(w)
  BY <1>1, <1>7 DEF ReconnectClosed, RelTimer, RelRec, ClientPlaces
<1>8. CASE CbCheck(w)
  BY <1>1, <1>8 DEF CbCheck, ClientPlaces
<1>9. CASE CbEnd(w)
  BY <1>1, <1>9 DEF CbEnd, ClientPlaces
<1>. QED
  BY <1>2, <1>3, <1>4, <1>5, <1>6, <1>7, <1>8, <1>9 DEF WorkerReturns

(* Every step keeps all counts exact.                                       *)
LEMMA NextRefs ==
  ASSUME IInv, LocalsHeld, TimersNamed, RefsExact, [Next]_vars
  PROVE  RefsExact'
<1>. USE DEF RefsExact
<1>1. ASSUME UNCHANGED vars PROVE ClientRefs'
  BY <1>1 DEF vars, connVars, recVars, ClientRefs, ClientHolders
<1>2. ClientRefs'
  BY <1>1, UserClientRefs, WorkerClientRefs DEF Next, Abandoned
<1>. QED  BY <1>2, NextConnRefs, NextRecRefs

------------------------------------------------------------------------------
(* TLS configurations and the redline.                                      *)

(* A step that opens no connection and makes no user delete one keeps each  *)
(* with its TLS configuration.                                              *)
LEMMA TogetherFrame ==
  ASSUME SslTogether, open' \subseteq open, open \subseteq Conns,
         UNCHANGED <<m_msgClient, m_sslConfig, cssl>>,
         \A u \in Users, c \in Conns :
           Deletes(u, c)' => Deletes(u, c) /\ lssl'[u] = lssl[u]
  PROVE  SslTogether'
BY DEF SslTogether

(* Every step keeps each connection with its TLS configuration.             *)
LEMMA NextTogether ==
  ASSUME IInv, SslTogether, [Next]_vars PROVE SslTogether'
<1>. USE DEF fields, connVars, recVars, locals, Goto
<1>0. /\ pc \in [Threads -> UserPlaces \cup WorkerPlaces]
      /\ lconn \in [Threads -> Conns \cup {NULL}]
      /\ lssl \in [Threads -> Ssls \cup {NULL}]
      /\ cssl \in [Conns -> Ssls \cup {NULL}]
      /\ open \subseteq Conns /\ m_msgClient \in Conns \cup {NULL}
      /\ Users \cap Workers = {} /\ Threads = Users \cup Workers
      /\ NULL \notin Conns
      /\ ConnOwned
  BY ClientAssumption DEF IInv, TypeOK, OneOwner, Threads
<1>1. CASE UNCHANGED vars
  BY <1>0, <1>1, TogetherFrame DEF vars, Deletes
<1>2. ASSUME NEW u \in Users, UserCalls(u) PROVE SslTogether'
  <2>1. CASE InitOk(u)
    <3>1. PICK c \in Conns \ open, s \in Ssls \cup {NULL} :
            /\ open' = open \cup {c} /\ cssl' = [cssl EXCEPT ![c] = s]
            /\ m_msgClient' = c /\ m_sslConfig' = s
            /\ UNCHANGED <<pc, lconn, lssl>>
      BY <2>1 DEF InitOk, CreateConn, FreeConns, FreeSsls
    <3>2. \A v \in Users : ~ Deletes(v, c)
      BY <1>0, <3>1 DEF ConnOwned, Owned
    <3>3. \A x \in Conns, v \in Users : Deletes(v, x)' <=> Deletes(v, x)
      BY <3>1 DEF Deletes
    <3>. QED  BY <1>0, <3>1, <3>2, <3>3 DEF SslTogether
  <2>2. CASE FiniLocked(u)
    <3>1. /\ UNCHANGED <<open, cssl>>
          /\ pc[u] = "idle" /\ pc' = [pc EXCEPT ![u] = "finiRec"]
          /\ lconn' = [lconn EXCEPT ![u] = m_msgClient]
          /\ lssl' = [lssl EXCEPT ![u] = m_sslConfig]
          /\ m_msgClient' = NULL
      BY <2>2 DEF FiniLocked, Calls
    <3>2. \A c \in Conns, v \in Users :
            Deletes(v, c)' => \/ v = u /\ c = m_msgClient
                              \/ v # u /\ Deletes(v, c)
      BY <1>0, <3>1 DEF Deletes
    <3>3. /\ lssl'[u] = m_sslConfig
          /\ \A v \in Users \ {u} : lssl'[v] = lssl[v]
      BY <1>0, <3>1
    <3>. QED  BY <1>0, <3>1, <3>2, <3>3 DEF SslTogether
  <2>3. CASE InitFail(u) \/ SendBegin(u)
    <3>1. \A c \in Conns, v \in Users :
            Deletes(v, c)' => Deletes(v, c) /\ lssl'[v] = lssl[v]
      BY <1>0, <2>3 DEF InitFail, SendBegin, Deletes
    <3>. QED  BY <1>0, <2>3, <3>1, TogetherFrame DEF InitFail, SendBegin
  <2>4. CASE \/ SetOutputRedline(u) \/ Reconnect(u) \/ Release(u)
             \/ \E v \in Users : AddRef(u, v)
    BY <1>0, <2>4, TogetherFrame
       DEF SetOutputRedline, Reconnect, Release, AddRef, Deletes
  <2>. QED  BY <1>2, <2>1, <2>2, <2>3, <2>4 DEF UserCalls
<1>3. ASSUME NEW u \in Users, UserReturns(u) PROVE SslTogether'
  <2>1. /\ open' \subseteq open /\ UNCHANGED <<m_msgClient, m_sslConfig, cssl>>
    BY <1>3 DEF UserReturns, ExitSsl, SendEnd, FiniRec, FiniRel, FiniConn,
                FiniSsl, DeleteConn
  <2>2. \A c \in Conns, v \in Users :
          Deletes(v, c)' => Deletes(v, c) /\ lssl'[v] = lssl[v]
    <3>1. CASE ExitSsl(u) \/ FiniSsl(u)
      BY <1>0, <3>1 DEF ExitSsl, FiniSsl, Deletes
    <3>2. CASE FiniRec(u) \/ FiniRel(u)
      BY <1>0, <3>2 DEF FiniRec, FiniRel, Deletes
    <3>3. CASE SendEnd(u) \/ FiniConn(u)
      BY <1>0, <3>3 DEF SendEnd, FiniConn, Deletes
    <3>. QED  BY <1>3, <3>1, <3>2, <3>3 DEF UserReturns
  <2>. QED  BY <1>0, <2>1, <2>2, TogetherFrame
<1>4. ASSUME NEW w \in Workers, WorkerBegins(w) \/ WorkerReturns(w)
      PROVE  SslTogether'
  <2>0. /\ UNCHANGED lssl
        /\ \A c \in Conns, v \in Users : Deletes(v, c)' => Deletes(v, c)
    <3>1. /\ UNCHANGED lssl
          /\ \A v \in Users : pc'[v] = pc[v] /\ lconn'[v] = lconn[v]
      BY <1>0, <1>4
         DEF WorkerBegins, WorkerReturns, Fire, CbBegin, OnTimer, ReconnectSwap,
             ReconnectAgain, ReconnectClosed, DeleteOld, RelTimer, RelRec,
             CbCheck, CbEnd
    <3>. QED  BY <3>1 DEF Deletes
  <2>1. CASE ReconnectSwap(w)
    <3>1. PICK c \in Conns \ open :
            /\ open' = open \cup {c} /\ cssl' = [cssl EXCEPT ![c] = m_sslConfig]
            /\ m_msgClient' = c /\ UNCHANGED m_sslConfig
      BY <2>1 DEF ReconnectSwap, CreateConn, FreeConns
    <3>2. \A v \in Users : ~ Deletes(v, c)
      BY <1>0, <3>1 DEF ConnOwned, Owned
    <3>. QED  BY <1>0, <2>0, <3>1, <3>2 DEF SslTogether
  <2>2. CASE ~ ReconnectSwap(w)
    <3>1. open' \subseteq open /\ UNCHANGED <<m_msgClient, m_sslConfig, cssl>>
      BY <1>4, <2>2
         DEF WorkerBegins, WorkerReturns, Fire, CbBegin, OnTimer,
             ReconnectAgain, ReconnectClosed, DeleteOld, DeleteConn, RelTimer,
             RelRec, CbCheck, CbEnd
    <3>. QED  BY <1>0, <2>0, <3>1, TogetherFrame
  <2>. QED  BY <2>1, <2>2
<1>. QED  BY <1>1, <1>2, <1>3, <1>4 DEF Next, Abandoned

(* The connection and the configuration get the same redline, up to the cut *)
(* (msg_client.cpp:399,632-633,717).                                        *)
LEMMA NextRedline ==
  ASSUME IInv, RedlineAgrees, [Next]_vars PROVE RedlineAgrees'
<1>. USE DEF fields, connVars, RedlineAgrees
<1>0. /\ cred \in [Conns -> Nat] /\ m_redline \in 0 .. (W - 1)
      /\ m_msgClient \in Conns \cup {NULL} /\ NULL \notin Conns
      /\ Redlines \subseteq Nat /\ W \in Nat \ {0}
  BY ClientAssumption DEF IInv, TypeOK
<1>1. \A v \in Nat : v < W => v % W = v
  BY <1>0
<1>2. CASE UNCHANGED <<m_reactor, m_msgClient, m_redline, cred>>
  BY <1>2
<1>3. ASSUME NEW u \in Users, UserCalls(u) PROVE RedlineAgrees'
  <2>1. CASE InitOk(u)
    <3>1. PICK c \in Conns, v \in Redlines :
            /\ v < W /\ cred' = [cred EXCEPT ![c] = v]
            /\ m_msgClient' = c /\ m_redline' = v
      BY <2>1 DEF InitOk, CreateConn, FreeConns
    <3>2. cred'[c] = v /\ v \in Nat
      BY <1>0, <3>1
    <3>. QED  BY <1>1, <3>1, <3>2
  <2>2. CASE FiniLocked(u)
    BY <2>2 DEF FiniLocked
  <2>3. CASE SetOutputRedline(u)
    BY <1>0, <2>3 DEF SetOutputRedline
  <2>4. CASE \/ InitFail(u) \/ SendBegin(u) \/ Reconnect(u) \/ Release(u)
             \/ \E v \in Users : AddRef(u, v)
    BY <1>2, <2>4 DEF InitFail, SendBegin, Reconnect, Release, AddRef
  <2>. QED  BY <1>3, <2>1, <2>2, <2>3, <2>4 DEF UserCalls
<1>4. ASSUME NEW w \in Workers, ReconnectSwap(w) PROVE RedlineAgrees'
  <2>1. PICK c \in Conns : /\ cred' = [cred EXCEPT ![c] = m_redline]
                           /\ m_msgClient' = c /\ m_redline' = m_redline
    BY <1>4 DEF ReconnectSwap, CreateConn, FreeConns
  <2>2. m_redline \in Nat /\ m_redline < W
    BY <1>0
  <2>. QED  BY <1>0, <1>1, <2>1, <2>2
<1>5. ASSUME NEW u \in Users, UserReturns(u)
      PROVE  UNCHANGED <<m_reactor, m_msgClient, m_redline, cred>>
  BY <1>5 DEF UserReturns, ExitSsl, SendEnd, FiniRec, FiniRel, FiniConn,
              FiniSsl, DeleteConn
<1>6. ASSUME NEW w \in Workers, WorkerBegins(w) \/ WorkerReturns(w),
             ~ ReconnectSwap(w)
      PROVE  UNCHANGED <<m_reactor, m_msgClient, m_redline, cred>>
  BY <1>6 DEF WorkerBegins, WorkerReturns, Fire, CbBegin, OnTimer,
              ReconnectAgain, ReconnectClosed, DeleteOld, DeleteConn, RelTimer,
              RelRec, CbCheck, CbEnd
<1>. QED
  BY <1>2, <1>3, <1>4, <1>5, <1>6 DEF Next, Abandoned, vars

------------------------------------------------------------------------------
(* All of it holds initially (msg_client.cpp:194-200).                      *)
LEMMA InitRInv == Init => RInv
<1>. SUFFICES ASSUME Init PROVE RInv
  OBVIOUS
<1>1. IInv
  BY InitIInv
<1>2. LocalsHeld
  BY DEF Init, LocalsHeld, ConnPlaces, RecPlaces
<1>3. TimersNamed /\ SslTogether /\ RedlineAgrees
  BY ClientAssumption DEF Init, TimersNamed, SslTogether, RedlineAgrees, Threads
<1>4. ConnRefs
  <2>1. \A c \in Conns : ConnHolders(c) = {}
    BY DEF Init, ConnHolders
  <2>2. Cardinality({}) = 0
    BY FS_EmptySet
  <2>3. \A c \in Conns : crefs[c] = 0 /\ c \notin open
    BY DEF Init
  <2>4. \A c \in Conns : One(c \in open) = 0
    BY <2>3 DEF One
  <2>. QED  BY <2>1, <2>2, <2>3, <2>4 DEF ConnRefs
<1>5. RecRefs
  <2>1. \A r \in Recs : /\ RecTimers(r) = {} /\ RecHolders(r) = {}
                        /\ One(r = m_reconnector) = 0
    BY ClientAssumption DEF Init, RecTimers, RecHolders, One
  <2>2. \A r \in Recs : rrefs[r] = 0
    BY DEF Init
  <2>3. Cardinality({}) = 0
    BY FS_EmptySet
  <2>4. \A r \in Recs : One(r = m_reconnector) + Cardinality(RecTimers(r))
                           + Cardinality(RecHolders(r)) = 0
    BY <2>1, <2>3
  <2>. QED  BY <2>2, <2>4 DEF RecRefs
<1>6. ClientRefs
  <2>1. PICK u \in Users : holds = {u}
    BY DEF Init
  <2>2. ClientHolders = {}
    BY DEF Init, ClientHolders
  <2>3. Cardinality(holds) = 1
    BY <2>1, FS_Singleton
  <2>. QED  BY <2>2, <2>3, FS_EmptySet DEF Init, ClientRefs
<1>. QED  BY <1>1, <1>2, <1>3, <1>4, <1>5, <1>6 DEF RInv, RefsExact

(* Every step keeps all of it.                                              *)
LEMMA NextRInv == RInv /\ [Next]_vars => RInv'
<1>1. IInv /\ [Next]_vars => IInv'
  BY NextTypeOK, NextFields, NextSslHeld, NextOneOwner DEF IInv
<1>. QED
  BY <1>1, NextLocals, NextTimers, NextRefs, NextTogether, NextRedline DEF RInv

(* The inductive invariant with the references holds of every behaviour.    *)
THEOREM ClientRInv == Spec => []RInv
<1>. QED  BY InitRInv, NextRInv, PTL DEF Spec

(* Reference counts are exact, whatever reconnects, timers, callbacks, sends *)
(* and Finis are under way: an object dies with its last reference, and no  *)
(* thread uses a dead one (msg_client.cpp:612-617,                          *)
(* msg_reconnector.cpp:72,102,182-187).                                     *)
THEOREM ClientRefsExact == Spec => []RefsExact
<1>1. RInv => RefsExact
  BY DEF RInv
<1>. QED  BY <1>1, ClientRInv, PTL

(* The last reference goes only when the client is closed, its connections  *)
(* and reconnectors are given back and no timer can call in again           *)
(* (msg_client.cpp:202-205, msg_reconnector.cpp:46-49).                     *)
THEOREM ClientDestroyedClean == Spec => []DestroyedClean
<1>1. RInv => DestroyedClean
  <2>. SUFFICES ASSUME RInv PROVE DestroyedClean
    OBVIOUS
  <2>. USE DEF RInv, IInv
  <2>1. ASSUME refs = 0
        PROVE  /\ ~m_reactor
               /\ open = {}
               /\ bound = {}
               /\ \A i \in TimerIds : onTimer[i] = NULL
    <3>1. Cardinality(open) = 0 /\ Cardinality(bound) = 0
      BY <2>1, ClientFinite, CountsFinite DEF RefsExact, ClientRefs
    <3>2. open = {} /\ bound = {}
      BY <3>1, ClientFinite, FS_EmptySet
    <3>3. ~ m_reactor
      BY <3>2 DEF FieldsTogether, OneOwner, ConnOwned, Owned, TypeOK
    <3>. QED  BY <3>2, <3>3 DEF TimersNamed
  <2>2. ASSUME NEW r \in Recs, rrefs[r] = 0
        PROVE  r \notin bound /\ RecTimers(r) = {}
    <3>1. /\ rrefs[r] = One(r = m_reconnector) + Cardinality(RecTimers(r))
                          + Cardinality(RecHolders(r))
          /\ Cardinality(RecTimers(r)) \in Nat
          /\ Cardinality(RecHolders(r)) \in Nat
      BY CountsFinite DEF RefsExact, RecRefs
    <3>2. /\ r # m_reconnector
          /\ Cardinality(RecTimers(r)) = 0 /\ Cardinality(RecHolders(r)) = 0
      BY <2>2, <3>1 DEF One
    <3>3. RecTimers(r) = {} /\ RecHolders(r) = {}
      BY <3>2, CountsFinite, FS_EmptySet
    <3>4. \A t \in Threads : ~ Finishes(t, r)
      BY <3>3 DEF Finishes, RecHolders
    <3>. QED  BY <3>2, <3>3, <3>4 DEF OneOwner, RecOwned, Owned
  <2>. QED  BY <2>1, <2>2 DEF DestroyedClean
<1>. QED  BY <1>1, ClientRInv, PTL

(* Only the connection a reconnect has just replaced can outlive its TLS    *)
(* configuration (msg_client.cpp:461-462,719-723).                          *)
THEOREM ClientSslOutlived == Spec => []SslOutlived
<1>1. RInv => SslOutlived
  <2>. SUFFICES ASSUME RInv, NEW c \in open,
                       cssl[c] # NULL, cssl[c] \notin sslLive
                PROVE  \E w \in Workers : pc[w] = "delOld" /\ lconn[w] = c
    BY DEF SslOutlived
  <2>. USE DEF RInv, IInv, TypeOK
  <2>1. c \in Conns /\ cssl[c] \in Ssls
    OBVIOUS
  <2>2. c # m_msgClient
    BY <2>1 DEF SslTogether, OneOwner, SslOwned, Owned
  <2>3. PICK t \in Threads : Deletes(t, c)
    BY <2>1, <2>2 DEF OneOwner, ConnOwned, Owned
  <2>4. t \notin Users
    BY <2>1, <2>3 DEF SslTogether, OneOwner, SslOwned, Owned, DeletesSsl
  <2>5. t \in Workers /\ pc[t] = "delOld" /\ lconn[t] = c
    BY <2>3, <2>4 DEF Threads, Deletes, WorkerPlaces
  <2>. QED  BY <2>5
<1>. QED  BY <1>1, ClientRInv, PTL

(* The redline of the connection and that of the configuration agree up to  *)
(* the cut to 32 bits, whatever values are set and however often the        *)
(* connection is replaced (msg_client.cpp:399,632-633,717).                 *)
THEOREM ClientRedlineAgrees == Spec => []RedlineAgrees
<1>1. RInv => RedlineAgrees
  BY DEF RInv
<1>. QED  BY <1>1, ClientRInv, PTL

------------------------------------------------------------------------------
(****************************************************************************)
(* Refinement of ClientLife.  What keeps a request alive is that a pending  *)
(* timer is the one its reconnector names, so that OnTimer serves it; what  *)
(* keeps an old one from serving a new client is that a reconnector is      *)
(* reused only when no timer and no callback refers to it.                  *)
(****************************************************************************)

(* A finished client wants no reconnect, the client's reconnector is bound. *)
LEMMA OwnReconnector ==
  ASSUME RInv
  PROVE  /\ m_reactor <=> m_msgClient # NULL
         /\ m_reactor <=> m_reconnector # NULL
         /\ m_reactor => m_reconnector \in bound
         /\ ~ m_reactor => ~ Wanted
BY DEF RInv, IInv, FieldsTogether, OneOwner, RecOwned, Owned, TypeOK, Wanted

(* A step that moves no timer and no worker in or out of a reconnect keeps  *)
(* what is wanted.                                                          *)
LEMMA WantedFrame ==
  ASSUME UNCHANGED <<m_reactor, m_reconnector, rtimer, onTimer>>,
         \A w \in Workers :
           /\ pc'[w] = "timer" <=> pc[w] = "timer"
           /\ pc'[w] = "reconn" <=> pc[w] = "reconn"
           /\ pc[w] \in {"timer", "reconn"} =>
                lrec'[w] = lrec[w] /\ ltimer'[w] = ltimer[w]
  PROVE  Wanted' <=> Wanted
BY DEF Wanted

(* A step that moves no worker in or out of a delivery keeps what is        *)
(* delivered.                                                               *)
LEMMA DeliversFrame ==
  ASSUME \A w \in Workers :
           /\ pc'[w] = "deliver" <=> pc[w] = "deliver"
           /\ pc[w] = "deliver" => lconn'[w] = lconn[w]
  PROVE  Delivers' = Delivers
BY DEF Delivers

(* A step that ClientLife does not see.                                     *)
LEMMA Hidden ==
  ASSUME UNCHANGED m_msgClient, Wanted' <=> Wanted, Delivers' = Delivers
  PROVE  UNCHANGED Life!vars
<1>1. Wanted \in BOOLEAN /\ Wanted' \in BOOLEAN
  BY DEF Wanted
<1>2. Wanted' = Wanted
  BY <1>1
<1>. QED  BY <1>2 DEF Life!vars

(* Re-arming the client's reconnector is a request                          *)
(* (msg_reconnector.cpp:133-145).                                           *)
LEMMA RearmRequests ==
  ASSUME RInv, m_reactor, Rearm(m_reconnector), UNCHANGED fields,
         Delivers' = Delivers
  PROVE  Life!Request
<1>1. m_reconnector \in bound /\ m_msgClient # NULL
  BY OwnReconnector
<1>2. PICK i \in TimerIds :
        onTimer' = [CancelTimer(rtimer[m_reconnector]) EXCEPT ![i] = m_reconnector]
  BY <1>1 DEF Rearm, FreshIds
<1>3. onTimer'[i] = m_reconnector'
  BY <1>2 DEF CancelTimer, fields
<1>4. Wanted'
  BY <1>3 DEF Wanted, fields
<1>5. Wanted' = TRUE
  BY <1>4 DEF Wanted
<1>. QED  BY <1>1, <1>5 DEF Life!Request, fields

(* Init opens the client, with nothing asked for: neither a timer nor a     *)
(* worker of an earlier life refers to the new reconnector                  *)
(* (msg_client.cpp:298-413).                                                *)
LEMMA InitOpens ==
  ASSUME RInv, NEW u \in Users, InitOk(u) PROVE Life!Open
<1>. USE DEF RInv, IInv, TypeOK
<1>1. PICK c \in Conns, r \in FreeRecs :
        m_msgClient' = c /\ m_reconnector' = r
  BY DEF InitOk, FreeConns
<1>2. /\ m_msgClient = NULL /\ UNCHANGED <<onTimer, pc, lrec, ltimer, lconn>>
  BY DEF InitOk, locals
<1>3. RecTimers(r) = {} /\ RecHolders(r) = {}
  BY FreeRecUnused DEF RefsExact
<1>4. \A i \in TimerIds : onTimer'[i] # m_reconnector'
  BY <1>1, <1>2, <1>3 DEF RecTimers
<1>5. \A w \in Workers : lrec'[w] # m_reconnector'
  BY <1>1, <1>2, <1>3 DEF RecHolders, Threads
<1>6. Wanted' = FALSE
  BY <1>4, <1>5 DEF Wanted
<1>7. Delivers' = Delivers
  BY <1>2 DEF Delivers
<1>. QED  BY <1>1, <1>2, <1>6, <1>7 DEF Life!Open

(* The reconnector that Fini stops is no longer the client's, so that its   *)
(* timer was not asked for (msg_client.cpp:457, msg_reconnector.cpp:86-100). *)
LEMMA FiniRecHidden ==
  ASSUME RInv, NEW u \in Users, FiniRec(u) PROVE UNCHANGED Life!vars
<1>. USE DEF RInv, IInv, TypeOK
<1>0. /\ u \in Threads /\ u \notin Workers /\ pc[u] = "finiRec"
      /\ NULL \notin Recs \cup TimerIds
  BY ClientAssumption DEF Threads, FiniRec
<1>1. PICK r \in Recs : r = lrec[u]
  BY DEF FiniRec
<1>2. /\ onTimer' = CancelTimer(rtimer[r])
      /\ rtimer' = [rtimer EXCEPT ![r] = NULL]
      /\ UNCHANGED <<m_reactor, m_msgClient, m_reconnector, lrec, ltimer, lconn>>
      /\ \A w \in Workers : pc'[w] = pc[w]
  BY <1>0, <1>1 DEF FiniRec, Goto, fields, locals
<1>3. r # m_reconnector
  BY <1>0, <1>1 DEF OneOwner, RecOwned, Owned, Finishes
<1>4. rtimer[r] # NULL /\ onTimer[rtimer[r]] # NULL => onTimer[rtimer[r]] = r
  BY DEF TimersNamed
<1>5. ASSUME m_reactor PROVE Wanted' <=> Wanted
  <2>0. m_reconnector \in Recs
    BY <1>5 DEF FieldsTogether
  <2>1. \A i \in TimerIds :
          onTimer'[i] = m_reconnector <=> onTimer[i] = m_reconnector
    BY <1>0, <1>2, <1>3, <1>4, <2>0 DEF CancelTimer
  <2>2. rtimer'[m_reconnector] = rtimer[m_reconnector]
    BY <1>2, <1>3, <2>0
  <2>. QED  BY <1>2, <2>1, <2>2 DEF Wanted
<1>6. Wanted' <=> Wanted
  BY <1>2, <1>5 DEF Wanted
<1>. QED  BY <1>2, <1>6, Hidden, DeliversFrame

(* A request moves from the timer to the callback (msg_reconnector.cpp:157). *)
LEMMA FireHidden ==
  ASSUME RInv, NEW w \in Workers, NEW i \in TimerIds, Fire(w, i)
  PROVE  UNCHANGED Life!vars
<1>. USE DEF RInv, IInv, TypeOK
<1>0. w \in Threads /\ NULL \notin Recs
  BY ClientAssumption DEF Threads
<1>1. PICK r \in Recs : r = onTimer[i] /\ rtimer[r] = i
  BY DEF Fire, TimersNamed
<1>2. /\ pc[w] = "idle" /\ pc' = [pc EXCEPT ![w] = "timer"]
      /\ lrec' = [lrec EXCEPT ![w] = r]
      /\ ltimer' = [ltimer EXCEPT ![w] = i]
      /\ onTimer' = [onTimer EXCEPT ![i] = NULL]
      /\ UNCHANGED <<m_reactor, m_msgClient, m_reconnector, rtimer, lconn>>
  BY <1>1 DEF Fire, Goto, fields
<1>3. CASE r = m_reconnector
  <2>1. pc'[w] = "timer" /\ lrec'[w] = m_reconnector' /\ ltimer'[w] = rtimer'[r]
    BY <1>0, <1>1, <1>2, <1>3
  <2>2. m_reactor => Wanted
    BY <1>1, <1>3 DEF Wanted
  <2>3. m_reactor => Wanted'
    BY <1>2, <1>3, <2>1 DEF Wanted
  <2>. QED
    BY <1>0, <1>2, <2>2, <2>3, Hidden, DeliversFrame, OwnReconnector DEF Wanted
<1>4. CASE r # m_reconnector
  <2>1. \A j \in TimerIds : m_reactor =>
          (onTimer'[j] = m_reconnector <=> onTimer[j] = m_reconnector)
    BY <1>0, <1>1, <1>2, <1>4 DEF FieldsTogether
  <2>2. \A v \in Workers :
          \/ v # w /\ pc'[v] = pc[v] /\ lrec'[v] = lrec[v] /\ ltimer'[v] = ltimer[v]
          \/ v = w /\ lrec'[v] # m_reconnector /\ pc[v] = "idle"
    BY <1>0, <1>2, <1>4
  <2>3. Wanted' <=> Wanted
    BY <1>2, <2>1, <2>2 DEF Wanted
  <2>. QED  BY <1>0, <1>2, <2>3, Hidden, DeliversFrame
<1>. QED  BY <1>3, <1>4

(* ... and from the callback to the reconnect, unless the callback is that  *)
(* of a timer no longer current (msg_reconnector.cpp:161-180).               *)
LEMMA OnTimerHidden ==
  ASSUME RInv, NEW w \in Workers, OnTimer(w) PROVE UNCHANGED Life!vars
<1>. USE DEF RInv, IInv, TypeOK
<1>0. w \in Threads /\ NULL \notin Recs \cup TimerIds
  BY ClientAssumption DEF Threads
<1>1. /\ pc[w] = "timer"
      /\ \A v \in Workers \ {w} : pc'[v] = pc[v] /\ ltimer'[v] = ltimer[v]
      /\ UNCHANGED <<m_reactor, m_msgClient, m_reconnector, bound, onTimer, lrec,
                     lconn>>
      /\ pc'[w] \in {"reconn", "relRec"}
  BY <1>0 DEF OnTimer, Goto, Threads, fields
<1>2. lrec[w] \in Recs
  BY <1>0, <1>1 DEF LocalsHeld, RecPlaces
<1>3. Delivers' = Delivers
  BY <1>1, DeliversFrame
<1>4. CASE lrec[w] \in bound /\ ltimer[w] = rtimer[lrec[w]]
  <2>1. rtimer' = [rtimer EXCEPT ![lrec[w]] = NULL] /\ pc'[w] = "reconn"
    BY <1>0, <1>4 DEF OnTimer, Goto
  <2>2. CASE lrec[w] = m_reconnector
    <3>1. m_reactor => Wanted /\ Wanted'
      BY <1>1, <1>4, <2>1, <2>2 DEF Wanted
    <3>. QED  BY <1>1, <1>3, <3>1, Hidden, OwnReconnector DEF Wanted
  <2>3. CASE lrec[w] # m_reconnector
    <3>1. m_reactor => rtimer'[m_reconnector] = rtimer[m_reconnector]
      BY <2>1, <2>3 DEF FieldsTogether
    <3>2. Wanted' <=> Wanted
      BY <1>1, <2>3, <3>1 DEF Wanted
    <3>. QED  BY <1>1, <1>3, <3>2, Hidden
  <2>. QED  BY <2>2, <2>3
<1>5. CASE ~ (lrec[w] \in bound /\ ltimer[w] = rtimer[lrec[w]])
  <2>1. UNCHANGED rtimer /\ pc'[w] = "relRec"
    BY <1>0, <1>5 DEF OnTimer, Goto
  <2>2. m_reactor /\ lrec[w] = m_reconnector => ltimer[w] # rtimer[m_reconnector]
    BY <1>5, OwnReconnector
  <2>3. Wanted' <=> Wanted
    BY <1>1, <2>1, <2>2 DEF Wanted
  <2>. QED  BY <1>1, <1>3, <2>3, Hidden
<1>. QED  BY <1>4, <1>5

(* The swap replaces the connection by another one, and serves no request   *)
(* but its own (msg_client.cpp:692-721).                                    *)
LEMMA SwapReplaces ==
  ASSUME RInv, NEW w \in Workers, ReconnectSwap(w) PROVE Life!Replace
<1>. USE DEF RInv, IInv, TypeOK
<1>0. w \in Threads
  BY DEF Threads
<1>1. PICK c \in Conns \ open : m_msgClient' = c
  BY DEF ReconnectSwap, FreeConns
<1>2. /\ m_reactor /\ pc[w] = "reconn" /\ pc'[w] = "delOld"
      /\ \A v \in Workers \ {w} : pc'[v] = pc[v] /\ lconn'[v] = lconn[v]
      /\ UNCHANGED <<m_reactor, m_reconnector, rtimer, onTimer, lrec, ltimer>>
  BY <1>0 DEF ReconnectSwap, Goto, recVars, Threads
<1>3. m_msgClient # NULL /\ m_msgClient \in open
  BY <1>2 DEF FieldsTogether, OneOwner, ConnOwned, Owned
<1>4. Wanted' => Wanted
  BY <1>2 DEF Wanted
<1>5. Wanted' \in {Wanted, FALSE}
  <2>1. Wanted \in BOOLEAN /\ Wanted' \in BOOLEAN
    BY DEF Wanted
  <2>. QED  BY <1>4, <2>1
<1>6. Delivers' = Delivers
  BY <1>2, DeliversFrame
<1>. QED  BY <1>1, <1>3, <1>5, <1>6 DEF Life!Replace

(* Callbacks deliver the events of the current connection only              *)
(* (msg_client.cpp:742-752).                                                *)
LEMMA CbDelivers ==
  ASSUME RInv, NEW w \in Workers, CbCheck(w) \/ CbEnd(w)
  PROVE  \/ Life!Deliver(w) \/ Life!Delivered(w)
         \/ UNCHANGED Life!vars
<1>. USE DEF RInv, IInv, TypeOK
<1>0. w \in Threads /\ NULL \notin Conns
  BY ClientAssumption DEF Threads
<1>1. /\ UNCHANGED <<m_reactor, m_msgClient, m_reconnector, rtimer, onTimer, lrec,
                     ltimer>>
      /\ \A v \in Workers \ {w} : pc'[v] = pc[v] /\ lconn'[v] = lconn[v]
      /\ pc[w] \in {"callback", "deliver", "cbEnd"}
      /\ pc'[w] \in {"deliver", "cbEnd", "idle"}
  BY <1>0 DEF CbCheck, CbEnd, Goto, fields, recVars, locals, Threads
<1>2. Wanted' <=> Wanted
  BY <1>1, WantedFrame
<1>3. Wanted' = Wanted
  <2>1. Wanted \in BOOLEAN /\ Wanted' \in BOOLEAN
    BY DEF Wanted
  <2>. QED  BY <1>2, <2>1
<1>4. CASE CbCheck(w) /\ pc'[w] = "deliver"
  <2>1. /\ m_reactor /\ m_msgClient = lconn[w] /\ lconn'[w] = lconn[w]
        /\ pc[w] = "callback"
    BY <1>0, <1>4 DEF CbCheck, Goto, locals
  <2>2. m_msgClient # NULL
    BY <2>1 DEF FieldsTogether
  <2>3. Delivers[w] = NULL
    BY <2>1 DEF Delivers
  <2>4. Delivers' = [Delivers EXCEPT ![w] = m_msgClient]
    BY <1>1, <1>4, <2>1 DEF Delivers
  <2>5. Life!Deliver(w)
    BY <1>1, <1>3, <2>2, <2>3, <2>4 DEF Life!Deliver
  <2>. QED  BY <2>5
<1>5. CASE CbCheck(w) /\ pc'[w] # "deliver"
  BY <1>1, <1>2, <1>5, Hidden, DeliversFrame DEF CbCheck
<1>6. CASE CbEnd(w) /\ pc[w] = "deliver"
  <2>1. pc'[w] = "idle" /\ lconn[w] # NULL
    BY <1>0, <1>6 DEF CbEnd, Goto, LocalsHeld, ConnPlaces
  <2>2. Delivers[w] # NULL
    BY <1>6, <2>1 DEF Delivers
  <2>3. Delivers' = [Delivers EXCEPT ![w] = NULL]
    BY <1>1, <1>6, <2>1 DEF Delivers
  <2>4. Life!Delivered(w)
    BY <1>1, <1>3, <2>2, <2>3 DEF Life!Delivered
  <2>. QED  BY <2>4
<1>7. CASE CbEnd(w) /\ pc[w] # "deliver"
  <2>1. pc'[w] = "idle"
    BY <1>0, <1>7 DEF CbEnd, Goto
  <2>. QED  BY <1>1, <1>2, <1>7, <2>1, Hidden, DeliversFrame
<1>. QED  BY <1>4, <1>5, <1>6, <1>7

(* A closed client is the abstract one, closed.                             *)
LEMMA InitLife == Init => Life!Init
<1>. SUFFICES ASSUME Init PROVE Life!Init
  OBVIOUS
<1>1. ~ Wanted /\ m_msgClient = NULL
  BY DEF Init, Wanted
<1>2. Wanted = FALSE
  BY <1>1 DEF Wanted
<1>3. Delivers = [w \in Workers |-> NULL]
  BY DEF Init, Delivers, Threads
<1>. QED  BY <1>1, <1>2, <1>3 DEF Life!Init

(* Each step of the client is a step of ClientLife, or hidden from it.      *)
LEMMA NextLife == RInv /\ [Next]_vars => [Life!Next]_(Life!vars)
<1>. SUFFICES ASSUME RInv, [Next]_vars PROVE Life!Next \/ UNCHANGED Life!vars
  OBVIOUS
<1>0. /\ pc \in [Threads -> UserPlaces \cup WorkerPlaces]
      /\ lconn \in [Threads -> Conns \cup {NULL}]
      /\ lrec \in [Threads -> Recs \cup {NULL}]
      /\ Users \cap Workers = {} /\ Threads = Users \cup Workers
  BY ClientAssumption DEF RInv, IInv, TypeOK, Threads
<1>1. CASE UNCHANGED vars
  <2>1. UNCHANGED <<fields, rtimer, onTimer, pc, lconn, lrec, ltimer>>
    BY <1>1 DEF vars, recVars, locals
  <2>. QED  BY <2>1, Hidden, DeliversFrame, WantedFrame DEF fields
<1>2. ASSUME NEW u \in Users, UNCHANGED <<fields, rtimer, onTimer>>,
             \A w \in Workers : /\ pc'[w] = pc[w] /\ lconn'[w] = lconn[w]
                                /\ lrec'[w] = lrec[w] /\ ltimer'[w] = ltimer[w]
      PROVE  UNCHANGED Life!vars
  BY <1>2, Hidden, DeliversFrame, WantedFrame DEF fields
<1>3. ASSUME NEW u \in Users, UserCalls(u)
      PROVE  Life!Next \/ UNCHANGED Life!vars
  <2>1. CASE InitOk(u)
    BY <2>1, InitOpens DEF Life!Next
  <2>2. CASE FiniLocked(u)
    <3>1. m_msgClient # NULL /\ m_msgClient' = NULL /\ ~ m_reactor'
      BY <2>2, OwnReconnector DEF FiniLocked
    <3>2. Wanted' = FALSE
      BY <3>1 DEF Wanted
    <3>3. \A w \in Workers : pc'[w] = pc[w] /\ lconn'[w] = lconn[w]
      BY <1>0, <2>2 DEF FiniLocked, Goto
    <3>4. Life!Close
      BY <3>1, <3>2, <3>3, DeliversFrame DEF Life!Close
    <3>. QED  BY <3>4 DEF Life!Next
  <2>3. CASE Reconnect(u)
    <3>1. Delivers' = Delivers
      BY <2>3, DeliversFrame DEF Reconnect, locals
    <3>. QED  BY <2>3, <3>1, RearmRequests DEF Reconnect, Life!Next
  <2>4. CASE InitFail(u) \/ SendBegin(u)
    BY <1>0, <1>2, <2>4 DEF InitFail, SendBegin, Goto, recVars
  <2>5. CASE \/ SetOutputRedline(u) \/ Release(u)
             \/ \E v \in Users : AddRef(u, v)
    BY <1>2, <2>5 DEF SetOutputRedline, Release, AddRef, recVars, locals
  <2>. QED  BY <1>3, <2>1, <2>2, <2>3, <2>4, <2>5 DEF UserCalls
<1>4. ASSUME NEW u \in Users, UserReturns(u)
      PROVE  UNCHANGED Life!vars
  <2>1. CASE ~ FiniRec(u)
    BY <1>0, <1>2, <1>4, <2>1
       DEF UserReturns, ExitSsl, SendEnd, FiniRel, FiniConn, FiniSsl, Goto,
           recVars, locals
  <2>. QED  BY <2>1, FiniRecHidden
<1>5. ASSUME NEW w \in Workers, UNCHANGED <<fields, rtimer, onTimer>>,
             \A v \in Workers \ {w} :
               /\ pc'[v] = pc[v] /\ lconn'[v] = lconn[v]
               /\ lrec'[v] = lrec[v] /\ ltimer'[v] = ltimer[v],
             {pc[w], pc'[w]} \cap {"timer", "reconn", "deliver"} = {}
      PROVE  UNCHANGED Life!vars
  <2>1. Wanted' <=> Wanted
    BY <1>5, WantedFrame DEF fields
  <2>. QED  BY <1>5, <2>1, Hidden, DeliversFrame DEF fields
<1>6. ASSUME NEW w \in Workers, WorkerBegins(w) PROVE UNCHANGED Life!vars
  <2>1. ASSUME NEW c \in Conns, CbBegin(w, c) PROVE UNCHANGED Life!vars
    BY <1>0, <1>5, <2>1 DEF CbBegin, Goto, recVars
  <2>. QED  BY <1>6, <2>1, FireHidden DEF WorkerBegins
<1>7. ASSUME NEW w \in Workers, WorkerReturns(w)
      PROVE  Life!Next \/ UNCHANGED Life!vars
  <2>1. CASE ReconnectAgain(w)
    <3>1. Delivers' = Delivers
      BY <1>0, <2>1, DeliversFrame DEF ReconnectAgain, Goto, locals
    <3>. QED  BY <2>1, <3>1, RearmRequests DEF ReconnectAgain, Life!Next
  <2>2. CASE ReconnectClosed(w)
    <3>1. ~ m_reactor /\ UNCHANGED <<m_reactor, m_msgClient>>
      BY <2>2, OwnReconnector DEF ReconnectClosed, fields
    <3>2. Wanted' <=> Wanted
      BY <3>1 DEF Wanted
    <3>3. Delivers' = Delivers
      BY <1>0, <2>2, DeliversFrame DEF ReconnectClosed, Goto, locals
    <3>. QED  BY <3>1, <3>2, <3>3, Hidden
  <2>3. CASE DeleteOld(w) \/ RelTimer(w) \/ RelRec(w)
    BY <1>0, <1>5, <2>3 DEF DeleteOld, RelTimer, RelRec, Goto, recVars, locals
  <2>. QED
    BY <1>7, <2>1, <2>2, <2>3, OnTimerHidden, SwapReplaces, CbDelivers
       DEF WorkerReturns, Life!Next
<1>. QED
  BY <1>1, <1>3, <1>4, <1>6, <1>7 DEF Next, Abandoned

(* A client, with its reconnector, the reactor and all the threads inside   *)
(* it, is for its application the simple thing ClientLife describes: a      *)
(* request for a reconnect stays until a new connection or Fini, whatever   *)
(* cancelled timers and reconnects of an earlier life are still under way;  *)
(* a new life starts with no request; the events of a replaced connection   *)
(* are dropped (msg_client.cpp:692-721,742-752, msg_reconnector.cpp:        *)
(* 133-145,167-177).                                                        *)
THEOREM ClientImplementsLife == Spec => ImplementsLife
<1>. QED
  BY InitLife, NextLife, ClientRInv, PTL DEF Spec, ImplementsLife, Life!Spec

\* A closed client gets a connection from Init only: a reconnect whose worker was
\* on its way when Fini closed the client finds it closed
\* (msg_client.cpp:305-309,441-452,692-699).
OnlyInitOpens ==
  m_msgClient = NULL /\ m_msgClient' # NULL => \E u \in Users : InitOk(u)

(* No other step opens a closed client.                                     *)
LEMMA NextOnlyInitOpens == RInv /\ [Next]_vars => [OnlyInitOpens]_vars
<1>. SUFFICES ASSUME RInv, [Next]_vars, m_msgClient = NULL, m_msgClient' # NULL
              PROVE  \E u \in Users : InitOk(u)
  BY DEF OnlyInitOpens
<1>1. ~ m_reactor
  BY OwnReconnector
<1>2. m_msgClient' # m_msgClient
  OBVIOUS
<1>3. ASSUME NEW u \in Users, UserReturns(u) PROVE UNCHANGED m_msgClient
  BY <1>3 DEF UserReturns, FiniRec, FiniRel, FiniConn, FiniSsl, SendEnd,
              ExitSsl, DeleteConn, fields
<1>4. ASSUME NEW u \in Users, UserCalls(u), ~ InitOk(u)
      PROVE  UNCHANGED m_msgClient \/ m_msgClient' = NULL
  BY <1>4 DEF UserCalls, InitFail, FiniLocked, SendBegin, SetOutputRedline,
              Reconnect, AddRef, Release, fields
<1>5. ASSUME NEW w \in Workers, WorkerReturns(w) \/ WorkerBegins(w)
      PROVE  UNCHANGED m_msgClient
  BY <1>1, <1>5
     DEF WorkerReturns, WorkerBegins, Fire, CbBegin, OnTimer, ReconnectSwap,
         ReconnectAgain, ReconnectClosed, DeleteOld, RelTimer, RelRec, CbCheck,
         CbEnd, fields
<1>6. UNCHANGED vars \/ Abandoned => UNCHANGED m_msgClient
  BY DEF vars, fields, Abandoned
<1>. QED  BY <1>2, <1>3, <1>4, <1>5, <1>6 DEF Next

(* So what ClientLife calls Open is a call of Init and nothing else         *)
(* (msg_client.cpp:305-309,441-452,692-699).                                *)
THEOREM ClientOnlyInitOpens == Spec => [][OnlyInitOpens]_vars
<1>. QED
  BY NextOnlyInitOpens, ClientRInv, PTL DEF Spec

------------------------------------------------------------------------------
(****************************************************************************)
(* What MsgClient2, whose steps are those of this module but for the        *)
(* callbacks it takes for itself, needs of the client.                      *)
(****************************************************************************)

(* No thread refers to a connection whose address is free.                  *)
LEMMA FreeConnUnused ==
  ASSUME RInv, NEW c \in FreeConns
  PROVE  c # m_msgClient /\ \A t \in Threads : lconn[t] # c
<1>. USE DEF RInv, IInv, RefsExact
<1>1. c \in Conns /\ c \notin open /\ crefs[c] = 0
  BY DEF FreeConns
<1>2. c # m_msgClient /\ \A t \in Threads : ~ Deletes(t, c)
  BY <1>1 DEF OneOwner, ConnOwned, Owned
<1>3. ConnHolders(c) = {}
  <2>1. Cardinality(ConnHolders(c)) = 0
    BY <1>1, CountsFinite DEF ConnRefs, One
  <2>. QED  BY <2>1, CountsFinite, FS_EmptySet
<1>4. ASSUME NEW t \in Threads, lconn[t] = c PROVE FALSE
  <2>1. pc[t] \in ConnPlaces
    BY <1>1, <1>4, ClientAssumption DEF LocalsHeld
  <2>. QED  BY <1>2, <1>3, <1>4, <2>1 DEF ConnPlaces, Deletes, ConnHolders
<1>. QED  BY <1>2, <1>4

\* A callback that is not delivered, for whatever reason.
CallbackDropped(w) ==
  /\ pc[w] = "callback"
  /\ Goto(w, "cbEnd")
  /\ UNCHANGED <<fields, m_redline, refs, connVars, recVars, sslLive, holds,
                 locals>>

(* It keeps the references it has until it ends (msg_client.cpp:742-752).   *)
LEMMA DroppedKeeps ==
  ASSUME RInv, NEW w \in Workers, CallbackDropped(w)
  PROVE  RInv'
<1>. USE DEF RInv, IInv, RefsExact, fields, connVars, recVars, locals
<1>0. /\ w \in Threads /\ w \notin Users
      /\ pc \in [Threads -> UserPlaces \cup WorkerPlaces]
      /\ pc[w] = "callback"
      /\ UNCHANGED <<fields, m_redline, refs, connVars, recVars, sslLive, holds,
                     locals>>
  BY ClientAssumption DEF Threads, TypeOK, CallbackDropped
<1>1. \A t \in Threads : pc'[t] = IF t = w THEN "cbEnd" ELSE pc[t]
  BY <1>0 DEF CallbackDropped, Goto
<1>2. TypeOK'
  BY <1>0, GotoType DEF CallbackDropped, WorkerPlaces, TypeOK
<1>3. FieldsTogether' /\ SslHeld'
  BY <1>0, <1>1 DEF FieldsTogether, SslHeld
<1>4. OneOwner'
  <2>1. /\ \A t \in Threads : \A c : Deletes(t, c)' <=> Deletes(t, c)
        /\ \A t \in Threads : \A r : Finishes(t, r)' <=> Finishes(t, r)
        /\ \A t \in Threads : \A s : DeletesSsl(t, s)' <=> DeletesSsl(t, s)
    BY <1>0, <1>1 DEF Deletes, Finishes, DeletesSsl
  <2>. QED  BY <1>0, <2>1 DEF OneOwner, ConnOwned, RecOwned, SslOwned, Owned
<1>5. LocalsHeld'
  BY <1>0, <1>1 DEF LocalsHeld, ConnPlaces, RecPlaces
<1>6. TimersNamed'
  BY <1>0, <1>1 DEF TimersNamed, Threads
<1>7. ConnRefs' /\ RecRefs' /\ ClientRefs'
  <2>1. /\ \A c : ConnHolders(c)' = ConnHolders(c)
        /\ \A r : RecTimers(r)' = RecTimers(r) /\ RecHolders(r)' = RecHolders(r)
        /\ ClientHolders' = ClientHolders
    BY <1>0, <1>1 DEF ConnHolders, RecTimers, RecHolders, ClientHolders
  <2>. QED  BY <1>0, <2>1 DEF ConnRefs, RecRefs, ClientRefs
<1>8. SslTogether' /\ RedlineAgrees'
  BY <1>0, <1>1 DEF SslTogether, RedlineAgrees, Deletes, Threads
<1>. QED  BY <1>2, <1>3, <1>4, <1>5, <1>6, <1>7, <1>8
==============================================================================
