--------------------------- MODULE MsgClient2Proofs --------------------------
(****************************************************************************)
(* Proofs about MsgClient2, for any numbers of threads, objects and         *)
(* observers.  A CMsgClient2 takes the steps of its base class, and drops   *)
(* some more callbacks; so the base class's inductive invariant holds of it *)
(* as well, and the observer's invariant is added to it.                    *)
(****************************************************************************)
EXTENDS MsgClient2, FiniteSetTheorems, TLAPS

\* The proofs about the base class.
CP == INSTANCE MsgClientProofs

------------------------------------------------------------------------------
(* The module of the base class and the module of its proofs, both over the *)
(* same variables, say the same.                                            *)

(* They agree on what is finite,                                            *)
LEMMA SameFinite ==
  ASSUME NEW S
  PROVE  /\ C!IsFiniteSet(S) <=> IsFiniteSet(S)
         /\ CP!IsFiniteSet(S) <=> IsFiniteSet(S)
BY DEF IsFiniteSet, C!IsFiniteSet, CP!IsFiniteSet

(* on how many there are,                                                   *)
LEMMA SameCardinality ==
  ASSUME NEW S
  PROVE  C!Cardinality(S) = CP!Cardinality(S)
BY DEF C!Cardinality, CP!Cardinality

(* on the states,                                                           *)
LEMMA SameState ==
  /\ C!vars = CP!vars /\ C!Threads = CP!Threads
  /\ C!TypeOK <=> CP!TypeOK
  /\ C!Init <=> CP!Init
BY DEF C!vars, CP!vars, C!Threads, CP!Threads, C!fields, CP!fields, C!connVars,
       CP!connVars, C!recVars, CP!recVars, C!locals, CP!locals,
       C!UserPlaces, CP!UserPlaces, C!WorkerPlaces, CP!WorkerPlaces,
       C!TypeOK, CP!TypeOK, C!Init, CP!Init

(* on the states after a step                                               *)
LEMMA SameTypeNext == C!TypeOK' <=> CP!TypeOK'
BY DEF C!Threads, CP!Threads, C!UserPlaces, CP!UserPlaces, C!WorkerPlaces,
       CP!WorkerPlaces, C!TypeOK, CP!TypeOK

(* and on the steps.                                                        *)
LEMMA SameNext == C!Next <=> CP!Next
BY DEF C!Next, CP!Next, C!vars, CP!vars, C!Threads, CP!Threads, C!fields,
       CP!fields, C!connVars, CP!connVars, C!recVars, CP!recVars,
       C!locals, CP!locals, C!Goto, CP!Goto, C!FreeConns, CP!FreeConns,
       C!FreeRecs, CP!FreeRecs, C!FreeSsls, CP!FreeSsls, C!FreshIds,
       CP!FreshIds, C!CancelTimer, CP!CancelTimer, C!Pending,
       CP!Pending, C!CreateConn, CP!CreateConn, C!DeleteConn,
       CP!DeleteConn, C!Rearm, CP!Rearm, C!Calls, CP!Calls, C!InitOk,
       CP!InitOk, C!InitFail, CP!InitFail, C!ExitSsl, CP!ExitSsl,
       C!FiniLocked, CP!FiniLocked, C!FiniRec, CP!FiniRec, C!FiniRel,
       CP!FiniRel, C!FiniConn, CP!FiniConn, C!FiniSsl, CP!FiniSsl,
       C!SendBegin, CP!SendBegin, C!SendEnd, CP!SendEnd,
       C!SetOutputRedline, CP!SetOutputRedline, C!Reconnect,
       CP!Reconnect, C!AddRef, CP!AddRef, C!Release, CP!Release, C!Fire,
       CP!Fire, C!OnTimer, CP!OnTimer, C!ReconnectSwap,
       CP!ReconnectSwap, C!ReconnectAgain, CP!ReconnectAgain,
       C!ReconnectClosed, CP!ReconnectClosed, C!DeleteOld, CP!DeleteOld,
       C!RelTimer, CP!RelTimer, C!RelRec, CP!RelRec, C!CbBegin,
       CP!CbBegin, C!CbCheck, CP!CbCheck, C!CbEnd, CP!CbEnd,
       C!UserReturns, CP!UserReturns, C!UserCalls, CP!UserCalls,
       C!WorkerReturns, CP!WorkerReturns, C!WorkerBegins,
       CP!WorkerBegins, C!Abandoned, CP!Abandoned

------------------------------------------------------------------------------
(* The inductive invariant.                                                 *)

\* A thread has an observer while it releases or delivers to it, and a user in
\* the gap of Fini still calls the client (msg_client2.cpp:90-109,126-140).
PlacesHeld ==
  /\ \A u \in Users : /\ lobs[u] # NULL <=> place[u] = "relObs"
                      /\ place[u] # "out" => u \in holds /\ pc[u] = "idle"
  /\ \A w \in Workers : lobs[w] # NULL <=> pc[w] = "deliver"

\* The current connection is owned by the observer that is set
\* (msg_client2.cpp:68-82).
OwnerKept == m_observer # NULL => owner[m_msgClient] = m_observer

IInv ==
  /\ CP!RInv
  /\ TypeOK /\ PlacesHeld /\ Observed /\ OwnerKept /\ ObserverRefs /\ RightObserver

(* Initially the base class is as it starts, and nobody has an observer.    *)
LEMMA InitIInv == Init => IInv
<1>. SUFFICES ASSUME Init PROVE IInv
  OBVIOUS
<1>1. CP!RInv
  BY Client2Assumption, SameState, SameFinite, CP!InitRInv
     DEF Init, C!ClientAssumption, CP!ClientAssumption
<1>2. C!TypeOK
  BY <1>1, SameState DEF CP!RInv, CP!IInv
<1>3. \A t \in C!Threads : pc[t] = "idle"
  BY DEF Init, C!Init
<1>4. TypeOK /\ PlacesHeld /\ RightObserver
  BY <1>2, <1>3 DEF Init, TypeOK, PlacesHeld, RightObserver, C!Threads, Places
<1>5. Observed /\ OwnerKept
  BY DEF Init, C!Init, Observed, OwnerKept, InFini
<1>6. ObserverRefs
  <2>1. \A o \in Observers : {t \in C!Threads : lobs[t] = o} = {}
    BY Client2Assumption DEF Init
  <2>. QED
    BY <2>1, FS_EmptySet, Client2Assumption DEF Init, ObserverRefs, C!One
<1>. QED  BY <1>1, <1>4, <1>5, <1>6 DEF IInv

------------------------------------------------------------------------------
(* The base class.                                                          *)

(* A step of the base class keeps its invariant, and so does a callback     *)
(* that is not delivered.                                                   *)
LEMMA BaseKeeps == ASSUME CP!RInv, C!Next PROVE CP!RInv'
BY Client2Assumption, SameNext, SameFinite, CP!NextRInv
   DEF C!ClientAssumption, CP!ClientAssumption

(* And dropping a callback does too.                                        *)
LEMMA DropKeeps ==
  ASSUME CP!RInv, NEW w \in Workers, CP!CallbackDropped(w)
  PROVE  CP!RInv'
BY Client2Assumption, SameFinite, CP!DroppedKeeps
   DEF C!ClientAssumption, CP!ClientAssumption

(* What the parts of the invariant say.                                     *)
LEMMA FromIInv ==
  ASSUME IInv
  PROVE  /\ TypeOK /\ PlacesHeld /\ Observed /\ OwnerKept /\ ObserverRefs
         /\ RightObserver /\ CP!RInv
         /\ m_reactor <=> m_msgClient # NULL
         /\ \A w \in Workers : pc[w] = "deliver" => lconn[w] \in Conns
<1>1. CP!RInv
  BY DEF IInv
<1>2. m_reactor <=> m_msgClient # NULL
  BY <1>1 DEF CP!RInv, CP!IInv, CP!FieldsTogether
<1>3. \A w \in Workers : pc[w] = "deliver" => lconn[w] \in Conns
  BY <1>1 DEF CP!RInv, CP!IInv, CP!TypeOK, CP!LocalsHeld, CP!ConnPlaces,
              CP!Threads
<1>. QED  BY <1>1, <1>2, <1>3 DEF IInv

(* A callback is delivered or dropped, and what the observer's check        *)
(* delivers, the base class's check would deliver (msg_client2.cpp:126-140, *)
(* msg_client.cpp:742-752).                                                 *)
LEMMA CbCheckSteps ==
  ASSUME IInv, NEW w \in Workers, CbCheck(w)
  PROVE  C!Next \/ CP!CallbackDropped(w)
<1>1. CASE m_observer # NULL /\ m_msgClient = lconn[w]
  <2>1. m_msgClient # NULL
    BY <1>1, FromIInv DEF Observed
  <2>2. C!CbCheck(w)
    BY <1>1, <2>1, FromIInv
       DEF CbCheck, C!CbCheck, baseVars, C!fields, C!connVars, C!recVars,
           C!locals
  <2>. QED
    BY <2>2 DEF C!Next, C!WorkerReturns
<1>2. CASE m_observer = NULL \/ m_msgClient # lconn[w]
  <2>1. CP!CallbackDropped(w)
    BY <1>2 DEF CbCheck, CP!CallbackDropped, C!Goto, CP!Goto, baseVars,
                CP!fields, CP!connVars, CP!recVars, CP!locals
  <2>. QED  BY <2>1
<1>. QED  BY <1>1, <1>2

(* So every step is one of the base class's, drops a callback, or leaves    *)
(* the base class alone.                                                    *)
LEMMA NextSteps ==
  ASSUME IInv, [Next]_vars
  PROVE  \/ C!Next
         \/ \E w \in Workers : CP!CallbackDropped(w)
         \/ UNCHANGED clientVars
<1>1. ASSUME NEW u \in Users, NEW o \in Observers, Init2(u, o) PROVE C!Next
  BY <1>1 DEF Init2, C!Next, C!UserCalls
<1>2. ASSUME NEW u \in Users, BaseFini(u) PROVE C!Next
  BY <1>2 DEF BaseFini, C!Next, C!UserCalls
<1>3. ASSUME NEW u \in Users, Inherited(u) PROVE C!Next
  BY <1>3 DEF Inherited, C!Next, C!UserCalls
<1>4. ASSUME NEW w \in Workers, Base(w) PROVE C!Next
  BY <1>4 DEF Base, C!Next, C!WorkerReturns
<1>5. ASSUME NEW w \in Workers, Swap(w) \/ CbEnd(w) PROVE C!Next
  BY <1>5 DEF Swap, CbEnd, C!Next, C!WorkerReturns
<1>6. C!Abandoned => C!Next
  BY DEF C!Next
<1>. QED
  BY <1>1, <1>2, <1>3, <1>4, <1>5, <1>6, CbCheckSteps
     DEF Next, vars, FiniObserver, ReleaseObserver, Forget

(* Leaving its variables alone is a step of the base class's proofs too.    *)
LEMMA BaseStutters == UNCHANGED clientVars => UNCHANGED CP!vars
BY DEF clientVars, baseVars, CP!vars, CP!fields, CP!connVars, CP!recVars,
       CP!locals

(* So every step keeps the base class's invariant.                          *)
LEMMA NextBase == IInv /\ [Next]_vars => CP!RInv' /\ C!TypeOK'
<1>. SUFFICES ASSUME IInv, [Next]_vars PROVE CP!RInv'
  BY SameTypeNext DEF CP!RInv, CP!IInv
<1>1. CP!RInv
  BY FromIInv
<1>2. ASSUME UNCHANGED CP!vars PROVE CP!RInv'
  BY <1>1, <1>2, Client2Assumption, SameFinite, CP!NextRInv
     DEF C!ClientAssumption, CP!ClientAssumption
<1>. QED  BY <1>1, <1>2, NextSteps, BaseStutters, BaseKeeps, DropKeeps

------------------------------------------------------------------------------
(* The observer's invariant.                                                *)

ObserverInv ==
  TypeOK /\ PlacesHeld /\ Observed /\ OwnerKept /\ ObserverRefs /\ RightObserver

\* The threads that release observer o or deliver to it.
LocalRefs(o) == {t \in C!Threads : lobs[t] = o}

(* Finitely many threads hold a reference to an observer.                   *)
LEMMA LocalRefsFinite ==
  \A o : IsFiniteSet(LocalRefs(o)) /\ Cardinality(LocalRefs(o)) \in Nat
<1>1. IsFiniteSet(C!Threads)
  BY Client2Assumption, SameFinite, FS_Union DEF C!ClientAssumption, C!Threads
<1>2. \A o : IsFiniteSet(LocalRefs(o))
  BY <1>1, FS_Subset DEF LocalRefs
<1>. QED  BY <1>2, FS_CardinalityType

(* A thread that takes an observer is one more of its references, one that  *)
(* gives it back one less.                                                  *)
LEMMA LocalRefsTake ==
  ASSUME lobs \in [C!Threads -> Observers \cup {NULL}],
         NEW t \in C!Threads, lobs[t] = NULL,
         NEW o \in Observers, lobs' = [lobs EXCEPT ![t] = o]
  PROVE  \A x \in Observers :
           Cardinality(LocalRefs(x)') = Cardinality(LocalRefs(x)) + C!One(x = o)
<1>. SUFFICES ASSUME NEW x \in Observers
              PROVE  Cardinality(LocalRefs(x)')
                       = Cardinality(LocalRefs(x)) + C!One(x = o)
  OBVIOUS
<1>1. t \notin LocalRefs(x)
  BY Client2Assumption DEF LocalRefs
<1>2. IsFiniteSet(LocalRefs(x)) /\ Cardinality(LocalRefs(x)) \in Nat
  BY LocalRefsFinite
<1>3. CASE x = o
  <2>1. LocalRefs(x)' = LocalRefs(x) \cup {t}
    BY <1>3 DEF LocalRefs
  <2>2. Cardinality(LocalRefs(x) \cup {t}) = Cardinality(LocalRefs(x)) + 1
    BY <1>1, <1>2, FS_AddElement
  <2>. QED  BY <1>2, <1>3, <2>1, <2>2 DEF C!One
<1>4. CASE x # o
  <2>1. LocalRefs(x)' = LocalRefs(x)
    BY <1>1, <1>4 DEF LocalRefs
  <2>. QED  BY <1>2, <1>4, <2>1 DEF C!One
<1>. QED  BY <1>3, <1>4

(* Giving a local reference back removes the thread's.                      *)
LEMMA LocalRefsGive ==
  ASSUME lobs \in [C!Threads -> Observers \cup {NULL}],
         NEW t \in C!Threads, lobs' = [lobs EXCEPT ![t] = NULL]
  PROVE  \A x \in Observers :
           Cardinality(LocalRefs(x)')
             = Cardinality(LocalRefs(x)) - C!One(x = lobs[t])
<1>. SUFFICES ASSUME NEW x \in Observers
              PROVE  Cardinality(LocalRefs(x)')
                       = Cardinality(LocalRefs(x)) - C!One(x = lobs[t])
  OBVIOUS
<1>1. x # NULL
  BY Client2Assumption
<1>2. IsFiniteSet(LocalRefs(x)) /\ Cardinality(LocalRefs(x)) \in Nat
  BY LocalRefsFinite
<1>3. CASE x = lobs[t]
  <2>1. t \in LocalRefs(x) /\ LocalRefs(x)' = LocalRefs(x) \ {t}
    BY <1>1, <1>3 DEF LocalRefs
  <2>2. Cardinality(LocalRefs(x) \ {t}) = Cardinality(LocalRefs(x)) - 1
    BY <1>2, <2>1, FS_RemoveElement
  <2>. QED  BY <1>2, <1>3, <2>1, <2>2 DEF C!One
<1>4. CASE x # lobs[t]
  <2>1. LocalRefs(x)' = LocalRefs(x)
    BY <1>1, <1>4 DEF LocalRefs
  <2>. QED  BY <1>2, <1>4, <2>1 DEF C!One
<1>. QED  BY <1>3, <1>4

(* A step that leaves the observer alone, and the connection, the users in  *)
(* the gap of Fini and the deliveries with it, keeps the invariant.         *)
LEMMA Quiet ==
  ASSUME IInv, C!TypeOK', UNCHANGED <<observerVars, m_msgClient>>,
         \A u \in Users : place[u] # "out" => u \in holds' /\ pc'[u] = "idle",
         \A w \in Workers : /\ pc'[w] = "deliver" <=> pc[w] = "deliver"
                            /\ pc[w] = "deliver" => lconn'[w] = lconn[w]
  PROVE  ObserverInv'
<1>. USE FromIInv DEF observerVars
<1>1. TypeOK'
  BY DEF TypeOK
<1>2. PlacesHeld'
  BY DEF PlacesHeld
<1>3. Observed' /\ OwnerKept'
  BY DEF Observed, OwnerKept, InFini
<1>4. ObserverRefs'
  BY DEF ObserverRefs
<1>5. RightObserver'
  BY DEF RightObserver
<1>. QED  BY <1>1, <1>2, <1>3, <1>4, <1>5 DEF ObserverInv

(* Threads are of one kind, and a user inside the base class is not in the  *)
(* gap of Fini.                                                             *)
LEMMA Kinds ==
  ASSUME IInv
  PROVE  /\ Users \cap Workers = {} /\ NULL \notin Observers \cup Conns
         /\ C!Threads = Users \cup Workers
         /\ DOMAIN pc = C!Threads /\ DOMAIN lconn = C!Threads
         /\ pc = [t \in C!Threads |-> pc[t]]
         /\ lconn = [t \in C!Threads |-> lconn[t]]
         /\ \A u \in Users : pc[u] # "idle" => place[u] = "out"
         /\ holds \subseteq Users
BY FromIInv, Client2Assumption
   DEF TypeOK, C!TypeOK, PlacesHeld, C!ClientAssumption, C!Threads

(* Steps taken over from CMsgClient leave the observers alone.              *)
LEMMA InheritedKeeps ==
  ASSUME IInv, C!TypeOK', NEW u \in Users, Inherited(u)
  PROVE  ObserverInv'
<1>. USE Kinds DEF C!Goto, C!fields, C!connVars, C!recVars, C!locals, Calls,
                   C!Calls
<1>1. UNCHANGED observerVars
  BY DEF Inherited
<1>2. CASE C!SetOutputRedline(u) \/ C!Reconnect(u)
  BY <1>1, <1>2, Quiet, FromIInv
     DEF C!SetOutputRedline, C!Reconnect, PlacesHeld
<1>3. CASE \/ Calls(u) /\ C!SendBegin(u)
           \/ C!ExitSsl(u) \/ C!SendEnd(u) \/ C!FiniRec(u) \/ C!FiniRel(u)
           \/ C!FiniConn(u) \/ C!FiniSsl(u)
  <2>1. /\ place[u] = "out" /\ UNCHANGED <<m_msgClient, holds>>
        /\ \E p \in C!UserPlaces : pc' = [pc EXCEPT ![u] = p]
        /\ \A t \in C!Threads : t # u => lconn'[t] = lconn[t]
    BY <1>3 DEF C!SendBegin, C!ExitSsl, C!SendEnd, C!FiniRec, C!FiniRel,
                C!FiniConn, C!FiniSsl, C!UserPlaces
  <2>2. \A t \in C!Threads : t # u => pc'[t] = pc[t]
    BY <2>1
  <2>. QED  BY <1>1, <2>1, <2>2, Quiet, FromIInv DEF PlacesHeld
<1>4. CASE \E v \in Users : place[v] = "out" /\ C!AddRef(u, v)
  BY <1>1, <1>4, Quiet, FromIInv DEF C!AddRef, PlacesHeld
<1>5. CASE Calls(u) /\ C!Release(u)
  BY <1>1, <1>5, Quiet, FromIInv DEF C!Release, PlacesHeld
<1>. QED  BY <1>2, <1>3, <1>4, <1>5 DEF Inherited, C!UserReturns

(* Timers and the library's part of callbacks deliver nothing.              *)
LEMMA BaseQuiet ==
  ASSUME IInv, C!TypeOK', NEW w \in Workers, Base(w)
  PROVE  ObserverInv'
<1>. USE Kinds DEF C!Goto, C!fields, C!connVars, C!recVars, C!locals
<1>1. /\ UNCHANGED <<observerVars, m_msgClient, holds>>
      /\ pc[w] # "deliver"
      /\ \E p \in {"timer", "reconn", "relTimer", "relRec", "callback", "idle"} :
           pc' = [pc EXCEPT ![w] = p]
      /\ \A t \in C!Threads : t # w => lconn'[t] = lconn[t]
  <2>1. CASE \E c \in Conns : C!CbBegin(w, c)
    BY <2>1 DEF Base, C!CbBegin
  <2>2. CASE \E i \in TimerIds : C!Fire(w, i)
    BY <2>2 DEF Base, C!Fire
  <2>3. CASE C!OnTimer(w)
    BY <2>3 DEF Base, C!OnTimer
  <2>4. CASE \/ C!ReconnectAgain(w) \/ C!ReconnectClosed(w) \/ C!DeleteOld(w)
             \/ C!RelTimer(w) \/ C!RelRec(w)
    BY <2>4 DEF Base, C!ReconnectAgain, C!ReconnectClosed, C!DeleteOld,
                C!RelTimer, C!RelRec
  <2>. QED  BY <2>1, <2>2, <2>3, <2>4 DEF Base, C!WorkerBegins
<1>2. /\ pc'[w] # "deliver"
      /\ \A t \in C!Threads : t # w => pc'[t] = pc[t]
  BY <1>1
<1>. QED  BY <1>1, <1>2, Quiet, FromIInv DEF PlacesHeld

(* A connection that is created is owned by the observer of the moment, and *)
(* no delivery is of one that had its address before                        *)
(* (msg_client2.cpp:65-82, msg_client.cpp:697-721).                         *)
LEMMA CreatedOwned ==
  ASSUME IInv, NEW c \in C!FreeConns, NEW o, owner' = [owner EXCEPT ![c] = o],
         m_msgClient' = c, m_observer' = o
  PROVE  /\ c \in Conns /\ OwnerKept'
         /\ \A w \in Workers : pc[w] = "deliver" =>
              owner'[lconn[w]] = owner[lconn[w]]
<1>. USE FromIInv
<1>1. c \in CP!FreeConns /\ c \in Conns
  BY DEF C!FreeConns, CP!FreeConns
<1>2. \A t \in C!Threads : lconn[t] # c
  BY <1>1, SameState, SameFinite, Client2Assumption, CP!FreeConnUnused
     DEF C!ClientAssumption, CP!ClientAssumption
<1>3. owner \in [Conns -> Observers \cup {NULL}]
  BY DEF TypeOK
<1>4. OwnerKept'
  BY <1>1, <1>3 DEF OwnerKept
<1>. QED  BY <1>1, <1>2, <1>3, <1>4 DEF C!Threads

(* A new connection inherits the observer that is set.                      *)
LEMMA SwapKeeps ==
  ASSUME IInv, C!TypeOK', NEW w \in Workers, Swap(w)
  PROVE  ObserverInv'
<1>. USE Kinds, FromIInv
<1>1. PICK c \in C!FreeConns : m_msgClient' = c
  BY DEF Swap, C!ReconnectSwap
<1>2. /\ owner' = [owner EXCEPT ![c] = m_observer]
      /\ UNCHANGED <<m_observer, lobs, place, orefs, kept, holds>>
      /\ pc[w] = "reconn" /\ m_reactor
      /\ pc' = [pc EXCEPT ![w] = "delOld"]
      /\ lconn' = [lconn EXCEPT ![w] = m_msgClient]
  BY <1>1 DEF Swap, C!ReconnectSwap, C!Goto
<1>3. /\ c \in Conns /\ OwnerKept'
      /\ \A x \in Workers : pc[x] = "deliver" =>
           owner'[lconn[x]] = owner[lconn[x]]
  BY <1>1, <1>2, CreatedOwned
<1>4. \A t \in C!Threads :
        /\ pc'[t] = IF t = w THEN "delOld" ELSE pc[t]
        /\ t # w => lconn'[t] = lconn[t]
  BY <1>2
<1>5. TypeOK'
  BY <1>2, <1>3, <1>4 DEF TypeOK
<1>6. PlacesHeld'
  BY <1>2, <1>4 DEF PlacesHeld
<1>7. Observed'
  BY <1>1, <1>2, <1>3 DEF Observed, InFini
<1>8. ObserverRefs'
  BY <1>2 DEF ObserverRefs
<1>9. RightObserver'
  BY <1>2, <1>3, <1>4 DEF RightObserver
<1>. QED  BY <1>3, <1>5, <1>6, <1>7, <1>8, <1>9 DEF ObserverInv

(* The counts are exact after a step that moves references if they are for  *)
(* each observer, and numbers because they count.                           *)
LEMMA RefsMove ==
  ASSUME ObserverRefs,
         \A o \in Observers :
           orefs'[o] = C!One(o \in kept') + C!One(o = m_observer')
                         + Cardinality(LocalRefs(o)'),
         orefs' = [o \in Observers |-> orefs'[o]]
  PROVE  ObserverRefs' /\ orefs' \in [Observers -> Nat]
<1>1. \A o \in Observers : Cardinality(LocalRefs(o)') \in Nat
  <2>1. IsFiniteSet(C!Threads)
    BY Client2Assumption, SameFinite, FS_Union DEF C!ClientAssumption, C!Threads
  <2>2. \A o : IsFiniteSet(LocalRefs(o)')
    BY <2>1, FS_Subset DEF LocalRefs
  <2>. QED  BY <2>2, FS_CardinalityType
<1>2. ASSUME NEW o \in Observers PROVE orefs'[o] \in Nat
  <2>1. C!One(o \in kept') \in Nat /\ C!One(o = m_observer') \in Nat
    BY DEF C!One
  <2>. QED  BY <1>1, <2>1
<1>. QED  BY <1>2 DEF ObserverRefs, LocalRefs

(* The counts as they were.                                                 *)
LEMMA RefsAre ==
  ASSUME IInv
  PROVE  \A o \in Observers :
           /\ orefs[o] = C!One(o \in kept) + C!One(o = m_observer)
                           + Cardinality(LocalRefs(o))
           /\ orefs[o] \in Nat /\ Cardinality(LocalRefs(o)) \in Nat
<1>1. ObserverRefs /\ orefs \in [Observers -> Nat]
  BY FromIInv DEF TypeOK
<1>2. \A o \in Observers :
        orefs[o] = C!One(o \in kept) + C!One(o = m_observer)
                     + Cardinality(LocalRefs(o))
  BY <1>1 DEF ObserverRefs, LocalRefs
<1>. QED  BY <1>1, <1>2, LocalRefsFinite

(* Init takes its reference to the observer it sets.                        *)
LEMMA Init2Keeps ==
  ASSUME IInv, C!TypeOK', NEW u \in Users, NEW o \in Observers, Init2(u, o)
  PROVE  ObserverInv'
<1>. USE Kinds, FromIInv
<1>1. PICK c \in C!FreeConns : m_msgClient' = c
  BY DEF Init2, C!InitOk
<1>2. /\ owner' = [owner EXCEPT ![c] = o]
      /\ m_observer = NULL /\ m_observer' = o
      /\ orefs' = [orefs EXCEPT ![o] = @ + 1]
      /\ UNCHANGED <<lobs, place, kept, pc, lconn, holds>>
      /\ m_msgClient = NULL
  BY <1>1 DEF Init2, C!InitOk, C!locals
<1>3. /\ c \in Conns /\ OwnerKept'
      /\ \A x \in Workers : pc[x] = "deliver" =>
           owner'[lconn[x]] = owner[lconn[x]]
  BY <1>1, <1>2, CreatedOwned
<1>4. InFini = {}
  BY <1>2 DEF Observed
<1>5. ObserverRefs' /\ orefs' \in [Observers -> Nat]
  <2>1. ASSUME NEW x \in Observers
        PROVE  orefs'[x] = C!One(x \in kept') + C!One(x = m_observer')
                             + Cardinality(LocalRefs(x)')
    <3>1. LocalRefs(x)' = LocalRefs(x)
      BY <1>2 DEF LocalRefs
    <3>2. orefs'[x] = orefs[x] + C!One(x = o)
      BY <1>2, RefsAre DEF TypeOK, C!One
    <3>3. C!One(x = m_observer) = 0 /\ C!One(x \in kept) \in Nat
      BY <1>2 DEF C!One
    <3>4. C!One(x = m_observer') = C!One(x = o) /\ C!One(x = o) \in Nat
      BY <1>2 DEF C!One
    <3>. QED  BY <1>2, <3>1, <3>2, <3>3, <3>4, RefsAre
  <2>2. orefs' = [x \in Observers |-> orefs'[x]]
    BY <1>2 DEF TypeOK
  <2>. QED  BY <2>1, <2>2, RefsMove
<1>6. TypeOK'
  BY <1>2, <1>3, <1>5 DEF TypeOK
<1>7. PlacesHeld'
  BY <1>2 DEF PlacesHeld
<1>8. Observed'
  BY <1>1, <1>2, <1>3, <1>4 DEF Observed, InFini
<1>9. RightObserver'
  BY <1>2, <1>3 DEF RightObserver
<1>. QED  BY <1>3, <1>5, <1>6, <1>7, <1>8, <1>9 DEF ObserverInv

(* Fini moves the reference of the field to a local variable,               *)
LEMMA FiniObserverKeeps ==
  ASSUME IInv, C!TypeOK', NEW u \in Users, FiniObserver(u)
  PROVE  ObserverInv'
<1>1. /\ u \in holds /\ pc[u] = "idle" /\ place[u] = "out"
      /\ m_observer \in Observers /\ m_observer' = NULL
      /\ lobs' = [lobs EXCEPT ![u] = m_observer]
      /\ place' = [place EXCEPT ![u] = "relObs"]
      /\ UNCHANGED <<m_msgClient, pc, lconn, holds, orefs, kept, owner>>
  BY Kinds, FromIInv DEF FiniObserver, Calls, C!Calls, clientVars, baseVars, TypeOK
<1>2. lobs[u] = NULL
  BY Kinds, FromIInv, <1>1 DEF PlacesHeld, TypeOK, C!Threads
<1>3. \A t \in C!Threads : lobs'[t] = IF t = u THEN m_observer ELSE lobs[t]
  BY Kinds, FromIInv, <1>1 DEF TypeOK
<1>4. \A v \in Users : place'[v] = IF v = u THEN "relObs" ELSE place[v]
  BY Kinds, FromIInv, <1>1 DEF TypeOK
<1>5. ObserverRefs' /\ orefs' \in [Observers -> Nat]
  <2>0. \A x \in Observers :
          Cardinality(LocalRefs(x)')
            = Cardinality(LocalRefs(x)) + C!One(x = m_observer)
    <3>1. u \in C!Threads
      BY Kinds
    <3>2. lobs \in [C!Threads -> Observers \cup {NULL}]
      BY Kinds, FromIInv DEF TypeOK
    <3>3. m_observer \in Observers /\ lobs' = [lobs EXCEPT ![u] = m_observer]
      BY Kinds, FromIInv, <1>1
    <3>. QED  BY <1>2, <3>1, <3>2, <3>3, LocalRefsTake
  <2>1. ASSUME NEW x \in Observers
        PROVE  orefs'[x] = C!One(x \in kept') + C!One(x = m_observer')
                             + Cardinality(LocalRefs(x)')
    <3>1. C!One(x = m_observer) \in Nat /\ C!One(x \in kept) \in Nat
      BY Kinds, FromIInv DEF C!One
    <3>2. C!One(x = m_observer') = 0
      BY Kinds, FromIInv, <1>1 DEF C!One
    <3>. QED  BY Kinds, FromIInv, <1>1, <2>0, <3>1, <3>2, RefsAre
  <2>2. orefs' = [x \in Observers |-> orefs'[x]]
    BY Kinds, FromIInv, <1>1 DEF TypeOK
  <2>. QED  BY Kinds, FromIInv, <2>1, <2>2, RefsMove
<1>6. TypeOK'
  BY Kinds, FromIInv, <1>1, <1>3, <1>5 DEF TypeOK, Places
<1>7. PlacesHeld'
  BY Kinds, FromIInv, <1>1, <1>3, <1>4 DEF PlacesHeld
<1>8. Observed'
  <2>1. InFini = {} /\ m_msgClient # NULL
    BY Kinds, FromIInv, <1>1 DEF Observed
  <2>2. InFini' = {u}
    BY Kinds, FromIInv, <1>4, <2>1 DEF InFini
  <2>. QED  BY Kinds, FromIInv, <1>1, <2>1, <2>2 DEF Observed
<1>9. OwnerKept' /\ RightObserver'
  BY Kinds, FromIInv, <1>1, <1>3 DEF OwnerKept, RightObserver
<1>. QED  BY Kinds, FromIInv, <1>5, <1>6, <1>7, <1>8, <1>9 DEF ObserverInv

(* gives it back outside the lock                                           *)
LEMMA ReleaseObserverKeeps ==
  ASSUME IInv, C!TypeOK', NEW u \in Users, ReleaseObserver(u)
  PROVE  ObserverInv'
<1>. USE Kinds, FromIInv
<1>1. /\ place[u] = "relObs"
      /\ lobs' = [lobs EXCEPT ![u] = NULL]
      /\ orefs' = [orefs EXCEPT ![lobs[u]] = @ - 1]
      /\ place' = [place EXCEPT ![u] = "baseFini"]
      /\ UNCHANGED <<m_msgClient, m_observer, pc, lconn, holds, kept, owner>>
  BY DEF ReleaseObserver, clientVars, baseVars
<1>2. lobs[u] \in Observers
  BY <1>1 DEF PlacesHeld, TypeOK, C!Threads
<1>3. \A t \in C!Threads : lobs'[t] = IF t = u THEN NULL ELSE lobs[t]
  BY <1>1 DEF TypeOK
<1>4. \A v \in Users : place'[v] = IF v = u THEN "baseFini" ELSE place[v]
  BY <1>1 DEF TypeOK
<1>5. ObserverRefs' /\ orefs' \in [Observers -> Nat]
  <2>0. \A x \in Observers :
          Cardinality(LocalRefs(x)')
            = Cardinality(LocalRefs(x)) - C!One(x = lobs[u])
    BY <1>1, LocalRefsGive DEF TypeOK
  <2>1. ASSUME NEW x \in Observers
        PROVE  orefs'[x] = C!One(x \in kept') + C!One(x = m_observer')
                             + Cardinality(LocalRefs(x)')
    <3>1. /\ C!One(x = m_observer) \in Nat /\ C!One(x \in kept) \in Nat
          /\ C!One(x = lobs[u]) \in Nat
      BY DEF C!One
    <3>2. orefs'[x] = orefs[x] - C!One(x = lobs[u])
      BY <1>1, <1>2, RefsAre DEF TypeOK, C!One
    <3>. QED  BY <1>1, <2>0, <3>1, <3>2, RefsAre
  <2>2. orefs' = [x \in Observers |-> orefs'[x]]
    BY <1>1 DEF TypeOK
  <2>. QED  BY <2>1, <2>2, RefsMove
<1>6. TypeOK'
  BY <1>1, <1>3, <1>5 DEF TypeOK, Places
<1>7. PlacesHeld'
  BY <1>1, <1>3, <1>4 DEF PlacesHeld
<1>8. Observed'
  <2>1. InFini' = InFini
    BY <1>1, <1>4 DEF InFini
  <2>. QED  BY <1>1, <2>1 DEF Observed
<1>9. OwnerKept' /\ RightObserver'
  BY <1>1, <1>3 DEF OwnerKept, RightObserver
<1>. QED  BY <1>5, <1>6, <1>7, <1>8, <1>9 DEF ObserverInv

(* and closes the connection.                                               *)
LEMMA BaseFiniKeeps ==
  ASSUME IInv, C!TypeOK', NEW u \in Users, BaseFini(u)
  PROVE  ObserverInv'
<1>. USE Kinds, FromIInv
<1>1. /\ place[u] = "baseFini" /\ pc[u] = "idle" /\ u \in holds
      /\ m_msgClient' = NULL
      /\ pc' = [pc EXCEPT ![u] = "finiRec"]
      /\ lconn' = [lconn EXCEPT ![u] = m_msgClient]
      /\ place' = [place EXCEPT ![u] = "out"]
      /\ UNCHANGED <<m_observer, lobs, holds, orefs, kept, owner>>
  BY DEF BaseFini, C!FiniLocked, C!Calls, C!Goto
<1>2. \A v \in Users : place'[v] = IF v = u THEN "out" ELSE place[v]
  BY <1>1 DEF TypeOK
<1>3. \A w \in Workers : pc'[w] = pc[w] /\ lconn'[w] = lconn[w]
  BY <1>1
<1>4. TypeOK'
  BY <1>1, <1>3 DEF TypeOK, Places
<1>5. PlacesHeld'
  BY <1>1, <1>2 DEF PlacesHeld
<1>6. Observed'
  <2>1. m_observer = NULL /\ InFini = {u}
    BY <1>1 DEF Observed, InFini
  <2>2. InFini' = {}
    BY <1>2, <2>1 DEF InFini
  <2>. QED  BY <1>1, <2>1, <2>2 DEF Observed
<1>7. OwnerKept' /\ RightObserver'
  BY <1>1, <1>3, <1>6 DEF OwnerKept, RightObserver, Observed
<1>8. ObserverRefs'
  BY <1>1 DEF ObserverRefs
<1>. QED  BY <1>4, <1>5, <1>6, <1>7, <1>8 DEF ObserverInv

(* The application may drop an observer at any time.                        *)
LEMMA ForgetKeeps ==
  ASSUME IInv, C!TypeOK', NEW o \in Observers, Forget(o)
  PROVE  ObserverInv'
<1>. USE Kinds, FromIInv
<1>1. /\ o \in kept /\ kept' = kept \ {o}
      /\ orefs' = [orefs EXCEPT ![o] = @ - 1]
      /\ UNCHANGED <<m_msgClient, m_observer, pc, lconn, holds, lobs, place, owner>>
  BY DEF Forget, clientVars, baseVars
<1>2. ObserverRefs' /\ orefs' \in [Observers -> Nat]
  <2>1. ASSUME NEW x \in Observers
        PROVE  orefs'[x] = C!One(x \in kept') + C!One(x = m_observer')
                             + Cardinality(LocalRefs(x)')
    <3>1. LocalRefs(x)' = LocalRefs(x)
      BY <1>1 DEF LocalRefs
    <3>2. orefs'[x] = orefs[x] - C!One(x = o)
      BY <1>1, RefsAre DEF TypeOK, C!One
    <3>3. /\ C!One(x \in kept') = C!One(x \in kept) - C!One(x = o)
          /\ C!One(x \in kept) \in Nat /\ C!One(x = o) \in Nat
          /\ C!One(x = m_observer) \in Nat
      BY <1>1 DEF C!One
    <3>. QED  BY <1>1, <3>1, <3>2, <3>3, RefsAre
  <2>2. orefs' = [x \in Observers |-> orefs'[x]]
    BY <1>1 DEF TypeOK
  <2>. QED  BY <2>1, <2>2, RefsMove
<1>3. TypeOK'
  BY <1>1, <1>2 DEF TypeOK
<1>4. PlacesHeld' /\ OwnerKept' /\ RightObserver'
  BY <1>1 DEF PlacesHeld, OwnerKept, RightObserver
<1>5. Observed'
  BY <1>1 DEF Observed, InFini
<1>. QED  BY <1>2, <1>3, <1>4, <1>5 DEF ObserverInv

(* A callback takes a reference under the lock, or is dropped,              *)
LEMMA CbCheckObserver ==
  ASSUME IInv, C!TypeOK', NEW w \in Workers, CbCheck(w)
  PROVE  ObserverInv'
<1>1. CASE m_observer # NULL /\ m_msgClient = lconn[w]
  <2>1. /\ pc[w] = "callback" /\ m_observer \in Observers
        /\ orefs' = [orefs EXCEPT ![m_observer] = @ + 1]
        /\ lobs' = [lobs EXCEPT ![w] = m_observer]
        /\ pc' = [pc EXCEPT ![w] = "deliver"]
        /\ UNCHANGED <<m_msgClient, m_observer, lconn, holds, place, kept, owner>>
    BY Kinds, FromIInv, <1>1 DEF CbCheck, baseVars, C!Goto, TypeOK
  <2>2. \A t \in C!Threads : /\ lobs'[t] = IF t = w THEN m_observer ELSE lobs[t]
                             /\ pc'[t] = IF t = w THEN "deliver" ELSE pc[t]
    BY Kinds, FromIInv, <2>1 DEF TypeOK
  <2>3. lobs[w] = NULL
    BY Kinds, FromIInv, <2>1 DEF PlacesHeld
  <2>4. ObserverRefs' /\ orefs' \in [Observers -> Nat]
    <3>0. \A x \in Observers :
            Cardinality(LocalRefs(x)')
              = Cardinality(LocalRefs(x)) + C!One(x = m_observer)
      <4>1. w \in C!Threads
        BY Kinds
      <4>2. lobs \in [C!Threads -> Observers \cup {NULL}]
        BY Kinds, FromIInv DEF TypeOK
      <4>3. m_observer \in Observers /\ lobs' = [lobs EXCEPT ![w] = m_observer]
        BY Kinds, FromIInv, <2>1
      <4>. QED  BY <2>3, <4>1, <4>2, <4>3, LocalRefsTake
    <3>1. ASSUME NEW x \in Observers
          PROVE  orefs'[x] = C!One(x \in kept') + C!One(x = m_observer')
                               + Cardinality(LocalRefs(x)')
      <4>1. C!One(x = m_observer) \in Nat /\ C!One(x \in kept) \in Nat
        BY Kinds, FromIInv DEF C!One
      <4>2. orefs'[x] = orefs[x] + C!One(x = m_observer)
        BY Kinds, FromIInv, <2>1, RefsAre DEF TypeOK, C!One
      <4>. QED  BY Kinds, FromIInv, <2>1, <3>0, <4>1, <4>2, RefsAre
    <3>2. orefs' = [x \in Observers |-> orefs'[x]]
      BY Kinds, FromIInv, <2>1 DEF TypeOK
    <3>. QED  BY Kinds, FromIInv, <3>1, <3>2, RefsMove
  <2>5. TypeOK'
    BY Kinds, FromIInv, <2>1, <2>2, <2>4 DEF TypeOK
  <2>6. PlacesHeld'
    BY Kinds, FromIInv, <2>1, <2>2 DEF PlacesHeld
  <2>7. Observed' /\ OwnerKept'
    BY Kinds, FromIInv, <2>1 DEF Observed, OwnerKept, InFini
  <2>8. RightObserver'
    BY Kinds, FromIInv, <1>1, <2>1, <2>2 DEF RightObserver, OwnerKept
  <2>. QED  BY Kinds, FromIInv, <2>4, <2>5, <2>6, <2>7, <2>8 DEF ObserverInv
<1>2. CASE m_observer = NULL \/ m_msgClient # lconn[w]
  <2>1. /\ UNCHANGED <<observerVars, m_msgClient, holds, lconn>>
        /\ pc[w] = "callback" /\ pc' = [pc EXCEPT ![w] = "cbEnd"]
    BY Kinds, FromIInv, <1>2 DEF CbCheck, observerVars, baseVars, C!Goto
  <2>2. \A t \in C!Threads : pc'[t] = IF t = w THEN "cbEnd" ELSE pc[t]
    BY Kinds, FromIInv, <2>1
  <2>. QED  BY Kinds, FromIInv, <2>1, <2>2, Quiet DEF PlacesHeld
<1>. QED  BY Kinds, FromIInv, <1>1, <1>2

(* and gives it back.                                                       *)
LEMMA CbEndObserver ==
  ASSUME IInv, C!TypeOK', NEW w \in Workers, CbEnd(w)
  PROVE  ObserverInv'
<1>. USE Kinds, FromIInv
<1>1. /\ pc[w] \in {"deliver", "cbEnd"}
      /\ pc' = [pc EXCEPT ![w] = "idle"]
      /\ lconn' = [lconn EXCEPT ![w] = NULL]
      /\ orefs' = [o \in Observers |-> orefs[o] - C!One(o = lobs[w])]
      /\ lobs' = [lobs EXCEPT ![w] = NULL]
      /\ UNCHANGED <<m_msgClient, m_observer, holds, place, kept, owner>>
  BY DEF CbEnd, C!CbEnd, C!Goto, C!fields
<1>2. \A t \in C!Threads : /\ lobs'[t] = IF t = w THEN NULL ELSE lobs[t]
                           /\ pc'[t] = IF t = w THEN "idle" ELSE pc[t]
                           /\ t # w => lconn'[t] = lconn[t]
  BY <1>1 DEF TypeOK
<1>3. ObserverRefs' /\ orefs' \in [Observers -> Nat]
  <2>0. \A x \in Observers :
          Cardinality(LocalRefs(x)')
            = Cardinality(LocalRefs(x)) - C!One(x = lobs[w])
    BY <1>1, LocalRefsGive DEF TypeOK
  <2>1. ASSUME NEW x \in Observers
        PROVE  orefs'[x] = C!One(x \in kept') + C!One(x = m_observer')
                             + Cardinality(LocalRefs(x)')
    <3>1. /\ C!One(x = m_observer) \in Nat /\ C!One(x \in kept) \in Nat
          /\ C!One(x = lobs[w]) \in Nat
      BY DEF C!One
    <3>. QED  BY <1>1, <2>0, <3>1, RefsAre
  <2>2. orefs' = [x \in Observers |-> orefs'[x]]
    BY <1>1
  <2>. QED  BY <2>1, <2>2, RefsMove
<1>4. TypeOK'
  BY <1>1, <1>2, <1>3 DEF TypeOK
<1>5. PlacesHeld'
  BY <1>1, <1>2 DEF PlacesHeld
<1>6. Observed' /\ OwnerKept'
  BY <1>1 DEF Observed, OwnerKept, InFini
<1>7. RightObserver'
  BY <1>1, <1>2 DEF RightObserver
<1>. QED  BY <1>3, <1>4, <1>5, <1>6, <1>7 DEF ObserverInv

------------------------------------------------------------------------------

(* Every step keeps the invariant.                                          *)
LEMMA NextIInv == IInv /\ [Next]_vars => IInv'
<1>. SUFFICES ASSUME IInv, [Next]_vars PROVE ObserverInv'
  BY NextBase DEF IInv, ObserverInv
<1>0. C!TypeOK' /\ PlacesHeld
  BY NextBase, FromIInv
<1>1. CASE UNCHANGED vars \/ (C!Abandoned /\ UNCHANGED observerVars)
  BY <1>0, <1>1, Quiet
     DEF vars, clientVars, baseVars, PlacesHeld, C!Abandoned, C!vars, C!fields,
         C!locals
<1>. QED
  BY <1>0, <1>1, Init2Keeps, FiniObserverKeeps, ReleaseObserverKeeps,
     BaseFiniKeeps, InheritedKeeps, ForgetKeeps, BaseQuiet, SwapKeeps,
     CbCheckObserver, CbEndObserver
     DEF Next

(* The inductive invariant of a client with an observer: all that is proved *)
(* of the base class, and the observer's part.                              *)
THEOREM Client2IInv == Spec => []IInv
<1>. QED  BY InitIInv, NextIInv, PTL DEF Spec

(* Every variable keeps its type, and an event is never delivered to no     *)
(* observer (msg_client2.cpp:126-140).                                      *)
THEOREM Client2TypeCorrect == Spec => []TypeOK
<1>1. IInv => TypeOK
  BY DEF IInv
<1>. QED  BY <1>1, Client2IInv, PTL

(* While there is a connection there is an observer for its events, but for *)
(* the gap inside one thread's Fini (msg_client2.cpp:65-82,92-106).         *)
THEOREM Client2Observed == Spec => []Observed
<1>1. IInv => Observed
  BY DEF IInv
<1>. QED  BY <1>1, Client2IInv, PTL

(* An observer's count is exact: it lives as long as the application, the   *)
(* client, a thread in Fini or a delivery refers to it                      *)
(* (msg_client2.cpp:80,104,138,168).                                        *)
THEOREM Client2ObserverRefs == Spec => []ObserverRefs
<1>1. IInv => ObserverRefs
  BY DEF IInv
<1>. QED  BY <1>1, Client2IInv, PTL

(* An event goes to the observer its connection was made for, whatever Fini *)
(* and Init come between (msg_client2.cpp:126-140).                         *)
THEOREM Client2RightObserver == Spec => []RightObserver
<1>1. IInv => RightObserver
  BY DEF IInv
<1>. QED  BY <1>1, Client2IInv, PTL

(* What CMsgClient2 adds takes nothing from its base class: no connection,  *)
(* reconnector or TLS configuration leaks or is given back twice, and every *)
(* count stays exact (msg_client.cpp:446-462,719-723, msg_client2.cpp:      *)
(* 85-110).                                                                 *)
THEOREM Client2BaseKept == Spec => [](C!OneOwner /\ C!RefsExact)
<1>1. CP!OneOwner => C!OneOwner
  BY DEF CP!OneOwner, C!OneOwner, CP!ConnOwned, C!ConnOwned, CP!RecOwned,
         C!RecOwned, CP!SslOwned, C!SslOwned, CP!Owned, C!Owned, CP!Deletes,
         C!Deletes, CP!Finishes, C!Finishes, CP!DeletesSsl, C!DeletesSsl,
         CP!Threads, C!Threads
<1>2. CP!RefsExact => C!RefsExact
  BY SameCardinality
     DEF CP!RefsExact, C!RefsExact, CP!ConnRefs, C!ConnRefs, CP!RecRefs,
         C!RecRefs, CP!ClientRefs, C!ClientRefs, CP!ConnHolders, C!ConnHolders,
         CP!RecTimers, C!RecTimers, CP!RecHolders, C!RecHolders,
         CP!ClientHolders, C!ClientHolders, CP!One, C!One, CP!Threads, C!Threads
<1>3. IInv => CP!OneOwner /\ CP!RefsExact
  BY DEF IInv, CP!RInv, CP!IInv
<1>. QED  BY <1>1, <1>2, <1>3, Client2IInv, PTL

------------------------------------------------------------------------------
(****************************************************************************)
(* Refinement of ClientLife: with an observer the client still is what an   *)
(* application relies on.                                                   *)
(****************************************************************************)

(* The two modules of the base class map to the same states                 *)
LEMMA SameLife ==
  C!Life!vars = CP!Life!vars /\ (C!Life!Init <=> CP!Life!Init)
BY DEF C!Life!vars, CP!Life!vars, C!Life!Init, CP!Life!Init,
       C!Wanted, CP!Wanted, C!Delivers, CP!Delivers

(* and steps of ClientLife.                                                 *)
LEMMA SameLifeNext ==
  /\ C!Life!Next <=> CP!Life!Next
  /\ UNCHANGED C!Life!vars <=> UNCHANGED CP!Life!vars
BY DEF C!Life!vars, CP!Life!vars, C!Life!Next, CP!Life!Next,
       C!Life!Open, CP!Life!Open, C!Life!Request, CP!Life!Request,
       C!Life!Replace, CP!Life!Replace, C!Life!Close, CP!Life!Close,
       C!Life!Deliver, CP!Life!Deliver, C!Life!Delivered, CP!Life!Delivered,
       C!Wanted, CP!Wanted, C!Delivers, CP!Delivers

(* A step of the base class is a step of ClientLife, or hidden from it.     *)
LEMMA BaseLife ==
  ASSUME CP!RInv, C!Next \/ UNCHANGED CP!vars
  PROVE  C!Life!Next \/ UNCHANGED C!Life!vars
<1>1. CP!Next \/ UNCHANGED CP!vars
  BY SameNext
<1>2. CP!Life!Next \/ UNCHANGED CP!Life!vars
  BY <1>1, Client2Assumption, SameFinite, CP!NextLife
     DEF C!ClientAssumption, CP!ClientAssumption
<1>. QED  BY <1>2, SameLifeNext

(* A callback that is not delivered is hidden from it                       *)
(* (msg_client2.cpp:126-140).                                               *)
LEMMA DropHidden ==
  ASSUME IInv, NEW w \in Workers, CP!CallbackDropped(w)
  PROVE  UNCHANGED C!Life!vars
<1>1. /\ w \in C!Threads /\ pc[w] = "callback"
      /\ pc \in [C!Threads -> C!UserPlaces \cup C!WorkerPlaces]
  BY FromIInv DEF TypeOK, C!TypeOK, C!Threads, CP!CallbackDropped
<1>2. /\ pc' = [pc EXCEPT ![w] = "cbEnd"]
      /\ UNCHANGED <<m_reactor, m_msgClient, m_reconnector, rtimer, onTimer,
                     lconn, lrec, ltimer>>
  BY DEF CP!CallbackDropped, CP!Goto, CP!fields, CP!recVars, CP!locals
<1>3. \A t \in C!Threads : pc'[t] = IF t = w THEN "cbEnd" ELSE pc[t]
  BY <1>1, <1>2
<1>4. \A v \in Workers : /\ pc'[v] = "timer" <=> pc[v] = "timer"
                         /\ pc'[v] = "reconn" <=> pc[v] = "reconn"
                         /\ pc'[v] = "deliver" <=> pc[v] = "deliver"
  BY <1>1, <1>3 DEF C!Threads
<1>5. C!Wanted' <=> C!Wanted
  BY <1>2, <1>4 DEF C!Wanted
<1>6. C!Wanted' = C!Wanted
  <2>1. C!Wanted \in BOOLEAN /\ C!Wanted' \in BOOLEAN
    BY DEF C!Wanted
  <2>. QED  BY <1>5, <2>1
<1>7. C!Delivers' = C!Delivers
  BY <1>2, <1>4 DEF C!Delivers
<1>. QED  BY <1>2, <1>6, <1>7 DEF C!Life!vars

(* Each step of the client is a step of ClientLife, or hidden from it.      *)
LEMMA NextLife == IInv /\ [Next]_vars => [C!Life!Next]_(C!Life!vars)
<1>. SUFFICES ASSUME IInv, [Next]_vars
              PROVE  C!Life!Next \/ UNCHANGED C!Life!vars
  OBVIOUS
<1>1. CP!RInv
  BY FromIInv
<1>. QED  BY <1>1, NextSteps, BaseStutters, BaseLife, DropHidden

(* It starts as ClientLife does.                                            *)
LEMMA InitLife == Init => C!Life!Init
BY Client2Assumption, SameState, SameLife, SameFinite, CP!InitLife
   DEF Init, C!ClientAssumption, CP!ClientAssumption

(* A client with an observer is, for its application, the same simple thing *)
(* as one without: whatever its Fini does between taking the observer away  *)
(* and closing the connection, a request for a reconnect stays until a new  *)
(* connection or the end of Fini, a new life starts with no request, and an *)
(* event that finds no observer or another connection is dropped            *)
(* (msg_client2.cpp:65-110,126-140, msg_client.cpp:692-721).                *)
THEOREM Client2ImplementsLife == Spec => C!ImplementsLife
<1>. QED
  BY InitLife, NextLife, Client2IInv, PTL
     DEF Spec, C!ImplementsLife, C!Life!Spec
==============================================================================
