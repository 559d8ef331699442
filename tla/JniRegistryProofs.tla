-------------------------- MODULE JniRegistryProofs --------------------------
(****************************************************************************)
(* Proofs about JniRegistry, for any numbers of Java threads, reactor       *)
(* threads, addresses and reactors, and any users.  The parts of the        *)
(* invariant support each other: an address is reused only when the count   *)
(* of its object is 0, so that nobody refers to it, and the counts are      *)
(* exact because one thread answers for each object.                        *)
(****************************************************************************)
EXTENDS JniRegistry, JniUserProofs, FiniteSetTheorems

Creates == {"createClient", "createServer"}
Uses == {"useClient", "useServer"}
FiniPlaces == {"fini", "finiRel"}
ObjPlaces == Creates \cup Uses \cup {"delete", "release", "finiRel"}

\* A create keeps g_s_lock until it has inserted its object
\* (com_pro_msg_ProMsgJni.cpp:501-552).
LockHeld == \A j \in Javas : pc[j] \in Creates <=> g_s_lock = j

\* What a thread has where: an object while it works on one, a reactor in fini
\* and in a callback, a list of objects in fini
\* (com_pro_msg_ProMsgJni.cpp:382-413,577-587,924-971).
LocalsHeld ==
  /\ \A j \in Javas :
       /\ lobj[j] # NULL <=> pc[j] \in ObjPlaces
       /\ lreactor[j] # NULL <=> pc[j] \in FiniPlaces
       /\ lservers[j] \cup lclients[j] # {} => pc[j] \in FiniPlaces
       /\ lobj[j] \notin lservers[j] \cup lclients[j]
  /\ \A w \in Workers : lobj[w] # NULL <=> pc[w] # "idle"

\* The reactor of the current init lives, and so do those that a fini is to
\* delete, each of one fini only (com_pro_msg_ProMsgJni.cpp:319-352,382-413).
ReactorsKept ==
  /\ g_s_meta <=> g_s_reactor # NULL
  /\ reactors \subseteq used
  /\ g_s_reactor # NULL => g_s_reactor \in reactors
  /\ \A j \in Javas : lreactor[j] # NULL => lreactor[j] \in reactors \ {g_s_reactor}
  /\ \A i, j \in Javas : lreactor[i] # NULL /\ lreactor[i] = lreactor[j] => i = j

\* An object being created is on the current reactor, one that fini has still to
\* finish is on the reactor of this fini, one that has been finished on none
\* (com_pro_msg_ProMsgJni.cpp:393-411,529-541,582-586).
OnReactor ==
  \A j \in Javas :
    /\ pc[j] \in Creates => g_s_reactor # NULL /\ m_reactor[lobj[j]] = g_s_reactor
    /\ pc[j] \in {"release", "finiRel"} => m_reactor[lobj[j]] = NULL
    /\ \A x \in lservers[j] \cup lclients[j] : m_reactor[x] = lreactor[j]

\* An object is inserted into the registry of its class
\* (com_pro_msg_ProMsgJni.cpp:552,1160).
ClassesKept ==
  \A j \in Javas : /\ pc[j] = "createClient" => lobj[j] \notin serverObjs
                   /\ pc[j] = "createServer" => lobj[j] \in serverObjs

\* A call keeps of a user what the conversion made of it
\* (com_pro_msg_ProMsgJni.cpp:126-157).
UsersKept ==
  \A j \in Javas : \A r \in lusers[j] :
    r.cpp = IF r.closed THEN Zero ELSE ToCpp(r.given)

IInv ==
  /\ TypeOK /\ LockHeld /\ LocalsHeld /\ ReactorsKept /\ OnReactor /\ ClassesKept
  /\ RegistrySound /\ OneOwner /\ RefsExact /\ UsersKept

------------------------------------------------------------------------------
(* The steps of a Java thread that look a handle up, in one: a call takes a *)
(* reference to an object of the registry of its class                      *)
(* (com_pro_msg_ProMsgJni.cpp:924-930,1497-1503).                           *)
Looks(j, x, place) ==
  /\ Locks(j)
  /\ place \in Uses
  /\ x \in g_s_clients \cup g_s_servers
  /\ place = "useClient" => x \in g_s_clients
  /\ place = "useServer" => x \in g_s_servers
  /\ UseBegin(j, x, place)

(* What a Java call may do, with the lookups as one.                        *)
LEMMA JavaSteps ==
  ASSUME NEW j, JavaCalls(j)
  PROVE  \/ JniInit(j) \/ FiniLocked(j)
         \/ \E u \in Users : Convert(j, u)
         \/ \E x \in Objs : \/ CreateClient(j, x) \/ CreateServer(j, x)
                            \/ EraseClient(j, x) \/ EraseServer(j, x)
                            \/ \E place \in Uses : Looks(j, x, place)
BY DEF JavaCalls, Looks, Uses, Lookup, OpenLookup, ReadClient, ReadServer,
       ReadServerUser, SendClient, SendServer, KickoutUser, UseClient, UseServer

(* Adding and removing one element changes a count by one.                  *)
LEMMA CountMore ==
  ASSUME NEW S, IsFiniteSet(S), NEW x, x \notin S
  PROVE  /\ IsFiniteSet(S \cup {x})
         /\ Cardinality(S \cup {x}) = Cardinality(S) + 1
BY FS_AddElement

(* And removing one.                                                        *)
LEMMA CountLess ==
  ASSUME NEW S, IsFiniteSet(S), NEW x \in S
  PROVE  /\ IsFiniteSet(S \ {x})
         /\ Cardinality(S \ {x}) = Cardinality(S) - 1
BY FS_RemoveElement

(* There are finitely many threads that could refer to an object.           *)
LEMMA ObjCounts ==
  ASSUME NEW x
  PROVE  /\ IsFiniteSet(Answering(x)) /\ Cardinality(Answering(x)) \in Nat
         /\ IsFiniteSet(Using(x)) /\ Cardinality(Using(x)) \in Nat
         /\ IsFiniteSet(Calling(x)) /\ Cardinality(Calling(x)) \in Nat
<1>1. /\ Answering(x) \in SUBSET Javas /\ Using(x) \in SUBSET Javas
      /\ Calling(x) \in SUBSET Workers
  BY DEF Answering, Using, Calling
<1>2. /\ IsFiniteSet(Answering(x)) /\ IsFiniteSet(Using(x))
      /\ IsFiniteSet(Calling(x))
  BY <1>1, RegistryAssumption, FS_Subset
<1>. QED  BY <1>2, FS_CardinalityType

(* A count is 0 exactly when nobody and nothing refers to the object.       *)
LEMMA Unreferred ==
  ASSUME TypeOK, ObjRefs, NEW x \in Objs
  PROVE  refs[x] = 0 <=> /\ x \notin Registered /\ m_reactor[x] = NULL
                         /\ Answering(x) = {} /\ Using(x) = {} /\ Calling(x) = {}
<1>1. /\ refs[x] = One(x \in Registered) + One(m_reactor[x] # NULL)
                     + Cardinality(Answering(x)) + Cardinality(Using(x))
                     + Cardinality(Calling(x))
      /\ One(x \in Registered) \in Nat /\ One(m_reactor[x] # NULL) \in Nat
      /\ x \notin Registered <=> One(x \in Registered) = 0
      /\ m_reactor[x] = NULL <=> One(m_reactor[x] # NULL) = 0
  BY DEF ObjRefs, One
<1>2. /\ Answering(x) = {} <=> Cardinality(Answering(x)) = 0
      /\ Using(x) = {} <=> Cardinality(Using(x)) = 0
      /\ Calling(x) = {} <=> Cardinality(Calling(x)) = 0
  BY ObjCounts, FS_EmptySet
<1>3. /\ Cardinality(Answering(x)) \in Nat /\ Cardinality(Using(x)) \in Nat
      /\ Cardinality(Calling(x)) \in Nat
  BY ObjCounts
<1>4. refs[x] = 0 <=> /\ One(x \in Registered) = 0 /\ One(m_reactor[x] # NULL) = 0
                      /\ Cardinality(Answering(x)) = 0
                      /\ Cardinality(Using(x)) = 0 /\ Cardinality(Calling(x)) = 0
  BY <1>1, <1>3
<1>. QED  BY <1>1, <1>2, <1>4

(* Who works on an object refers to it.                                     *)
LEMMA HolderRefs ==
  ASSUME TypeOK, LocalsHeld, ObjRefs, NEW t \in Threads, lobj[t] # NULL
  PROVE  lobj[t] \in Objs /\ refs[lobj[t]] # 0
<1>1. lobj[t] \in Objs
  BY DEF TypeOK
<1>2. CASE t \in Workers
  BY <1>1, <1>2, Unreferred DEF Calling
<1>3. CASE t \in Javas
  <2>1. pc[t] \in JavaPlaces
    BY <1>3 DEF TypeOK
  <2>2. t \in Answering(lobj[t]) \/ t \in Using(lobj[t])
    BY <1>3, <2>1 DEF Answering, Answers, Using
  <2>. QED  BY <1>1, <2>2, Unreferred
<1>. QED  BY <1>2, <1>3 DEF Threads

------------------------------------------------------------------------------
(* Types.                                                                   *)

(* At first there is no object and no reactor.                              *)
LEMMA InitTypeOK == Init => TypeOK
<1>. SUFFICES ASSUME Init PROVE TypeOK
  OBVIOUS
<1>. USE DEF Init
<1>1. /\ pc \in [Threads -> JavaPlaces \cup WorkerPlaces]
      /\ \A j \in Javas : pc[j] \in JavaPlaces
      /\ \A w \in Workers : pc[w] \in WorkerPlaces
  BY DEF Threads, JavaPlaces, WorkerPlaces
<1>2. /\ m_reactor \in [Objs -> Reactors \cup {NULL}]
      /\ m_listener \subseteq Objs /\ serverObjs \subseteq Objs
      /\ refs \in [Objs -> Nat]
  OBVIOUS
<1>3. /\ lobj \in [Threads -> Objs \cup {NULL}]
      /\ lreactor \in [Threads -> Reactors \cup {NULL}]
  OBVIOUS
<1>4. /\ lusers \in [Javas -> SUBSET Converted]
      /\ lservers \in [Javas -> SUBSET Objs]
      /\ lclients \in [Javas -> SUBSET Objs]
  OBVIOUS
<1>. QED  BY <1>1, <1>2, <1>3, <1>4 DEF TypeOK

(* The places a thread moves to are its own.                                *)
LEMMA AtType ==
  ASSUME TypeOK, NEW t \in Threads, NEW p, At(t, p),
         t \in Javas => p \in JavaPlaces,
         t \in Workers => p \in WorkerPlaces
  PROVE  /\ pc' \in [Threads -> JavaPlaces \cup WorkerPlaces]
         /\ \A j \in Javas : pc'[j] \in JavaPlaces
         /\ \A w \in Workers : pc'[w] \in WorkerPlaces
BY DEF TypeOK, At, Threads

(* Finishing and releasing an object keeps the types of all objects.        *)
LEMMA ObjType ==
  ASSUME TypeOK, ObjRefs, NEW x \in Objs,
         FiniOf(x) \/ (ReleaseOf(x) /\ refs[x] # 0)
  PROVE  /\ m_reactor' \in [Objs -> Reactors \cup {NULL}]
         /\ m_listener' \subseteq Objs /\ serverObjs' \subseteq Objs
         /\ refs' \in [Objs -> Nat]
<1>. USE DEF TypeOK
<1>1. CASE FiniOf(x)
  <2>1. m_reactor[x] # NULL => refs[x] # 0
    BY Unreferred
  <2>2. refs[x] \in Nat /\ (refs[x] # 0 => refs[x] - 1 \in Nat)
    OBVIOUS
  <2>. QED  BY <1>1, <2>1, <2>2 DEF FiniOf
<1>2. CASE ReleaseOf(x) /\ refs[x] # 0
  <2>1. refs[x] - 1 \in Nat
    BY <1>2
  <2>. QED  BY <1>2, <2>1 DEF ReleaseOf
<1>. QED  BY <1>1, <1>2

(* What the conversion makes of a user that Java passes.                    *)
LEMMA ConvertType ==
  ASSUME TypeOK, NEW u \in Users
  PROVE  [given |-> u, cpp |-> IF g_s_meta THEN ToCpp(u) ELSE Zero,
          closed |-> ~g_s_meta] \in Converted
<1>1. ToCpp(u) \in CppUsers
  BY ToCppTyped, RegistryAssumption
<1>2. Zero \in CppUsers
  BY UserAssumption DEF Zero, CppUsers, InstIds
<1>3. (IF g_s_meta THEN ToCpp(u) ELSE Zero) \in CppUsers
  BY <1>1, <1>2
<1>4. (~g_s_meta) \in BOOLEAN
  OBVIOUS
<1>. QED  BY <1>3, <1>4 DEF Converted

(* Every call of a Java thread keeps the types.                             *)
LEMMA JavaTypeOK ==
  ASSUME TypeOK, LocalsHeld, ObjRefs,
         NEW j \in Javas, JavaCalls(j) \/ JavaReturns(j)
  PROVE  TypeOK'
<1>. USE DEF TypeOK, globals, objVars, reactorVars, finis, Takes
<1>0. j \in Threads /\ j \notin Workers /\ NULL \notin Objs
  BY RegistryAssumption DEF Threads
<1>1. CASE JniInit(j)
  <2>1. PICK r \in Reactors :
          /\ reactors' = reactors \cup {r}
          /\ used' = used \cup {r}
          /\ \/ /\ g_s_reactor' = r
                /\ g_s_meta' = TRUE
                /\ UNCHANGED <<pc, lreactor>>
             \/ /\ lreactor' = [lreactor EXCEPT ![j] = r]
                /\ At(j, "fini")
                /\ UNCHANGED <<g_s_reactor, g_s_meta>>
    BY <1>1 DEF JniInit
  <2>2. /\ pc' \in [Threads -> JavaPlaces \cup WorkerPlaces]
        /\ \A i \in Javas : pc'[i] \in JavaPlaces
        /\ \A w \in Workers : pc'[w] \in WorkerPlaces
    BY <1>0, <2>1, AtType DEF JavaPlaces
  <2>3. lreactor' \in [Threads -> Reactors \cup {NULL}]
    BY <2>1
  <2>. QED  BY <1>1, <2>1, <2>2, <2>3 DEF JniInit
<1>2. CASE FiniLocked(j)
  BY <1>0, <1>2, AtType DEF FiniLocked, JavaPlaces
<1>3. ASSUME NEW u \in Users, Convert(j, u) PROVE TypeOK'
  <2>1. lusers' \in [Javas -> SUBSET Converted]
    BY <1>3, ConvertType DEF Convert
  <2>. QED  BY <1>3, <2>1 DEF Convert
<1>4. ASSUME NEW x \in Objs, CreateClient(j, x) \/ CreateServer(j, x)
      PROVE  TypeOK'
  <2>1. \E p \in Creates : At(j, p)
    BY <1>4 DEF CreateClient, CreateServer, CreateObj, Creates
  <2>2. \A p \in Creates : p \in JavaPlaces
    BY DEF Creates, JavaPlaces
  <2>. QED  BY <1>0, <1>4, <2>1, <2>2, AtType
         DEF CreateClient, CreateServer, CreateObj
<1>5. ASSUME NEW x \in Objs, EraseClient(j, x) \/ EraseServer(j, x)
      PROVE  TypeOK'
  BY <1>0, <1>5, AtType DEF EraseClient, EraseServer, Erased, JavaPlaces
<1>6. ASSUME NEW x \in Objs, NEW p \in Uses, Looks(j, x, p) PROVE TypeOK'
  <2>1. p \in JavaPlaces
    BY DEF Uses, JavaPlaces
  <2>2. refs[x] + 1 \in Nat
    OBVIOUS
  <2>. QED  BY <1>0, <1>6, <2>1, <2>2, AtType DEF Looks, UseBegin
<1>7. CASE FiniNext(j)
  <2>1. PICK x \in Objs :
          /\ FiniOf(x)
          /\ Takes(j, x, "finiRel")
          /\ lservers' = [lservers EXCEPT ![j] = @ \ {x}]
          /\ lclients' = [lclients EXCEPT ![j] = @ \ {x}]
    BY <1>7 DEF FiniNext
  <2>2. /\ m_reactor' \in [Objs -> Reactors \cup {NULL}]
        /\ m_listener' \subseteq Objs /\ serverObjs' \subseteq Objs
        /\ refs' \in [Objs -> Nat]
    BY <2>1, ObjType
  <2>. QED  BY <1>0, <1>7, <2>1, <2>2, AtType DEF FiniNext, JavaPlaces
<1>8. CASE FiniRel(j) \/ ReleaseLast(j)
  <2>1. pc[j] \in ObjPlaces /\ ReleaseOf(lobj[j])
    BY <1>8 DEF FiniRel, ReleaseLast, ObjPlaces, Uses
  <2>2. lobj[j] \in Objs /\ refs[lobj[j]] # 0
    BY <1>0, <2>1, HolderRefs DEF LocalsHeld
  <2>3. /\ m_reactor' \in [Objs -> Reactors \cup {NULL}]
        /\ m_listener' \subseteq Objs /\ serverObjs' \subseteq Objs
        /\ refs' \in [Objs -> Nat]
    BY <2>1, <2>2, ObjType
  <2>. QED  BY <1>0, <1>8, <2>3, AtType
         DEF FiniRel, ReleaseLast, Returns, JavaPlaces
<1>9. CASE DeleteFini(j)
  <2>1. lobj[j] \in Objs /\ FiniOf(lobj[j])
    BY <1>0, <1>9 DEF DeleteFini, LocalsHeld, ObjPlaces
  <2>2. /\ m_reactor' \in [Objs -> Reactors \cup {NULL}]
        /\ m_listener' \subseteq Objs /\ serverObjs' \subseteq Objs
        /\ refs' \in [Objs -> Nat]
    BY <2>1, ObjType
  <2>. QED  BY <1>0, <1>9, <2>2, AtType DEF DeleteFini, JavaPlaces
<1>10. CASE DeleteReactor(j)
  BY <1>0, <1>10, AtType DEF DeleteReactor, JavaPlaces
<1>11. CASE InsertClient(j) \/ InsertServer(j)
  <2>1. lobj[j] \in Objs
    BY <1>0, <1>11 DEF InsertClient, InsertServer, LocalsHeld, ObjPlaces, Creates
  <2>. QED  BY <1>0, <1>11, <2>1, AtType
         DEF InsertClient, InsertServer, Inserted, Returns, JavaPlaces
<1>12. CASE Refused(j)
  BY <1>12 DEF Refused
<1>. QED
  BY <1>1, <1>2, <1>3, <1>4, <1>5, <1>6, <1>7, <1>8, <1>9, <1>10, <1>11, <1>12,
     JavaSteps DEF JavaReturns

(* Every callback keeps the types.                                          *)
LEMMA WorkerTypeOK ==
  ASSUME TypeOK, LocalsHeld, ObjRefs, NEW w \in Workers,
         (\E x \in Objs : CbBegin(w, x)) \/ WorkerReturns(w)
  PROVE  TypeOK'
<1>. USE DEF TypeOK, globals, objVars, reactorVars, finis, Takes
<1>0. w \in Threads /\ w \notin Javas
  BY RegistryAssumption DEF Threads
<1>1. ASSUME NEW x \in Objs, CbBegin(w, x) PROVE TypeOK'
  <2>1. refs[x] + 1 \in Nat
    OBVIOUS
  <2>. QED  BY <1>0, <1>1, <2>1, AtType DEF CbBegin, WorkerPlaces
<1>2. CASE Events(w) \/ NewJavaUser(w)
  <2>1. /\ UNCHANGED <<g_s_lock, globals, reactorVars, objVars, lobj, lusers, finis>>
        /\ \E p \in {"end", "newUser", "deliver"} : At(w, p)
    BY <1>2 DEF Events, ClientUserEvent, ClientPlainEvent, ServerEvent, CbCheck,
                NewJavaUser
  <2>. QED  BY <1>0, <2>1, AtType DEF WorkerPlaces
<1>3. CASE CbEnd(w)
  <2>1. lobj[w] \in Objs /\ refs[lobj[w]] # 0
    BY <1>0, <1>3, HolderRefs DEF CbEnd, LocalsHeld
  <2>2. /\ m_reactor' \in [Objs -> Reactors \cup {NULL}]
        /\ m_listener' \subseteq Objs /\ serverObjs' \subseteq Objs
        /\ refs' \in [Objs -> Nat]
    BY <1>3, <2>1, ObjType DEF CbEnd
  <2>. QED  BY <1>0, <1>3, <2>2, AtType DEF CbEnd, WorkerPlaces
<1>. QED  BY <1>1, <1>2, <1>3 DEF WorkerReturns

(* Every step keeps the types.                                              *)
LEMMA NextTypeOK ==
  ASSUME TypeOK, LocalsHeld, ObjRefs, [Next]_vars PROVE TypeOK'
<1>1. CASE UNCHANGED vars
  BY <1>1 DEF vars, globals, objVars, reactorVars, finis, TypeOK
<1>. QED  BY <1>1, JavaTypeOK, WorkerTypeOK DEF Next, Exhausted

------------------------------------------------------------------------------
(* The lock and the locals.                                                 *)

(* g_s_lock is held across a create, and given back with the insertion      *)
(* (com_pro_msg_ProMsgJni.cpp:501-552).                                     *)
LEMMA NextLock ==
  ASSUME TypeOK, LockHeld, [Next]_vars PROVE LockHeld'
<1>. USE DEF LockHeld, Creates, globals, objVars, reactorVars, finis, Takes, At
<1>0. /\ pc \in [Threads -> JavaPlaces \cup WorkerPlaces]
      /\ Threads = Javas \cup Workers /\ Javas \cap Workers = {}
      /\ NULL \notin Javas
  BY RegistryAssumption DEF TypeOK, Threads
<1>1. CASE UNCHANGED vars
  BY <1>1 DEF vars
<1>2. ASSUME NEW j \in Javas, NEW x \in Objs,
             CreateClient(j, x) \/ CreateServer(j, x)
      PROVE  LockHeld'
  BY <1>0, <1>2 DEF CreateClient, CreateServer, CreateObj, Locks, LocksAtOnce
<1>3. ASSUME NEW j \in Javas, InsertClient(j) \/ InsertServer(j) PROVE LockHeld'
  BY <1>0, <1>3 DEF InsertClient, InsertServer, Inserted, Returns
<1>4. ASSUME NEW j \in Javas, JniInit(j) \/ FiniLocked(j) PROVE LockHeld'
  BY <1>0, <1>4 DEF JniInit, FiniLocked, LocksAtOnce, Locks
<1>5. ASSUME NEW j \in Javas, NEW u \in Users, Convert(j, u) PROVE LockHeld'
  BY <1>5 DEF Convert
<1>6. ASSUME NEW j \in Javas, NEW x \in Objs, EraseClient(j, x) \/ EraseServer(j, x)
      PROVE  LockHeld'
  BY <1>0, <1>6 DEF EraseClient, EraseServer, Erased, LocksAtOnce, Locks
<1>7. ASSUME NEW j \in Javas, NEW x \in Objs, NEW p \in Uses, Looks(j, x, p)
      PROVE  LockHeld'
  BY <1>0, <1>7 DEF Looks, UseBegin, Locks, Uses
<1>8. ASSUME NEW j \in Javas,
             \/ FiniNext(j) \/ FiniRel(j) \/ DeleteReactor(j)
             \/ DeleteFini(j) \/ ReleaseLast(j) \/ Refused(j)
      PROVE  LockHeld'
  BY <1>0, <1>8 DEF FiniNext, FiniRel, DeleteReactor, DeleteFini, ReleaseLast,
                    Refused, Returns
<1>9. ASSUME NEW w \in Workers, NEW x \in Objs, CbBegin(w, x) PROVE LockHeld'
  BY <1>0, <1>9 DEF CbBegin
<1>10. ASSUME NEW w \in Workers, WorkerReturns(w) PROVE LockHeld'
  BY <1>0, <1>10
     DEF WorkerReturns, Events, ClientUserEvent, ClientPlainEvent, ServerEvent,
         CbCheck, NewJavaUser, CbEnd
<1>. QED
  BY <1>1, <1>2, <1>3, <1>4, <1>5, <1>6, <1>7, <1>8, <1>9, <1>10, JavaSteps
     DEF Next, Exhausted, JavaReturns

(* A thread has its locals where it needs them.                             *)
LEMMA NextLocals ==
  ASSUME TypeOK, LocalsHeld, [Next]_vars PROVE LocalsHeld'
<1>. USE DEF LocalsHeld, Creates, Uses, FiniPlaces, ObjPlaces,
             globals, objVars, reactorVars, finis, Takes, At
<1>0. /\ pc \in [Threads -> JavaPlaces \cup WorkerPlaces]
      /\ lobj \in [Threads -> Objs \cup {NULL}]
      /\ lreactor \in [Threads -> Reactors \cup {NULL}]
      /\ lservers \in [Javas -> SUBSET Objs] /\ lclients \in [Javas -> SUBSET Objs]
      /\ g_s_reactor \in Reactors \cup {NULL} /\ Registered \subseteq Objs
      /\ Threads = Javas \cup Workers /\ Javas \cap Workers = {}
      /\ NULL \notin Objs \cup Reactors
  BY RegistryAssumption DEF TypeOK, Threads, Registered
<1>1. CASE UNCHANGED vars
  BY <1>1 DEF vars
<1>2. ASSUME NEW j \in Javas, NEW x \in Objs,
             CreateClient(j, x) \/ CreateServer(j, x)
      PROVE  LocalsHeld'
  BY <1>0, <1>2 DEF CreateClient, CreateServer, CreateObj, Locks, LocksAtOnce
<1>3. ASSUME NEW j \in Javas, InsertClient(j) \/ InsertServer(j) PROVE LocalsHeld'
  BY <1>0, <1>3 DEF InsertClient, InsertServer, Inserted, Returns
<1>4. ASSUME NEW j \in Javas, JniInit(j) PROVE LocalsHeld'
  BY <1>0, <1>4 DEF JniInit, LocksAtOnce, Locks
<1>5. ASSUME NEW j \in Javas, FiniLocked(j) PROVE LocalsHeld'
  <2>1. /\ pc[j] = "idle" /\ pc' = [pc EXCEPT ![j] = "fini"]
        /\ lreactor' = [lreactor EXCEPT ![j] = g_s_reactor] /\ g_s_reactor # NULL
        /\ UNCHANGED lobj
    BY <1>5 DEF FiniLocked, LocksAtOnce, Locks
  <2>2. /\ \A i \in Javas \ {j} : lservers'[i] = lservers[i] /\ lclients'[i] = lclients[i]
        /\ NULL \notin lservers'[j] \cup lclients'[j]
    BY <1>0, <1>5 DEF FiniLocked, Registered
  <2>. QED  BY <1>0, <2>1, <2>2
<1>6. ASSUME NEW j \in Javas, NEW x \in Objs, EraseClient(j, x) \/ EraseServer(j, x)
      PROVE  LocalsHeld'
  BY <1>0, <1>6 DEF EraseClient, EraseServer, Erased, LocksAtOnce, Locks
<1>7. ASSUME NEW j \in Javas, NEW x \in Objs, NEW p \in Uses, Looks(j, x, p)
      PROVE  LocalsHeld'
  BY <1>0, <1>7 DEF Looks, UseBegin, Locks
<1>8. ASSUME NEW j \in Javas, FiniNext(j) PROVE LocalsHeld'
  <2>1. PICK x \in Objs :
          /\ pc[j] = "fini" /\ x \in lservers[j] \cup lclients[j]
          /\ Takes(j, x, "finiRel")
          /\ lservers' = [lservers EXCEPT ![j] = @ \ {x}]
          /\ lclients' = [lclients EXCEPT ![j] = @ \ {x}]
          /\ UNCHANGED lreactor
    BY <1>0, <1>8 DEF FiniNext
  <2>. QED  BY <1>0, <2>1
<1>9. ASSUME NEW j \in Javas, DeleteReactor(j) PROVE LocalsHeld'
  BY <1>0, <1>9 DEF DeleteReactor
<1>10. ASSUME NEW j \in Javas,
              FiniRel(j) \/ DeleteFini(j) \/ ReleaseLast(j)
       PROVE  LocalsHeld'
  BY <1>0, <1>10 DEF FiniRel, DeleteFini, ReleaseLast, Returns
<1>11. ASSUME NEW j \in Javas, Refused(j) \/ \E u \in Users : Convert(j, u)
       PROVE  LocalsHeld'
  BY <1>11 DEF Refused, Convert
<1>12. ASSUME NEW w \in Workers, NEW x \in Objs, CbBegin(w, x) PROVE LocalsHeld'
  BY <1>0, <1>12 DEF CbBegin
<1>13. ASSUME NEW w \in Workers, WorkerReturns(w) PROVE LocalsHeld'
  BY <1>0, <1>13
     DEF WorkerReturns, Events, ClientUserEvent, ClientPlainEvent, ServerEvent,
         CbCheck, NewJavaUser, CbEnd
<1>. QED
  BY <1>1, <1>2, <1>3, <1>4, <1>5, <1>6, <1>7, <1>8, <1>9, <1>10, <1>11, <1>12,
     <1>13, JavaSteps DEF Next, Exhausted, JavaReturns

(* Reactors are made anew, and each one is deleted by one fini              *)
(* (com_pro_msg_ProMsgJni.cpp:319-352,382-413).                             *)
LEMMA NextReactors ==
  ASSUME TypeOK, LocalsHeld, ReactorsKept, [Next]_vars PROVE ReactorsKept'
<1>. USE DEF ReactorsKept, globals, objVars, reactorVars, finis, At
<1>0. /\ lreactor \in [Threads -> Reactors \cup {NULL}]
      /\ g_s_reactor \in Reactors \cup {NULL} /\ used \subseteq Reactors
      /\ Threads = Javas \cup Workers /\ Javas \cap Workers = {}
      /\ NULL \notin Objs \cup Reactors
  BY RegistryAssumption DEF TypeOK, Threads
<1>1. CASE UNCHANGED <<globals, reactorVars, lreactor>>
  BY <1>1
<1>2. ASSUME NEW j \in Javas, JniInit(j) PROVE ReactorsKept'
  <2>1. PICK r \in Reactors \ used :
          /\ g_s_reactor = NULL
          /\ reactors' = reactors \cup {r} /\ used' = used \cup {r}
          /\ \/ /\ g_s_reactor' = r /\ g_s_meta' = TRUE
                /\ UNCHANGED lreactor
             \/ /\ lreactor' = [lreactor EXCEPT ![j] = r]
                /\ UNCHANGED <<g_s_reactor, g_s_meta>>
    BY <1>2 DEF JniInit
  <2>2. \A i \in Javas : lreactor[i] # r
    BY <1>0, <2>1
  <2>3. CASE g_s_reactor' = r /\ g_s_meta' = TRUE /\ UNCHANGED lreactor
    BY <1>0, <2>1, <2>2, <2>3
  <2>4. CASE /\ lreactor' = [lreactor EXCEPT ![j] = r]
             /\ UNCHANGED <<g_s_reactor, g_s_meta>>
    <3>1. \A i \in Javas : lreactor'[i] = IF i = j THEN r ELSE lreactor[i]
      BY <1>0, <2>4
    <3>. QED  BY <1>0, <2>1, <2>2, <2>4, <3>1
  <2>. QED  BY <2>1, <2>3, <2>4
<1>3. ASSUME NEW j \in Javas, FiniLocked(j) PROVE ReactorsKept'
  <2>1. \A i \in Javas : lreactor'[i] = IF i = j THEN g_s_reactor ELSE lreactor[i]
    BY <1>0, <1>3 DEF FiniLocked
  <2>2. /\ g_s_reactor # NULL /\ g_s_reactor' = NULL /\ g_s_meta' = FALSE
        /\ UNCHANGED <<reactors, used>>
    BY <1>3 DEF FiniLocked
  <2>. QED  BY <1>0, <2>1, <2>2
<1>4. ASSUME NEW j \in Javas, DeleteReactor(j) PROVE ReactorsKept'
  <2>1. \A i \in Javas : lreactor'[i] = IF i = j THEN NULL ELSE lreactor[i]
    BY <1>0, <1>4 DEF DeleteReactor
  <2>2. /\ lreactor[j] # NULL /\ reactors' = reactors \ {lreactor[j]}
        /\ UNCHANGED <<g_s_reactor, g_s_meta, used>>
    BY <1>4 DEF DeleteReactor, LocalsHeld, FiniPlaces
  <2>. QED  BY <1>0, <2>1, <2>2
<1>5. ASSUME NEW j \in Javas, JavaCalls(j), ~ JniInit(j), ~ FiniLocked(j)
      PROVE  UNCHANGED <<g_s_reactor, g_s_meta, reactorVars, lreactor>>
  BY <1>5, JavaSteps
     DEF Convert, CreateClient, CreateServer, CreateObj, EraseClient, EraseServer,
         Erased, Looks, UseBegin
<1>6. ASSUME NEW j \in Javas, JavaReturns(j), ~ DeleteReactor(j)
      PROVE  UNCHANGED <<g_s_reactor, g_s_meta, reactorVars, lreactor>>
  BY <1>6 DEF JavaReturns, FiniNext, FiniRel, InsertClient, InsertServer, Inserted,
              DeleteFini, ReleaseLast, Refused
<1>7. ASSUME NEW w \in Workers, (\E x \in Objs : CbBegin(w, x)) \/ WorkerReturns(w)
      PROVE  /\ UNCHANGED <<g_s_reactor, g_s_meta, reactorVars>>
             /\ \A j \in Javas : lreactor'[j] = lreactor[j]
  BY <1>0, <1>7
     DEF WorkerReturns, Events, ClientUserEvent, ClientPlainEvent, ServerEvent,
         CbBegin, CbCheck, NewJavaUser, CbEnd
<1>. QED
  BY <1>1, <1>2, <1>3, <1>4, <1>5, <1>6, <1>7 DEF Next, Exhausted, vars

(* A call keeps of its users what the conversion made of them               *)
(* (com_pro_msg_ProMsgJni.cpp:126-157).                                     *)
LEMMA NextUsers ==
  ASSUME TypeOK, UsersKept, [Next]_vars PROVE UsersKept'
<1>. USE DEF UsersKept, globals, objVars, reactorVars, finis
<1>0. lusers \in [Javas -> SUBSET Converted]
  BY DEF TypeOK
<1>1. CASE UNCHANGED lusers
  BY <1>1
<1>2. ASSUME NEW j \in Javas, NEW u \in Users, Convert(j, u) PROVE UsersKept'
  <2>. DEFINE user == [given |-> u, cpp |-> IF g_s_meta THEN ToCpp(u) ELSE Zero,
                       closed |-> ~g_s_meta]
  <2>1. user.cpp = IF user.closed THEN Zero ELSE ToCpp(user.given)
    OBVIOUS
  <2>2. lusers' = [lusers EXCEPT ![j] = @ \cup {user}]
    BY <1>2 DEF Convert
  <2>. HIDE DEF user
  <2>. QED  BY <1>0, <2>1, <2>2
<1>3. ASSUME NEW j \in Javas, lusers' = [lusers EXCEPT ![j] = {}] PROVE UsersKept'
  BY <1>0, <1>3
<1>4. ASSUME NEW j \in Javas, JavaCalls(j),
             ~ \E u \in Users : Convert(j, u)
      PROVE  UNCHANGED lusers
  BY <1>4, JavaSteps
     DEF JniInit, FiniLocked, CreateClient, CreateServer, CreateObj, EraseClient,
         EraseServer, Erased, Looks, UseBegin
<1>5. ASSUME NEW j \in Javas, JavaReturns(j)
      PROVE  UNCHANGED lusers \/ lusers' = [lusers EXCEPT ![j] = {}]
  BY <1>5 DEF JavaReturns, FiniNext, FiniRel, DeleteReactor, InsertClient,
              InsertServer, Inserted, DeleteFini, ReleaseLast, Returns, Refused
<1>6. ASSUME NEW w \in Workers, (\E x \in Objs : CbBegin(w, x)) \/ WorkerReturns(w)
      PROVE  UNCHANGED lusers
  BY <1>6
     DEF WorkerReturns, Events, ClientUserEvent, ClientPlainEvent, ServerEvent,
         CbBegin, CbCheck, NewJavaUser, CbEnd
<1>. QED
  BY <1>1, <1>2, <1>3, <1>4, <1>5, <1>6 DEF Next, Exhausted, vars

------------------------------------------------------------------------------
(* What a step does to one object, as far as its count is concerned: who    *)
(* answers for it, who works on it, whether the library refers to it.       *)

StaysOwned(x) == /\ x \in Registered' <=> x \in Registered
                 /\ Answering(x)' = Answering(x)
StaysUsed(x) == Using(x)' = Using(x) /\ Calling(x)' = Calling(x)
StaysStarted(x) == m_reactor'[x] = m_reactor[x]
StaysCounted(x) == refs'[x] = refs[x] /\ (x \in m_listener' <=> x \in m_listener)

\* AddRef and Release (com_pro_msg_ProMsgJni.cpp:930,971).
Referred(x) == /\ refs'[x] = refs[x] + 1
               /\ x \in m_listener' <=> x \in m_listener
Dropped(x) == /\ refs'[x] = refs[x] - 1
              /\ x \in m_listener' <=> x \in m_listener /\ refs[x] # 1

Same(x) == StaysOwned(x) /\ StaysUsed(x) /\ StaysStarted(x) /\ StaysCounted(x)

\* A create (com_pro_msg_ProMsgJni.cpp:516-541).
Born(j, x) ==
  /\ refs[x] = 0
  /\ x \in Registered' <=> x \in Registered
  /\ Answering(x)' = Answering(x) \cup {j}
  /\ m_reactor'[x] # NULL
  /\ refs'[x] = 2 /\ x \in m_listener'
  /\ StaysUsed(x)

\* The insertion, the erasure and the swap of fini
\* (com_pro_msg_ProMsgJni.cpp:393-401,552,577-582).
Registers(j, x) ==
  /\ j \in Answering(x) /\ x \in Registered'
  /\ Answering(x)' = Answering(x) \ {j}
  /\ StaysUsed(x) /\ StaysStarted(x) /\ StaysCounted(x)
Unregisters(j, x) ==
  /\ x \in Registered /\ x \notin Registered'
  /\ Answering(x)' = Answering(x) \cup {j}
  /\ StaysUsed(x) /\ StaysStarted(x) /\ StaysCounted(x)

\* Fini (com_pro_msg_ProMsgJni.cpp:404,410,586).
Finishes(j, x) ==
  /\ j \in Answering(x)
  /\ m_reactor'[x] = NULL
  /\ refs'[x] = IF m_reactor[x] # NULL THEN refs[x] - 1 ELSE refs[x]
  /\ x \in m_listener' <=> x \in m_listener
  /\ StaysOwned(x) /\ StaysUsed(x)

\* The Release that ends a delete or the work of fini on one object
\* (com_pro_msg_ProMsgJni.cpp:405,411,587).
GivesUp(j, x) ==
  /\ j \in Answering(x) /\ m_reactor[x] = NULL
  /\ Answering(x)' = Answering(x) \ {j}
  /\ x \in Registered' <=> x \in Registered
  /\ Dropped(x) /\ StaysUsed(x) /\ StaysStarted(x)

\* A call and a callback (com_pro_msg_ProMsgJni.cpp:924-971).
BeginsUse(j, x) ==
  /\ x \in Registered
  /\ j \notin Using(x) /\ Using(x)' = Using(x) \cup {j}
  /\ Calling(x)' = Calling(x)
  /\ Referred(x) /\ StaysOwned(x) /\ StaysStarted(x)
EndsUse(j, x) ==
  /\ j \in Using(x) /\ Using(x)' = Using(x) \ {j}
  /\ Calling(x)' = Calling(x)
  /\ Dropped(x) /\ StaysOwned(x) /\ StaysStarted(x)
BeginsCall(w, x) ==
  /\ m_reactor[x] # NULL
  /\ w \notin Calling(x) /\ Calling(x)' = Calling(x) \cup {w}
  /\ Using(x)' = Using(x)
  /\ Referred(x) /\ StaysOwned(x) /\ StaysStarted(x)
EndsCall(w, x) ==
  /\ w \in Calling(x) /\ Calling(x)' = Calling(x) \ {w}
  /\ Using(x)' = Using(x)
  /\ Dropped(x) /\ StaysOwned(x) /\ StaysStarted(x)

Seen(x) ==
  \/ Same(x)
  \/ \E j \in Javas : \/ Born(j, x) \/ Registers(j, x) \/ Unregisters(j, x)
                      \/ Finishes(j, x) \/ GivesUp(j, x)
                      \/ BeginsUse(j, x) \/ EndsUse(j, x)
  \/ \E w \in Workers : BeginsCall(w, x) \/ EndsCall(w, x)

(* The threads that refer to an object change with what each thread does.   *)
LEMMA HoldersFrame ==
  ASSUME NEW x,
         \A j \in Javas : Answers(j, x)' <=> Answers(j, x),
         \A j \in Javas : (lobj'[j] = x /\ pc'[j] \in Uses)
                            <=> (lobj[j] = x /\ pc[j] \in Uses),
         \A w \in Workers : lobj'[w] = x <=> lobj[w] = x
  PROVE  Answering(x)' = Answering(x) /\ StaysUsed(x)
BY DEF Answering, Using, Calling, StaysUsed, Uses

(* What thread j does is seen in its own places and locals alone.           *)
LEMMA OthersAnswer ==
  ASSUME TypeOK, NEW j \in Threads, NEW x,
         \A t \in Threads \ {j} : pc'[t] = pc[t] /\ lobj'[t] = lobj[t],
         \A i \in Javas \ {j} : lservers'[i] = lservers[i] /\ lclients'[i] = lclients[i]
  PROVE  /\ \A i \in Javas \ {j} :
              /\ Answers(i, x)' <=> Answers(i, x)
              /\ (lobj'[i] = x /\ pc'[i] \in Uses) <=> (lobj[i] = x /\ pc[i] \in Uses)
         /\ \A w \in Workers \ {j} : lobj'[w] = x <=> lobj[w] = x
BY RegistryAssumption DEF Answers, Threads

(* A step of a Java thread shows in the sets of holders as the change of    *)
(* what the thread itself holds.                                            *)
LEMMA JavaHolders ==
  ASSUME TypeOK, NEW j \in Javas, NEW x,
         \A t \in Threads \ {j} : pc'[t] = pc[t] /\ lobj'[t] = lobj[t],
         \A i \in Javas \ {j} : lservers'[i] = lservers[i] /\ lclients'[i] = lclients[i]
  PROVE  /\ Answers(j, x)' => Answering(x)' = Answering(x) \cup {j}
         /\ ~ Answers(j, x)' => Answering(x)' = Answering(x) \ {j}
         /\ Using(x)' = IF lobj'[j] = x /\ pc'[j] \in Uses THEN Using(x) \cup {j}
                        ELSE Using(x) \ {j}
         /\ Calling(x)' = Calling(x)
<1>1. j \in Threads /\ j \notin Workers
  BY RegistryAssumption DEF Threads
<1>2. /\ \A i \in Javas \ {j} :
           /\ Answers(i, x)' <=> Answers(i, x)
           /\ (lobj'[i] = x /\ pc'[i] \in Uses) <=> (lobj[i] = x /\ pc[i] \in Uses)
      /\ \A w \in Workers : lobj'[w] = x <=> lobj[w] = x
  BY <1>1, OthersAnswer
<1>3. \A i : i \in Answering(x)' <=> i \in Javas /\ Answers(i, x)'
  BY DEF Answering
<1>4. \A i : i \in Answering(x) <=> i \in Javas /\ Answers(i, x)
  BY DEF Answering
<1>5. /\ Answers(j, x)' => Answering(x)' = Answering(x) \cup {j}
      /\ ~ Answers(j, x)' => Answering(x)' = Answering(x) \ {j}
  BY <1>2, <1>3, <1>4
<1>6. Using(x)' = IF lobj'[j] = x /\ pc'[j] \in Uses THEN Using(x) \cup {j}
                  ELSE Using(x) \ {j}
  BY <1>2 DEF Using, Uses
<1>7. Calling(x)' = Calling(x)
  BY <1>2 DEF Calling
<1>. QED  BY <1>5, <1>6, <1>7

(* A Java thread is seen at an object as one of the changes above.          *)
LEMMA JavaSeen ==
  ASSUME TypeOK, LocalsHeld, RegistrySound, OnReactor,
         NEW j \in Javas, JavaCalls(j) \/ JavaReturns(j), NEW x \in Objs
  PROVE  Seen(x)
<1>. DEFINE answers == j \in Answering(x)
            uses == j \in Using(x)
<1>0. /\ pc \in [Threads -> JavaPlaces \cup WorkerPlaces]
      /\ lobj \in [Threads -> Objs \cup {NULL}]
      /\ lservers \in [Javas -> SUBSET Objs] /\ lclients \in [Javas -> SUBSET Objs]
      /\ m_reactor \in [Objs -> Reactors \cup {NULL}] /\ refs \in [Objs -> Nat]
      /\ g_s_reactor \in Reactors \cup {NULL} /\ Registered \subseteq Objs
      /\ j \in Threads /\ NULL \notin Objs \cup Reactors /\ pc[j] \in JavaPlaces
  BY RegistryAssumption DEF TypeOK, Threads, Registered
<1>1. /\ answers <=> Answers(j, x)
      /\ uses <=> lobj[j] = x /\ pc[j] \in Uses
  BY DEF Answering, Using, Uses
<1>2. /\ pc[j] \notin ObjPlaces => lobj[j] = NULL
      /\ pc[j] \notin FiniPlaces => lservers[j] = {} /\ lclients[j] = {}
      /\ lobj[j] \notin lservers[j] \cup lclients[j]
  BY DEF LocalsHeld
<1>3. ASSUME UNCHANGED <<g_s_clients, g_s_servers, objVars, lobj, lservers, lclients>>,
             \/ UNCHANGED pc
             \/ pc[j] \in {"idle", "fini"} /\ \E p \in {"idle", "fini"} : At(j, p)
      PROVE  Seen(x)
  <2>1. lobj[j] = x => UNCHANGED pc
    BY <1>0, <1>2, <1>3 DEF ObjPlaces, Creates, Uses
  <2>2. \A t \in Threads \ {j} : pc'[t] = pc[t]
    BY <1>0, <1>3 DEF At
  <2>3. /\ Answers(j, x)' <=> Answers(j, x)
        /\ (lobj'[j] = x /\ pc'[j] \in Uses) <=> (lobj[j] = x /\ pc[j] \in Uses)
    BY <1>3, <2>1 DEF Answers
  <2>4. \A i \in Javas : /\ Answers(i, x)' <=> Answers(i, x)
                         /\ (lobj'[i] = x /\ pc'[i] \in Uses)
                              <=> (lobj[i] = x /\ pc[i] \in Uses)
    BY <1>0, <1>3, <2>2, <2>3, OthersAnswer
  <2>5. Answering(x)' = Answering(x) /\ StaysUsed(x)
    BY <1>3, <2>4, HoldersFrame
  <2>. QED
    BY <1>3, <2>5 DEF Seen, Same, StaysOwned, StaysStarted, StaysCounted, objVars,
                      Registered
<1>4. ASSUME NEW y \in Objs, CreateClient(j, y) \/ CreateServer(j, y)
      PROVE  Seen(x)
  <2>1. /\ \E p \in Creates : Takes(j, y, p)
        /\ g_s_reactor # NULL /\ refs[y] = 0 /\ pc[j] = "idle"
        /\ m_listener' = m_listener \cup {y}
        /\ m_reactor' = [m_reactor EXCEPT ![y] = g_s_reactor]
        /\ refs' = [refs EXCEPT ![y] = 2]
        /\ UNCHANGED <<globals, finis>>
    BY <1>4 DEF CreateClient, CreateServer, CreateObj, Creates, Locks, LocksAtOnce
  <2>2. /\ \A t \in Threads \ {j} : pc'[t] = pc[t] /\ lobj'[t] = lobj[t]
        /\ lobj'[j] = y /\ pc'[j] \in Creates
        /\ lobj[j] = NULL /\ lservers[j] = {} /\ lclients[j] = {}
        /\ lservers'[j] = {} /\ lclients'[j] = {}
        /\ UNCHANGED <<lservers, lclients>>
    BY <1>0, <1>2, <2>1 DEF Takes, At, finis, ObjPlaces, Creates, Uses, FiniPlaces
  <2>3. /\ ~ Answers(j, x) /\ ~ (lobj[j] = x /\ pc[j] \in Uses)
        /\ Answers(j, x)' <=> x = y
        /\ ~ (lobj'[j] = x /\ pc'[j] \in Uses)
    BY <1>0, <2>2 DEF Answers, Creates, Uses, JavaPlaces
  <2>4. /\ Answering(x)' = IF x = y THEN Answering(x) \cup {j} ELSE Answering(x)
        /\ StaysUsed(x)
    <3>1. /\ Answers(j, x)' => Answering(x)' = Answering(x) \cup {j}
          /\ ~ Answers(j, x)' => Answering(x)' = Answering(x) \ {j}
          /\ Using(x)' = Using(x) \ {j} /\ Calling(x)' = Calling(x)
      BY <2>2, <2>3, JavaHolders
    <3>2. j \notin Answering(x) /\ j \notin Using(x)
      BY <1>1, <2>3
    <3>. QED  BY <2>3, <3>1, <3>2 DEF StaysUsed
  <2>5. x \in Registered' <=> x \in Registered
    BY <2>1 DEF Registered, globals
  <2>6. CASE x = y
    <3>1. Born(j, x)
      BY <1>0, <2>1, <2>4, <2>5, <2>6 DEF Born
    <3>. QED  BY <3>1 DEF Seen
  <2>7. CASE x # y
    <3>1. Same(x)
      BY <1>0, <2>1, <2>4, <2>5, <2>7 DEF Same, StaysOwned, StaysStarted, StaysCounted
    <3>. QED  BY <3>1 DEF Seen
  <2>. QED  BY <2>6, <2>7
<1>5. CASE InsertClient(j) \/ InsertServer(j)
  <2>1. /\ Takes(j, NULL, "idle") /\ pc[j] \in Creates
        /\ Registered' = Registered \cup {lobj[j]}
        /\ UNCHANGED <<objVars, finis>>
    BY <1>5 DEF InsertClient, InsertServer, Inserted, Returns, Creates, Registered
  <2>2. /\ \A t \in Threads \ {j} : pc'[t] = pc[t] /\ lobj'[t] = lobj[t]
        /\ lobj'[j] = NULL /\ pc'[j] = "idle"
        /\ lservers[j] = {} /\ lclients[j] = {}
        /\ lservers'[j] = {} /\ lclients'[j] = {}
        /\ UNCHANGED <<lservers, lclients>>
    BY <1>0, <1>2, <2>1 DEF Takes, At, finis, Creates, FiniPlaces
  <2>3. /\ Answers(j, x) <=> x = lobj[j]
        /\ ~ (lobj[j] = x /\ pc[j] \in Uses)
        /\ ~ Answers(j, x)' /\ ~ (lobj'[j] = x /\ pc'[j] \in Uses)
    BY <1>0, <2>1, <2>2 DEF Answers, Creates, Uses, JavaPlaces
  <2>4. Answering(x)' = Answering(x) \ {j} /\ StaysUsed(x)
    <3>1. /\ Answering(x)' = IF Answers(j, x)' THEN Answering(x) \cup {j}
                             ELSE Answering(x) \ {j}
          /\ Using(x)' = IF lobj'[j] = x /\ pc'[j] \in Uses THEN Using(x) \cup {j}
                         ELSE Using(x) \ {j}
          /\ Calling(x)' = Calling(x)
      BY <2>2, JavaHolders
    <3>. QED  BY <1>1, <2>3, <3>1 DEF StaysUsed
  <2>5. StaysStarted(x) /\ StaysCounted(x)
    BY <2>1 DEF StaysStarted, StaysCounted, objVars
  <2>6. CASE x = lobj[j]
    <3>1. Registers(j, x)
      BY <1>1, <2>1, <2>3, <2>4, <2>5, <2>6 DEF Registers
    <3>. QED  BY <3>1 DEF Seen
  <2>7. CASE x # lobj[j]
    <3>1. Answering(x)' = Answering(x)
      BY <1>1, <2>3, <2>4, <2>7
    <3>2. x \in Registered' <=> x \in Registered
      BY <2>1, <2>7
    <3>3. Same(x)
      BY <2>4, <2>5, <3>1, <3>2 DEF Same, StaysOwned
    <3>. QED  BY <3>3 DEF Seen
  <2>. QED  BY <2>6, <2>7
<1>6. ASSUME NEW y \in Objs, EraseClient(j, y) \/ EraseServer(j, y)
      PROVE  Seen(x)
  <2>1. /\ Takes(j, y, "delete") /\ pc[j] = "idle"
        /\ y \in Registered /\ Registered' = Registered \ {y}
        /\ UNCHANGED <<objVars, finis>>
    BY <1>6 DEF EraseClient, EraseServer, Erased, LocksAtOnce, Locks, Registered,
                RegistrySound
  <2>2. /\ \A t \in Threads \ {j} : pc'[t] = pc[t] /\ lobj'[t] = lobj[t]
        /\ lobj'[j] = y /\ pc'[j] = "delete"
        /\ lobj[j] = NULL /\ lservers[j] = {} /\ lclients[j] = {}
        /\ lservers'[j] = {} /\ lclients'[j] = {}
        /\ UNCHANGED <<lservers, lclients>>
    BY <1>0, <1>2, <2>1 DEF Takes, At, finis, ObjPlaces, Creates, Uses, FiniPlaces
  <2>3. /\ ~ Answers(j, x) /\ ~ (lobj[j] = x /\ pc[j] \in Uses)
        /\ Answers(j, x)' <=> x = y
        /\ ~ (lobj'[j] = x /\ pc'[j] \in Uses)
    BY <1>0, <2>2 DEF Answers, Uses, JavaPlaces
  <2>4. /\ Answering(x)' = IF x = y THEN Answering(x) \cup {j} ELSE Answering(x)
        /\ StaysUsed(x)
    BY <1>1, <2>2, <2>3, JavaHolders DEF StaysUsed
  <2>5. StaysStarted(x) /\ StaysCounted(x)
    BY <2>1 DEF StaysStarted, StaysCounted, objVars
  <2>6. CASE x = y
    <3>1. Unregisters(j, x)
      BY <2>1, <2>4, <2>5, <2>6 DEF Unregisters
    <3>. QED  BY <3>1 DEF Seen
  <2>7. CASE x # y
    <3>1. Same(x)
      BY <2>1, <2>4, <2>5, <2>7 DEF Same, StaysOwned
    <3>. QED  BY <3>1 DEF Seen
  <2>. QED  BY <2>6, <2>7
<1>7. CASE FiniLocked(j)
  <2>1. /\ At(j, "fini") /\ pc[j] = "idle"
        /\ Registered' = {} /\ Registered = g_s_servers \cup g_s_clients
        /\ lservers' = [lservers EXCEPT ![j] = g_s_servers]
        /\ lclients' = [lclients EXCEPT ![j] = g_s_clients]
        /\ UNCHANGED <<objVars, lobj>>
    BY <1>7 DEF FiniLocked, LocksAtOnce, Locks, Registered
  <2>2. /\ \A t \in Threads \ {j} : pc'[t] = pc[t] /\ lobj'[t] = lobj[t]
        /\ \A i \in Javas \ {j} : lservers'[i] = lservers[i] /\ lclients'[i] = lclients[i]
        /\ lobj'[j] = NULL /\ pc'[j] = "fini"
        /\ lobj[j] = NULL /\ lservers[j] = {} /\ lclients[j] = {}
        /\ lservers'[j] \cup lclients'[j] = Registered
    BY <1>0, <1>2, <2>1 DEF At, ObjPlaces, Creates, Uses, FiniPlaces
  <2>3. /\ ~ Answers(j, x) /\ ~ (lobj[j] = x /\ pc[j] \in Uses)
        /\ Answers(j, x)' <=> x \in Registered
        /\ ~ (lobj'[j] = x /\ pc'[j] \in Uses)
    BY <1>0, <2>2 DEF Answers
  <2>4. /\ Answering(x)' = IF x \in Registered THEN Answering(x) \cup {j}
                           ELSE Answering(x)
        /\ StaysUsed(x)
    <3>1. /\ Answering(x)' = IF Answers(j, x)' THEN Answering(x) \cup {j}
                             ELSE Answering(x) \ {j}
          /\ Using(x)' = IF lobj'[j] = x /\ pc'[j] \in Uses THEN Using(x) \cup {j}
                         ELSE Using(x) \ {j}
          /\ Calling(x)' = Calling(x)
      BY <2>2, JavaHolders
    <3>. QED  BY <1>1, <2>3, <3>1 DEF StaysUsed
  <2>5. StaysStarted(x) /\ StaysCounted(x)
    BY <2>1 DEF StaysStarted, StaysCounted, objVars
  <2>6. CASE x \in Registered
    <3>1. Unregisters(j, x)
      BY <2>1, <2>4, <2>5, <2>6 DEF Unregisters
    <3>. QED  BY <3>1 DEF Seen
  <2>7. CASE x \notin Registered
    <3>1. Same(x)
      BY <2>1, <2>4, <2>5, <2>7 DEF Same, StaysOwned
    <3>. QED  BY <3>1 DEF Seen
  <2>. QED  BY <2>6, <2>7
<1>8. CASE FiniNext(j)
  <2>1. PICK y \in Objs :
          /\ pc[j] = "fini" /\ y \in lservers[j] \cup lclients[j]
          /\ FiniOf(y)
          /\ Takes(j, y, "finiRel")
          /\ lservers' = [lservers EXCEPT ![j] = @ \ {y}]
          /\ lclients' = [lclients EXCEPT ![j] = @ \ {y}]
          /\ UNCHANGED globals
    BY <1>0, <1>8 DEF FiniNext
  <2>2. /\ \A t \in Threads \ {j} : pc'[t] = pc[t] /\ lobj'[t] = lobj[t]
        /\ \A i \in Javas \ {j} : lservers'[i] = lservers[i] /\ lclients'[i] = lclients[i]
        /\ lobj'[j] = y /\ pc'[j] = "finiRel" /\ lobj[j] = NULL
        /\ lservers'[j] \cup lclients'[j] = (lservers[j] \cup lclients[j]) \ {y}
    BY <1>0, <1>2, <2>1 DEF Takes, At, ObjPlaces, Creates, Uses
  <2>3. /\ Answers(j, x) <=> x \in lservers[j] \cup lclients[j]
        /\ ~ (lobj[j] = x /\ pc[j] \in Uses)
        /\ Answers(j, x)' <=> x \in lservers[j] \cup lclients[j]
        /\ ~ (lobj'[j] = x /\ pc'[j] \in Uses)
    BY <1>0, <2>1, <2>2 DEF Answers, Uses, JavaPlaces
  <2>4. Answering(x)' = Answering(x) /\ StaysUsed(x)
    <3>1. /\ Answering(x)' = IF Answers(j, x)' THEN Answering(x) \cup {j}
                             ELSE Answering(x) \ {j}
          /\ Using(x)' = IF lobj'[j] = x /\ pc'[j] \in Uses THEN Using(x) \cup {j}
                         ELSE Using(x) \ {j}
          /\ Calling(x)' = Calling(x)
      BY <2>2, JavaHolders
    <3>. QED  BY <1>1, <2>3, <3>1 DEF StaysUsed
  <2>5. StaysOwned(x) /\ (x = y => j \in Answering(x))
    BY <1>1, <2>1, <2>3, <2>4 DEF StaysOwned, Registered, globals
  <2>6. CASE x = y
    <3>1. Finishes(j, x)
      BY <1>0, <2>1, <2>4, <2>5, <2>6 DEF Finishes, FiniOf
    <3>. QED  BY <3>1 DEF Seen
  <2>7. CASE x # y
    <3>1. Same(x)
      BY <1>0, <2>1, <2>4, <2>5, <2>7 DEF Same, FiniOf, StaysStarted, StaysCounted
    <3>. QED  BY <3>1 DEF Seen
  <2>. QED  BY <2>6, <2>7
<1>9. CASE DeleteFini(j)
  <2>1. /\ pc[j] = "delete" /\ lobj[j] \in Objs /\ FiniOf(lobj[j]) /\ At(j, "release")
        /\ UNCHANGED <<globals, lobj, lservers, lclients>>
    BY <1>0, <1>9 DEF DeleteFini, finis, LocalsHeld, ObjPlaces
  <2>2. /\ \A t \in Threads \ {j} : pc'[t] = pc[t] /\ lobj'[t] = lobj[t]
        /\ pc'[j] = "release"
    BY <1>0, <2>1 DEF At
  <2>3. /\ Answers(j, x)' <=> Answers(j, x)
        /\ ~ (lobj[j] = x /\ pc[j] \in Uses)
        /\ ~ (lobj'[j] = x /\ pc'[j] \in Uses)
        /\ x = lobj[j] => Answers(j, x)
    BY <1>0, <2>1, <2>2 DEF Answers, Uses, JavaPlaces
  <2>4. Answering(x)' = Answering(x) /\ StaysUsed(x)
    BY <1>1, <2>1, <2>2, <2>3, JavaHolders DEF StaysUsed
  <2>5. StaysOwned(x) /\ (x = lobj[j] => j \in Answering(x))
    BY <1>1, <2>1, <2>3, <2>4 DEF StaysOwned, Registered, globals
  <2>6. CASE x = lobj[j]
    <3>1. Finishes(j, x)
      BY <1>0, <2>1, <2>4, <2>5, <2>6 DEF Finishes, FiniOf
    <3>. QED  BY <3>1 DEF Seen
  <2>7. CASE x # lobj[j]
    <3>1. Same(x)
      BY <1>0, <2>1, <2>4, <2>5, <2>7 DEF Same, FiniOf, StaysStarted, StaysCounted
    <3>. QED  BY <3>1 DEF Seen
  <2>. QED  BY <2>6, <2>7
<1>10. CASE FiniRel(j) \/ ReleaseLast(j)
  <2>1. /\ pc[j] \in Uses \cup {"release", "finiRel"}
        /\ lobj[j] \in Objs /\ ReleaseOf(lobj[j])
        /\ \E p \in {"idle", "fini"} : Takes(j, NULL, p)
        /\ UNCHANGED <<globals, lservers, lclients>>
    BY <1>0, <1>10 DEF FiniRel, ReleaseLast, Returns, finis, LocalsHeld, ObjPlaces, Uses
  <2>2. /\ \A t \in Threads \ {j} : pc'[t] = pc[t] /\ lobj'[t] = lobj[t]
        /\ lobj'[j] = NULL /\ lobj[j] \notin lservers[j] \cup lclients[j]
    BY <1>0, <1>2, <2>1 DEF Takes, At
  <2>3. /\ Answers(j, x)' <=> x \in lservers[j] \cup lclients[j]
        /\ ~ (lobj'[j] = x /\ pc'[j] \in Uses)
    BY <1>0, <2>1, <2>2 DEF Answers
  <2>4. x \in Registered' <=> x \in Registered
    BY <2>1 DEF Registered, globals
  <2>5. x = lobj[j] => Dropped(x) /\ StaysStarted(x)
    BY <1>0, <2>1 DEF ReleaseOf, Dropped, StaysStarted
  <2>6. x # lobj[j] => StaysCounted(x) /\ StaysStarted(x)
    BY <1>0, <2>1 DEF ReleaseOf, StaysStarted, StaysCounted
  <2>7. /\ Answers(j, x)' => Answering(x)' = Answering(x) \cup {j}
        /\ ~ Answers(j, x)' => Answering(x)' = Answering(x) \ {j}
        /\ Using(x)' = Using(x) \ {j} /\ Calling(x)' = Calling(x)
    BY <2>1, <2>2, <2>3, JavaHolders
  <2>8. CASE x = lobj[j] /\ pc[j] \in Uses
    <3>1. ~ Answers(j, x) /\ ~ Answers(j, x)'
      BY <2>2, <2>3, <2>8 DEF Answers, Uses
    <3>2. /\ Answering(x)' = Answering(x)
          /\ Using(x)' = Using(x) \ {j} /\ Calling(x)' = Calling(x)
      BY <1>1, <2>7, <3>1
    <3>3. EndsUse(j, x)
      BY <1>1, <2>4, <2>8, <2>5, <3>2 DEF EndsUse, StaysOwned
    <3>. QED  BY <3>3 DEF Seen
  <2>9. CASE x = lobj[j] /\ pc[j] \notin Uses
    <3>1. Answers(j, x) /\ ~ Answers(j, x)'
      BY <1>0, <2>2, <2>3, <2>9 DEF Answers, Uses
    <3>2. Answering(x)' = Answering(x) \ {j} /\ StaysUsed(x)
      BY <1>1, <2>9, <2>7, <3>1 DEF StaysUsed
    <3>3. m_reactor[x] = NULL
      BY <2>1, <2>9 DEF OnReactor
    <3>4. GivesUp(j, x)
      BY <1>1, <2>4, <2>9, <2>5, <3>1, <3>2, <3>3 DEF GivesUp
    <3>. QED  BY <3>4 DEF Seen
  <2>10. CASE x # lobj[j]
    <3>1. Answers(j, x) <=> Answers(j, x)'
      BY <2>3, <2>10 DEF Answers
    <3>2. Answering(x)' = Answering(x) /\ StaysUsed(x)
      BY <1>1, <2>10, <2>7, <3>1 DEF StaysUsed
    <3>3. Same(x)
      BY <2>4, <2>10, <2>6, <3>2 DEF Same, StaysOwned
    <3>. QED  BY <3>3 DEF Seen
  <2>. QED  BY <2>8, <2>9, <2>10
<1>11. ASSUME NEW y \in Objs, NEW p \in Uses, Looks(j, y, p) PROVE Seen(x)
  <2>1. /\ Takes(j, y, p) /\ pc[j] = "idle"
        /\ refs' = [refs EXCEPT ![y] = @ + 1]
        /\ y \in Registered
        /\ UNCHANGED <<globals, m_reactor, m_listener, lservers, lclients>>
    BY <1>11 DEF Looks, UseBegin, Locks, finis, Registered
  <2>2. /\ \A t \in Threads \ {j} : pc'[t] = pc[t] /\ lobj'[t] = lobj[t]
        /\ lobj'[j] = y /\ pc'[j] \in Uses
        /\ lobj[j] = NULL /\ lservers[j] = {} /\ lclients[j] = {}
        /\ lservers'[j] = {} /\ lclients'[j] = {}
    BY <1>0, <1>2, <2>1 DEF Takes, At, ObjPlaces, Creates, Uses, FiniPlaces
  <2>3. /\ ~ Answers(j, x) /\ ~ (lobj[j] = x /\ pc[j] \in Uses)
        /\ ~ Answers(j, x)'
    BY <1>0, <2>2 DEF Answers, Uses
  <2>4. /\ Answering(x)' = Answering(x)
        /\ Using(x)' = IF x = y THEN Using(x) \cup {j} ELSE Using(x)
        /\ Calling(x)' = Calling(x)
    <3>1. /\ Answering(x)' = IF Answers(j, x)' THEN Answering(x) \cup {j}
                             ELSE Answering(x) \ {j}
          /\ Using(x)' = IF lobj'[j] = x /\ pc'[j] \in Uses THEN Using(x) \cup {j}
                         ELSE Using(x) \ {j}
          /\ Calling(x)' = Calling(x)
      BY <2>1, <2>2, JavaHolders
    <3>. QED  BY <1>1, <2>2, <2>3, <3>1
  <2>5. StaysOwned(x) /\ StaysStarted(x)
    BY <2>1, <2>4 DEF StaysOwned, StaysStarted, Registered, globals
  <2>6. CASE x = y
    <3>1. BeginsUse(j, x)
      BY <1>0, <1>1, <2>1, <2>3, <2>4, <2>5, <2>6 DEF BeginsUse, Referred
    <3>. QED  BY <3>1 DEF Seen
  <2>7. CASE x # y
    <3>1. Same(x)
      BY <1>0, <2>1, <2>4, <2>5, <2>7 DEF Same, StaysUsed, StaysCounted
    <3>. QED  BY <3>1 DEF Seen
  <2>. QED  BY <2>6, <2>7
<1>12. CASE \/ JniInit(j) \/ DeleteReactor(j) \/ Refused(j)
            \/ \E u \in Users : Convert(j, u)
  <2>1. /\ UNCHANGED <<g_s_clients, g_s_servers, objVars, lobj, lservers, lclients>>
        /\ \/ UNCHANGED pc
           \/ pc[j] \in {"idle", "fini"} /\ \E p \in {"idle", "fini"} : At(j, p)
    BY <1>12 DEF JniInit, DeleteReactor, Refused, Convert, LocksAtOnce, Locks,
                 globals, finis
  <2>. QED  BY <1>3, <2>1
<1>. QED
  BY <1>4, <1>5, <1>6, <1>7, <1>8, <1>9, <1>10, <1>11, <1>12, JavaSteps DEF JavaReturns

(* A callback is seen at an object as a reference that it takes or drops.   *)
LEMMA WorkerSeen ==
  ASSUME TypeOK, LocalsHeld, NEW w \in Workers,
         (\E y \in Objs : CbBegin(w, y)) \/ WorkerReturns(w), NEW x \in Objs
  PROVE  Seen(x)
<1>0. /\ pc \in [Threads -> JavaPlaces \cup WorkerPlaces]
      /\ lobj \in [Threads -> Objs \cup {NULL}]
      /\ refs \in [Objs -> Nat]
      /\ Threads = Javas \cup Workers /\ w \in Threads /\ w \notin Javas
      /\ NULL \notin Objs \cup Reactors
  BY RegistryAssumption DEF TypeOK, Threads
<1>1. /\ UNCHANGED <<g_s_clients, g_s_servers, m_reactor, lservers, lclients>>
      /\ \A t \in Threads \ {w} : pc'[t] = pc[t] /\ lobj'[t] = lobj[t]
  BY <1>0 DEF WorkerReturns, Events, ClientUserEvent, ClientPlainEvent, ServerEvent,
       CbBegin, CbCheck, NewJavaUser, CbEnd, Takes, At, globals, objVars, finis,
       ReleaseOf
<1>2. /\ \A i \in Javas : /\ Answers(i, x)' <=> Answers(i, x)
                          /\ (lobj'[i] = x /\ pc'[i] \in Uses)
                               <=> (lobj[i] = x /\ pc[i] \in Uses)
      /\ \A v \in Workers \ {w} : lobj'[v] = x <=> lobj[v] = x
  BY <1>0, <1>1, OthersAnswer
<1>3. /\ Answering(x)' = Answering(x) /\ Using(x)' = Using(x)
  BY <1>2 DEF Answering, Using, Uses
<1>4. Calling(x)' = IF lobj'[w] = x THEN Calling(x) \cup {w} ELSE Calling(x) \ {w}
  BY <1>2 DEF Calling
<1>5. w \in Calling(x) <=> lobj[w] = x
  BY DEF Calling
<1>6. StaysOwned(x) /\ StaysStarted(x)
  BY <1>1, <1>3 DEF StaysOwned, StaysStarted, Registered
<1>7. ASSUME NEW y \in Objs, CbBegin(w, y) PROVE Seen(x)
  <2>1. /\ lobj[w] = NULL /\ lobj'[w] = y /\ m_reactor[y] # NULL
        /\ refs' = [refs EXCEPT ![y] = @ + 1] /\ UNCHANGED m_listener
    BY <1>0, <1>7 DEF CbBegin, Takes, LocalsHeld, TypeOK
  <2>2. CASE x = y
    <3>1. BeginsCall(w, x)
      BY <1>0, <1>3, <1>4, <1>5, <1>6, <2>1, <2>2 DEF BeginsCall, Referred
    <3>. QED  BY <3>1 DEF Seen
  <2>3. CASE x # y
    <3>1. Calling(x)' = Calling(x)
      BY <1>0, <1>4, <1>5, <2>1, <2>3
    <3>2. Same(x)
      BY <1>0, <1>3, <1>6, <2>1, <2>3, <3>1 DEF Same, StaysUsed, StaysCounted
    <3>. QED  BY <3>2 DEF Seen
  <2>. QED  BY <2>2, <2>3
<1>8. CASE Events(w) \/ NewJavaUser(w)
  <2>1. UNCHANGED <<objVars, lobj>>
    BY <1>8 DEF Events, ClientUserEvent, ClientPlainEvent, ServerEvent, CbCheck,
                NewJavaUser
  <2>2. Calling(x)' = Calling(x)
    BY <2>1 DEF Calling
  <2>3. Same(x)
    BY <1>3, <1>6, <2>1, <2>2 DEF Same, StaysUsed, StaysCounted, objVars
  <2>. QED  BY <2>3 DEF Seen
<1>9. CASE CbEnd(w)
  <2>1. lobj[w] \in Objs /\ lobj'[w] = NULL /\ ReleaseOf(lobj[w])
    BY <1>0, <1>9 DEF CbEnd, Takes, LocalsHeld
  <2>2. CASE x = lobj[w]
    <3>1. EndsCall(w, x)
      BY <1>0, <1>3, <1>4, <1>5, <1>6, <2>1, <2>2 DEF EndsCall, Dropped, ReleaseOf
    <3>. QED  BY <3>1 DEF Seen
  <2>3. CASE x # lobj[w]
    <3>1. Calling(x)' = Calling(x)
      BY <1>0, <1>4, <1>5, <2>1, <2>3
    <3>2. Same(x)
      BY <1>0, <1>3, <1>6, <2>1, <2>3, <3>1 DEF Same, StaysUsed, StaysCounted, ReleaseOf
    <3>. QED  BY <3>2 DEF Seen
  <2>. QED  BY <2>2, <2>3
<1>. QED  BY <1>7, <1>8, <1>9 DEF WorkerReturns

(* Every step is seen by an object as one of the cases above.               *)
LEMMA NextSeen ==
  ASSUME TypeOK, LocalsHeld, RegistrySound, OnReactor, [Next]_vars, NEW x \in Objs
  PROVE  Seen(x)
<1>1. CASE UNCHANGED vars
  <2>1. Same(x)
    BY <1>1 DEF vars, globals, objVars, finis, Same, StaysOwned, StaysUsed,
                StaysStarted, StaysCounted, Registered, Answering, Answers, Using,
                Calling
  <2>. QED  BY <2>1 DEF Seen
<1>. QED  BY <1>1, JavaSeen, WorkerSeen DEF Next, Exhausted

------------------------------------------------------------------------------
\* The count of one object.
Exact(x) == refs[x] = One(x \in Registered) + One(m_reactor[x] # NULL)
                        + Cardinality(Answering(x)) + Cardinality(Using(x))
                        + Cardinality(Calling(x))

(* The counts are exact: each change of a holder changes the count by one   *)
(* (com_pro_msg_ProMsgJni.cpp:516-587,924-971).                             *)
LEMMA NextObjRefs ==
  ASSUME TypeOK, LocalsHeld, RegistrySound, OnReactor, OneOwner, ObjRefs,
         [Next]_vars
  PROVE  ObjRefs'
<1>. SUFFICES ASSUME NEW x \in Objs
              PROVE  Exact(x)'
  BY DEF ObjRefs, Exact
<1>. DEFINE a == Cardinality(Answering(x))
            u == Cardinality(Using(x))
            c == Cardinality(Calling(x))
<1>. USE DEF Exact
<1>1. Seen(x)
  BY NextSeen
<1>2. /\ refs[x] = One(x \in Registered) + One(m_reactor[x] # NULL) + a + u + c
      /\ refs[x] \in Nat
  BY DEF ObjRefs, TypeOK
<1>3. /\ IsFiniteSet(Answering(x)) /\ IsFiniteSet(Using(x)) /\ IsFiniteSet(Calling(x))
      /\ a \in Nat /\ u \in Nat /\ c \in Nat
  BY ObjCounts
<1>4. refs[x] = 0 => /\ x \notin Registered /\ m_reactor[x] = NULL
                     /\ Answering(x) = {} /\ Using(x) = {} /\ Calling(x) = {}
  BY Unreferred
<1>5. \A i \in Answering(x) : x \notin Registered
  BY DEF Answering, OneOwner
<1>6. /\ \A i : i \notin Answering(x) => Cardinality(Answering(x) \cup {i}) = a + 1
      /\ \A i \in Answering(x) : Cardinality(Answering(x) \ {i}) = a - 1
      /\ \A i : i \notin Using(x) => Cardinality(Using(x) \cup {i}) = u + 1
      /\ \A i \in Using(x) : Cardinality(Using(x) \ {i}) = u - 1
      /\ \A i : i \notin Calling(x) => Cardinality(Calling(x) \cup {i}) = c + 1
      /\ \A i \in Calling(x) : Cardinality(Calling(x) \ {i}) = c - 1
  BY <1>3, CountMore, CountLess
<1>. HIDE DEF a, u, c
<1>7. CASE Same(x)
  BY <1>2, <1>7 DEF Same, StaysOwned, StaysUsed, StaysStarted, StaysCounted, a, u, c
<1>8. ASSUME NEW j \in Javas, Born(j, x)
      PROVE  Exact(x)'
  <2>1. Answering(x) = {} /\ j \notin Answering(x)
    BY <1>4, <1>8 DEF Born
  <2>2. Cardinality(Answering(x)') = a + 1 /\ a = 0 /\ u = 0 /\ c = 0
    BY <1>4, <1>6, <1>8, <2>1, FS_EmptySet DEF Born, a, u, c
  <2>3. One(x \in Registered') = 0 /\ One(m_reactor'[x] # NULL) = 1
    BY <1>4, <1>8 DEF Born, One
  <2>. QED  BY <1>8, <2>2, <2>3 DEF Born, StaysUsed, u, c
<1>9. ASSUME NEW j \in Javas, Registers(j, x)
      PROVE  Exact(x)'
  <2>1. Cardinality(Answering(x)') = a - 1
    BY <1>6, <1>9 DEF Registers
  <2>2. One(x \in Registered) = 0 /\ One(x \in Registered') = 1
    BY <1>5, <1>9 DEF Registers, One
  <2>3. One(m_reactor[x] # NULL) \in Nat
    BY DEF One
  <2>. QED
    BY <1>2, <1>3, <1>9, <2>1, <2>2, <2>3
       DEF Registers, StaysUsed, StaysStarted, StaysCounted, u, c
<1>10. ASSUME NEW j \in Javas, Unregisters(j, x)
       PROVE  Exact(x)'
  <2>1. Cardinality(Answering(x)') = a + 1
    BY <1>5, <1>6, <1>10 DEF Unregisters
  <2>2. One(x \in Registered) = 1 /\ One(x \in Registered') = 0
    BY <1>10 DEF Unregisters, One
  <2>3. One(m_reactor[x] # NULL) \in Nat
    BY DEF One
  <2>. QED
    BY <1>2, <1>3, <1>10, <2>1, <2>2, <2>3
       DEF Unregisters, StaysUsed, StaysStarted, StaysCounted, u, c
<1>11. ASSUME NEW j \in Javas, Finishes(j, x)
       PROVE  Exact(x)'
  <2>1. /\ One(m_reactor'[x] # NULL) = 0
        /\ One(m_reactor[x] # NULL) = IF m_reactor[x] # NULL THEN 1 ELSE 0
        /\ One(x \in Registered') = One(x \in Registered)
        /\ One(x \in Registered) \in Nat
    BY <1>11 DEF Finishes, StaysOwned, One
  <2>. QED
    BY <1>2, <1>3, <1>11, <2>1 DEF Finishes, StaysOwned, StaysUsed, a, u, c
<1>12. ASSUME NEW j \in Javas, GivesUp(j, x)
       PROVE  Exact(x)'
  <2>1. Cardinality(Answering(x)') = a - 1
    BY <1>6, <1>12 DEF GivesUp
  <2>2. /\ One(x \in Registered') = One(x \in Registered)
        /\ One(x \in Registered) \in Nat /\ One(m_reactor[x] # NULL) \in Nat
    BY <1>12 DEF GivesUp, One
  <2>. QED
    BY <1>2, <1>3, <1>12, <2>1, <2>2
       DEF GivesUp, Dropped, StaysUsed, StaysStarted, u, c
<1>13. ASSUME NEW j \in Javas, BeginsUse(j, x) \/ EndsUse(j, x)
       PROVE  Exact(x)'
  <2>1. /\ One(x \in Registered') = One(x \in Registered)
        /\ One(x \in Registered) \in Nat /\ One(m_reactor[x] # NULL) \in Nat
    BY <1>13 DEF BeginsUse, EndsUse, StaysOwned, One
  <2>2. \/ BeginsUse(j, x) /\ Cardinality(Using(x)') = u + 1
        \/ EndsUse(j, x) /\ Cardinality(Using(x)') = u - 1
    BY <1>6, <1>13 DEF BeginsUse, EndsUse
  <2>. QED
    BY <1>2, <1>3, <2>1, <2>2
       DEF BeginsUse, EndsUse, Referred, Dropped, StaysOwned, StaysStarted, a, c
<1>14. ASSUME NEW w \in Workers, BeginsCall(w, x) \/ EndsCall(w, x)
       PROVE  Exact(x)'
  <2>1. /\ One(x \in Registered') = One(x \in Registered)
        /\ One(x \in Registered) \in Nat /\ One(m_reactor[x] # NULL) \in Nat
    BY <1>14 DEF BeginsCall, EndsCall, StaysOwned, One
  <2>2. \/ BeginsCall(w, x) /\ Cardinality(Calling(x)') = c + 1
        \/ EndsCall(w, x) /\ Cardinality(Calling(x)') = c - 1
    BY <1>6, <1>14 DEF BeginsCall, EndsCall
  <2>. QED
    BY <1>2, <1>3, <2>1, <2>2
       DEF BeginsCall, EndsCall, Referred, Dropped, StaysOwned, StaysStarted, a, u
<1>. QED
  BY <1>1, <1>7, <1>8, <1>9, <1>10, <1>11, <1>12, <1>13, <1>14 DEF Seen

(* A Java listener is let go with the last reference                        *)
(* (com_pro_msg_ProMsgJni.cpp:587,971).                                     *)
LEMMA NextListeners ==
  ASSUME TypeOK, LocalsHeld, RegistrySound, OnReactor, ObjRefs, ListenersLive,
         [Next]_vars
  PROVE  ListenersLive'
<1>. SUFFICES ASSUME NEW x \in Objs
              PROVE  x \in m_listener' <=> refs'[x] > 0
  BY DEF ListenersLive
<1>1. Seen(x)
  BY NextSeen
<1>2. (x \in m_listener <=> refs[x] > 0) /\ refs[x] \in Nat
  BY DEF ListenersLive, TypeOK
<1>3. /\ \A j \in Answering(x) : refs[x] # 0
      /\ \A j \in Using(x) : refs[x] # 0
      /\ \A w \in Calling(x) : refs[x] # 0
      /\ x \in Registered \/ m_reactor[x] # NULL => refs[x] # 0
  BY Unreferred
<1>4. CASE Same(x)
  BY <1>2, <1>4 DEF Same, StaysCounted
<1>5. ASSUME NEW j \in Javas,
             Born(j, x) \/ Registers(j, x) \/ Unregisters(j, x)
      PROVE  x \in m_listener' <=> refs'[x] > 0
  BY <1>2, <1>5 DEF Born, Registers, Unregisters, StaysCounted
<1>6. ASSUME NEW j \in Javas, Finishes(j, x)
      PROVE  x \in m_listener' <=> refs'[x] > 0
  <2>1. refs[x] > (IF m_reactor[x] # NULL THEN 1 ELSE 0)
    <3>1. /\ refs[x] = One(x \in Registered) + One(m_reactor[x] # NULL)
                         + Cardinality(Answering(x)) + Cardinality(Using(x))
                         + Cardinality(Calling(x))
          /\ One(x \in Registered) \in Nat
          /\ One(m_reactor[x] # NULL) = IF m_reactor[x] # NULL THEN 1 ELSE 0
      BY DEF ObjRefs, One
    <3>2. /\ Cardinality(Answering(x)) \in Nat /\ Cardinality(Using(x)) \in Nat
          /\ Cardinality(Calling(x)) \in Nat
      BY ObjCounts
    <3>3. Cardinality(Answering(x)) # 0
      BY <1>6, ObjCounts, FS_EmptySet DEF Finishes
    <3>. QED  BY <3>1, <3>2, <3>3
  <2>. QED  BY <1>2, <1>6, <2>1 DEF Finishes
<1>7. ASSUME refs[x] # 0, Dropped(x) PROVE x \in m_listener' <=> refs'[x] > 0
  BY <1>2, <1>7 DEF Dropped
<1>8. ASSUME refs[x] # 0, Referred(x) PROVE x \in m_listener' <=> refs'[x] > 0
  BY <1>2, <1>8 DEF Referred
<1>9. ASSUME NEW t, \/ GivesUp(t, x) \/ BeginsUse(t, x) \/ EndsUse(t, x)
                    \/ BeginsCall(t, x) \/ EndsCall(t, x)
      PROVE  refs[x] # 0 /\ (Referred(x) \/ Dropped(x))
  BY <1>3, <1>9 DEF GivesUp, BeginsUse, EndsUse, BeginsCall, EndsCall
<1>. QED
  BY <1>1, <1>4, <1>5, <1>6, <1>7, <1>8, <1>9 DEF Seen

\* The owner of one object.
Owner(x) ==
  /\ m_reactor[x] # NULL => x \in Registered \/ Answering(x) # {}
  /\ \A i \in Answering(x) : x \notin Registered
  /\ \A i, j \in Answering(x) : i = j

(* One thread answers for an object from its creation to the end, but for   *)
(* the time that it is registered                                           *)
(* (com_pro_msg_ProMsgJni.cpp:393-411,529-552,569-587).                     *)
LEMMA NextOneOwner ==
  ASSUME TypeOK, LockHeld, LocalsHeld, RegistrySound, OnReactor, OneOwner, ObjRefs,
         [Next]_vars
  PROVE  OneOwner'
<1>1. ASSUME NEW x \in Objs PROVE Owner(x)'
  <2>. USE DEF Owner
  <2>1. Seen(x)
    BY NextSeen
  <2>2. Owner(x)
    BY DEF OneOwner, Answering
  <2>3. refs[x] = 0 => x \notin Registered /\ Answering(x) = {}
    BY Unreferred
  <2>4. CASE Same(x)
    BY <2>2, <2>4 DEF Same, StaysOwned, StaysStarted
  <2>5. ASSUME NEW j \in Javas, Born(j, x) PROVE Owner(x)'
    BY <2>3, <2>5 DEF Born
  <2>6. ASSUME NEW j \in Javas, Registers(j, x) \/ Unregisters(j, x)
        PROVE  Owner(x)'
    BY <2>2, <2>6 DEF Registers, Unregisters
  <2>7. ASSUME NEW j \in Javas, Finishes(j, x) PROVE Owner(x)'
    BY <2>2, <2>7 DEF Finishes, StaysOwned
  <2>8. ASSUME NEW j \in Javas, GivesUp(j, x) PROVE Owner(x)'
    BY <2>2, <2>8 DEF GivesUp, StaysStarted
  <2>9. ASSUME NEW t, \/ BeginsUse(t, x) \/ EndsUse(t, x)
                      \/ BeginsCall(t, x) \/ EndsCall(t, x)
        PROVE  Owner(x)'
    BY <2>2, <2>9 DEF BeginsUse, EndsUse, BeginsCall, EndsCall, StaysOwned, StaysStarted
  <2>. QED  BY <2>1, <2>4, <2>5, <2>6, <2>7, <2>8, <2>9 DEF Seen
<1>2. ASSUME g_s_lock' = NULL, NEW j \in Javas
      PROVE  pc'[j] \notin Creates
  BY <1>2, NextLock, RegistryAssumption DEF LockHeld
<1>3. ASSUME NEW x \in Objs
      PROVE  /\ m_reactor'[x] # NULL =>
                   x \in Registered' \/ \E j \in Javas : Answers(j, x)'
             /\ \A j \in Javas : Answers(j, x)' => x \notin Registered'
             /\ \A i, j \in Javas : Answers(i, x)' /\ Answers(j, x)' => i = j
  BY <1>1 DEF Owner, Answering
<1>. QED  BY <1>2, <1>3 DEF OneOwner, Creates

------------------------------------------------------------------------------
(* What else the parts say of an object that a thread works on.             *)

(* Whoever works on an object or has it still to finish is its owner.       *)
LEMMA Owns ==
  ASSUME TypeOK, LocalsHeld, NEW j \in Javas, NEW x \in Objs,
         \/ lobj[j] = x /\ pc[j] \notin Uses
         \/ x \in lservers[j] \cup lclients[j]
  PROVE  j \in Answering(x)
<1>1. pc[j] \in JavaPlaces
  BY DEF TypeOK
<1>. QED  BY <1>1 DEF Answering, Answers, Uses

(* What fini and a create find on the objects they work on                  *)
(* (com_pro_msg_ProMsgJni.cpp:393-411,529-541,582-586).                     *)
LEMMA NextOnReactor ==
  ASSUME TypeOK, LockHeld, LocalsHeld, RegistrySound, OnReactor, OneOwner, ObjRefs,
         [Next]_vars
  PROVE  OnReactor'
<1>. USE DEF globals, objVars, reactorVars, finis, Takes, At
<1>0. /\ pc \in [Threads -> JavaPlaces \cup WorkerPlaces]
      /\ lobj \in [Threads -> Objs \cup {NULL}]
      /\ lreactor \in [Threads -> Reactors \cup {NULL}]
      /\ lservers \in [Javas -> SUBSET Objs] /\ lclients \in [Javas -> SUBSET Objs]
      /\ m_reactor \in [Objs -> Reactors \cup {NULL}]
      /\ g_s_reactor \in Reactors \cup {NULL} /\ Registered \subseteq Objs
      /\ Threads = Javas \cup Workers /\ Javas \cap Workers = {}
      /\ NULL \notin Objs \cup Reactors \cup Javas
  BY RegistryAssumption DEF TypeOK, Threads, Registered
<1>1. \A i \in Javas :
        /\ pc[i] \in Creates => g_s_reactor # NULL /\ m_reactor[lobj[i]] = g_s_reactor
        /\ pc[i] \in {"release", "finiRel"} => m_reactor[lobj[i]] = NULL
        /\ \A y \in lservers[i] \cup lclients[i] : m_reactor[y] = lreactor[i]
        /\ pc[i] \in Creates \cup {"release", "finiRel"} => lobj[i] \in Objs
        /\ \A y \in lservers[i] \cup lclients[i] : y \in Objs
  BY <1>0 DEF OnReactor, LocalsHeld, ObjPlaces
<1>2. \A i, j \in Javas, x \in Objs :
         i \in Answering(x) /\ j \in Answering(x) => i = j
  BY DEF OneOwner, Answering
<1>3. ASSUME g_s_lock = NULL PROVE \A i \in Javas : pc[i] \notin Creates
  BY <1>0, <1>3 DEF LockHeld
<1>4. \A i \in Javas : pc[i] = "idle" => lservers[i] = {} /\ lclients[i] = {}
  BY DEF LocalsHeld, FiniPlaces
\* Only the reactor changes, under the lock that no create holds.
<1>5. ASSUME NEW j \in Javas, JniInit(j) PROVE OnReactor'
  <2>1. /\ \A i \in Javas : pc'[i] \notin Creates
        /\ \A i \in Javas : pc'[i] \in {"release", "finiRel"} =>
                              pc[i] \in {"release", "finiRel"}
        /\ \A i \in Javas \ {j} : lreactor'[i] = lreactor[i]
        /\ UNCHANGED <<objVars, lobj, lservers, lclients>>
        /\ lservers[j] = {} /\ lclients[j] = {}
    BY <1>0, <1>3, <1>4, <1>5 DEF JniInit, LocksAtOnce, Locks, Creates
  <2>. QED  BY <1>1, <2>1 DEF OnReactor
<1>6. ASSUME NEW j \in Javas, FiniLocked(j) PROVE OnReactor'
  <2>1. /\ \A i \in Javas : pc'[i] \notin Creates
        /\ \A i \in Javas : pc'[i] \in {"release", "finiRel"} =>
                              pc[i] \in {"release", "finiRel"}
        /\ \A i \in Javas \ {j} : lreactor'[i] = lreactor[i]
        /\ lreactor'[j] = g_s_reactor
        /\ UNCHANGED <<objVars, lobj>>
    BY <1>0, <1>3, <1>6 DEF FiniLocked, LocksAtOnce, Locks, Creates
  <2>2. /\ \A i \in Javas \ {j} : lservers'[i] = lservers[i] /\ lclients'[i] = lclients[i]
        /\ lservers'[j] \cup lclients'[j] = Registered
    BY <1>0, <1>6 DEF FiniLocked, Registered
  <2>3. \A x \in Registered : m_reactor[x] = g_s_reactor
    BY DEF RegistrySound
  <2>. QED  BY <1>1, <2>1, <2>2, <2>3 DEF OnReactor
\* The new object is nobody's yet.
<1>7. ASSUME NEW j \in Javas, NEW x \in Objs, CreateClient(j, x) \/ CreateServer(j, x)
      PROVE  OnReactor'
  <2>1. /\ \E p \in Creates : pc' = [pc EXCEPT ![j] = p]
        /\ lobj' = [lobj EXCEPT ![j] = x]
        /\ m_reactor' = [m_reactor EXCEPT ![x] = g_s_reactor]
        /\ g_s_reactor # NULL /\ refs[x] = 0 /\ g_s_lock = NULL
        /\ UNCHANGED <<g_s_reactor, lreactor, lservers, lclients>>
    BY <1>7 DEF CreateClient, CreateServer, CreateObj, Creates, Locks, LocksAtOnce
  <2>2. Answering(x) = {}
    BY <2>1, Unreferred
  <2>3. \A i \in Javas : /\ pc[i] \in {"release", "finiRel"} => lobj[i] # x
                         /\ x \notin lservers[i] \cup lclients[i]
    BY <2>2, Owns DEF Uses
  <2>4. \A i \in Javas \ {j} : pc'[i] = pc[i] /\ lobj'[i] = lobj[i]
    BY <1>0, <2>1
  <2>5. pc'[j] \in Creates /\ lobj'[j] = x
    BY <1>0, <2>1
  <2>6. \A y \in Objs : m_reactor'[y] = IF y = x THEN g_s_reactor ELSE m_reactor[y]
    BY <1>0, <2>1
  <2>7. \A i \in Javas : pc[i] \notin Creates
    BY <1>3, <2>1
  <2>8. \A i \in Javas : \A y \in lservers[i] \cup lclients[i] : m_reactor'[y] = lreactor[i]
    <3>1. ASSUME NEW i \in Javas, NEW y \in lservers[i] \cup lclients[i]
          PROVE  m_reactor'[y] = lreactor[i]
      <4>1. y # x /\ y \in Objs
        BY <1>1, <2>3
      <4>. QED  BY <1>1, <2>6, <4>1
    <3>. QED  BY <3>1
  <2>9. \A i \in Javas : pc'[i] \in {"release", "finiRel"} => m_reactor'[lobj'[i]] = NULL
    BY <1>1, <2>3, <2>4, <2>5, <2>6 DEF Creates
  <2>10. \A i \in Javas : pc'[i] \in Creates =>
            g_s_reactor # NULL /\ m_reactor'[lobj'[i]] = g_s_reactor
    BY <2>1, <2>4, <2>5, <2>6, <2>7
  <2>. QED  BY <2>1, <2>8, <2>9, <2>10 DEF OnReactor
\* Fini is called by the owner, and an owner is alone.
<1>8. ASSUME NEW j \in Javas, FiniNext(j) \/ DeleteFini(j) PROVE OnReactor'
  <2>1. PICK x \in Objs, p \in {"release", "finiRel"} :
          /\ j \in Answering(x) /\ pc[j] \notin Creates
          /\ FiniOf(x)
          /\ lobj' = [lobj EXCEPT ![j] = x] /\ pc' = [pc EXCEPT ![j] = p]
          /\ \A i \in Javas \ {j} : lservers'[i] = lservers[i] /\ lclients'[i] = lclients[i]
          /\ lservers'[j] \cup lclients'[j] \subseteq (lservers[j] \cup lclients[j]) \ {x}
          /\ UNCHANGED <<g_s_reactor, lreactor>>
    <3>1. CASE FiniNext(j)
      <4>1. PICK x \in Objs :
              /\ pc[j] = "fini" /\ x \in lservers[j] \cup lclients[j]
              /\ FiniOf(x)
              /\ Takes(j, x, "finiRel")
              /\ lservers' = [lservers EXCEPT ![j] = @ \ {x}]
              /\ lclients' = [lclients EXCEPT ![j] = @ \ {x}]
              /\ UNCHANGED <<g_s_reactor, lreactor>>
        BY <1>0, <3>1 DEF FiniNext
      <4>2. j \in Answering(x)
        BY <4>1, Owns
      <4>. QED  BY <1>0, <4>1, <4>2 DEF Creates
    <3>2. CASE DeleteFini(j)
      <4>1. /\ pc[j] = "delete" /\ lobj[j] \in Objs
            /\ lobj[j] \notin lservers[j] \cup lclients[j]
        BY <1>0, <3>2 DEF DeleteFini, LocalsHeld, ObjPlaces
      <4>2. j \in Answering(lobj[j])
        BY <4>1, Owns DEF Uses
      <4>3. lobj' = [lobj EXCEPT ![j] = lobj[j]]
        BY <1>0, <3>2 DEF DeleteFini
      <4>. QED  BY <1>0, <3>2, <4>1, <4>2, <4>3 DEF DeleteFini, Creates
    <3>. QED  BY <1>8, <3>1, <3>2
  <2>2. \A i \in Javas \ {j} : /\ pc[i] \notin Uses => lobj[i] # x
                               /\ x \notin lservers[i] \cup lclients[i]
    BY <1>2, <2>1, Owns
  <2>3. \A i \in Javas \ {j} : pc'[i] = pc[i] /\ lobj'[i] = lobj[i]
    BY <1>0, <2>1
  <2>4. lobj'[j] = x /\ pc'[j] \in {"release", "finiRel"}
    BY <1>0, <2>1
  <2>5. \A y \in Objs : m_reactor'[y] = IF y = x THEN NULL ELSE m_reactor[y]
    BY <1>0, <2>1 DEF FiniOf
  <2>6. \A i \in Javas : \A y \in lservers'[i] \cup lclients'[i] :
           m_reactor'[y] = lreactor[i]
    <3>1. ASSUME NEW i \in Javas \ {j}, NEW y \in lservers'[i] \cup lclients'[i]
          PROVE  m_reactor'[y] = lreactor[i]
      <4>1. y \in lservers[i] \cup lclients[i]
        BY <2>1, <3>1
      <4>2. y # x /\ y \in Objs
        BY <1>1, <2>2, <4>1
      <4>. QED  BY <1>1, <2>5, <4>1, <4>2
    <3>2. ASSUME NEW y \in lservers'[j] \cup lclients'[j]
          PROVE  m_reactor'[y] = lreactor[j]
      <4>1. y \in lservers[j] \cup lclients[j] /\ y # x
        BY <2>1, <3>2
      <4>. QED  BY <1>1, <2>5, <4>1
    <3>. QED  BY <3>1, <3>2
  <2>7. \A i \in Javas : pc'[i] \in {"release", "finiRel"} => m_reactor'[lobj'[i]] = NULL
    BY <1>1, <2>3, <2>4, <2>5
  <2>8. \A i \in Javas : pc'[i] \in Creates =>
            g_s_reactor # NULL /\ m_reactor'[lobj'[i]] = g_s_reactor
    BY <1>1, <2>2, <2>3, <2>4, <2>5 DEF Creates, Uses
  <2>. QED  BY <2>1, <2>6, <2>7, <2>8 DEF OnReactor
<1>9. ASSUME NEW j \in Javas, DeleteReactor(j) PROVE OnReactor'
  <2>1. /\ \A i \in Javas : pc'[i] # "idle" => pc'[i] = pc[i]
        /\ \A i \in Javas \ {j} : lreactor'[i] = lreactor[i]
        /\ lservers[j] = {} /\ lclients[j] = {}
        /\ UNCHANGED <<g_s_reactor, objVars, lobj, lservers, lclients>>
    BY <1>0, <1>9 DEF DeleteReactor
  <2>. QED  BY <1>1, <2>1 DEF OnReactor, Creates
\* The other steps leave the objects where they are.
<1>10. ASSUME UNCHANGED <<g_s_reactor, m_reactor, lservers, lclients>>,
              \A i \in Javas : lreactor'[i] = lreactor[i],
              \A i \in Javas : \/ pc'[i] \notin Creates \cup {"release", "finiRel"}
                               \/ pc'[i] = pc[i] /\ lobj'[i] = lobj[i]
       PROVE  OnReactor'
  BY <1>1, <1>10 DEF OnReactor
<1>11. ASSUME NEW j \in Javas,
              \/ InsertClient(j) \/ InsertServer(j) \/ FiniRel(j) \/ ReleaseLast(j)
              \/ Refused(j) \/ \E u \in Users : Convert(j, u)
       PROVE  OnReactor'
  <2>1. /\ UNCHANGED <<g_s_reactor, m_reactor, finis>>
        /\ \/ UNCHANGED <<pc, lobj>>
           \/ \E p \in {"idle", "fini"} : Takes(j, NULL, p)
    BY <1>11 DEF InsertClient, InsertServer, Inserted, FiniRel, ReleaseLast, Returns,
                 Refused, Convert, ReleaseOf
  <2>2. \A i \in Javas \ {j} : pc'[i] = pc[i] /\ lobj'[i] = lobj[i]
    BY <1>0, <2>1
  <2>3. \/ pc'[j] = pc[j] /\ lobj'[j] = lobj[j]
        \/ pc'[j] \notin Creates \cup {"release", "finiRel"}
    BY <1>0, <2>1 DEF Creates
  <2>4. \A i \in Javas : \/ pc'[i] \notin Creates \cup {"release", "finiRel"}
                         \/ pc'[i] = pc[i] /\ lobj'[i] = lobj[i]
    BY <2>2, <2>3
  <2>5. \A i \in Javas : lreactor'[i] = lreactor[i]
    BY <2>1
  <2>. QED  BY <1>10, <2>1, <2>4, <2>5
<1>12. ASSUME NEW j \in Javas, NEW x \in Objs,
              \/ EraseClient(j, x) \/ EraseServer(j, x)
              \/ \E p \in Uses : Looks(j, x, p)
       PROVE  OnReactor'
  <2>1. /\ UNCHANGED <<g_s_reactor, m_reactor, finis>>
        /\ \E p \in Uses \cup {"delete"} : Takes(j, x, p)
    BY <1>12 DEF EraseClient, EraseServer, Erased, Looks, UseBegin
  <2>2. \A i \in Javas \ {j} : pc'[i] = pc[i] /\ lobj'[i] = lobj[i]
    BY <1>0, <2>1
  <2>3. pc'[j] \notin Creates \cup {"release", "finiRel"}
    BY <1>0, <2>1 DEF Creates, Uses
  <2>4. \A i \in Javas : \/ pc'[i] \notin Creates \cup {"release", "finiRel"}
                         \/ pc'[i] = pc[i] /\ lobj'[i] = lobj[i]
    BY <2>2, <2>3
  <2>5. \A i \in Javas : lreactor'[i] = lreactor[i]
    BY <2>1
  <2>. QED  BY <1>10, <2>1, <2>4, <2>5
<1>13. ASSUME NEW w \in Workers, (\E x \in Objs : CbBegin(w, x)) \/ WorkerReturns(w)
       PROVE  OnReactor'
  <2>1. /\ UNCHANGED <<g_s_reactor, m_reactor, lservers, lclients>>
        /\ \A i \in Javas : lreactor'[i] = lreactor[i] /\ pc'[i] = pc[i]
                            /\ lobj'[i] = lobj[i]
    BY <1>0, <1>13 DEF WorkerReturns, Events, ClientUserEvent, ClientPlainEvent,
       ServerEvent, CbBegin, CbCheck, NewJavaUser, CbEnd, ReleaseOf
  <2>. QED  BY <1>10, <2>1
<1>14. CASE UNCHANGED vars
  BY <1>10, <1>14 DEF vars
<1>. QED
  BY <1>5, <1>6, <1>7, <1>8, <1>9, <1>11, <1>12, <1>13, <1>14, JavaSteps
     DEF Next, Exhausted, JavaReturns

(* A Java thread moves alone; to a place where it is creating or using an   *)
(* object only by a create or a lookup.                                     *)
LEMMA JavaMoves ==
  ASSUME TypeOK, NEW j \in Javas, JavaCalls(j) \/ JavaReturns(j)
  PROVE  /\ \A t \in Threads \ {j} : pc'[t] = pc[t] /\ lobj'[t] = lobj[t]
         /\ \/ pc'[j] = pc[j] /\ lobj'[j] = lobj[j]
            \/ pc'[j] \notin Creates \cup Uses
            \/ \E x \in Objs : CreateClient(j, x) \/ CreateServer(j, x)
            \/ \E x \in Objs : \E p \in Uses : Looks(j, x, p)
<1>0. /\ pc \in [Threads -> JavaPlaces \cup WorkerPlaces]
      /\ lobj \in [Threads -> Objs \cup {NULL}]
      /\ j \in Threads
  BY DEF TypeOK, Threads
<1>1. CASE JavaCalls(j)
  <2>1. ASSUME NEW x, NEW p, Takes(j, x, p)
        PROVE  \A t \in Threads \ {j} : pc'[t] = pc[t] /\ lobj'[t] = lobj[t]
    BY <1>0, <2>1 DEF Takes, At
  <2>2. ASSUME NEW x \in Objs,
               \/ CreateClient(j, x) \/ CreateServer(j, x)
               \/ \E p \in Uses : Looks(j, x, p)
        PROVE  \E p : Takes(j, x, p)
    BY <2>2 DEF CreateClient, CreateServer, CreateObj, Looks, UseBegin
  <2>3. CASE JniInit(j) \/ FiniLocked(j) \/ \E u \in Users : Convert(j, u)
    BY <1>0, <2>3 DEF JniInit, FiniLocked, Convert, At, Creates, Uses
  <2>4. ASSUME NEW x \in Objs, EraseClient(j, x) \/ EraseServer(j, x)
        PROVE  Takes(j, x, "delete") /\ pc'[j] \notin Creates \cup Uses
    BY <1>0, <2>4 DEF EraseClient, EraseServer, Erased, Takes, At, Creates, Uses
  <2>. QED  BY <1>1, <2>1, <2>2, <2>3, <2>4, JavaSteps
<1>2. CASE JavaReturns(j)
  <2>1. \/ UNCHANGED <<pc, lobj>>
        \/ /\ \E p \in {"idle", "release"} : At(j, p)
           /\ UNCHANGED lobj
        \/ \E x, p : p \in {"idle", "fini", "finiRel"} /\ Takes(j, x, p)
    BY <1>2 DEF JavaReturns, FiniNext, FiniRel, DeleteReactor, InsertClient,
       InsertServer, Inserted, DeleteFini, ReleaseLast, Refused, Returns
  <2>. QED  BY <1>0, <2>1 DEF Takes, At, Creates, Uses
<1>. QED  BY <1>1, <1>2

(* The kind of an object changes only with a create, at an address that     *)
(* nobody refers to (com_pro_msg_ProMsgJni.cpp:516-541,1124-1149).          *)
LEMMA KindStep ==
  ASSUME TypeOK, ObjRefs, [Next]_vars, NEW x \in Objs
  PROVE  \/ x \in serverObjs' <=> x \in serverObjs
         \/ x \notin Registered /\ Answering(x) = {} /\ Using(x) = {}
<1>1. CASE UNCHANGED serverObjs
  BY <1>1
<1>2. ASSUME NEW j \in Javas, NEW y \in Objs, CreateClient(j, y) \/ CreateServer(j, y)
      PROVE  \/ x \in serverObjs' <=> x \in serverObjs
             \/ x \notin Registered /\ Answering(x) = {} /\ Using(x) = {}
  <2>1. /\ refs[y] = 0
        /\ serverObjs' = serverObjs \ {y} \/ serverObjs' = serverObjs \cup {y}
    BY <1>2 DEF CreateClient, CreateServer, CreateObj
  <2>. QED  BY <2>1, Unreferred
<1>3. ASSUME NEW j \in Javas, JavaCalls(j) \/ JavaReturns(j),
             ~ \E y \in Objs : CreateClient(j, y) \/ CreateServer(j, y)
      PROVE  UNCHANGED serverObjs
  BY <1>3, JavaSteps
     DEF JniInit, FiniLocked, Convert, EraseClient, EraseServer, Erased, Looks,
         UseBegin, JavaReturns, FiniNext, FiniRel, DeleteReactor, InsertClient,
         InsertServer, Inserted, DeleteFini, ReleaseLast, Refused, FiniOf, ReleaseOf,
         objVars
<1>4. ASSUME NEW w \in Workers, (\E y \in Objs : CbBegin(w, y)) \/ WorkerReturns(w)
      PROVE  UNCHANGED serverObjs
  BY <1>4 DEF WorkerReturns, Events, ClientUserEvent, ClientPlainEvent, ServerEvent,
     CbBegin, CbCheck, NewJavaUser, CbEnd, ReleaseOf, objVars
<1>. QED
  BY <1>1, <1>2, <1>3, <1>4 DEF Next, Exhausted, vars, objVars

(* A create decides on the kind of its object                               *)
(* (com_pro_msg_ProMsgJni.cpp:516,1124).                                    *)
LEMMA NextClasses ==
  ASSUME TypeOK, LocalsHeld, ObjRefs, ClassesKept, [Next]_vars
  PROVE  ClassesKept'
<1>0. /\ pc \in [Threads -> JavaPlaces \cup WorkerPlaces]
      /\ lobj \in [Threads -> Objs \cup {NULL}]
      /\ Threads = Javas \cup Workers /\ Javas \cap Workers = {}
  BY RegistryAssumption DEF TypeOK, Threads
<1>1. ASSUME NEW i \in Javas, pc'[i] = pc[i], lobj'[i] = lobj[i]
      PROVE  /\ pc'[i] = "createClient" => lobj'[i] \notin serverObjs'
             /\ pc'[i] = "createServer" => lobj'[i] \in serverObjs'
  <2>1. SUFFICES ASSUME pc[i] \in Creates
                 PROVE  lobj[i] \in serverObjs' <=> lobj[i] \in serverObjs
    BY <1>1 DEF ClassesKept, Creates
  <2>2. lobj[i] \in Objs
    BY <1>0, <2>1 DEF LocalsHeld, ObjPlaces
  <2>3. i \in Answering(lobj[i])
    BY <2>1, <2>2, Owns DEF Creates, Uses
  <2>. QED  BY <2>2, <2>3, KindStep
<1>2. ASSUME NEW j \in Javas,
             \A i \in Javas \ {j} : pc'[i] = pc[i] /\ lobj'[i] = lobj[i],
             /\ pc'[j] = "createClient" => lobj'[j] \notin serverObjs'
             /\ pc'[j] = "createServer" => lobj'[j] \in serverObjs'
      PROVE  ClassesKept'
  BY <1>1, <1>2 DEF ClassesKept
<1>3. ASSUME \A i \in Javas : pc'[i] = pc[i] /\ lobj'[i] = lobj[i]
      PROVE  ClassesKept'
  BY <1>1, <1>3 DEF ClassesKept
<1>4. ASSUME NEW j \in Javas, NEW x \in Objs, CreateClient(j, x)
      PROVE  ClassesKept'
  BY <1>0, <1>2, <1>4 DEF CreateClient, CreateObj, Takes, At
<1>5. ASSUME NEW j \in Javas, NEW x \in Objs, CreateServer(j, x)
      PROVE  ClassesKept'
  BY <1>0, <1>2, <1>5 DEF CreateServer, CreateObj, Takes, At
<1>6. ASSUME NEW j \in Javas, JavaCalls(j) \/ JavaReturns(j),
             ~ \E x \in Objs : CreateClient(j, x) \/ CreateServer(j, x)
      PROVE  ClassesKept'
  <2>1. /\ \A i \in Javas \ {j} : pc'[i] = pc[i] /\ lobj'[i] = lobj[i]
        /\ pc'[j] \notin Creates \/ (pc'[j] = pc[j] /\ lobj'[j] = lobj[j])
    <3>1. ASSUME NEW x \in Objs, NEW p \in Uses, Looks(j, x, p)
          PROVE  pc'[j] \notin Creates
      BY <1>0, <3>1 DEF Looks, UseBegin, Takes, At, Creates, Uses
    <3>. QED  BY <1>0, <1>6, <3>1, JavaMoves
  <2>. QED  BY <1>1, <1>2, <2>1 DEF Creates
<1>7. ASSUME NEW w \in Workers, (\E y \in Objs : CbBegin(w, y)) \/ WorkerReturns(w)
      PROVE  ClassesKept'
  <2>1. \A i \in Javas : pc'[i] = pc[i] /\ lobj'[i] = lobj[i]
    BY <1>0, <1>7 DEF WorkerReturns, Events, ClientUserEvent, ClientPlainEvent,
       ServerEvent, CbBegin, CbCheck, NewJavaUser, CbEnd, Takes, At
  <2>. QED  BY <1>3, <2>1
<1>8. CASE UNCHANGED vars
  BY <1>3, <1>8 DEF vars
<1>. QED  BY <1>4, <1>5, <1>6, <1>7, <1>8 DEF Next, Exhausted

(* What is registered is on the reactor of the current init, and of the     *)
(* class of its registry (com_pro_msg_ProMsgJni.cpp:393-401,552,577-582).   *)
LEMMA NextRegistrySound ==
  ASSUME TypeOK, LockHeld, LocalsHeld, OnReactor, ClassesKept, RegistrySound,
         OneOwner, ObjRefs, [Next]_vars
  PROVE  RegistrySound'
<1>0. /\ pc \in [Threads -> JavaPlaces \cup WorkerPlaces]
      /\ lobj \in [Threads -> Objs \cup {NULL}]
      /\ m_reactor \in [Objs -> Reactors \cup {NULL}]
      /\ g_s_clients \subseteq Objs /\ g_s_servers \subseteq Objs
      /\ Threads = Javas \cup Workers /\ Javas \cap Workers = {}
      /\ NULL \notin Objs
  BY RegistryAssumption DEF TypeOK, Threads
<1>1. /\ \A x \in g_s_clients \cup g_s_servers :
           g_s_reactor # NULL /\ m_reactor[x] = g_s_reactor
      /\ \A x \in g_s_clients : x \notin serverObjs
      /\ \A x \in g_s_servers : x \in serverObjs
  BY DEF RegistrySound, Registered
<1>2. \A x \in Objs : \/ x \in serverObjs' <=> x \in serverObjs
                      \/ /\ x \notin g_s_clients \cup g_s_servers
                         /\ Answering(x) = {} /\ Using(x) = {}
  BY KindStep DEF Registered
\* A call has the right object when it begins, and keeps it.
<1>3. ASSUME NEW i \in Javas, pc'[i] = pc[i], lobj'[i] = lobj[i]
      PROVE  /\ pc'[i] = "useClient" => lobj'[i] \notin serverObjs'
             /\ pc'[i] = "useServer" => lobj'[i] \in serverObjs'
  <2>1. SUFFICES ASSUME pc[i] \in Uses
                 PROVE  lobj[i] \in serverObjs' <=> lobj[i] \in serverObjs
    BY <1>3 DEF RegistrySound, Uses
  <2>2. lobj[i] \in Objs /\ i \in Using(lobj[i])
    BY <1>0, <2>1 DEF LocalsHeld, ObjPlaces, Using, Uses
  <2>. QED  BY <1>2, <2>2
<1>. DEFINE Taken == \A i \in Javas : /\ pc[i] = "useClient" => lobj[i] \notin serverObjs
                                      /\ pc[i] = "useServer" => lobj[i] \in serverObjs
<1>4. Taken'
  <2>1. ASSUME NEW j \in Javas,
               \A i \in Javas \ {j} : pc'[i] = pc[i] /\ lobj'[i] = lobj[i],
               /\ pc'[j] = "useClient" => lobj'[j] \notin serverObjs'
               /\ pc'[j] = "useServer" => lobj'[j] \in serverObjs'
        PROVE  Taken'
    BY <1>3, <2>1
  <2>2. ASSUME \A i \in Javas : pc'[i] = pc[i] /\ lobj'[i] = lobj[i]
        PROVE  Taken'
    BY <1>3, <2>2
  <2>. HIDE DEF Taken
  <2>3. ASSUME NEW j \in Javas, NEW x \in Objs, NEW p \in Uses, Looks(j, x, p)
        PROVE  Taken'
    BY <1>0, <1>1, <2>1, <2>3 DEF Looks, UseBegin, Takes, At, Uses
  <2>4. ASSUME NEW j \in Javas, JavaCalls(j) \/ JavaReturns(j),
               ~ \E x \in Objs : \E p \in Uses : Looks(j, x, p)
        PROVE  Taken'
    <3>1. /\ \A i \in Javas \ {j} : pc'[i] = pc[i] /\ lobj'[i] = lobj[i]
          /\ pc'[j] \notin Uses \/ (pc'[j] = pc[j] /\ lobj'[j] = lobj[j])
      <4>1. ASSUME NEW x \in Objs, CreateClient(j, x) \/ CreateServer(j, x)
            PROVE  pc'[j] \notin Uses
        BY <1>0, <4>1 DEF CreateClient, CreateServer, CreateObj, Takes, At, Uses
      <4>. QED  BY <1>0, <2>4, <4>1, JavaMoves
    <3>. QED  BY <1>3, <2>1, <3>1 DEF Uses
  <2>5. ASSUME NEW w \in Workers, (\E y \in Objs : CbBegin(w, y)) \/ WorkerReturns(w)
        PROVE  Taken'
    <3>1. \A i \in Javas : pc'[i] = pc[i] /\ lobj'[i] = lobj[i]
      BY <1>0, <2>5 DEF WorkerReturns, Events, ClientUserEvent, ClientPlainEvent,
         ServerEvent, CbBegin, CbCheck, NewJavaUser, CbEnd, Takes, At
    <3>. QED  BY <2>2, <3>1
  <2>6. CASE UNCHANGED vars
    BY <2>2, <2>6 DEF vars
  <2>. QED  BY <2>3, <2>4, <2>5, <2>6 DEF Next, Exhausted
\* The registries change by the insertion of an object that a create has made ...
<1>5. ASSUME NEW j \in Javas, InsertClient(j) \/ InsertServer(j)
      PROVE  RegistrySound'
  <2>1. /\ lobj[j] \in Objs /\ pc[j] \in Creates
        /\ UNCHANGED <<g_s_reactor, objVars>>
    BY <1>0, <1>5 DEF InsertClient, InsertServer, Inserted, LocalsHeld, ObjPlaces,
                      Creates
  <2>2. g_s_reactor # NULL /\ m_reactor[lobj[j]] = g_s_reactor
    BY <2>1 DEF OnReactor
  <2>3. CASE InsertClient(j)
    <3>1. lobj[j] \notin serverObjs
      BY <2>3 DEF InsertClient, ClassesKept
    <3>. QED  BY <1>1, <1>4, <2>1, <2>2, <2>3, <3>1
           DEF InsertClient, RegistrySound, Registered, objVars
  <2>4. CASE InsertServer(j)
    <3>1. lobj[j] \in serverObjs
      BY <2>4 DEF InsertServer, ClassesKept
    <3>. QED  BY <1>1, <1>4, <2>1, <2>2, <2>4, <3>1
           DEF InsertServer, RegistrySound, Registered, objVars
  <2>. QED  BY <1>5, <2>3, <2>4
\* ... or lose objects, all of them when the reactor goes.
<1>6. ASSUME g_s_clients' \subseteq g_s_clients, g_s_servers' \subseteq g_s_servers,
             \/ UNCHANGED g_s_reactor
             \/ g_s_clients' = {} /\ g_s_servers' = {},
             \A x \in g_s_clients' \cup g_s_servers' : m_reactor'[x] = m_reactor[x]
      PROVE  RegistrySound'
  BY <1>0, <1>1, <1>2, <1>4, <1>6 DEF RegistrySound, Registered
<1>7. ASSUME NEW j \in Javas, JniInit(j) \/ FiniLocked(j) PROVE RegistrySound'
  <2>1. /\ g_s_clients' \subseteq g_s_clients /\ g_s_servers' \subseteq g_s_servers
        /\ UNCHANGED m_reactor
        /\ g_s_clients' = {} /\ g_s_servers' = {}
    BY <1>1, <1>7 DEF JniInit, FiniLocked, objVars
  <2>. QED  BY <1>6, <2>1
<1>8. ASSUME NEW j \in Javas, NEW x \in Objs, EraseClient(j, x) \/ EraseServer(j, x)
      PROVE  RegistrySound'
  BY <1>6, <1>8 DEF EraseClient, EraseServer, Erased, objVars
<1>9. ASSUME NEW j \in Javas, NEW x \in Objs, CreateClient(j, x) \/ CreateServer(j, x)
      PROVE  RegistrySound'
  <2>1. /\ UNCHANGED globals /\ refs[x] = 0
        /\ \A y \in Objs \ {x} : m_reactor'[y] = m_reactor[y]
    BY <1>0, <1>9 DEF CreateClient, CreateServer, CreateObj
  <2>2. x \notin g_s_clients \cup g_s_servers
    BY <2>1, Unreferred DEF Registered
  <2>. QED  BY <1>0, <1>6, <2>1, <2>2 DEF globals
<1>10. ASSUME NEW j \in Javas, FiniNext(j) \/ DeleteFini(j) PROVE RegistrySound'
  <2>1. PICK x \in Objs : FiniOf(x) /\ j \in Answering(x) /\ UNCHANGED globals
    <3>1. CASE FiniNext(j)
      BY <3>1, Owns DEF FiniNext, TypeOK
    <3>2. CASE DeleteFini(j)
      <4>1. pc[j] = "delete" /\ lobj[j] \in Objs /\ FiniOf(lobj[j]) /\ UNCHANGED globals
        BY <1>0, <3>2 DEF DeleteFini, LocalsHeld, ObjPlaces
      <4>. QED  BY <4>1, Owns DEF Uses
    <3>. QED  BY <1>10, <3>1, <3>2
  <2>2. x \notin g_s_clients \cup g_s_servers
    BY <2>1 DEF OneOwner, Answering, Registered
  <2>3. \A y \in Objs \ {x} : m_reactor'[y] = m_reactor[y]
    BY <1>0, <2>1 DEF FiniOf
  <2>. QED  BY <1>0, <1>6, <2>1, <2>2, <2>3 DEF globals
<1>11. ASSUME NEW j \in Javas,
              \/ FiniRel(j) \/ DeleteReactor(j) \/ ReleaseLast(j) \/ Refused(j)
              \/ \E u \in Users : Convert(j, u)
              \/ \E x \in Objs : \E p \in Uses : Looks(j, x, p)
       PROVE  RegistrySound'
  <2>1. UNCHANGED globals /\ UNCHANGED m_reactor
    BY <1>11 DEF FiniRel, DeleteReactor, ReleaseLast, Refused, Convert, Looks, UseBegin,
                 ReleaseOf, objVars
  <2>. QED  BY <1>6, <2>1 DEF globals
<1>12. ASSUME NEW w \in Workers, (\E y \in Objs : CbBegin(w, y)) \/ WorkerReturns(w)
       PROVE  RegistrySound'
  <2>1. UNCHANGED globals /\ UNCHANGED m_reactor
    BY <1>12 DEF WorkerReturns, Events, ClientUserEvent, ClientPlainEvent, ServerEvent,
       CbBegin, CbCheck, NewJavaUser, CbEnd, ReleaseOf, objVars
  <2>. QED  BY <1>6, <2>1 DEF globals
<1>13. CASE UNCHANGED vars
  BY <1>6, <1>13 DEF vars, globals, objVars
<1>. QED
  BY <1>5, <1>7, <1>8, <1>9, <1>10, <1>11, <1>12, <1>13, JavaSteps
     DEF Next, Exhausted, JavaReturns

------------------------------------------------------------------------------
(* The inductive invariant.                                                 *)

(* At first nothing is registered, used or held.                            *)
LEMMA InitIInv == Init => IInv
<1>. SUFFICES ASSUME Init PROVE IInv
  OBVIOUS
<1>1. TypeOK
  BY InitTypeOK
<1>2. NULL \notin Objs \cup Reactors \cup Javas
  BY RegistryAssumption
<1>3. \A x \in Objs : /\ Answering(x) = {} /\ Using(x) = {} /\ Calling(x) = {}
                      /\ x \notin Registered /\ m_reactor[x] = NULL /\ refs[x] = 0
  BY <1>2 DEF Init, Answering, Answers, Using, Calling, Registered, Threads
<1>4. RefsExact
  <2>1. Cardinality({}) = 0
    BY FS_EmptySet
  <2>2. \A x \in Objs : One(x \in Registered) = 0 /\ One(m_reactor[x] # NULL) = 0
    BY <1>3 DEF One
  <2>3. ObjRefs
    BY <1>3, <2>1, <2>2 DEF ObjRefs
  <2>4. ListenersLive
    BY <1>3 DEF ListenersLive, Init
  <2>. QED  BY <2>3, <2>4 DEF RefsExact
<1>5. OneOwner
  BY <1>3 DEF OneOwner, Answering, Init, Threads
<1>6. LockHeld /\ LocalsHeld /\ ReactorsKept /\ OnReactor /\ ClassesKept /\ UsersKept
  BY <1>2 DEF Init, LockHeld, LocalsHeld, ReactorsKept, OnReactor, ClassesKept,
     UsersKept, Creates, Uses, ObjPlaces, FiniPlaces, Threads
<1>7. RegistrySound
  BY DEF Init, RegistrySound, Registered, Threads
<1>. QED  BY <1>1, <1>4, <1>5, <1>6, <1>7 DEF IInv

(* Every step keeps the invariant: what each object sees of it does.        *)
LEMMA NextIInv == IInv /\ [Next]_vars => IInv'
<1>. SUFFICES ASSUME IInv, [Next]_vars PROVE IInv'
  OBVIOUS
<1>. USE DEF IInv, RefsExact
<1>1. TypeOK' /\ LockHeld' /\ LocalsHeld'
  BY NextTypeOK, NextLock, NextLocals
<1>2. ReactorsKept' /\ OnReactor' /\ ClassesKept'
  BY NextReactors, NextOnReactor, NextClasses
<1>3. RegistrySound' /\ OneOwner'
  BY NextRegistrySound, NextOneOwner
<1>4. ObjRefs' /\ ListenersLive'
  BY NextObjRefs, NextListeners
<1>5. UsersKept'
  BY NextUsers
<1>. QED  BY <1>1, <1>2, <1>3, <1>4, <1>5

\* The inductive invariant holds in every reachable state.
THEOREM RegistryIInv == Spec => []IInv
BY InitIInv, NextIInv, PTL DEF Spec

------------------------------------------------------------------------------
(* The properties of the registry.                                          *)

\* The type invariant: in particular a count is never decremented below 0
\* (com_pro_msg_ProMsgJni.cpp:571-587,924-971).
THEOREM RegistryTypeCorrect == Spec => []TypeOK
BY RegistryIInv, PTL DEF IInv

\* A handle is only ever taken for a live object of the class that the call is
\* for, on the reactor of the current init
\* (com_pro_msg_ProMsgJni.cpp:382-390,529-552,577-582,924-930,1497-1503).
THEOREM RegistryHandlesSound == Spec => []RegistrySound
BY RegistryIInv, PTL DEF IInv

\* An object that runs is registered or has one thread to finish it, and only
\* one: deletes and fini that race finish an object once
\* (com_pro_msg_ProMsgJni.cpp:393-411,529-552,569-587).
THEOREM RegistryOneOwner == Spec => []OneOwner
BY RegistryIInv, PTL DEF IInv

\* The counts are exact and a Java listener lives as long as its object
\* (com_pro_msg_ProMsgJni.cpp:930,971).
THEOREM RegistryRefsExact == Spec => []RefsExact
BY RegistryIInv, PTL DEF IInv

(* An object that runs is on a reactor that lives, unless a delete has it.  *)
LEMMA Outlives == IInv => ReactorOutlives
<1>. SUFFICES ASSUME IInv, NEW x \in Objs,
                     m_reactor[x] # NULL, m_reactor[x] \notin reactors
              PROVE  \E j \in Javas : pc[j] = "delete" /\ lobj[j] = x
  BY DEF ReactorOutlives
<1>. USE DEF IInv
<1>1. x \notin Registered
  BY DEF RegistrySound, ReactorsKept
<1>2. PICK j \in Javas : Answers(j, x)
  BY <1>1 DEF OneOwner
<1>3. x \notin lservers[j] \cup lclients[j]
  <2>1. SUFFICES ASSUME x \in lservers[j] \cup lclients[j] PROVE FALSE
    OBVIOUS
  <2>2. m_reactor[x] = lreactor[j]
    BY <2>1 DEF OnReactor
  <2>. QED  BY <2>2 DEF ReactorsKept
<1>4. lobj[j] = x /\ pc[j] \in JavaPlaces \ Uses
  BY <1>2, <1>3 DEF Answers, Uses
<1>5. pc[j] \notin {"idle", "fini"}
  BY <1>4, RegistryAssumption DEF LocalsHeld, ObjPlaces, Creates, Uses
<1>6. pc[j] \notin {"release", "finiRel"}
  BY <1>4 DEF OnReactor
<1>7. pc[j] \notin Creates
  BY <1>4 DEF OnReactor, ReactorsKept
<1>. QED  BY <1>4, <1>5, <1>6, <1>7 DEF JavaPlaces, Creates, Uses

\* No fini deletes the reactor of an object that still runs, but for one that a
\* delete has taken out of the registry and not finished
\* (com_pro_msg_ProMsgJni.cpp:413,582-586).
THEOREM RegistryReactorOutlives == Spec => []ReactorOutlives
BY RegistryIInv, Outlives, PTL

(* A cut user id differs from the given one by a multiple of the width.     *)
LEMMA CutBack ==
  ASSUME NEW n \in Nat
  PROVE  (n - (n % IdLimit)) % IdLimit = 0
<1>. DEFINE m == n - (n % IdLimit)
<1>1. /\ n = (IdLimit * (n \div IdLimit)) + (n % IdLimit)
      /\ n \div IdLimit \in Int /\ n % IdLimit \in Int
  BY UserAssumption
<1>2. m \in Int
  BY <1>1
<1>3. /\ m = (IdLimit * (m \div IdLimit)) + (m % IdLimit)
      /\ m \div IdLimit \in Int /\ m % IdLimit \in 0 .. IdLimit - 1
  BY <1>2, UserAssumption
<1>. DEFINE d == n \div IdLimit - m \div IdLimit
<1>4. d \in Int /\ IdLimit * d = (m % IdLimit)
  BY <1>1, <1>3, UserAssumption
<1>. HIDE DEF d
<1>5. ~ d >= 1
  <2>1. d >= 1 => IdLimit * d >= IdLimit
    BY <1>4, UserAssumption
  <2>. QED  BY <1>3, <1>4, <2>1, UserAssumption
<1>6. ~ d <= -1
  <2>1. d <= -1 => IdLimit * d < 0
    BY <1>4, UserAssumption
  <2>. QED  BY <1>3, <1>4, <2>1, UserAssumption
<1>7. d = 0
  BY <1>4, <1>5, <1>6
<1>. QED  BY <1>4, <1>7, UserAssumption

(* What was made of a user by the conversion is what the call asked for.    *)
LEMMA AsGiven == TypeOK /\ UsersKept => UsersAsGiven
<1>. SUFFICES ASSUME TypeOK, UsersKept, NEW j \in Javas, NEW r \in lusers[j]
              PROVE  /\ r.cpp # Zero => /\ r.cpp.classId = r.given.classId
                                        /\ r.cpp.instId = r.given.instId
                                        /\ (r.given.userId - r.cpp.userId) % IdLimit = 0
                     /\ r.cpp = Zero => r.closed \/ ~Legal(r.given)
  BY DEF UsersAsGiven
<1>1. r \in Converted
  BY DEF TypeOK
<1>2. r.cpp = IF r.closed THEN Zero ELSE ToCpp(r.given)
  BY DEF UsersKept
<1>3. r.given \in JavaUsers
  BY <1>1, RegistryAssumption DEF Converted
<1>4. CASE r.closed \/ ~Legal(r.given)
  BY <1>2, <1>4 DEF ToCpp
<1>5. CASE ~r.closed /\ Legal(r.given)
  <2>1. r.cpp = [classId |-> r.given.classId, userId |-> r.given.userId % IdLimit,
                 instId |-> r.given.instId]
    BY <1>2, <1>5 DEF ToCpp
  <2>2. r.cpp.classId # 0
    BY <1>5, <2>1 DEF Legal
  <2>3. r.cpp # Zero
    BY <2>2 DEF Zero
  <2>4. r.given.userId \in Nat
    BY <1>3, <1>5 DEF Legal, JavaUsers
  <2>5. (r.given.userId - (r.given.userId % IdLimit)) % IdLimit = 0
    BY <2>4, CutBack
  <2>6. /\ r.cpp.classId = r.given.classId /\ r.cpp.instId = r.given.instId
        /\ r.cpp.userId = r.given.userId % IdLimit
    BY <2>1
  <2>. QED  BY <2>3, <2>5, <2>6
<1>. QED  BY <1>4, <1>5

\* A call works for the users it was given, whatever the library's state was
\* when they were converted
\* (com_pro_msg_ProMsgJni.cpp:126-157,493,907,1323,1402,1480,1637).
THEOREM RegistryUsersAsGiven == Spec => []UsersAsGiven
<1>1. IInv => UsersAsGiven
  BY AsGiven DEF IInv
<1>. QED  BY <1>1, RegistryIInv, PTL

------------------------------------------------------------------------------
(****************************************************************************)
(* Refinement of ObjectLife.  An object's stage is where the one thread     *)
(* that answers for it is; that a count reaches 0 when ObjectLife lets the  *)
(* object go is the exactness of the counts.                                *)
(****************************************************************************)

\* The places of a thread that answers for one object.
Ends == Creates \cup {"delete", "release", "finiRel"}

\* The object that thread j has at one of these places, if it has one, and the
\* objects that its fini has still to finish.
Mine(j, places) == {x \in Objs : lobj[j] = x /\ pc[j] \in places}
Listed(j) == lservers[j] \cup lclients[j]

(* The thread that answers for an object has it in one of its stages, and   *)
(* the threads that use or call it work on it.                              *)
LEMMA StagesAre ==
  ASSUME TypeOK, LocalsHeld, NEW x \in Objs
  PROVE  /\ Answering(x) # {} <=> x \in Making \cup Closing \cup Closed
         /\ (Using(x) # {} \/ Calling(x) # {})
              <=> \E t \in Javas \cup Workers : <<t, x>> \in Work
<1>1. \A j \in Javas : pc[j] \in JavaPlaces /\ (lobj[j] = x => pc[j] \in ObjPlaces)
  BY RegistryAssumption DEF TypeOK, LocalsHeld
<1>2. \A j \in Javas : Answers(j, x) <=> x \in Mine(j, Ends) \cup Listed(j)
  BY <1>1 DEF Answers, Mine, Listed, Ends, ObjPlaces, Creates, Uses, JavaPlaces
<1>3. x \in Making \cup Closing \cup Closed
        <=> \E j \in Javas : x \in Mine(j, Ends) \cup Listed(j)
  BY DEF Making, Closing, Closed, ObjsAt, Mine, Listed, Ends, Creates
<1>4. Answering(x) # {} <=> \E j \in Javas : Answers(j, x)
  BY DEF Answering
<1>5. \A t \in Javas \cup Workers :
        <<t, x>> \in Work <=> lobj[t] = x /\ (t \in Javas => pc[t] \in Uses)
  BY DEF Work, Threads, Uses
<1>6. /\ \A j \in Javas : j \in Using(x) <=> <<j, x>> \in Work
      /\ \A w \in Workers : w \in Calling(x) <=> <<w, x>> \in Work
  BY <1>5, RegistryAssumption DEF Using, Calling, Uses
<1>7. Using(x) \subseteq Javas /\ Calling(x) \subseteq Workers
  BY DEF Using, Calling
<1>. QED  BY <1>2, <1>3, <1>4, <1>6, <1>7

(* An object lives as long as ObjectLife needs it.                          *)
LEMMA NeededLives ==
  IInv => \A x \in Objs : Life!Needed(x) <=> x \in m_listener
<1>. SUFFICES ASSUME IInv, NEW x \in Objs
              PROVE  Life!Needed(x) <=> x \in m_listener
  OBVIOUS
<1>1. TypeOK /\ LocalsHeld /\ ObjRefs
  BY DEF IInv, RefsExact
<1>2. Life!Needed(x) <=> \/ x \in Registered \/ Answering(x) # {}
                         \/ Using(x) # {} \/ Calling(x) # {}
  BY <1>1, StagesAre DEF Life!Needed
<1>3. m_reactor[x] # NULL => x \in Registered \/ Answering(x) # {}
  BY DEF IInv, OneOwner, Answering
<1>4. refs[x] = 0 <=> ~ Life!Needed(x)
  BY <1>1, <1>2, <1>3, Unreferred
<1>5. x \in m_listener <=> refs[x] > 0
  BY DEF IInv, RefsExact, ListenersLive
<1>6. refs[x] \in Nat
  BY <1>1 DEF TypeOK
<1>. QED  BY <1>4, <1>5, <1>6

(* Also after a step.                                                       *)
LEMMA NeededLivesNext ==
  IInv' => (\A x \in Objs : Life!Needed(x) <=> x \in m_listener)'
BY NeededLives, PTL

(* A Release lets the object go when ObjectLife does                        *)
(* (com_pro_msg_ProMsgJni.cpp:971).                                         *)
LEMMA ReleaseLetsGo ==
  ASSUME IInv, IInv', NEW x \in Objs, Life!Needed(x), ReleaseOf(x)
  PROVE  Life!LetsGo(x)
<1>1. x \in m_listener /\ (Life!Needed(x)' <=> x \in m_listener')
  BY NeededLives, NeededLivesNext
<1>2. m_listener' = IF refs[x] = 1 THEN m_listener \ {x} ELSE m_listener
  BY DEF ReleaseOf
<1>. QED  BY <1>1, <1>2 DEF Life!LetsGo

(* What thread j does is seen in the stages as the change of what it has,   *)
(* because nobody else has the same object.                                 *)
LEMMA StagesMove ==
  ASSUME TypeOK, OneOwner, NEW j \in Threads,
         \A t \in Threads \ {j} : pc'[t] = pc[t] /\ lobj'[t] = lobj[t],
         \A i \in Javas \ {j} : lservers'[i] = lservers[i] /\ lclients'[i] = lclients[i],
         j \in Javas
  PROVE  /\ \A places \in SUBSET Ends :
              ObjsAt(places)' = (ObjsAt(places) \ Mine(j, places))
                                  \cup Mine(j, places)'
         /\ Closing' = (Closing \ (Mine(j, {"delete"}) \cup Listed(j)))
                         \cup Mine(j, {"delete"})' \cup Listed(j)'
<1>1. ASSUME NEW i \in Javas, NEW x \in Objs, i # j,
             x \in Mine(i, Ends) \cup Listed(i)
      PROVE  x \notin Mine(j, Ends) \cup Listed(j)
  <2>1. \A k \in Javas : x \in Mine(k, Ends) \cup Listed(k) => Answers(k, x)
    BY DEF Answers, Mine, Listed, Ends, Creates, JavaPlaces
  <2>. QED  BY <1>1, <2>1 DEF OneOwner
<1>2. \A i \in Javas \ {j} : /\ \A places : Mine(i, places)' = Mine(i, places)
                             /\ Listed(i)' = Listed(i)
  BY DEF Mine, Listed, Threads
<1>3. ASSUME NEW places \in SUBSET Ends
      PROVE  ObjsAt(places)' = (ObjsAt(places) \ Mine(j, places)) \cup Mine(j, places)'
  <2>1. \A x : x \in ObjsAt(places) <=> \E i \in Javas : x \in Mine(i, places)
    BY DEF ObjsAt, Mine
  <2>2. \A x : x \in ObjsAt(places)' <=> \E i \in Javas : x \in Mine(i, places)'
    BY DEF ObjsAt, Mine
  <2>3. \A i \in Javas : Mine(i, places) \subseteq Mine(i, Ends) \cap Objs
    BY DEF Mine
  <2>4. \A i \in Javas \ {j} : Mine(i, places) \cap Mine(j, places) = {}
    BY <1>1, <2>3
  <2>5. \A i \in Javas \ {j} : Mine(i, places)' = Mine(i, places)
    BY <1>2
  <2>. QED  BY <2>1, <2>2, <2>4, <2>5
<1>4. Closing' = (Closing \ (Mine(j, {"delete"}) \cup Listed(j)))
                   \cup Mine(j, {"delete"})' \cup Listed(j)'
  <2>. DEFINE has(i) == Mine(i, {"delete"}) \cup Listed(i)
  <2>1. \A x : x \in Closing <=> \E i \in Javas : x \in has(i)
    BY DEF Closing, ObjsAt, Mine, Listed
  <2>2. \A x : x \in Closing' <=> \E i \in Javas : x \in has(i)'
    BY DEF Closing, ObjsAt, Mine, Listed
  <2>3. \A i \in Javas : /\ has(i) \subseteq Mine(i, Ends) \cup Listed(i)
                         /\ has(i) \subseteq Objs
    BY DEF Mine, Listed, Ends, TypeOK
  <2>4. \A i \in Javas \ {j} : has(i) \cap has(j) = {}
    BY <1>1, <2>3
  <2>5. \A i \in Javas \ {j} : has(i)' = has(i)
    BY <1>2
  <2>6. Closing' = (Closing \ has(j)) \cup has(j)'
    <3>. HIDE DEF has
    <3>. QED  BY <2>1, <2>2, <2>4, <2>5
  <2>. QED  BY <2>6
<1>. QED  BY <1>3, <1>4

(* And in who works on what.                                                *)
LEMMA WorkMoves ==
  ASSUME NEW j \in Threads,
         \A t \in Threads \ {j} : pc'[t] = pc[t] /\ lobj'[t] = lobj[t]
  PROVE  \A x \in Objs :
           /\ <<j, x>> \in Work
                <=> lobj[j] = x /\ (j \in Javas => pc[j] \in Uses)
           /\ <<j, x>> \in Work'
                <=> lobj'[j] = x /\ (j \in Javas => pc'[j] \in Uses)
           /\ \A t \in Threads \ {j} : <<t, x>> \in Work' <=> <<t, x>> \in Work
BY DEF Work, Uses

(* The pairs are all there is to it.                                        *)
LEMMA WorkIs ==
  /\ Work \subseteq Threads \X Objs /\ Work' \subseteq Threads \X Objs
  /\ (\A t \in Threads, x \in Objs : <<t, x>> \in Work' <=> <<t, x>> \in Work)
       => Work' = Work
  /\ \A j \in Threads, y \in Objs :
       /\ (\A t \in Threads, x \in Objs :
             <<t, x>> \in Work' <=> <<t, x>> \in Work \/ <<t, x>> = <<j, y>>)
            => Work' = Work \cup {<<j, y>>}
       /\ (\A t \in Threads, x \in Objs :
             <<t, x>> \in Work' <=> <<t, x>> \in Work /\ <<t, x>> # <<j, y>>)
            => Work' = Work \ {<<j, y>>}
<1>1. Work \subseteq Threads \X Objs /\ Work' \subseteq Threads \X Objs
  BY DEF Work
<1>2. \A p \in Threads \X Objs : \E t \in Threads, x \in Objs : p = <<t, x>>
  OBVIOUS
<1>. QED  BY <1>1, <1>2

\* A step of a Java thread, in ObjectLife's state: what it had goes, what it has
\* comes.
StagesChange(j) ==
  /\ Making' = (Making \ Mine(j, Creates)) \cup Mine(j, Creates)'
  /\ Closing' = (Closing \ (Mine(j, {"delete"}) \cup Listed(j)))
                  \cup Mine(j, {"delete"})' \cup Listed(j)'
  /\ Closed' = (Closed \ Mine(j, {"release", "finiRel"}))
                 \cup Mine(j, {"release", "finiRel"})'

(* That is what it looks like.                                              *)
LEMMA JavaStages ==
  ASSUME IInv, NEW j \in Javas,
         \A t \in Threads \ {j} : pc'[t] = pc[t] /\ lobj'[t] = lobj[t],
         \A i \in Javas \ {j} : lservers'[i] = lservers[i] /\ lclients'[i] = lclients[i]
  PROVE  /\ StagesChange(j)
         /\ \A x \in Objs :
              /\ <<j, x>> \in Work <=> x \in Mine(j, Uses)
              /\ <<j, x>> \in Work' <=> x \in Mine(j, Uses)'
              /\ \A t \in Threads \ {j} : <<t, x>> \in Work' <=> <<t, x>> \in Work
<1>1. j \in Threads /\ TypeOK /\ OneOwner
  BY DEF IInv, Threads
<1>2. /\ \A places \in SUBSET Ends :
           ObjsAt(places)' = (ObjsAt(places) \ Mine(j, places)) \cup Mine(j, places)'
      /\ Closing' = (Closing \ (Mine(j, {"delete"}) \cup Listed(j)))
                      \cup Mine(j, {"delete"})' \cup Listed(j)'
  BY <1>1, StagesMove
<1>3. Creates \in SUBSET Ends /\ {"release", "finiRel"} \in SUBSET Ends
  BY DEF Ends, Creates
<1>4. /\ Making = ObjsAt(Creates) /\ Making' = ObjsAt(Creates)'
      /\ Closed = ObjsAt({"release", "finiRel"})
      /\ Closed' = ObjsAt({"release", "finiRel"})'
  BY DEF Making, Closed, Creates
<1>5. \A x \in Objs :
        /\ <<j, x>> \in Work <=> x \in Mine(j, Uses)
        /\ <<j, x>> \in Work' <=> x \in Mine(j, Uses)'
        /\ \A t \in Threads \ {j} : <<t, x>> \in Work' <=> <<t, x>> \in Work
  BY <1>1, WorkMoves DEF Mine
<1>. QED  BY <1>2, <1>3, <1>4, <1>5 DEF StagesChange

(* What a thread has follows from where it is.                              *)
LEMMA MineIs ==
  ASSUME NEW j, NEW places
  PROVE  /\ lobj[j] \notin Objs \/ pc[j] \notin places => Mine(j, places) = {}
         /\ lobj[j] \in Objs /\ pc[j] \in places => Mine(j, places) = {lobj[j]}
         /\ lobj'[j] \notin Objs \/ pc'[j] \notin places => Mine(j, places)' = {}
         /\ lobj'[j] \in Objs /\ pc'[j] \in places => Mine(j, places)' = {lobj'[j]}
BY DEF Mine

(* What a step leaves alone, ObjectLife's state leaves alone.               *)
LEMMA WorkStays ==
  ASSUME IInv, NEW j \in Javas,
         \A t \in Threads \ {j} : pc'[t] = pc[t] /\ lobj'[t] = lobj[t],
         \A i \in Javas \ {j} : lservers'[i] = lservers[i] /\ lclients'[i] = lclients[i],
         Mine(j, Uses)' = Mine(j, Uses)
  PROVE  Work' = Work
<1>1. \A x \in Objs : /\ <<j, x>> \in Work' <=> <<j, x>> \in Work
                     /\ \A t \in Threads \ {j} : <<t, x>> \in Work' <=> <<t, x>> \in Work
  BY JavaStages
<1>. QED  BY <1>1, WorkIs

(* A thread that is idle has nothing.                                       *)
LEMMA IdleHasNothing ==
  ASSUME IInv, NEW j \in Javas, pc[j] = "idle"
  PROVE  /\ lobj[j] = NULL /\ NULL \notin Objs
         /\ \A places : Mine(j, places) = {}
         /\ Listed(j) = {}
BY RegistryAssumption
   DEF IInv, LocalsHeld, ObjPlaces, Creates, Uses, FiniPlaces, Mine, Listed

(* A create, up to its insertion (com_pro_msg_ProMsgJni.cpp:501-541).       *)
LEMMA CreateLife ==
  ASSUME IInv, IInv', NEW j \in Javas, NEW x \in Objs,
         CreateClient(j, x) \/ CreateServer(j, x)
  PROVE  Life!Create(x)
<1>1. /\ pc[j] = "idle" /\ g_s_reactor # NULL /\ refs[x] = 0
      /\ \E place \in Creates : Takes(j, x, place)
      /\ m_listener' = m_listener \cup {x}
      /\ UNCHANGED <<globals, lservers, lclients>>
  BY DEF CreateClient, CreateServer, CreateObj, Creates, Locks, LocksAtOnce, finis
<1>2. /\ pc'[j] \in Creates /\ lobj'[j] = x
      /\ \A t \in Threads \ {j} : pc'[t] = pc[t] /\ lobj'[t] = lobj[t]
      /\ Creates \cap (Uses \cup {"delete", "release", "finiRel"}) = {}
  BY <1>1 DEF Takes, At, IInv, TypeOK, Threads, Creates, Uses
<1>3. /\ Mine(j, Creates)' = {x} /\ Mine(j, {"delete"})' = {}
      /\ Mine(j, {"release", "finiRel"})' = {} /\ Mine(j, Uses)' = {}
  BY <1>2, MineIs
<1>4. /\ Mine(j, Creates) = {} /\ Mine(j, {"delete"}) = {}
      /\ Mine(j, {"release", "finiRel"}) = {} /\ Mine(j, Uses) = {}
      /\ Listed(j) = {} /\ Listed(j)' = {}
  BY <1>1, IdleHasNothing DEF Listed
<1>5. Making' = Making \cup {x} /\ Closing' = Closing /\ Closed' = Closed
  <2>1. StagesChange(j)
    BY <1>1, <1>2, JavaStages
  <2>. QED  BY <1>3, <1>4, <2>1 DEF StagesChange
<1>6. Work' = Work
  BY <1>1, <1>2, <1>3, <1>4, WorkStays
<1>7. x \notin m_listener
  BY <1>1 DEF IInv, RefsExact, ListenersLive
<1>8. ~ Life!Needed(x)
  BY <1>7, NeededLives
<1>. QED
  BY <1>1, <1>5, <1>6, <1>7, <1>8 DEF Life!Create, globals, Registered

(* The insertion, under the same lock (com_pro_msg_ProMsgJni.cpp:541-552).  *)
LEMMA InsertLife ==
  ASSUME IInv, IInv', NEW j \in Javas, InsertClient(j) \/ InsertServer(j)
  PROVE  Life!Publish(lobj[j])
<1>1. /\ pc[j] \in Creates /\ Takes(j, NULL, "idle")
      /\ Registered' = Registered \cup {lobj[j]}
      /\ UNCHANGED <<g_s_reactor, m_listener, lservers, lclients>>
  BY DEF InsertClient, InsertServer, Inserted, Returns, Creates, Registered,
         objVars, finis
<1>2. g_s_reactor # NULL
  BY <1>1 DEF IInv, OnReactor
<1>3. lobj[j] \in Objs
  BY <1>1 DEF IInv, LocalsHeld, ObjPlaces, TypeOK, Threads
<1>4. /\ pc'[j] = "idle"
      /\ \A t \in Threads \ {j} : pc'[t] = pc[t] /\ lobj'[t] = lobj[t]
      /\ Creates \cap (Uses \cup {"delete", "release", "finiRel"}) = {}
      /\ "idle" \notin Creates \cup Uses \cup {"delete", "release", "finiRel"}
  BY <1>1 DEF Takes, At, IInv, TypeOK, Threads, Creates, Uses
<1>5. /\ Mine(j, Creates) = {lobj[j]} /\ Mine(j, Creates)' = {}
      /\ Mine(j, {"delete"}) = {} /\ Mine(j, {"delete"})' = {}
      /\ Mine(j, {"release", "finiRel"}) = {}
      /\ Mine(j, {"release", "finiRel"})' = {}
      /\ Mine(j, Uses) = {} /\ Mine(j, Uses)' = {}
  BY <1>1, <1>3, <1>4, MineIs
<1>6. Listed(j) = {} /\ Listed(j)' = {}
  BY <1>1 DEF Listed, IInv, LocalsHeld, FiniPlaces, Creates
<1>7. Making' = Making \ {lobj[j]} /\ Closing' = Closing /\ Closed' = Closed
  <2>1. StagesChange(j)
    BY <1>1, <1>4, JavaStages
  <2>. QED  BY <1>5, <1>6, <2>1 DEF StagesChange
<1>8. Work' = Work
  BY <1>1, <1>4, <1>5, WorkStays
<1>9. lobj[j] \in Making
  BY <1>1, <1>3 DEF Making, ObjsAt, Creates
<1>. QED
  BY <1>1, <1>2, <1>7, <1>8, <1>9 DEF Life!Publish

(* A delete takes the object out of the registry                            *)
(* (com_pro_msg_ProMsgJni.cpp:569-582).                                     *)
LEMMA EraseLife ==
  ASSUME IInv, IInv', NEW j \in Javas, NEW x \in Objs,
         EraseClient(j, x) \/ EraseServer(j, x)
  PROVE  Life!Delete(x)
<1>1. /\ pc[j] = "idle" /\ g_s_reactor # NULL /\ Takes(j, x, "delete")
      /\ x \in Registered
      /\ UNCHANGED <<g_s_reactor, m_listener, lservers, lclients>>
  BY DEF EraseClient, EraseServer, Erased, LocksAtOnce, Locks, objVars, finis,
         Registered
<1>2. Registered' = Registered \ {x}
  BY DEF EraseClient, EraseServer, Registered, IInv, RegistrySound
<1>3. /\ pc'[j] = "delete" /\ lobj'[j] = x
      /\ \A t \in Threads \ {j} : pc'[t] = pc[t] /\ lobj'[t] = lobj[t]
      /\ "delete" \notin Creates \cup Uses \cup {"release", "finiRel"}
  BY <1>1 DEF Takes, At, IInv, TypeOK, Threads, Creates, Uses
<1>4. /\ Mine(j, Creates)' = {} /\ Mine(j, {"delete"})' = {x}
      /\ Mine(j, {"release", "finiRel"})' = {} /\ Mine(j, Uses)' = {}
  BY <1>3, MineIs
<1>5. /\ Mine(j, Creates) = {} /\ Mine(j, {"delete"}) = {}
      /\ Mine(j, {"release", "finiRel"}) = {} /\ Mine(j, Uses) = {}
      /\ Listed(j) = {} /\ Listed(j)' = {}
  BY <1>1, IdleHasNothing DEF Listed
<1>6. Making' = Making /\ Closing' = Closing \cup {x} /\ Closed' = Closed
  <2>1. StagesChange(j)
    BY <1>1, <1>3, JavaStages
  <2>. QED  BY <1>4, <1>5, <2>1 DEF StagesChange
<1>7. Work' = Work
  BY <1>1, <1>3, <1>4, <1>5, WorkStays
<1>. QED  BY <1>1, <1>2, <1>6, <1>7 DEF Life!Delete

(* A call that finds its object begins to work on it                        *)
(* (com_pro_msg_ProMsgJni.cpp:924-930).                                     *)
LEMMA LooksLife ==
  ASSUME IInv, IInv', NEW j \in Javas, NEW x \in Objs, NEW place \in Uses,
         Looks(j, x, place)
  PROVE  Life!Begin(j, x)
<1>1. /\ pc[j] = "idle" /\ Takes(j, x, place) /\ x \in Registered
      /\ UNCHANGED <<g_s_reactor, Registered, m_listener, lservers, lclients>>
  BY DEF Looks, UseBegin, Locks, globals, finis, Registered
<1>2. /\ pc'[j] \in Uses /\ lobj'[j] = x /\ j \in Threads
      /\ \A t \in Threads \ {j} : pc'[t] = pc[t] /\ lobj'[t] = lobj[t]
      /\ Uses \cap (Creates \cup {"delete", "release", "finiRel"}) = {}
  BY <1>1 DEF Takes, At, IInv, TypeOK, Threads, Creates, Uses
<1>3. /\ Mine(j, Creates)' = {} /\ Mine(j, {"delete"})' = {}
      /\ Mine(j, {"release", "finiRel"})' = {} /\ Mine(j, Uses)' = {x}
  BY <1>2, MineIs
<1>4. /\ Mine(j, Creates) = {} /\ Mine(j, {"delete"}) = {}
      /\ Mine(j, {"release", "finiRel"}) = {} /\ Mine(j, Uses) = {}
      /\ Listed(j) = {} /\ Listed(j)' = {}
  BY <1>1, IdleHasNothing DEF Listed
<1>5. Making' = Making /\ Closing' = Closing /\ Closed' = Closed
  <2>1. StagesChange(j)
    BY <1>1, <1>2, JavaStages
  <2>. QED  BY <1>3, <1>4, <2>1 DEF StagesChange
<1>6. <<j, x>> \notin Work /\ Work' = Work \cup {<<j, x>>}
  <2>1. \A y \in Objs :
          /\ <<j, y>> \in Work <=> y \in Mine(j, Uses)
          /\ <<j, y>> \in Work' <=> y \in Mine(j, Uses)'
          /\ \A t \in Threads \ {j} : <<t, y>> \in Work' <=> <<t, y>> \in Work
    BY <1>1, <1>2, JavaStages
  <2>2. \A t \in Threads, y \in Objs :
          <<t, y>> \in Work' <=> <<t, y>> \in Work \/ <<t, y>> = <<j, x>>
    BY <1>3, <1>4, <2>1
  <2>. QED  BY <1>2, <1>4, <2>1, <2>2, WorkIs
<1>. QED  BY <1>1, <1>5, <1>6 DEF Life!Begin, Life!stages

(* fini takes all the objects at once (com_pro_msg_ProMsgJni.cpp:382-401).  *)
LEMMA FiniLockedLife ==
  ASSUME IInv, IInv', NEW j \in Javas, FiniLocked(j)
  PROVE  Life!FiniLibrary
<1>1. /\ pc[j] = "idle" /\ g_s_reactor # NULL /\ g_s_reactor' = NULL
      /\ At(j, "fini") /\ Registered' = {}
      /\ lservers' = [lservers EXCEPT ![j] = g_s_servers]
      /\ lclients' = [lclients EXCEPT ![j] = g_s_clients]
      /\ UNCHANGED <<m_listener, lobj>>
  BY DEF FiniLocked, LocksAtOnce, Locks, objVars, Registered
<1>2. /\ pc'[j] = "fini"
      /\ \A t \in Threads \ {j} : pc'[t] = pc[t] /\ lobj'[t] = lobj[t]
      /\ "fini" \notin Creates \cup Uses \cup {"delete", "release", "finiRel"}
      /\ \A i \in Javas \ {j} : lservers'[i] = lservers[i] /\ lclients'[i] = lclients[i]
      /\ Listed(j)' = Registered
  BY <1>1 DEF At, IInv, TypeOK, Threads, Creates, Uses, Listed, Registered
<1>3. /\ Mine(j, Creates)' = {} /\ Mine(j, {"delete"})' = {}
      /\ Mine(j, {"release", "finiRel"})' = {} /\ Mine(j, Uses)' = {}
  BY <1>2, MineIs
<1>4. /\ Mine(j, Creates) = {} /\ Mine(j, {"delete"}) = {}
      /\ Mine(j, {"release", "finiRel"}) = {} /\ Mine(j, Uses) = {}
      /\ Listed(j) = {}
  BY <1>1, IdleHasNothing
<1>5. Making' = Making /\ Closing' = Closing \cup Registered /\ Closed' = Closed
  <2>1. StagesChange(j)
    BY <1>2, JavaStages
  <2>. QED  BY <1>2, <1>3, <1>4, <2>1 DEF StagesChange
<1>6. Work' = Work
  BY <1>2, <1>3, <1>4, WorkStays
<1>. QED  BY <1>1, <1>5, <1>6 DEF Life!FiniLibrary

(* A delete, or fini at its next object, closes the object                  *)
(* (com_pro_msg_ProMsgJni.cpp:404,410,586).                                 *)
LEMMA CloseLife ==
  ASSUME IInv, IInv', NEW j \in Javas, DeleteFini(j)
  PROVE  Life!Close(lobj[j])
<1>1. /\ pc[j] = "delete" /\ At(j, "release")
      /\ UNCHANGED <<g_s_reactor, Registered, m_listener, lobj, lservers, lclients>>
  BY DEF DeleteFini, FiniOf, globals, finis, Registered
<1>2. lobj[j] \in Objs
  BY <1>1 DEF IInv, LocalsHeld, ObjPlaces, TypeOK, Threads
<1>3. /\ pc'[j] = "release" /\ lobj'[j] = lobj[j]
      /\ \A t \in Threads \ {j} : pc'[t] = pc[t] /\ lobj'[t] = lobj[t]
      /\ {"delete", "release"} \cap (Creates \cup Uses) = {}
  BY <1>1 DEF At, IInv, TypeOK, Threads, Creates, Uses
<1>4. /\ Mine(j, Creates) = {} /\ Mine(j, {"delete"}) = {lobj[j]}
      /\ Mine(j, {"release", "finiRel"}) = {} /\ Mine(j, Uses) = {}
  BY <1>1, <1>2, <1>3, MineIs
<1>5. /\ Mine(j, Creates)' = {} /\ Mine(j, {"delete"})' = {}
      /\ Mine(j, {"release", "finiRel"})' = {lobj[j]} /\ Mine(j, Uses)' = {}
  BY <1>2, <1>3, MineIs
<1>6. Listed(j) = {} /\ Listed(j)' = {}
  BY <1>1 DEF Listed, IInv, LocalsHeld, FiniPlaces
<1>7. /\ Making' = Making /\ Closing' = Closing \ {lobj[j]}
      /\ Closed' = Closed \cup {lobj[j]}
  <2>1. StagesChange(j)
    BY <1>1, <1>3, JavaStages
  <2>. QED  BY <1>4, <1>5, <1>6, <2>1 DEF StagesChange
<1>8. Work' = Work
  BY <1>1, <1>3, <1>4, <1>5, WorkStays
<1>9. lobj[j] \in Closing
  BY <1>1, <1>2 DEF Closing, ObjsAt
<1>. QED  BY <1>1, <1>7, <1>8, <1>9 DEF Life!Close

(* So does fini, with its next object.                                      *)
LEMMA FiniNextLife ==
  ASSUME IInv, IInv', NEW j \in Javas, FiniNext(j)
  PROVE  \E x \in Objs : Life!Close(x)
<1>1. PICK x \in Listed(j) :
        /\ pc[j] = "fini" /\ Takes(j, x, "finiRel")
        /\ lservers' = [lservers EXCEPT ![j] = @ \ {x}]
        /\ lclients' = [lclients EXCEPT ![j] = @ \ {x}]
        /\ UNCHANGED <<g_s_reactor, Registered, m_listener>>
  BY DEF FiniNext, FiniOf, Listed, globals, Registered
<1>2. x \in Objs /\ Listed(j) \subseteq Objs
  BY <1>1 DEF Listed, IInv, TypeOK
<1>3. /\ pc'[j] = "finiRel" /\ lobj'[j] = x
      /\ \A t \in Threads \ {j} : pc'[t] = pc[t] /\ lobj'[t] = lobj[t]
      /\ \A i \in Javas \ {j} : lservers'[i] = lservers[i] /\ lclients'[i] = lclients[i]
      /\ Listed(j)' = Listed(j) \ {x}
      /\ {"fini", "finiRel"} \cap (Creates \cup Uses \cup {"delete"}) = {}
  BY <1>1 DEF Takes, At, IInv, TypeOK, Threads, Creates, Uses, Listed
<1>4. /\ Mine(j, Creates) = {} /\ Mine(j, {"delete"}) = {}
      /\ Mine(j, {"release", "finiRel"}) = {} /\ Mine(j, Uses) = {}
  BY <1>1, <1>3, MineIs
<1>5. /\ Mine(j, Creates)' = {} /\ Mine(j, {"delete"})' = {}
      /\ Mine(j, {"release", "finiRel"})' = {x} /\ Mine(j, Uses)' = {}
  BY <1>2, <1>3, MineIs
<1>6. Listed(j) \subseteq Closing
  BY DEF Listed, Closing
<1>7. /\ Making' = Making /\ Closing' = Closing \ {x}
      /\ Closed' = Closed \cup {x}
  <2>1. StagesChange(j)
    BY <1>3, JavaStages
  <2>. QED  BY <1>1, <1>3, <1>4, <1>5, <1>6, <2>1 DEF StagesChange
<1>8. Work' = Work
  BY <1>3, <1>4, <1>5, WorkStays
<1>9. Life!Close(x)
  BY <1>1, <1>6, <1>7, <1>8 DEF Life!Close
<1>. QED  BY <1>2, <1>9

(* The Release of a delete and of fini ends the object's life but for the   *)
(* calls on it (com_pro_msg_ProMsgJni.cpp:405,411,587).                     *)
LEMMA LeaveLife ==
  ASSUME IInv, IInv', NEW j \in Javas,
         FiniRel(j) \/ (ReleaseLast(j) /\ pc[j] = "release")
  PROVE  Life!Leave(lobj[j])
<1>1. /\ pc[j] \in {"release", "finiRel"} /\ ReleaseOf(lobj[j])
      /\ \E place \in {"idle", "fini"} : Takes(j, NULL, place)
      /\ UNCHANGED <<g_s_reactor, Registered, lservers, lclients>>
  BY DEF FiniRel, ReleaseLast, Returns, globals, finis, Registered
<1>2. lobj[j] \in Objs
  BY <1>1 DEF IInv, LocalsHeld, ObjPlaces, TypeOK, Threads
<1>3. /\ pc'[j] \in {"idle", "fini"}
      /\ \A t \in Threads \ {j} : pc'[t] = pc[t] /\ lobj'[t] = lobj[t]
      /\ {"idle", "fini", "release", "finiRel"}
           \cap (Creates \cup Uses \cup {"delete"}) = {}
  BY <1>1 DEF Takes, At, IInv, TypeOK, Threads, Creates, Uses
<1>4. /\ Mine(j, Creates) = {} /\ Mine(j, {"delete"}) = {}
      /\ Mine(j, {"release", "finiRel"}) = {lobj[j]} /\ Mine(j, Uses) = {}
  BY <1>1, <1>2, <1>3, MineIs
<1>5. /\ Mine(j, Creates)' = {} /\ Mine(j, {"delete"})' = {}
      /\ Mine(j, {"release", "finiRel"})' = {} /\ Mine(j, Uses)' = {}
  BY <1>3, MineIs
<1>6. Listed(j)' = Listed(j) /\ Listed(j) \subseteq Closing
  BY <1>1 DEF Listed, Closing
<1>7. /\ Making' = Making /\ Closing' = Closing /\ Closed' = Closed \ {lobj[j]}
  <2>1. StagesChange(j)
    BY <1>1, <1>3, JavaStages
  <2>. QED  BY <1>4, <1>5, <1>6, <2>1 DEF StagesChange
<1>8. Work' = Work
  BY <1>1, <1>3, <1>4, <1>5, WorkStays
<1>9. lobj[j] \in Closed
  BY <1>1, <1>2 DEF Closed, ObjsAt
<1>10. Life!LetsGo(lobj[j])
  <2>1. Life!Needed(lobj[j])
    BY <1>9 DEF Life!Needed
  <2>. QED  BY <1>1, <1>2, <2>1, ReleaseLetsGo
<1>. QED  BY <1>1, <1>7, <1>8, <1>9, <1>10 DEF Life!Leave

(* A call ends with its Release (com_pro_msg_ProMsgJni.cpp:971).            *)
LEMMA UseEndsLife ==
  ASSUME IInv, IInv', NEW j \in Javas, ReleaseLast(j), pc[j] # "release"
  PROVE  Life!End(j, lobj[j])
<1>1. /\ pc[j] \in Uses /\ ReleaseOf(lobj[j]) /\ Takes(j, NULL, "idle")
      /\ UNCHANGED <<g_s_reactor, Registered, lservers, lclients>>
  BY DEF ReleaseLast, Returns, globals, finis, Registered, Uses
<1>2. lobj[j] \in Objs /\ j \in Threads
  BY <1>1 DEF IInv, LocalsHeld, ObjPlaces, TypeOK, Threads
<1>3. /\ pc'[j] = "idle"
      /\ \A t \in Threads \ {j} : pc'[t] = pc[t] /\ lobj'[t] = lobj[t]
      /\ (Uses \cup {"idle"}) \cap (Creates \cup {"delete", "release", "finiRel"}) = {}
      /\ "idle" \notin Uses
  BY <1>1 DEF Takes, At, IInv, TypeOK, Threads, Creates, Uses
<1>4. /\ Mine(j, Creates) = {} /\ Mine(j, {"delete"}) = {}
      /\ Mine(j, {"release", "finiRel"}) = {} /\ Mine(j, Uses) = {lobj[j]}
  BY <1>1, <1>2, <1>3, MineIs
<1>5. /\ Mine(j, Creates)' = {} /\ Mine(j, {"delete"})' = {}
      /\ Mine(j, {"release", "finiRel"})' = {} /\ Mine(j, Uses)' = {}
  BY <1>3, MineIs
<1>6. Listed(j)' = Listed(j) /\ Listed(j) \subseteq Closing
  BY <1>1 DEF Listed, Closing
<1>7. /\ Making' = Making /\ Closing' = Closing /\ Closed' = Closed
  <2>1. StagesChange(j)
    BY <1>1, <1>3, JavaStages
  <2>. QED  BY <1>4, <1>5, <1>6, <2>1 DEF StagesChange
<1>8. <<j, lobj[j]>> \in Work /\ Work' = Work \ {<<j, lobj[j]>>}
  <2>1. \A y \in Objs :
          /\ <<j, y>> \in Work <=> y \in Mine(j, Uses)
          /\ <<j, y>> \in Work' <=> y \in Mine(j, Uses)'
          /\ \A t \in Threads \ {j} : <<t, y>> \in Work' <=> <<t, y>> \in Work
    BY <1>1, <1>3, JavaStages
  <2>2. \A t \in Threads, y \in Objs :
          <<t, y>> \in Work' <=> <<t, y>> \in Work /\ <<t, y>> # <<j, lobj[j]>>
    BY <1>4, <1>5, <2>1
  <2>. QED  BY <1>2, <1>4, <2>1, <2>2, WorkIs
<1>9. Life!LetsGo(lobj[j])
  <2>1. Life!Needed(lobj[j])
    BY <1>8 DEF Life!Needed
  <2>. QED  BY <1>1, <1>2, <2>1, ReleaseLetsGo
<1>. QED  BY <1>1, <1>7, <1>8, <1>9 DEF Life!End, Life!stages

(* init and the other steps of a Java thread are seen only in whether the   *)
(* library is initialised (com_pro_msg_ProMsgJni.cpp:319-352,413).          *)
LEMMA QuietLife ==
  ASSUME IInv, NEW j \in Javas,
         \/ UNCHANGED pc
         \/ pc[j] \in {"idle", "fini"} /\ \E place \in {"idle", "fini"} : At(j, place),
         UNCHANGED <<g_s_clients, g_s_servers, m_listener, lobj, lservers, lclients>>
  PROVE  UNCHANGED <<Life!stages, Work, m_listener>>
<1>1. /\ \A t \in Threads \ {j} : pc'[t] = pc[t] /\ lobj'[t] = lobj[t]
      /\ pc'[j] = pc[j] \/ {pc[j], pc'[j]} \subseteq {"idle", "fini"}
  BY DEF At, IInv, TypeOK, Threads
<1>2. {"idle", "fini"} \cap (Ends \cup Uses) = {}
  BY DEF Ends, Creates, Uses
<1>3. \A places \in SUBSET (Ends \cup Uses) : Mine(j, places)' = Mine(j, places)
  BY <1>1, <1>2 DEF Mine
<1>4. /\ Mine(j, Creates)' = Mine(j, Creates)
      /\ Mine(j, {"delete"})' = Mine(j, {"delete"})
      /\ Mine(j, {"release", "finiRel"})' = Mine(j, {"release", "finiRel"})
      /\ Mine(j, Uses)' = Mine(j, Uses)
  BY <1>3 DEF Ends
<1>5. Listed(j)' = Listed(j) /\ Registered' = Registered
  BY DEF Listed, Registered
<1>6. /\ Mine(j, Creates) \subseteq Making
      /\ Mine(j, {"delete"}) \cup Listed(j) \subseteq Closing
      /\ Mine(j, {"release", "finiRel"}) \subseteq Closed
  BY DEF Mine, Making, Closing, Closed, ObjsAt, Creates, Listed
<1>7. Making' = Making /\ Closing' = Closing /\ Closed' = Closed
  <2>1. StagesChange(j)
    BY <1>1, JavaStages
  <2>. QED  BY <1>4, <1>5, <1>6, <2>1 DEF StagesChange
<1>8. Work' = Work
  BY <1>1, <1>4, WorkStays
<1>. QED  BY <1>5, <1>7, <1>8 DEF Life!stages

(* Each step of a Java thread is one of ObjectLife, or hidden from it.      *)
LEMMA JavaLife ==
  ASSUME IInv, IInv', NEW j \in Javas, JavaCalls(j) \/ JavaReturns(j)
  PROVE  Life!Next \/ UNCHANGED Life!objectVars
<1>1. CASE JniInit(j)
  <2>1. /\ g_s_reactor = NULL /\ pc[j] = "idle"
        /\ g_s_reactor' # NULL \/ g_s_reactor' = g_s_reactor
        /\ UNCHANGED pc \/ At(j, "fini")
        /\ UNCHANGED <<g_s_clients, g_s_servers, m_listener, lobj, lservers, lclients>>
    BY <1>1, RegistryAssumption DEF JniInit, LocksAtOnce, Locks, objVars
  <2>2. UNCHANGED <<Life!stages, Work, m_listener>>
    BY <2>1, QuietLife
  <2>3. Life!InitLibrary \/ UNCHANGED Life!objectVars
    BY <2>1, <2>2 DEF Life!InitLibrary, Life!objectVars, Life!stages
  <2>. QED  BY <2>3 DEF Life!Next
<1>2. ASSUME \/ \E u \in Users : Convert(j, u)
             \/ Refused(j) \/ DeleteReactor(j)
      PROVE  UNCHANGED Life!objectVars
  <2>1. /\ UNCHANGED pc \/ (pc[j] = "fini" /\ At(j, "idle"))
        /\ UNCHANGED <<g_s_reactor, g_s_clients, g_s_servers, m_listener, lobj,
                       lservers, lclients>>
    <3>1. ASSUME NEW u \in Users, Convert(j, u)
          PROVE  UNCHANGED <<globals, objVars, pc, lobj, lservers, lclients>>
      BY <3>1 DEF Convert, finis
    <3>2. Refused(j) => UNCHANGED <<globals, objVars, pc, lobj, lservers, lclients>>
      BY DEF Refused, finis
    <3>3. DeleteReactor(j) =>
            /\ pc[j] = "fini" /\ At(j, "idle")
            /\ UNCHANGED <<globals, objVars, lobj, lservers, lclients>>
      BY DEF DeleteReactor
    <3>. QED  BY <1>2, <3>1, <3>2, <3>3 DEF globals, objVars
  <2>2. UNCHANGED <<Life!stages, Work, m_listener>>
    BY <2>1, QuietLife
  <2>. QED  BY <2>1, <2>2 DEF Life!objectVars, Life!stages, Registered
<1>3. ASSUME FiniLocked(j) PROVE Life!Next
  BY <1>3, FiniLockedLife DEF Life!Next
<1>4. ASSUME NEW x \in Objs, CreateClient(j, x) \/ CreateServer(j, x)
      PROVE  Life!Next
  BY <1>4, CreateLife DEF Life!Next
<1>5. ASSUME NEW x \in Objs, EraseClient(j, x) \/ EraseServer(j, x)
      PROVE  Life!Next
  BY <1>5, EraseLife DEF Life!Next
<1>6. ASSUME NEW x \in Objs, NEW place \in Uses, Looks(j, x, place)
      PROVE  Life!Next
  BY <1>6, LooksLife DEF Life!Next
<1>7. ASSUME FiniNext(j) PROVE Life!Next
  BY <1>7, FiniNextLife DEF Life!Next
<1>8. ASSUME \/ InsertClient(j) \/ InsertServer(j)
             \/ DeleteFini(j) \/ FiniRel(j) \/ ReleaseLast(j)
      PROVE  Life!Next
  <2>1. lobj[j] \in Objs
    BY <1>8 DEF InsertClient, InsertServer, DeleteFini, FiniRel, ReleaseLast,
                IInv, LocalsHeld, ObjPlaces, Creates, Uses, TypeOK, Threads
  <2>2. \/ Life!Publish(lobj[j]) \/ Life!Close(lobj[j]) \/ Life!Leave(lobj[j])
        \/ Life!End(j, lobj[j])
    BY <1>8, InsertLife, CloseLife, LeaveLife, UseEndsLife
  <2>. QED  BY <2>1, <2>2 DEF Life!Next
<1>. QED
  BY <1>1, <1>2, <1>3, <1>4, <1>5, <1>6, <1>7, <1>8, JavaSteps DEF JavaReturns

(* Callbacks change only who works on what.                                 *)
LEMMA CallbackLife ==
  ASSUME IInv, IInv', NEW w \in Workers,
         (\E x \in Objs : CbBegin(w, x)) \/ WorkerReturns(w)
  PROVE  Life!Next \/ UNCHANGED Life!objectVars
<1>1. /\ UNCHANGED <<g_s_reactor, Registered, lservers, lclients>>
      /\ \A t \in Threads \ {w} : pc'[t] = pc[t] /\ lobj'[t] = lobj[t]
  BY DEF WorkerReturns, Events, ClientUserEvent, ClientPlainEvent, ServerEvent,
         CbBegin, CbCheck, NewJavaUser, CbEnd, Takes, At, globals, finis,
         Registered, IInv, TypeOK
<1>2. w \in Threads /\ w \notin Javas /\ Javas \subseteq Threads
  BY RegistryAssumption DEF Threads
<1>3. UNCHANGED Life!stages
  <2>1. \A j \in Javas : pc'[j] = pc[j] /\ lobj'[j] = lobj[j]
    BY <1>1, <1>2
  <2>2. \A places : ObjsAt(places)' = ObjsAt(places)
    BY <2>1 DEF ObjsAt
  <2>. QED  BY <1>1, <2>2 DEF Life!stages, Making, Closing, Closed
<1>4. \A x \in Objs :
        /\ <<w, x>> \in Work <=> lobj[w] = x
        /\ <<w, x>> \in Work' <=> lobj'[w] = x
        /\ \A t \in Threads \ {w} : <<t, x>> \in Work' <=> <<t, x>> \in Work
  BY <1>1, <1>2, WorkMoves
<1>5. ASSUME NEW x \in Objs, CbBegin(w, x) PROVE Life!Begin(w, x)
  <2>1. /\ lobj[w] \notin Objs /\ lobj'[w] = x /\ m_reactor[x] # NULL
        /\ UNCHANGED m_listener
    BY <1>2, <1>5, RegistryAssumption
       DEF CbBegin, Takes, IInv, LocalsHeld, TypeOK, ReactorsKept
  <2>2. \A t \in Threads, y \in Objs :
          <<t, y>> \in Work' <=> <<t, y>> \in Work \/ <<t, y>> = <<w, x>>
    BY <1>4, <2>1
  <2>3. <<w, x>> \notin Work /\ Work' = Work \cup {<<w, x>>}
    BY <1>2, <1>4, <2>1, <2>2, WorkIs
  <2>4. x \in Making \cup Registered \cup Closing
    <3>1. Answering(x) # {} => x \in Making \cup Closing \cup Closed
      BY StagesAre DEF IInv
    <3>2. x \in Registered \/ Answering(x) # {}
      BY <2>1 DEF IInv, OneOwner, Answering
    <3>3. x \notin Closed
      BY <2>1 DEF Closed, ObjsAt, IInv, OnReactor
    <3>. QED  BY <3>1, <3>2, <3>3
  <2>. QED  BY <1>1, <1>2, <1>3, <2>1, <2>3, <2>4 DEF Life!Begin
<1>6. ASSUME CbEnd(w) PROVE lobj[w] \in Objs /\ Life!End(w, lobj[w])
  <2>1. /\ ReleaseOf(lobj[w]) /\ lobj[w] \in Objs /\ lobj'[w] \notin Objs
    BY <1>2, <1>6, RegistryAssumption DEF CbEnd, Takes, IInv, LocalsHeld, TypeOK
  <2>2. \A t \in Threads, y \in Objs :
          <<t, y>> \in Work' <=> <<t, y>> \in Work /\ <<t, y>> # <<w, lobj[w]>>
    BY <1>4, <2>1
  <2>3. <<w, lobj[w]>> \in Work /\ Work' = Work \ {<<w, lobj[w]>>}
    BY <1>2, <1>4, <2>1, <2>2, WorkIs
  <2>4. Life!Needed(lobj[w])
    BY <2>3 DEF Life!Needed
  <2>5. Life!LetsGo(lobj[w])
    BY <2>1, <2>4, ReleaseLetsGo
  <2>. QED  BY <1>1, <1>3, <2>1, <2>3, <2>5 DEF Life!End
<1>7. ASSUME Events(w) \/ NewJavaUser(w) PROVE UNCHANGED Life!objectVars
  <2>1. UNCHANGED <<m_listener, lobj>>
    BY <1>7 DEF Events, ClientUserEvent, ClientPlainEvent, ServerEvent, CbCheck,
                NewJavaUser, objVars
  <2>2. Work' = Work
    BY <1>4, <2>1, WorkIs
  <2>. QED  BY <1>1, <1>3, <2>1, <2>2 DEF Life!objectVars, Life!stages
<1>. QED
  BY <1>5, <1>6, <1>7 DEF WorkerReturns, Life!Next

(* Each step of the library is a step of ObjectLife, or hidden from it.     *)
LEMMA NextLife ==
  IInv /\ [Next]_vars => [Life!Next]_(Life!objectVars)
<1>. SUFFICES ASSUME IInv, [Next]_vars
              PROVE  Life!Next \/ UNCHANGED Life!objectVars
  OBVIOUS
<1>1. IInv'
  BY NextIInv
<1>2. CASE UNCHANGED vars
  BY <1>2 DEF vars, globals, objVars, finis, Life!objectVars, Making, Closing,
              Closed, ObjsAt, Work, Registered
<1>. QED  BY <1>1, <1>2, JavaLife, CallbackLife DEF Next, Exhausted

(* The library starts with nothing.                                         *)
LEMMA InitLife == Init => Life!Init
<1>. SUFFICES ASSUME Init PROVE Life!Init
  OBVIOUS
<1>1. \A t \in Threads : pc[t] = "idle" /\ lobj[t] \notin Objs
  BY RegistryAssumption DEF Init
<1>2. Making = {} /\ Closing = {} /\ Closed = {} /\ Work = {}
  BY <1>1 DEF Init, Making, Closing, Closed, ObjsAt, Work, Threads
<1>. QED  BY <1>2 DEF Init, Life!Init, Registered

\* The library implements ObjectLife, for any numbers of threads and objects and
\* in spite of addresses that come back: a handle works from its create to its
\* delete or fini, each object is closed once, no call or callback begins on one
\* that is closed, and the last thread to need it lets it go
\* (com_pro_msg_ProMsgJni.cpp:382-413,501-552,577-587,924-971).
THEOREM RegistryImplementsObjects == Spec => ImplementsObjects
BY InitLife, NextLife, RegistryIInv, PTL DEF Spec, ImplementsObjects, Life!Spec
==============================================================================
