----------------------------- MODULE JniRegistry -----------------------------
(****************************************************************************)
(* The global state of the JNI library: the reactor made by init and the    *)
(* registries of the clients and servers whose addresses Java holds as      *)
(* handles.  Java threads pass any handle they ever saw, so an address may   *)
(* be looked up after its object is gone and a new one stands there.        *)
(* Reactor threads run the Java callbacks.  A section of g_s_lock is one    *)
(* action, except in a create, which holds the lock while the object starts *)
(* and a reactor thread may already call it.  Calls that take users convert   *)
(* them one by one, each in a section of its own, before they look at the     *)
(* handle.                                                                  *)
(****************************************************************************)
EXTENDS Integers, FiniteSets, JniUser

CONSTANTS
  Javas,            \* Java threads
  Workers,          \* reactor threads
  Objs,             \* addresses of CMsgClientJni and CMsgServerJni objects
  Reactors,         \* IProReactor objects, never reused
  Users,            \* the users that Java threads pass
  MaxUsers,         \* bound on the users of one call (255 in the code)
  NULL

ASSUME RegistryAssumption ==
  /\ NULL \notin Objs \cup Reactors \cup Javas
  /\ Javas \cap Workers = {}
  /\ IsFiniteSet(Javas) /\ IsFiniteSet(Workers)
  /\ Users \subseteq JavaUsers
  /\ MaxUsers \in Nat

Threads == Javas \cup Workers

VARIABLES
  g_s_lock,         \* the thread that holds it across actions, or NULL
  g_s_reactor,
  g_s_meta,         \* g_s_meta.clazz is set
  g_s_clients, g_s_servers,
  reactors,         \* reactors created and not deleted
  used,             \* history: reactors ever created
  m_reactor,        \* of an object: the reactor it was initialised with, or NULL
  m_listener,       \* objects whose Java global reference exists
  serverObjs,       \* addresses whose latest object is a CMsgServerJni
  refs,             \* of an object: its CProRefCount
  pc, lobj,         \* each thread's place and the object it works on
  lusers,           \* the users a call has converted: what Java gave, what
                    \* became of it, and whether the library was closed then
  lreactor,         \* the reactor a fini or a failed init is to delete
  lservers, lclients   \* what fini has still to finish

globals == <<g_s_reactor, g_s_meta, g_s_clients, g_s_servers>>
objVars == <<m_reactor, m_listener, serverObjs, refs>>
reactorVars == <<reactors, used>>
finis == <<lreactor, lservers, lclients>>
vars == <<g_s_lock, globals, reactorVars, objVars, pc, lobj, lusers, finis>>

JavaPlaces == {"idle", "createClient", "createServer", "delete", "release",
               "useClient", "useServer", "fini", "finiRel"}
WorkerPlaces == {"idle", "check", "newUser", "deliver", "end"}

\* A user that a call has converted.
Converted == [given : Users, cpp : CppUsers, closed : BOOLEAN]

\* The one type invariant.
TypeOK ==
  /\ g_s_lock \in Javas \cup {NULL}
  /\ g_s_reactor \in Reactors \cup {NULL}
  /\ g_s_meta \in BOOLEAN
  /\ g_s_clients \subseteq Objs /\ g_s_servers \subseteq Objs
  /\ reactors \subseteq Reactors /\ used \subseteq Reactors
  /\ m_reactor \in [Objs -> Reactors \cup {NULL}]
  /\ m_listener \subseteq Objs /\ serverObjs \subseteq Objs
  /\ refs \in [Objs -> Nat]
  /\ pc \in [Threads -> JavaPlaces \cup WorkerPlaces]
  /\ \A j \in Javas : pc[j] \in JavaPlaces
  /\ \A w \in Workers : pc[w] \in WorkerPlaces
  /\ lobj \in [Threads -> Objs \cup {NULL}]
  /\ lusers \in [Javas -> SUBSET Converted]
  /\ lreactor \in [Threads -> Reactors \cup {NULL}]
  /\ lservers \in [Javas -> SUBSET Objs]
  /\ lclients \in [Javas -> SUBSET Objs]

------------------------------------------------------------------------------
(* Helpers.                                                                 *)

Registered == g_s_clients \cup g_s_servers

At(t, place) == pc' = [pc EXCEPT ![t] = place]
Takes(t, x, place) == /\ lobj' = [lobj EXCEPT ![t] = x]
                      /\ At(t, place)
Returns(j) == /\ Takes(j, NULL, "idle")
              /\ lusers' = [lusers EXCEPT ![j] = {}]

\* How many users the call of a Java thread has converted so far.
NoUser(j) == lusers[j] = {}
OneUser(j) == Cardinality(lusers[j]) = 1

\* A Java thread enters a section of g_s_lock, one that takes no users at once.
Locks(j) == pc[j] = "idle" /\ g_s_lock = NULL
LocksAtOnce(j) == NoUser(j) /\ Locks(j)

\* CMsgClient::Fini or CMsgServer::Fini on x, in brief: a second one does
\* nothing; the first one makes the library drop its reference to the observer.
FiniOf(x) ==
  /\ m_reactor' = [m_reactor EXCEPT ![x] = NULL]
  /\ refs' = [refs EXCEPT ![x] = IF m_reactor[x] # NULL THEN @ - 1 ELSE @]
  /\ UNCHANGED <<m_listener, serverObjs>>

\* Release on x; the last one runs the destructor.
ReleaseOf(x) ==
  /\ refs' = [refs EXCEPT ![x] = @ - 1]
  /\ m_listener' = IF refs[x] = 1 THEN m_listener \ {x} ELSE m_listener
  /\ UNCHANGED <<m_reactor, serverObjs>>

Init ==
  /\ g_s_lock = NULL /\ g_s_reactor = NULL /\ g_s_meta = FALSE
  /\ g_s_clients = {} /\ g_s_servers = {}
  /\ reactors = {} /\ used = {}
  /\ m_reactor = [x \in Objs |-> NULL]
  /\ m_listener = {} /\ serverObjs = {}
  /\ refs = [x \in Objs |-> 0]
  /\ pc = [t \in Threads |-> "idle"]
  /\ lobj = [t \in Threads |-> NULL]
  /\ lusers = [j \in Javas |-> {}]
  /\ lreactor = [t \in Threads |-> NULL]
  /\ lservers = [j \in Javas |-> {}]
  /\ lclients = [j \in Javas |-> {}]

------------------------------------------------------------------------------
(* init and fini.                                                           *)

\* init creates a reactor; if a Java class or member cannot be found, the
\* reactor is deleted again after the unlock.
JniInit(j) ==
  /\ LocksAtOnce(j)
  /\ g_s_reactor = NULL
  /\ \E r \in Reactors \ used :
       /\ reactors' = reactors \cup {r}
       /\ used' = used \cup {r}
       /\ \/ /\ g_s_reactor' = r
             /\ g_s_meta' = TRUE
             /\ UNCHANGED <<pc, lreactor>>
          \/ /\ lreactor' = [lreactor EXCEPT ![j] = r]
             /\ At(j, "fini")
             /\ UNCHANGED <<g_s_reactor, g_s_meta>>
  /\ UNCHANGED <<lusers, g_s_lock, g_s_clients, g_s_servers, objVars, lobj, lservers,
                 lclients>>

\* Mutant of FiniLocked: the clients stay registered.
FiniLockedKeeps(j) ==
  /\ LocksAtOnce(j)
  /\ g_s_reactor # NULL
  /\ lservers' = [lservers EXCEPT ![j] = g_s_servers]
  /\ lclients' = [lclients EXCEPT ![j] = g_s_clients]
  /\ lreactor' = [lreactor EXCEPT ![j] = g_s_reactor]
  /\ g_s_reactor' = NULL /\ g_s_meta' = FALSE /\ g_s_servers' = {}
  /\ At(j, "fini")
  /\ UNCHANGED <<lusers, g_s_lock, g_s_clients, reactorVars, objVars, lobj>>

\* fini, under g_s_lock.
FiniLocked(j) ==
  /\ LocksAtOnce(j)
  /\ g_s_reactor # NULL
  /\ lservers' = [lservers EXCEPT ![j] = g_s_servers]
  /\ lclients' = [lclients EXCEPT ![j] = g_s_clients]
  /\ lreactor' = [lreactor EXCEPT ![j] = g_s_reactor]
  /\ g_s_reactor' = NULL /\ g_s_meta' = FALSE
  /\ g_s_servers' = {} /\ g_s_clients' = {}
  /\ At(j, "fini")
  /\ UNCHANGED <<lusers, g_s_lock, reactorVars, objVars, lobj>>

\* The loops of fini: Fini on one object, the servers first.
FiniNext(j) ==
  /\ pc[j] = "fini"
  /\ \E x \in IF lservers[j] # {} THEN lservers[j] ELSE lclients[j] :
       /\ FiniOf(x)
       /\ Takes(j, x, "finiRel")
       /\ lservers' = [lservers EXCEPT ![j] = @ \ {x}]
       /\ lclients' = [lclients EXCEPT ![j] = @ \ {x}]
  /\ UNCHANGED <<lusers, g_s_lock, globals, reactorVars, lreactor>>

\* Mutant of FiniRel: the object is not released.
FiniRelForgets(j) ==
  /\ pc[j] = "finiRel"
  /\ Takes(j, NULL, "fini")
  /\ UNCHANGED <<lusers, g_s_lock, globals, reactorVars, objVars, finis>>

\* ... and its Release.
FiniRel(j) ==
  /\ pc[j] = "finiRel"
  /\ ReleaseOf(lobj[j])
  /\ Takes(j, NULL, "fini")
  /\ UNCHANGED <<lusers, g_s_lock, globals, reactorVars, finis>>

\* Mutant of DeleteReactor: the reactor goes before the objects are finished.
DeleteReactorEarly(j) ==
  /\ pc[j] = "fini"
  /\ lreactor[j] # NULL
  /\ \A w \in Workers : lreactor[w] # lreactor[j]
  /\ reactors' = reactors \ {lreactor[j]}
  /\ lreactor' = [lreactor EXCEPT ![j] = NULL]
  /\ At(j, IF lservers[j] \cup lclients[j] = {} THEN "idle" ELSE "fini")
  /\ UNCHANGED <<lusers, g_s_lock, globals, used, objVars, lobj, lservers, lclients>>

\* ProDeleteReactor waits for the reactor's threads.
DeleteReactor(j) ==
  /\ pc[j] = "fini"
  /\ lservers[j] = {} /\ lclients[j] = {}
  /\ \A w \in Workers : lreactor[w] # lreactor[j]
  /\ reactors' = reactors \ {lreactor[j]}
  /\ lreactor' = [lreactor EXCEPT ![j] = NULL]
  /\ At(j, "idle")
  /\ UNCHANGED <<lusers, g_s_lock, globals, used, objVars, lobj, lservers, lclients>>

------------------------------------------------------------------------------
(* Clients and servers.                                                     *)

\* MSG_USER_java2cpp_i in a call that takes users: one, or a list.  Only a class
\* reference lets it read the members.
Convert(j, u) ==
  /\ Locks(j)
  /\ Cardinality(lusers[j]) < MaxUsers
  /\ lusers' = [lusers EXCEPT ![j] = @ \cup
                  {[given |-> u, cpp |-> IF g_s_meta THEN ToCpp(u) ELSE Zero,
                    closed |-> ~g_s_meta]}]
  /\ UNCHANGED <<g_s_lock, globals, reactorVars, objVars, pc, lobj, finis>>

\* Such a call ends early: a bad list, a handle that is not registered, a library
\* that is not initialised, or a create that fails.
Refused(j) ==
  /\ pc[j] = "idle"
  /\ ~NoUser(j)
  /\ lusers' = [lusers EXCEPT ![j] = {}]
  /\ UNCHANGED <<g_s_lock, globals, reactorVars, objVars, pc, lobj, finis>>

\* Mutant of CreateObj: the lock is given back before the object is inserted.
CreateObjUnlocked(j, x, place) ==
  /\ g_s_reactor # NULL
  /\ refs[x] = 0
  /\ m_listener' = m_listener \cup {x}
  /\ m_reactor' = [m_reactor EXCEPT ![x] = g_s_reactor]
  /\ refs' = [refs EXCEPT ![x] = 2]
  /\ Takes(j, x, place)
  /\ UNCHANGED <<lusers, g_s_lock, globals, reactorVars, finis>>

\* A create up to a successful Init; one that fails leaves nothing behind.  The
\* library refers to the object from now on.
CreateObj(j, x, place) ==
  /\ g_s_reactor # NULL
  /\ refs[x] = 0
  /\ g_s_lock' = j
  /\ m_listener' = m_listener \cup {x}
  /\ m_reactor' = [m_reactor EXCEPT ![x] = g_s_reactor]
  /\ refs' = [refs EXCEPT ![x] = 2]
  /\ Takes(j, x, place)
  /\ UNCHANGED <<lusers, globals, reactorVars, finis>>

CreateClient(j, x) ==
  /\ Locks(j)
  /\ NoUser(j) \/ OneUser(j)
  /\ serverObjs' = serverObjs \ {x}
  /\ CreateObj(j, x, "createClient")

CreateServer(j, x) ==
  /\ LocksAtOnce(j)
  /\ serverObjs' = serverObjs \cup {x}
  /\ CreateObj(j, x, "createServer")

\* ... and the insertion, which ends the section of g_s_lock.
Inserted(j) ==
  /\ g_s_lock' = NULL
  /\ Returns(j)
  /\ UNCHANGED <<g_s_reactor, g_s_meta, reactorVars, objVars, finis>>

InsertClient(j) ==
  /\ pc[j] = "createClient"
  /\ g_s_clients' = g_s_clients \cup {lobj[j]}
  /\ UNCHANGED g_s_servers
  /\ Inserted(j)

InsertServer(j) ==
  /\ pc[j] = "createServer"
  /\ g_s_servers' = g_s_servers \cup {lobj[j]}
  /\ UNCHANGED g_s_clients
  /\ Inserted(j)

\* A delete, under g_s_lock: a handle that is not registered is ignored.
Erased(j, x) ==
  /\ LocksAtOnce(j)
  /\ g_s_reactor # NULL
  /\ Takes(j, x, "delete")
  /\ UNCHANGED <<lusers, g_s_lock, g_s_reactor, g_s_meta, reactorVars, objVars, finis>>

EraseClient(j, x) ==
  /\ x \in g_s_clients
  /\ g_s_clients' = g_s_clients \ {x}
  /\ UNCHANGED g_s_servers
  /\ Erased(j, x)

EraseServer(j, x) ==
  /\ x \in g_s_servers
  /\ g_s_servers' = g_s_servers \ {x}
  /\ UNCHANGED g_s_clients
  /\ Erased(j, x)

DeleteFini(j) ==
  /\ pc[j] = "delete"
  /\ FiniOf(lobj[j])
  /\ At(j, "release")
  /\ UNCHANGED <<lusers, g_s_lock, globals, reactorVars, lobj, finis>>

\* Mutant of UseBegin: the object is used without a reference.
UseBeginNoRef(j, x, place) ==
  /\ Takes(j, x, place)
  /\ UNCHANGED <<lusers, g_s_lock, globals, reactorVars, objVars, finis>>

\* Every other call on a handle looks it up, takes a reference and unlocks
\* before it works on the object, a CMsgClientJni or a CMsgServerJni to it.
UseBegin(j, x, place) ==
  /\ refs' = [refs EXCEPT ![x] = @ + 1]
  /\ Takes(j, x, place)
  /\ UNCHANGED <<lusers, g_s_lock, globals, reactorVars, m_reactor, m_listener,
                 serverObjs, finis>>

\* Mutant of Lookup: the handle of a living object is trusted.
LookupTrusting(j, x, handles, place) ==
  /\ Locks(j)
  /\ refs[x] > 0 /\ (x \in serverObjs <=> place = "useServer")
  /\ UseBegin(j, x, place)

\* The getters do not look whether the library is initialised ...
Lookup(j, x, handles, place) ==
  /\ Locks(j)
  /\ x \in handles
  /\ UseBegin(j, x, place)

\* ... the calls that change something do.
OpenLookup(j, x, handles, place) ==
  /\ g_s_reactor # NULL
  /\ Lookup(j, x, handles, place)

\* Mutant of ReadClient: the handle is looked for among the servers as well.
ReadClientAny(j, x) == NoUser(j) /\ Lookup(j, x, Registered, "useClient")

ReadClient(j, x) == NoUser(j) /\ Lookup(j, x, g_s_clients, "useClient")
ReadServer(j, x) == NoUser(j) /\ Lookup(j, x, g_s_servers, "useServer")

\* msgServerGetSslSuite and msgServerGetSendingBytes ask about one user.
ReadServerUser(j, x) == OneUser(j) /\ Lookup(j, x, g_s_servers, "useServer")

SendClient(j, x) == ~NoUser(j) /\ OpenLookup(j, x, g_s_clients, "useClient")
SendServer(j, x) == ~NoUser(j) /\ OpenLookup(j, x, g_s_servers, "useServer")

\* msgServerKickoutUser.
KickoutUser(j, x) == OneUser(j) /\ OpenLookup(j, x, g_s_servers, "useServer")

\* Setting the redline, and reconnecting.
UseClient(j, x) == NoUser(j) /\ OpenLookup(j, x, g_s_clients, "useClient")
UseServer(j, x) == NoUser(j) /\ OpenLookup(j, x, g_s_servers, "useServer")

\* Mutant of ReleaseLast: one Release too many.
ReleaseLastTwice(j) ==
  /\ pc[j] \in {"useClient", "useServer", "release"}
  /\ refs' = [refs EXCEPT ![lobj[j]] = @ - 2]
  /\ Returns(j)
  /\ UNCHANGED <<g_s_lock, globals, reactorVars, m_reactor, m_listener, serverObjs,
                 finis>>

\* The Release such a call, or a delete, ends with.
ReleaseLast(j) ==
  /\ pc[j] \in {"useClient", "useServer", "release"}
  /\ ReleaseOf(lobj[j])
  /\ Returns(j)
  /\ UNCHANGED <<g_s_lock, globals, reactorVars, finis>>

------------------------------------------------------------------------------
(* Callbacks on reactor threads.                                            *)

\* The library calls an object that was started on one of its reactors.
CbBegin(w, x) ==
  /\ pc[w] = "idle"
  /\ m_reactor[x] \in reactors
  /\ refs' = [refs EXCEPT ![x] = @ + 1]
  /\ lreactor' = [lreactor EXCEPT ![w] = m_reactor[x]]
  /\ Takes(w, x, "check")
  /\ UNCHANGED <<lusers, g_s_lock, globals, reactorVars, m_reactor, m_listener,
                 serverObjs, lservers, lclients>>

\* The section of m_lock a callback starts with.
CbCheck(w, place) ==
  /\ pc[w] = "check"
  /\ At(w, IF m_reactor[lobj[w]] = NULL THEN "end" ELSE place)
  /\ UNCHANGED <<lusers, g_s_lock, globals, reactorVars, objVars, lobj, finis>>

\* CMsgClientJni's OnOkMsg and OnRecvMsg go on to make a Java user ...
ClientUserEvent(w) == lobj[w] \notin serverObjs /\ CbCheck(w, "newUser")

\* ... OnCloseMsg and OnHeartbeatMsg need none, ...
ClientPlainEvent(w) == lobj[w] \notin serverObjs /\ CbCheck(w, "deliver")

\* ... and each event of a server is about a user.
ServerEvent(w) == lobj[w] \in serverObjs /\ CbCheck(w, "newUser")

\* NewJavaUser_i, under g_s_lock: after fini there is no class to make one of.
NewJavaUser(w) ==
  /\ pc[w] = "newUser"
  /\ g_s_lock = NULL
  /\ At(w, IF g_s_meta THEN "deliver" ELSE "end")
  /\ UNCHANGED <<lusers, g_s_lock, globals, reactorVars, objVars, lobj, finis>>

CbEnd(w) ==
  /\ pc[w] \in {"deliver", "end"}
  /\ ReleaseOf(lobj[w])
  /\ lreactor' = [lreactor EXCEPT ![w] = NULL]
  /\ Takes(w, NULL, "idle")
  /\ UNCHANGED <<lusers, g_s_lock, globals, reactorVars, lservers, lclients>>

------------------------------------------------------------------------------
JavaCalls(j) ==
  \/ JniInit(j) \/ FiniLocked(j)
  \/ \E u \in Users : Convert(j, u)
  \/ \E x \in Objs : \/ CreateClient(j, x) \/ CreateServer(j, x)
                     \/ EraseClient(j, x) \/ EraseServer(j, x)
                     \/ ReadClient(j, x) \/ ReadServer(j, x)
                     \/ ReadServerUser(j, x) \/ KickoutUser(j, x)
                     \/ SendClient(j, x) \/ SendServer(j, x)
                     \/ UseClient(j, x) \/ UseServer(j, x)

JavaReturns(j) ==
  \/ FiniNext(j) \/ FiniRel(j) \/ DeleteReactor(j)
  \/ InsertClient(j) \/ InsertServer(j)
  \/ DeleteFini(j) \/ ReleaseLast(j) \/ Refused(j)

Events(w) == ClientUserEvent(w) \/ ClientPlainEvent(w) \/ ServerEvent(w)

WorkerReturns(w) == Events(w) \/ NewJavaUser(w) \/ CbEnd(w)

\* Bound: every reactor of the pool has been used.
Exhausted ==
  /\ used = Reactors /\ g_s_reactor = NULL
  /\ \A t \in Threads : pc[t] = "idle"
  /\ \A j \in Javas : NoUser(j)
  /\ UNCHANGED vars

Next ==
  \/ \E j \in Javas : JavaCalls(j) \/ JavaReturns(j)
  \/ \E w \in Workers, x \in Objs : CbBegin(w, x)
  \/ \E w \in Workers : WorkerReturns(w)
  \/ Exhausted

Spec == Init /\ [][Next]_vars

\* Started calls and callbacks go on; a Java listener returns.  g_s_lock is
\* granted in the end to a callback that waits for it.
Fairness ==
  /\ \A j \in Javas : WF_vars(JavaReturns(j))
  /\ \A w \in Workers : WF_vars(Events(w) \/ CbEnd(w)) /\ SF_vars(NewJavaUser(w))

FairSpec == Spec /\ Fairness

------------------------------------------------------------------------------
(* Properties.                                                              *)

\* Whatever is registered runs on the reactor of the current init, also after a
\* fini and a second init; without one nothing is registered.  A handle, though
\* addresses come back and as objects of the other class, is only ever taken for
\* an object of the class that the call is for
\* (com_pro_msg_ProMsgJni.cpp:382-390,529-552,577-582,924-930,1497-1503).
RegistrySound ==
  /\ \A x \in Registered : g_s_reactor # NULL /\ m_reactor[x] = g_s_reactor
  /\ g_s_clients \cap serverObjs = {} /\ g_s_servers \subseteq serverObjs
  /\ \A j \in Javas : /\ pc[j] = "useClient" => lobj[j] \notin serverObjs
                      /\ pc[j] = "useServer" => lobj[j] \in serverObjs

\* A call that has come to its object works for the users Java gave it: for nobody
\* in the place of one that is out of range, and for another one only where an id
\* does not fit 40 bits.  In the place of a legal one it works for nobody only if
\* the library was closed when the user was converted, and has been initialised
\* before the lookup (com_pro_msg_ProMsgJni.cpp:126-157,493,907,1323,1402,1480,1637).
UsersAsGiven ==
  \A j \in Javas : pc[j] # "idle" => \A r \in lusers[j] :
    /\ r.cpp # Zero => /\ r.cpp.classId = r.given.classId
                       /\ r.cpp.instId = r.given.instId
                       /\ (r.given.userId - r.cpp.userId) % IdLimit = 0
    /\ r.cpp = Zero => r.closed \/ ~Legal(r.given)

\* Thread j answers for the reference that x was created with.
Answers(j, x) ==
  \/ lobj[j] = x /\ pc[j] \in JavaPlaces \ {"useClient", "useServer"}
  \/ x \in lservers[j] \cup lclients[j]

\* A started object is found by its handle unless one thread is deleting it or
\* in fini, so a Java listener may call back with the handle it is given even
\* before the create has returned; deletes and fini that race finish an object
\* once (com_pro_msg_ProMsgJni.cpp:393-411,529-552,569-587).
OneOwner ==
  \A x \in Objs :
    /\ m_reactor[x] # NULL => x \in Registered \/ \E j \in Javas : Answers(j, x)
    /\ \A j \in Javas : Answers(j, x) => x \notin Registered
    /\ \A i, j \in Javas : Answers(i, x) /\ Answers(j, x) => i = j
    /\ g_s_lock = NULL =>
         \A j \in Javas : ~(lobj[j] = x /\ pc[j] \in {"createClient", "createServer"})

One(b) == IF b THEN 1 ELSE 0

\* The threads that hold a reference to x: the one that answers for it, calls
\* and callbacks.
Answering(x) == {j \in Javas : Answers(j, x)}
Using(x) == {j \in Javas : lobj[j] = x /\ pc[j] \in {"useClient", "useServer"}}
Calling(x) == {w \in Workers : lobj[w] = x}

ObjRefs ==
  \A x \in Objs :
    refs[x] = One(x \in Registered) + One(m_reactor[x] # NULL)
                + Cardinality(Answering(x)) + Cardinality(Using(x))
                + Cardinality(Calling(x))
ListenersLive == \A x \in Objs : x \in m_listener <=> refs[x] > 0

\* Reference counts are exact and a Java listener lives as long as its object:
\* no call works on a dead object (com_pro_msg_ProMsgJni.cpp:930,971).
RefsExact == ObjRefs /\ ListenersLive

\* fini deletes its reactor under a started object only if a delete that has
\* taken the object out of the registry has not finished it yet
\* (com_pro_msg_ProMsgJni.cpp:413,582-586).
ReactorOutlives ==
  \A x \in Objs : m_reactor[x] # NULL /\ m_reactor[x] \notin reactors =>
    \E j \in Javas : pc[j] = "delete" /\ lobj[j] = x

\* The objects that some Java thread has at one of these places: that a create
\* has still to insert, that a delete or fini has finished and not released.
ObjsAt(places) == {x \in Objs : \E j \in Javas : lobj[j] = x /\ pc[j] \in places}
Making == ObjsAt({"createClient", "createServer"})
Closed == ObjsAt({"release", "finiRel"})

\* The objects that a delete or fini has taken out of the registry and not
\* finished yet.
Closing == ObjsAt({"delete"})
             \cup UNION {lservers[j] \cup lclients[j] : j \in Javas}

\* The threads that work on an object: calls and callbacks.
Work == {p \in Threads \X Objs :
           /\ lobj[p[1]] = p[2]
           /\ p[1] \in Javas => pc[p[1]] \in {"useClient", "useServer"}}

Life == INSTANCE ObjectLife WITH
          ready <- g_s_reactor # NULL,
          making <- Making,
          open <- Registered,
          closing <- Closing,
          closed <- Closed,
          work <- Work,
          alive <- m_listener

\* The library implements ObjectLife: handles, looked up by addresses that come
\* back, behave as if each object were closed once, found from its create to its
\* delete or fini, and destroyed with the last call, callback or delete that
\* needs it (com_pro_msg_ProMsgJni.cpp:382-413,501-552,577-587,924-971).
ImplementsObjects == Life!Spec

\* fini returns, and an object taken out of the registry is destroyed in the
\* end, whatever calls and callbacks hold it.
Reclaimed ==
  /\ \A j \in Javas : pc[j] = "fini" ~> pc[j] = "idle"
  /\ \A x \in Objs : (x \notin Registered) ~> (refs[x] = 0 \/ x \in Registered)
==============================================================================
