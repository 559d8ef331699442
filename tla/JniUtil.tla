------------------------------ MODULE JniUtil --------------------------------
(****************************************************************************)
(* The threads of the reactor and the Java virtual machine.  A callback     *)
(* attaches its thread, calls Java and detaches the thread again; so does   *)
(* the destructor of a CMsgClientJni or CMsgServerJni, which runs wherever  *)
(* the last reference is dropped: on a Java thread, on a reactor thread     *)
(* after a callback, or inside one, when Java code deletes an object or a   *)
(* create fails.  A thread-local key tells who has to detach.               *)
(*                                                                          *)
(* The virtual machine may refuse to attach a thread.  It does not detach a *)
(* thread with Java methods on its stack; detaching ends with a pending     *)
(* exception.  The registry is as in JniRegistry, in brief.                 *)
(****************************************************************************)
EXTENDS Integers, FiniteSets

CONSTANTS
  Javas,            \* threads of the virtual machine
  Workers,          \* threads of the reactor
  Objs,             \* addresses of CMsgClientJni and CMsgServerJni objects
  Posix,            \* pthreads: the key has a destructor, JniUtilCleanup_i
  NULL

ASSUME UtilAssumption ==
  /\ NULL \notin Objs
  /\ Javas \cap Workers = {}
  /\ IsFiniteSet(Javas) /\ IsFiniteSet(Workers)
  /\ Posix \in BOOLEAN

Threads == Javas \cup Workers

VARIABLES
  attached,         \* threads for which GetEnv finds an environment
  key,              \* threads whose thread-local value is not NULL
  pending,          \* reactor threads with a Java exception pending
  pc, cobj,         \* a reactor thread's place in a callback, and its object
  lobj,             \* the object that a call from Java on the thread refers to
  dtor, dobj,       \* a thread's place in a destructor, and its object
  started,          \* objects the library may call
  registered,       \* objects in g_s_clients or g_s_servers
  refs,             \* of an object: its CProRefCount
  listeners,        \* objects whose m_listener is a global reference
  nested,           \* history: threads that ran a destructor inside a callback
  refused           \* history: objects destroyed on a thread that the virtual
                    \* machine did not attach

jvm == <<attached, key, pending>>
callback == <<pc, cobj>>
objVars == <<started, registered, refs, listeners>>
vars == <<jvm, callback, lobj, dtor, dobj, objVars, nested, refused>>

Places == {"idle", "check", "attach", "prepare", "java", "detach", "end", "gone"}

\* The one type invariant.
TypeOK ==
  /\ attached \subseteq Threads /\ key \subseteq Threads
  /\ pending \subseteq Workers
  /\ pc \in [Workers -> Places]
  /\ cobj \in [Workers -> Objs \cup {NULL}]
  /\ lobj \in [Threads -> Objs \cup {NULL}]
  /\ dtor \in [Threads -> {"no", "attach", "delete", "detach"}]
  /\ dobj \in [Threads -> Objs \cup {NULL}]
  /\ started \subseteq Objs /\ registered \subseteq Objs
  /\ listeners \subseteq Objs
  /\ refs \in [Objs -> Nat]
  /\ nested \subseteq Workers /\ refused \subseteq Objs

Init ==
  /\ attached = Javas /\ key = {} /\ pending = {}
  /\ pc = [w \in Workers |-> "idle"]
  /\ cobj = [w \in Workers |-> NULL]
  /\ lobj = [t \in Threads |-> NULL]
  /\ dtor = [t \in Threads |-> "no"]
  /\ dobj = [t \in Threads |-> NULL]
  /\ started = {} /\ registered = {} /\ listeners = {}
  /\ refs = [x \in Objs |-> 0]
  /\ nested = {} /\ refused = {}

------------------------------------------------------------------------------
(* JniUtilAttach and JniUtilDetach.                                         *)

\* Java methods are on the thread's stack.
InJava(t) == t \in Javas \/ (t \in Workers /\ pc[t] = "java")

\* Mutant of Attach: the key is not set.
AttachNoKey(t) ==
  /\ attached' = attached \cup {t}
  /\ UNCHANGED <<key, pending, refused>>

\* JniUtilAttach, if it returns an environment.  A thread with a key is taken to
\* be attached.
Attach(t) ==
  /\ \/ t \in attached \cup key /\ UNCHANGED <<attached, key>>
     \/ /\ t \notin attached \cup key
        /\ attached' = attached \cup {t}
        /\ key' = key \cup {t}
  /\ UNCHANGED <<pending, refused>>

\* JniUtilAttach, if it returns NULL.
AttachRefused(t) ==
  /\ t \in Workers \ (attached \cup key)
  /\ refused' = IF dtor[t] = "attach" THEN refused \cup {dobj[t]} ELSE refused
  /\ UNCHANGED jvm

\* Mutant of Detach: the key is not reset.
DetachKeepsKey(t) ==
  /\ IF t \in key /\ ~InJava(t)
     THEN attached' = attached \ {t} /\ pending' = pending \ {t}
     ELSE UNCHANGED <<attached, pending>>
  /\ UNCHANGED key

\* JniUtilDetach: whoever has set the key detaches the thread; the answer of the
\* virtual machine is not looked at.
Detach(t) ==
  /\ IF t \in key /\ ~InJava(t)
     THEN attached' = attached \ {t} /\ pending' = pending \ {t}
     ELSE UNCHANGED <<attached, pending>>
  /\ key' = key \ {t}

------------------------------------------------------------------------------
(* Calls from Java code, in a Java thread or in a listener's callback.      *)

Calls(t) == InJava(t) /\ lobj[t] = NULL /\ dtor[t] = "no"

\* A new object at x, with the global reference to its listener.  (A reference
\* that an earlier object at x has left behind goes out of sight.)
Constructs(x, n) ==
  /\ refs[x] = 0
  /\ \A t \in Threads : dobj[t] # x
  /\ refs' = [refs EXCEPT ![x] = n]
  /\ listeners' = listeners \cup {x}
  /\ refused' = refused \ {x}

\* msgClientCreate and msgServerCreate.
Create(t, x) ==
  /\ Calls(t)
  /\ Constructs(x, 2)
  /\ started' = started \cup {x} /\ registered' = registered \cup {x}
  /\ UNCHANGED <<jvm, callback, lobj, dtor, dobj, nested>>

\* A create whose Init fails: the object is to be released again.
CreateFails(t, x) ==
  /\ Calls(t)
  /\ Constructs(x, 1)
  /\ lobj' = [lobj EXCEPT ![t] = x]
  /\ UNCHANGED <<jvm, callback, dtor, dobj, started, registered, nested>>

\* msgClientDelete and msgServerDelete, up to the Release: the library drops its
\* reference at Fini.
Delete(t, x) ==
  /\ Calls(t)
  /\ x \in registered
  /\ registered' = registered \ {x} /\ started' = started \ {x}
  /\ refs' = [refs EXCEPT ![x] = @ - 1]
  /\ lobj' = [lobj EXCEPT ![t] = x]
  /\ UNCHANGED <<jvm, callback, dtor, dobj, listeners, nested, refused>>

\* Any other call on a handle takes a reference.
Use(t, x) ==
  /\ Calls(t)
  /\ x \in registered
  /\ refs' = [refs EXCEPT ![x] = @ + 1]
  /\ lobj' = [lobj EXCEPT ![t] = x]
  /\ UNCHANGED <<jvm, callback, dtor, dobj, started, registered, listeners,
                 nested, refused>>

\* Mutant of ReleaseOn: one reference too many is dropped.
ReleaseOnTwice(t, x) ==
  /\ refs' = [refs EXCEPT ![x] = @ - 2]
  /\ UNCHANGED <<dtor, dobj>>

\* Release on thread t; the last one begins the destructor.
ReleaseOn(t, x) ==
  /\ refs' = [refs EXCEPT ![x] = @ - 1]
  /\ IF refs[x] = 1
     THEN dtor' = [dtor EXCEPT ![t] = "attach"] /\ dobj' = [dobj EXCEPT ![t] = x]
     ELSE UNCHANGED <<dtor, dobj>>

\* The Release each of them ends with.
CallEnd(t) ==
  /\ lobj[t] # NULL
  /\ ReleaseOn(t, lobj[t])
  /\ lobj' = [lobj EXCEPT ![t] = NULL]
  /\ UNCHANGED <<jvm, callback, started, registered, listeners, nested, refused>>

------------------------------------------------------------------------------
(* CMsgClientJni::~CMsgClientJni and CMsgServerJni::~CMsgServerJni.         *)

\* Mutant of DtorAttach: the destructor is content with GetEnv.
DtorAttachNot(t) ==
  /\ dtor[t] = "attach"
  /\ IF t \in attached
     THEN dtor' = [dtor EXCEPT ![t] = "delete"] /\ UNCHANGED dobj
     ELSE dtor' = [dtor EXCEPT ![t] = "no"] /\ dobj' = [dobj EXCEPT ![t] = NULL]
  /\ UNCHANGED <<jvm, callback, lobj, objVars, nested, refused>>

DtorAttach(t) ==
  /\ dtor[t] = "attach"
  /\ \/ /\ Attach(t)
        /\ dtor' = [dtor EXCEPT ![t] = "delete"]
        /\ UNCHANGED dobj
     \/ /\ AttachRefused(t)
        /\ dtor' = [dtor EXCEPT ![t] = "no"]
        /\ dobj' = [dobj EXCEPT ![t] = NULL]
  /\ UNCHANGED <<callback, lobj, objVars, nested>>

DtorDelete(t) ==
  /\ dtor[t] = "delete"
  /\ listeners' = listeners \ {dobj[t]}
  /\ dtor' = [dtor EXCEPT ![t] = "detach"]
  /\ UNCHANGED <<jvm, callback, lobj, dobj, started, registered, refs, nested,
                 refused>>

DtorDetach(t) ==
  /\ dtor[t] = "detach"
  /\ Detach(t)
  /\ dtor' = [dtor EXCEPT ![t] = "no"]
  /\ dobj' = [dobj EXCEPT ![t] = NULL]
  /\ nested' = IF t \in Workers /\ InJava(t) THEN nested \cup {t} ELSE nested
  /\ UNCHANGED <<callback, lobj, objVars, refused>>

------------------------------------------------------------------------------
(* Callbacks on reactor threads.                                            *)

\* The callback's own code runs, no destructor inside or after it.
Runs(w, place) == pc[w] = place /\ dtor[w] = "no"

At(w, place) == pc' = [pc EXCEPT ![w] = place]

\* The library calls the object, with a reference to it.
CbBegin(w, x) ==
  /\ Runs(w, "idle")
  /\ x \in started
  /\ refs' = [refs EXCEPT ![x] = @ + 1]
  /\ cobj' = [cobj EXCEPT ![w] = x]
  /\ At(w, "check")
  /\ UNCHANGED <<jvm, lobj, dtor, dobj, started, registered, listeners, nested,
                 refused>>

\* The section of m_lock.
CbCheck(w) ==
  /\ Runs(w, "check")
  /\ At(w, IF cobj[w] \in started THEN "attach" ELSE "end")
  /\ UNCHANGED <<jvm, cobj, lobj, dtor, dobj, objVars, nested, refused>>

CbAttach(w) ==
  /\ Runs(w, "attach")
  /\ \/ Attach(w) /\ At(w, "prepare")
     \/ AttachRefused(w) /\ At(w, "end")
  /\ UNCHANGED <<cobj, lobj, dtor, dobj, objVars, nested>>

\* The listener is called.  With an exception pending only an event without
\* Java arguments comes so far (JNI does not say what the call does then).
CbCall(w) ==
  /\ Runs(w, "prepare")
  /\ At(w, "java")
  /\ UNCHANGED <<jvm, cobj, lobj, dtor, dobj, objVars, nested, refused>>

\* An argument cannot be made, for want of memory, because an exception is
\* pending or because the library has been closed: the event is dropped.
CbDrop(w) ==
  /\ Runs(w, "prepare")
  /\ pending' \in {pending, pending \cup {w}}
  /\ At(w, "detach")
  /\ UNCHANGED <<attached, key, cobj, lobj, dtor, dobj, objVars, nested, refused>>

\* The listener returns or throws.  Nothing looks at the exception.
CbReturn(w) ==
  /\ Runs(w, "java") /\ lobj[w] = NULL
  /\ pending' \in {pending, pending \cup {w}}
  /\ At(w, "detach")
  /\ UNCHANGED <<attached, key, cobj, lobj, dtor, dobj, objVars, nested, refused>>

CbDetach(w) ==
  /\ Runs(w, "detach")
  /\ Detach(w)
  /\ At(w, "end")
  /\ UNCHANGED <<cobj, lobj, dtor, dobj, objVars, nested, refused>>

\* The library drops the reference of the callback.
CbEnd(w) ==
  /\ Runs(w, "end")
  /\ ReleaseOn(w, cobj[w])
  /\ cobj' = [cobj EXCEPT ![w] = NULL]
  /\ At(w, "idle")
  /\ UNCHANGED <<jvm, lobj, started, registered, listeners, nested, refused>>

\* The thread ends, with JniUtilCleanup_i where the key has a destructor.
Exit(w) ==
  /\ Runs(w, "idle")
  /\ At(w, "gone")
  /\ key' = key \ {w}
  /\ IF Posix /\ w \in key
     THEN attached' = attached \ {w} /\ pending' = pending \ {w}
     ELSE UNCHANGED <<attached, pending>>
  /\ UNCHANGED <<cobj, lobj, dtor, dobj, objVars, nested, refused>>

------------------------------------------------------------------------------
Next ==
  \/ \E t \in Threads :
       \/ \E x \in Objs : \/ Create(t, x) \/ CreateFails(t, x)
                          \/ Delete(t, x) \/ Use(t, x)
       \/ CallEnd(t) \/ DtorAttach(t) \/ DtorDelete(t) \/ DtorDetach(t)
  \/ \E w \in Workers :
       \/ \E x \in Objs : CbBegin(w, x)
       \/ CbCheck(w) \/ CbAttach(w) \/ CbCall(w) \/ CbDrop(w) \/ CbReturn(w)
       \/ CbDetach(w) \/ CbEnd(w) \/ Exit(w)

Spec == Init /\ [][Next]_vars

------------------------------------------------------------------------------
(* Properties.                                                              *)

\* A thread that works with an environment is attached, through a destructor
\* inside its callback too; the library never detaches a thread of the virtual
\* machine (msg_client_jni.cpp:131-136,167-199, jni_util.cpp:94-167).
EnvValid ==
  /\ \A w \in Workers : pc[w] \in {"prepare", "java", "detach"} => w \in attached
  /\ \A t \in Threads : dtor[t] \in {"delete", "detach"} => t \in attached
  /\ Javas \subseteq attached \ key

\* A reactor thread outside callbacks and destructors is detached, so that it
\* does not keep the virtual machine from ending, and no exception waits for its
\* next event - unless a destructor has run inside one of its callbacks: the
\* destructor takes away the key, so nobody detaches the thread any more
\* (jni_util.cpp:140-167, msg_client_jni.cpp:131-136).
LeavesDetached ==
  \A w \in Workers :
    pc[w] \in {"idle", "gone"} /\ dtor[w] = "no" =>
      /\ w \notin key
      /\ w \in attached \cup pending => w \in nested

\* A listener is there as long as it may be called and goes with its object,
\* except if the virtual machine does not attach the reactor thread that
\* destroys the object (msg_client_jni.cpp:131-136,190, msg_server_jni.cpp:129-139).
ListenerGoes ==
  /\ \A w \in Workers : cobj[w] # NULL => cobj[w] \in listeners
  /\ \A x \in listeners \ refused :
       refs[x] > 0 \/ \E t \in Threads : dobj[t] = x
==============================================================================
