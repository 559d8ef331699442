---------------------------- MODULE JniUtilProofs ----------------------------
(* Theorems about the attachment of threads, for any number of threads and   *)
(* objects, with and without a destructor of the key.                       *)
EXTENDS JniUtil, FiniteSetTheorems, TLAPS

Typed ==
  /\ pc \in [Workers -> Places]
  /\ dtor \in [Threads -> {"no", "attach", "delete", "detach"}]
  /\ lobj \in [Threads -> Objs \cup {NULL}]

\* What the attachment of reactor thread w and its place have to do with each
\* other: an attached thread has the key unless a destructor took it, and has it
\* only where somebody is going to detach.
Sound(w) ==
  /\ w \in key \cup pending => w \in attached
  /\ w \in attached => w \in key \cup nested
  /\ pc[w] \in {"prepare", "java", "detach"} => w \in attached
  /\ dtor[w] \in {"delete", "detach"} => w \in attached
  /\ w \in key =>
       pc[w] \in {"prepare", "java", "detach"} \/ dtor[w] \in {"delete", "detach"}
  /\ dtor[w] # "no" => pc[w] \in {"java", "idle"}
  /\ lobj[w] # NULL => pc[w] = "java" /\ dtor[w] = "no"

ThreadInv ==
  /\ Typed
  /\ Javas \subseteq attached \ key
  /\ \A w \in Workers : Sound(w)

\* The invariant holds at the start ...
LEMMA ThreadInvInit == Init => ThreadInv
BY UtilAssumption DEF Init, ThreadInv, Typed, Sound, Threads, Places

\* ... and gives both properties.
LEMMA ThreadInvSuffices == ThreadInv => EnvValid /\ LeavesDetached
<1> SUFFICES ASSUME ThreadInv
             PROVE  EnvValid /\ LeavesDetached
  OBVIOUS
<1>1. EnvValid
  BY DEF ThreadInv, Sound, EnvValid, Threads
<1>2. LeavesDetached
  BY DEF ThreadInv, Sound, LeavesDetached
<1> QED
  BY <1>1, <1>2

\* The calls from Java leave the attachment alone.
LEMMA CallKeeps ==
  ASSUME ThreadInv, NEW t \in Threads, NEW x \in Objs,
         Create(t, x) \/ CreateFails(t, x) \/ Delete(t, x) \/ Use(t, x)
  PROVE  ThreadInv'
<1>. USE DEF ThreadInv, Typed, jvm, callback
<1>1. /\ UNCHANGED <<attached, key, pending, pc, dtor, nested>>
      /\ Calls(t)
      /\ lobj' = lobj \/ lobj' = [lobj EXCEPT ![t] = x]
  BY DEF Create, CreateFails, Delete, Use
<1>2. Typed'
  BY <1>1
<1>3. \A w \in Workers : Sound(w)'
  BY <1>1, UtilAssumption DEF Sound, Calls, InJava, Threads
<1> QED
  BY <1>1, <1>2, <1>3

\* The last Release of a call, wherever it is made.
LEMMA CallEndKeeps ==
  ASSUME ThreadInv, NEW t \in Threads, CallEnd(t)
  PROVE  ThreadInv'
<1>. USE DEF ThreadInv, Typed, jvm, callback
<1>1. /\ UNCHANGED <<attached, key, pending, pc, nested>>
      /\ lobj[t] # NULL
      /\ lobj' = [lobj EXCEPT ![t] = NULL]
      /\ dtor' = dtor \/ dtor' = [dtor EXCEPT ![t] = "attach"]
  BY DEF CallEnd, ReleaseOn
<1>2. Typed'
  BY <1>1
<1>3. \A w \in Workers : Sound(w)'
  BY <1>1 DEF Sound, Threads
<1> QED
  BY <1>1, <1>2, <1>3

\* A destructor, on a thread of either kind.
LEMMA DtorKeeps ==
  ASSUME ThreadInv, NEW t \in Threads,
         DtorAttach(t) \/ DtorDelete(t) \/ DtorDetach(t)
  PROVE  ThreadInv'
<1>. USE DEF ThreadInv, Typed, jvm, callback
<1>1. CASE DtorAttach(t)
  <2>1. Typed'
    BY <1>1 DEF DtorAttach
  <2>2. Javas \subseteq attached' \ key'
    BY <1>1, UtilAssumption DEF DtorAttach, Attach, AttachRefused, Threads
  <2>3. \A w \in Workers : Sound(w)'
    BY <1>1 DEF DtorAttach, Attach, AttachRefused, Sound, Threads
  <2> QED
    BY <2>1, <2>2, <2>3
<1>2. CASE DtorDelete(t)
  <2>1. Typed'
    BY <1>2 DEF DtorDelete
  <2>2. \A w \in Workers : Sound(w)'
    BY <1>2 DEF DtorDelete, Sound, Threads
  <2> QED
    BY <1>2, <2>1, <2>2 DEF DtorDelete
<1>3. CASE DtorDetach(t)
  <2>1. Typed'
    BY <1>3 DEF DtorDetach
  <2>2. Javas \subseteq attached' \ key'
    BY <1>3, UtilAssumption DEF DtorDetach, Detach, InJava
  <2>3. \A w \in Workers : Sound(w)'
    BY <1>3, UtilAssumption DEF DtorDetach, Detach, InJava, Sound, Threads
  <2> QED
    BY <2>1, <2>2, <2>3
<1> QED
  BY <1>1, <1>2, <1>3

\* A callback, and the end of a reactor thread.
LEMMA CallbackKeeps ==
  ASSUME ThreadInv, NEW w \in Workers,
         \/ \E x \in Objs : CbBegin(w, x)
         \/ CbCheck(w) \/ CbAttach(w) \/ CbCall(w) \/ CbDrop(w) \/ CbReturn(w)
         \/ CbDetach(w) \/ CbEnd(w) \/ Exit(w)
  PROVE  ThreadInv'
<1>. USE UtilAssumption
     DEF ThreadInv, Typed, jvm, callback, objVars, Runs, At, Places, Threads, Sound
<1>1. CASE \E x \in Objs : CbBegin(w, x)
  BY <1>1 DEF CbBegin
<1>2. CASE CbCheck(w)
  BY <1>2 DEF CbCheck
<1>3. CASE CbAttach(w)
  BY <1>3 DEF CbAttach, Attach, AttachRefused
<1>4. CASE CbCall(w)
  BY <1>4 DEF CbCall
<1>5. CASE CbDrop(w)
  BY <1>5 DEF CbDrop
<1>6. CASE CbReturn(w)
  BY <1>6 DEF CbReturn
<1>7. CASE CbDetach(w)
  BY <1>7 DEF CbDetach, Detach, InJava
<1>8. CASE CbEnd(w)
  <2>1. \/ dtor' = dtor
        \/ dtor' = [dtor EXCEPT ![w] = "attach"]
    BY <1>8 DEF CbEnd, ReleaseOn
  <2> QED
    BY <1>8, <2>1 DEF CbEnd
<1>9. CASE Exit(w)
  BY <1>9 DEF Exit
<1> QED
  BY <1>1, <1>2, <1>3, <1>4, <1>5, <1>6, <1>7, <1>8, <1>9

\* The invariant of the whole specification.
THEOREM ThreadsSound == Spec => []ThreadInv
<1>1. ThreadInv /\ [Next]_vars => ThreadInv'
  <2> SUFFICES ASSUME ThreadInv, [Next]_vars
               PROVE  ThreadInv'
    OBVIOUS
  <2>1. CASE UNCHANGED vars
    BY <2>1 DEF ThreadInv, Typed, Sound, vars, jvm, callback
  <2>2. ASSUME NEW t \in Threads, NEW x \in Objs,
               Create(t, x) \/ CreateFails(t, x) \/ Delete(t, x) \/ Use(t, x)
        PROVE  ThreadInv'
    BY <2>2, CallKeeps
  <2>3. ASSUME NEW t \in Threads, CallEnd(t)
        PROVE  ThreadInv'
    BY <2>3, CallEndKeeps
  <2>4. ASSUME NEW t \in Threads,
               DtorAttach(t) \/ DtorDelete(t) \/ DtorDetach(t)
        PROVE  ThreadInv'
    BY <2>4, DtorKeeps
  <2>5. ASSUME NEW w \in Workers,
               \/ \E x \in Objs : CbBegin(w, x)
               \/ CbCheck(w) \/ CbAttach(w) \/ CbCall(w) \/ CbDrop(w) \/ CbReturn(w)
               \/ CbDetach(w) \/ CbEnd(w) \/ Exit(w)
        PROVE  ThreadInv'
    BY <2>5, CallbackKeeps
  <2> QED
    BY <2>1, <2>2, <2>3, <2>4, <2>5 DEF Next
<1> QED
  BY ThreadInvInit, <1>1, PTL DEF Spec

\* No thread works with an environment it is not attached for.
THEOREM UtilEnvValid == Spec => []EnvValid
BY ThreadsSound, ThreadInvSuffices, PTL

\* Only a destructor inside a callback leaves a reactor thread attached.
THEOREM UtilLeavesDetached == Spec => []LeavesDetached
BY ThreadsSound, ThreadInvSuffices, PTL

------------------------------------------------------------------------------
(****************************************************************************)
(* Objects and their listeners.  An object's count tells apart an object    *)
(* that may still be called, which has its listener, and one whose          *)
(* destructor runs; so the counts have to be exact.                         *)
(****************************************************************************)

One(b) == IF b THEN 1 ELSE 0

\* The members of T to which f gives x.
Having(x, T, f) == {t \in T : f[t] = x}

\* The callbacks and the calls from Java that hold a reference to object x.
CallbackRefs(x) == Having(x, Workers, cobj)
CallRefs(x) == Having(x, Threads, lobj)

\* An object that is registered has a reference from the registry and one from
\* the library, which lasts until Fini
\* (com_pro_msg_ProMsgJni.cpp:534-552,582-587).
CountsExact ==
  \A x \in Objs : refs[x] = One(x \in registered) + One(x \in started)
                              + Cardinality(CallbackRefs(x))
                              + Cardinality(CallRefs(x))

\* The library calls the objects that are registered
\* (com_pro_msg_ProMsgJni.cpp:543-551,582-586).
BothHeld == registered = started

\* A thread has an object where it calls it or destroys it.
PlacesHeld ==
  /\ \A w \in Workers : cobj[w] # NULL <=> pc[w] \notin {"idle", "gone"}
  /\ \A t \in Threads : dobj[t] # NULL <=> dtor[t] # "no"
  /\ \A t \in Threads : lobj[t] # NULL => dtor[t] = "no"

\* An object that is destroyed has no reference left, and after the deletion no
\* listener; one that has a reference has a listener
\* (msg_client_jni.cpp:131-136,190).
ListenersHeld ==
  /\ \A t \in Threads : dobj[t] # NULL => refs[dobj[t]] = 0
  /\ \A t \in Threads : dtor[t] = "detach" => dobj[t] \notin listeners
  /\ \A x \in Objs : refs[x] > 0 => x \in listeners
  /\ \A x \in listeners \ refused :
       refs[x] > 0 \/ \E t \in Threads : dobj[t] = x

ObjInv ==
  /\ ThreadInv /\ TypeOK
  /\ CountsExact /\ BothHeld /\ PlacesHeld /\ ListenersHeld

\* Initially there are no objects.
LEMMA InitObj == Init => ObjInv
<1>. SUFFICES ASSUME Init PROVE ObjInv
  OBVIOUS
<1>1. TypeOK /\ BothHeld /\ PlacesHeld /\ ListenersHeld
  BY DEF Init, TypeOK, BothHeld, PlacesHeld, ListenersHeld, Places, Threads
<1>2. CountsExact
  <2>1. \A x \in Objs : CallbackRefs(x) = {} /\ CallRefs(x) = {}
    BY UtilAssumption DEF Init, CallbackRefs, CallRefs, Having
  <2>. QED  BY <2>1, FS_EmptySet DEF Init, CountsExact, One
<1>. QED  BY <1>1, <1>2, ThreadInvInit DEF ObjInv

\* The count of those that have x, when one of them changes.
LEMMA CountChange ==
  ASSUME NEW T, IsFiniteSet(T), NEW t \in T, NEW f, NEW g, NEW x,
         \A s \in T : s # t => g[s] = f[s]
  PROVE  Cardinality(Having(x, T, g))
           = Cardinality(Having(x, T, f)) + One(g[t] = x) - One(f[t] = x)
<1>. DEFINE F == Having(x, T, f)
            G == Having(x, T, g)
<1>1. IsFiniteSet(F) /\ Cardinality(F) \in Nat
  BY FS_Subset, FS_CardinalityType DEF Having
<1>2. CASE g[t] = x <=> f[t] = x
  <2>1. G = F
    BY <1>2 DEF Having
  <2>2. One(g[t] = x) = One(f[t] = x) /\ One(f[t] = x) \in Nat
    BY <1>2 DEF One
  <2>. QED  BY <1>1, <2>1, <2>2
<1>3. CASE g[t] = x /\ f[t] # x
  <2>1. t \notin F /\ G = F \cup {t}
    BY <1>3 DEF Having
  <2>2. Cardinality(F \cup {t}) = Cardinality(F) + 1
    BY <1>1, <2>1, FS_AddElement
  <2>3. One(g[t] = x) = 1 /\ One(f[t] = x) = 0
    BY <1>3 DEF One
  <2>. QED  BY <1>1, <2>1, <2>2, <2>3
<1>4. CASE g[t] # x /\ f[t] = x
  <2>1. t \in F /\ G = F \ {t}
    BY <1>4 DEF Having
  <2>2. Cardinality(F \ {t}) = Cardinality(F) - 1
    BY <1>1, <2>1, FS_RemoveElement
  <2>3. One(g[t] = x) = 0 /\ One(f[t] = x) = 1
    BY <1>4 DEF One
  <2>. QED  BY <1>1, <2>1, <2>2, <2>3
<1>. QED  BY <1>2, <1>3, <1>4

(* There are finitely many threads that could hold a reference.             *)
LEMMA CountsFinite ==
  /\ IsFiniteSet(Workers) /\ IsFiniteSet(Threads)
  /\ \A x : /\ Cardinality(CallbackRefs(x)) \in Nat
            /\ Cardinality(CallRefs(x)) \in Nat
            /\ IsFiniteSet(CallbackRefs(x)) /\ IsFiniteSet(CallRefs(x))
<1>1. IsFiniteSet(Workers) /\ IsFiniteSet(Threads)
  BY UtilAssumption, FS_Union DEF Threads
<1>2. \A x : IsFiniteSet(CallbackRefs(x)) /\ IsFiniteSet(CallRefs(x))
  BY <1>1, FS_Subset DEF CallbackRefs, CallRefs, Having
<1>. QED  BY <1>1, <1>2, FS_CardinalityType

\* Whoever has a reference to an object finds it alive.
LEMMA Alive ==
  ASSUME ObjInv, NEW x \in Objs
  PROVE  /\ refs[x] = One(x \in registered) + One(x \in started)
                        + Cardinality(CallbackRefs(x)) + Cardinality(CallRefs(x))
         /\ refs[x] \in Nat
         /\ x \in registered \cup started => refs[x] > 1
         /\ \A w \in Workers : cobj[w] = x => refs[x] > 0
         /\ \A t \in Threads : lobj[t] = x => refs[x] > 0
<1>1. refs[x] = One(x \in registered) + One(x \in started)
                  + Cardinality(CallbackRefs(x)) + Cardinality(CallRefs(x))
  BY DEF ObjInv, CountsExact
<1>2. /\ One(x \in registered) \in Nat /\ One(x \in started) \in Nat
      /\ x \in registered \cup started =>
           One(x \in registered) = 1 /\ One(x \in started) = 1
  BY DEF One, ObjInv, BothHeld
<1>3. /\ Cardinality(CallbackRefs(x)) \in Nat /\ Cardinality(CallRefs(x)) \in Nat
      /\ CallbackRefs(x) # {} => Cardinality(CallbackRefs(x)) # 0
      /\ CallRefs(x) # {} => Cardinality(CallRefs(x)) # 0
  BY CountsFinite, FS_EmptySet
<1>4. /\ \A w \in Workers : cobj[w] = x => CallbackRefs(x) # {}
      /\ \A t \in Threads : lobj[t] = x => CallRefs(x) # {}
  BY DEF CallbackRefs, CallRefs, Having
<1>5. refs[x] \in Nat
  BY <1>1, <1>2, <1>3
<1>6. x \in registered \cup started => refs[x] > 1
  BY <1>1, <1>2, <1>3, Z3
<1>7. CallbackRefs(x) # {} \/ CallRefs(x) # {} => refs[x] > 0
  <2>1. CallbackRefs(x) # {} \/ CallRefs(x) # {} =>
          Cardinality(CallbackRefs(x)) # 0 \/ Cardinality(CallRefs(x)) # 0
    BY <1>3
  <2>2. Cardinality(CallbackRefs(x)) # 0 \/ Cardinality(CallRefs(x)) # 0
          => refs[x] > 0
    BY <1>1, <1>2, <1>3, Z3
  <2>. QED  BY <2>1, <2>2
<1>. QED  BY <1>1, <1>4, <1>5, <1>6, <1>7

\* A step that leaves the counts and what they count alone.
LEMMA CountsFrame ==
  ASSUME ObjInv, UNCHANGED <<refs, registered, started, cobj, lobj>>
  PROVE  CountsExact'
BY DEF ObjInv, CountsExact, CallbackRefs, CallRefs

\* The counts of callbacks and calls, when one thread's object changes.
LEMMA CallbackCount ==
  ASSUME NEW w \in Workers, \A v \in Workers : v # w => cobj'[v] = cobj[v]
  PROVE  \A x : Cardinality(CallbackRefs(x)')
                  = Cardinality(CallbackRefs(x)) + One(cobj'[w] = x)
                      - One(cobj[w] = x)
<1>1. IsFiniteSet(Workers)
  BY CountsFinite
<1>. QED  BY <1>1, CountChange DEF CallbackRefs

(* A call moves its own reference only.                                     *)
LEMMA CallCount ==
  ASSUME NEW t \in Threads, \A s \in Threads : s # t => lobj'[s] = lobj[s]
  PROVE  \A x : Cardinality(CallRefs(x)')
                  = Cardinality(CallRefs(x)) + One(lobj'[t] = x) - One(lobj[t] = x)
<1>1. IsFiniteSet(Threads)
  BY CountsFinite
<1>. QED  BY <1>1, CountChange DEF CallRefs

\* A callback that begins or ends moves one reference.
LEMMA CallbackMoves ==
  ASSUME ObjInv, NEW w \in Workers, UNCHANGED <<registered, started, lobj>>,
         \A v \in Workers : v # w => cobj'[v] = cobj[v],
         NEW x \in Objs, refs'[x] \in Int,
         refs'[x] + One(cobj[w] = x) = refs[x] + One(cobj'[w] = x)
  PROVE  refs'[x] = One(x \in registered') + One(x \in started')
                      + Cardinality(CallbackRefs(x)') + Cardinality(CallRefs(x)')
<1>1. Cardinality(CallbackRefs(x)')
        = Cardinality(CallbackRefs(x)) + One(cobj'[w] = x) - One(cobj[w] = x)
  BY CallbackCount
<1>2. CallRefs(x)' = CallRefs(x)
  BY DEF CallRefs
<1>3. /\ One(x \in registered) \in Nat /\ One(x \in started) \in Nat
      /\ One(cobj'[w] = x) \in Nat /\ One(cobj[w] = x) \in Nat
      /\ Cardinality(CallbackRefs(x)) \in Nat /\ Cardinality(CallRefs(x)) \in Nat
  BY CountsFinite DEF One
<1>4. refs[x] = One(x \in registered) + One(x \in started)
                  + Cardinality(CallbackRefs(x)) + Cardinality(CallRefs(x))
  BY Alive
<1>. QED  BY <1>1, <1>2, <1>3, <1>4, Z3

\* A call from Java moves references between the registry, the library and the
\* thread.
LEMMA CallMoves ==
  ASSUME ObjInv, NEW t \in Threads, UNCHANGED cobj,
         \A s \in Threads : s # t => lobj'[s] = lobj[s],
         NEW x \in Objs, refs'[x] \in Int,
         refs'[x] + One(x \in registered) + One(x \in started) + One(lobj[t] = x)
           = refs[x] + One(x \in registered') + One(x \in started')
               + One(lobj'[t] = x)
  PROVE  refs'[x] = One(x \in registered') + One(x \in started')
                      + Cardinality(CallbackRefs(x)') + Cardinality(CallRefs(x)')
<1>1. Cardinality(CallRefs(x)')
        = Cardinality(CallRefs(x)) + One(lobj'[t] = x) - One(lobj[t] = x)
  BY CallCount
<1>2. CallbackRefs(x)' = CallbackRefs(x)
  BY DEF CallbackRefs
<1>3. /\ One(x \in registered) \in Nat /\ One(x \in registered') \in Nat
      /\ One(x \in started) \in Nat /\ One(x \in started') \in Nat
      /\ One(lobj'[t] = x) \in Nat /\ One(lobj[t] = x) \in Nat
      /\ Cardinality(CallbackRefs(x)) \in Nat /\ Cardinality(CallRefs(x)) \in Nat
  BY CountsFinite DEF One
<1>4. refs[x] = One(x \in registered) + One(x \in started)
                  + Cardinality(CallbackRefs(x)) + Cardinality(CallRefs(x))
  BY Alive
<1>. QED  BY <1>1, <1>2, <1>3, <1>4, Z3

\* The counts are numbers because they count.
LEMMA CountsType ==
  ASSUME CountsExact', refs' = [x \in Objs |-> refs'[x]]
  PROVE  refs' \in [Objs -> Nat]
<1>1. ASSUME NEW x \in Objs PROVE refs'[x] \in Nat
  <2>1. Cardinality(CallbackRefs(x)') \in Nat /\ Cardinality(CallRefs(x)') \in Nat
    BY CountsFinite, FS_Subset, FS_CardinalityType
       DEF CallbackRefs, CallRefs, Having
  <2>2. One(x \in registered') \in Nat /\ One(x \in started') \in Nat
    BY DEF One
  <2>. QED  BY <2>1, <2>2, Z3 DEF CountsExact
<1>. QED  BY <1>1

\* What the steps use of the invariant.
LEMMA FromObjInv ==
  ASSUME ObjInv
  PROVE  /\ TypeOK /\ BothHeld /\ PlacesHeld /\ ListenersHeld
         /\ refs \in [Objs -> Nat]
         /\ \A x \in registered \cup started : x \in Objs /\ refs[x] > 1
         /\ \A w \in Workers : cobj[w] # NULL => refs[cobj[w]] > 0
         /\ \A t \in Threads : lobj[t] # NULL => refs[lobj[t]] > 0
<1>1. TypeOK /\ BothHeld /\ PlacesHeld /\ ListenersHeld
  BY DEF ObjInv
<1>. QED  BY <1>1, Alive DEF TypeOK

(* A new object is one nobody refers to, and one that has a listener.       *)
LEMMA CreateObj ==
  ASSUME ObjInv, NEW t \in Threads, NEW x \in Objs,
         Create(t, x) \/ CreateFails(t, x)
  PROVE  TypeOK' /\ CountsExact' /\ BothHeld' /\ PlacesHeld' /\ ListenersHeld'
<1>. USE FromObjInv DEF TypeOK
<1>1. /\ refs[x] = 0 /\ \A s \in Threads : dobj[s] # x
      /\ \E n \in {1, 2} : refs' = [refs EXCEPT ![x] = n]
      /\ listeners' = listeners \cup {x} /\ refused' = refused \ {x}
      /\ UNCHANGED <<jvm, callback, dtor, dobj, nested>>
      /\ lobj[t] = NULL /\ dtor[t] = "no"
      /\ lobj' = lobj \/ lobj' = [lobj EXCEPT ![t] = x]
  BY DEF Create, CreateFails, Constructs, Calls
<1>2. x \notin registered \cup started
  BY <1>1
<1>3. \A y \in Objs : y # x => refs'[y] = refs[y]
  BY <1>1
<1>4. refs'[x] \in {1, 2}
  BY <1>1
<1>5. CountsExact'
  <2>1. ASSUME NEW y \in Objs
        PROVE  refs'[y] = One(y \in registered') + One(y \in started')
                            + Cardinality(CallbackRefs(y)')
                            + Cardinality(CallRefs(y)')
    <3>1. /\ refs'[y] \in Int
          /\ refs'[y] + One(y \in registered) + One(y \in started)
                + One(lobj[t] = y)
              = refs[y] + One(y \in registered') + One(y \in started')
                  + One(lobj'[t] = y)
      <4>1. CASE y = x /\ Create(t, x)
        BY <1>1, <1>2, <4>1, UtilAssumption DEF Create, Constructs, One
      <4>2. CASE y = x /\ CreateFails(t, x)
        BY <1>1, <1>2, <4>2, UtilAssumption DEF CreateFails, Constructs, One
      <4>3. CASE y # x
        BY <1>1, <1>3, <4>3, UtilAssumption DEF Create, CreateFails, One
      <4>. QED  BY <4>1, <4>2, <4>3
    <3>2. UNCHANGED cobj /\ \A s \in Threads : s # t => lobj'[s] = lobj[s]
      BY <1>1 DEF callback
    <3>. QED  BY <3>1, <3>2, CallMoves
  <2>. QED  BY <2>1 DEF CountsExact
<1>6. TypeOK'
  <2>1. refs' \in [Objs -> Nat]
    BY <1>1
  <2>2. registered' \subseteq Objs /\ started' \subseteq Objs
    BY DEF Create, CreateFails
  <2>. QED  BY <1>1, <2>1, <2>2 DEF jvm, callback
<1>7. PlacesHeld'
  BY <1>1, UtilAssumption DEF PlacesHeld, callback
<1>8. ListenersHeld'
  <2>1. \A s \in Threads : dobj'[s] # NULL => refs'[dobj'[s]] = 0
    BY <1>1, <1>3 DEF ListenersHeld
  <2>2. \A s \in Threads : dtor'[s] = "detach" => dobj'[s] \notin listeners'
    BY <1>1 DEF ListenersHeld
  <2>3. \A y \in Objs : refs'[y] > 0 => y \in listeners'
    BY <1>1, <1>3 DEF ListenersHeld
  <2>4. \A y \in listeners' \ refused' :
          refs'[y] > 0 \/ \E s \in Threads : dobj'[s] = y
    BY <1>1, <1>3, <1>4 DEF ListenersHeld
  <2>. QED  BY <2>1, <2>2, <2>3, <2>4 DEF ListenersHeld
<1>9. BothHeld'
  BY DEF BothHeld, Create, CreateFails, Delete, Use
<1>. QED  BY <1>5, <1>6, <1>7, <1>8, <1>9

(* Delete and the other calls on a handle have a reference to a registered  *)
(* object, which is alive.                                                  *)
LEMMA HandleObj ==
  ASSUME ObjInv, NEW t \in Threads, NEW x \in Objs, Delete(t, x) \/ Use(t, x)
  PROVE  TypeOK' /\ CountsExact' /\ BothHeld' /\ PlacesHeld' /\ ListenersHeld'
<1>. USE FromObjInv DEF TypeOK
<1>1. /\ x \in registered /\ x \in started /\ refs[x] > 1
      /\ \E n \in {refs[x] - 1, refs[x] + 1} : refs' = [refs EXCEPT ![x] = n]
      /\ UNCHANGED <<jvm, callback, dtor, dobj, nested, listeners, refused>>
      /\ lobj[t] = NULL /\ dtor[t] = "no"
      /\ lobj' = [lobj EXCEPT ![t] = x]
  BY DEF Delete, Use, Calls, BothHeld
<1>3. \A y \in Objs : y # x => refs'[y] = refs[y]
  BY <1>1
<1>5. CountsExact'
  <2>1. ASSUME NEW y \in Objs
        PROVE  refs'[y] = One(y \in registered') + One(y \in started')
                            + Cardinality(CallbackRefs(y)')
                            + Cardinality(CallRefs(y)')
    <3>1. /\ refs'[y] \in Int
          /\ refs'[y] + One(y \in registered) + One(y \in started)
                + One(lobj[t] = y)
              = refs[y] + One(y \in registered') + One(y \in started')
                  + One(lobj'[t] = y)
      <4>1. CASE y = x /\ Delete(t, x)
        BY <1>1, <4>1, UtilAssumption DEF BothHeld, Delete, One
      <4>2. CASE y = x /\ Use(t, x)
        BY <1>1, <4>2, UtilAssumption DEF Use, One
      <4>3. CASE y # x
        BY <1>1, <1>3, <4>3, UtilAssumption DEF Delete, Use, One
      <4>. QED  BY <4>1, <4>2, <4>3
    <3>2. UNCHANGED cobj /\ \A s \in Threads : s # t => lobj'[s] = lobj[s]
      BY <1>1 DEF callback
    <3>. QED  BY <3>1, <3>2, CallMoves
  <2>. QED  BY <2>1 DEF CountsExact
<1>6. TypeOK'
  <2>1. refs' = [y \in Objs |-> refs'[y]]
    BY <1>1
  <2>2. refs' \in [Objs -> Nat]
    BY <1>5, <2>1, CountsType
  <2>3. registered' \subseteq Objs /\ started' \subseteq Objs
    BY DEF Delete, Use
  <2>. QED  BY <1>1, <2>2, <2>3 DEF jvm, callback
<1>7. PlacesHeld'
  BY <1>1, UtilAssumption DEF PlacesHeld, callback
<1>8. ListenersHeld'
  <2>0. \A s \in Threads : dobj[s] # x /\ x \in listeners
    BY <1>1, UtilAssumption DEF ListenersHeld
  <2>1. refs'[x] > 0
    BY <1>1
  <2>. QED  BY <1>1, <1>3, <2>0, <2>1 DEF ListenersHeld
<1>9. BothHeld'
  BY DEF BothHeld, Create, CreateFails, Delete, Use
<1>. QED  BY <1>5, <1>6, <1>7, <1>8, <1>9

(* A Release takes away one reference; the last one begins the destructor,  *)
(* of an object that still has its listener                                 *)
(* (msg_client_jni.cpp:131-136).                                            *)
LEMMA ReleaseListeners ==
  ASSUME ObjInv, NEW t \in Threads, NEW x \in Objs, refs[x] > 0,
         ReleaseOn(t, x), dtor[t] = "no", UNCHANGED <<listeners, refused>>
  PROVE  ListenersHeld' /\ \A y \in Objs : refs'[y] \in Int
<1>. USE FromObjInv DEF TypeOK
<1>1. /\ refs[x] \in Nat /\ refs'[x] = refs[x] - 1
      /\ \A y \in Objs : y # x => refs'[y] = refs[y]
      /\ refs' = [refs EXCEPT ![x] = @ - 1]
  BY DEF ReleaseOn
<1>2. /\ refs[x] = 1 => /\ dtor' = [dtor EXCEPT ![t] = "attach"]
                        /\ dobj' = [dobj EXCEPT ![t] = x]
      /\ refs[x] # 1 => UNCHANGED <<dtor, dobj>>
  BY DEF ReleaseOn
<1>3. \A s \in Threads : dobj[s] # x
  BY UtilAssumption DEF ListenersHeld
<1>4. /\ \A s \in Threads : dobj'[s] \in {x, dobj[s]}
      /\ \A s \in Threads : dtor'[s] = "detach" =>
           dtor[s] = "detach" /\ dobj'[s] = dobj[s]
      /\ \A s \in Threads : s # t => dobj'[s] = dobj[s]
      /\ dobj[t] = NULL
  BY <1>2 DEF PlacesHeld
<1>5. \A s \in Threads : dobj'[s] # NULL => refs'[dobj'[s]] = 0
  <2>1. CASE refs[x] = 1
    <3>1. refs'[x] = 0
      BY <1>1, <2>1
    <3>. QED  BY <1>1, <1>3, <1>4, <3>1 DEF ListenersHeld
  <2>2. CASE refs[x] # 1
    BY <1>1, <1>2, <1>3, <2>2 DEF ListenersHeld
  <2>. QED  BY <2>1, <2>2
<1>6. \A s \in Threads : dtor'[s] = "detach" => dobj'[s] \notin listeners'
  BY <1>4 DEF ListenersHeld
<1>7. \A y \in Objs : refs'[y] > 0 => y \in listeners'
  BY <1>1 DEF ListenersHeld
<1>8. \A y \in listeners' \ refused' :
        refs'[y] > 0 \/ \E s \in Threads : dobj'[s] = y
  <2>1. ASSUME NEW y \in listeners \ refused
        PROVE  refs'[y] > 0 \/ \E s \in Threads : dobj'[s] = y
    <3>1. CASE y # x
      <4>1. refs[y] > 0 \/ \E s \in Threads : dobj[s] = y
        BY DEF ListenersHeld
      <4>2. \A s \in Threads : dobj[s] = y => s # t
        BY <1>4, UtilAssumption
      <4>. QED  BY <1>1, <1>4, <3>1, <4>1, <4>2
    <3>2. CASE y = x
      <4>1. CASE refs[x] = 1
        BY <1>2, <3>2, <4>1
      <4>2. CASE refs[x] # 1
        BY <1>1, <3>2, <4>2
      <4>. QED  BY <4>1, <4>2
    <3>. QED  BY <3>1, <3>2
  <2>. QED  BY <2>1
<1>. QED  BY <1>1, <1>5, <1>6, <1>7, <1>8 DEF ListenersHeld

(* A call gives its reference back, and may be the last to do so.           *)
LEMMA CallEndObj ==
  ASSUME ObjInv, NEW t \in Threads, CallEnd(t)
  PROVE  TypeOK' /\ CountsExact' /\ BothHeld' /\ PlacesHeld' /\ ListenersHeld'
<1>. USE FromObjInv DEF TypeOK
<1>1. PICK x \in Objs : lobj[t] = x
  BY DEF CallEnd
<1>2. /\ ReleaseOn(t, x) /\ refs[x] > 0 /\ dtor[t] = "no"
      /\ lobj' = [lobj EXCEPT ![t] = NULL]
      /\ UNCHANGED <<jvm, callback, started, registered, listeners, nested, refused>>
  BY <1>1, UtilAssumption DEF CallEnd, PlacesHeld
<1>3. ListenersHeld' /\ \A y \in Objs : refs'[y] \in Int
  BY <1>2, ReleaseListeners
<1>4. /\ refs' = [refs EXCEPT ![x] = @ - 1]
      /\ \/ UNCHANGED <<dtor, dobj>>
         \/ /\ dtor' = [dtor EXCEPT ![t] = "attach"]
            /\ dobj' = [dobj EXCEPT ![t] = x]
  BY <1>2 DEF ReleaseOn
<1>5. CountsExact'
  <2>1. ASSUME NEW y \in Objs
        PROVE  refs'[y] = One(y \in registered') + One(y \in started')
                            + Cardinality(CallbackRefs(y)')
                            + Cardinality(CallRefs(y)')
    <3>1. One(lobj[t] = y) = One(y = x) /\ One(lobj'[t] = y) = 0
      BY <1>1, <1>2, UtilAssumption DEF One
    <3>2. refs'[y] + One(y = x) = refs[y]
      BY <1>3, <1>4 DEF One
    <3>3. /\ One(y \in registered') = One(y \in registered)
          /\ One(y \in started') = One(y \in started)
          /\ One(y \in registered) \in Nat /\ One(y \in started) \in Nat
          /\ One(y = x) \in Nat
      BY <1>2 DEF One
    <3>4. refs'[y] + One(y \in registered) + One(y \in started)
                + One(lobj[t] = y)
              = refs[y] + One(y \in registered') + One(y \in started')
                  + One(lobj'[t] = y)
      BY <1>3, <3>1, <3>2, <3>3, Z3
    <3>5. UNCHANGED cobj /\ \A s \in Threads : s # t => lobj'[s] = lobj[s]
      BY <1>2 DEF callback
    <3>. QED  BY <1>3, <3>4, <3>5, CallMoves
  <2>. QED  BY <2>1 DEF CountsExact
<1>6. TypeOK'
  <2>1. refs' = [y \in Objs |-> refs'[y]]
    BY <1>4
  <2>2. refs' \in [Objs -> Nat]
    BY <1>5, <2>1, CountsType
  <2>. QED  BY <1>2, <1>4, <2>2 DEF jvm, callback
<1>7. PlacesHeld'
  BY <1>1, <1>2, <1>4, UtilAssumption DEF PlacesHeld, callback
<1>8. BothHeld'
  BY <1>2 DEF BothHeld
<1>. QED  BY <1>3, <1>5, <1>6, <1>7, <1>8

(* The destructor's own steps.                                              *)
LEMMA DtorObj ==
  ASSUME ObjInv, NEW t \in Threads,
         DtorAttach(t) \/ DtorDelete(t) \/ DtorDetach(t)
  PROVE  TypeOK' /\ CountsExact' /\ BothHeld' /\ PlacesHeld' /\ ListenersHeld'
<1>. USE FromObjInv DEF TypeOK, objVars, callback
<1>1. /\ UNCHANGED <<refs, registered, started, cobj, lobj, pc>>
      /\ dtor[t] # "no" /\ dobj[t] \in Objs
  BY DEF DtorAttach, DtorDelete, DtorDetach, PlacesHeld
<1>2. CountsExact'
  BY <1>1, CountsFrame
<1>3. BothHeld'
  BY <1>1 DEF BothHeld
<1>4. CASE DtorAttach(t)
  <2>1. TypeOK'
    BY <1>1, <1>4 DEF DtorAttach, Attach, AttachRefused, Threads, jvm
  <2>2. PlacesHeld'
    BY <1>1, <1>4, UtilAssumption DEF DtorAttach, PlacesHeld
  <2>3. ListenersHeld'
    BY <1>1, <1>4, UtilAssumption
       DEF DtorAttach, Attach, AttachRefused, ListenersHeld
  <2>. QED  BY <1>2, <1>3, <2>1, <2>2, <2>3
<1>5. CASE DtorDelete(t)
  <2>1. TypeOK'
    BY <1>1, <1>5 DEF DtorDelete, jvm
  <2>2. PlacesHeld'
    BY <1>1, <1>5, UtilAssumption DEF DtorDelete, PlacesHeld
  <2>3. ListenersHeld'
    BY <1>1, <1>5, UtilAssumption DEF DtorDelete, ListenersHeld, PlacesHeld
  <2>. QED  BY <1>2, <1>3, <2>1, <2>2, <2>3
<1>6. CASE DtorDetach(t)
  <2>1. TypeOK'
    BY <1>1, <1>6 DEF DtorDetach, Detach, InJava
  <2>2. PlacesHeld'
    BY <1>1, <1>6, UtilAssumption DEF DtorDetach, PlacesHeld
  <2>3. ListenersHeld'
    BY <1>1, <1>6, UtilAssumption DEF DtorDetach, ListenersHeld
  <2>. QED  BY <1>2, <1>3, <2>1, <2>2, <2>3
<1>. QED  BY <1>4, <1>5, <1>6

(* The steps of a callback.                                                 *)
LEMMA CbBeginObj ==
  ASSUME ObjInv, NEW w \in Workers, NEW x \in Objs, CbBegin(w, x)
  PROVE  TypeOK' /\ CountsExact' /\ BothHeld' /\ PlacesHeld' /\ ListenersHeld'
<1>. USE FromObjInv DEF TypeOK
<1>1. /\ x \in started /\ refs[x] > 1 /\ pc[w] = "idle" /\ cobj[w] = NULL
      /\ refs' = [refs EXCEPT ![x] = @ + 1]
      /\ cobj' = [cobj EXCEPT ![w] = x]
      /\ pc' = [pc EXCEPT ![w] = "check"]
      /\ UNCHANGED <<jvm, lobj, dtor, dobj, started, registered, listeners,
                     nested, refused>>
  BY DEF CbBegin, Runs, At, PlacesHeld
<1>2. /\ refs'[x] = refs[x] + 1
      /\ \A y \in Objs : y # x => refs'[y] = refs[y]
      /\ refs' \in [Objs -> Nat]
  BY <1>1
<1>3. CountsExact'
  <2>1. ASSUME NEW y \in Objs
        PROVE  refs'[y] = One(y \in registered') + One(y \in started')
                            + Cardinality(CallbackRefs(y)')
                            + Cardinality(CallRefs(y)')
    <3>1. refs'[y] \in Int /\ refs'[y] + One(cobj[w] = y) = refs[y] + One(cobj'[w] = y)
      BY <1>1, <1>2, UtilAssumption DEF One
    <3>2. /\ UNCHANGED <<registered, started, lobj>>
          /\ \A v \in Workers : v # w => cobj'[v] = cobj[v]
      BY <1>1
    <3>. QED  BY <3>1, <3>2, CallbackMoves
  <2>. QED  BY <2>1 DEF CountsExact
<1>4. TypeOK'
  BY <1>1, <1>2 DEF jvm, Places
<1>5. PlacesHeld' /\ BothHeld'
  BY <1>1, UtilAssumption DEF PlacesHeld, BothHeld
<1>6. ListenersHeld'
  <2>1. \A s \in Threads : dobj[s] # x
    BY <1>1, UtilAssumption DEF ListenersHeld
  <2>. QED  BY <1>1, <1>2, <2>1 DEF ListenersHeld
<1>. QED  BY <1>3, <1>4, <1>5, <1>6

(* So does a callback.                                                      *)
LEMMA CbEndObj ==
  ASSUME ObjInv, NEW w \in Workers, CbEnd(w)
  PROVE  TypeOK' /\ CountsExact' /\ BothHeld' /\ PlacesHeld' /\ ListenersHeld'
<1>. USE FromObjInv DEF TypeOK
<1>1. PICK x \in Objs : cobj[w] = x
  BY DEF CbEnd, Runs, PlacesHeld
<1>2. /\ ReleaseOn(w, x) /\ refs[x] > 0 /\ dtor[w] = "no" /\ w \in Threads
      /\ lobj[w] = NULL
      /\ cobj' = [cobj EXCEPT ![w] = NULL]
      /\ pc' = [pc EXCEPT ![w] = "idle"]
      /\ UNCHANGED <<jvm, lobj, started, registered, listeners, nested, refused>>
  BY <1>1, UtilAssumption
     DEF CbEnd, Runs, At, Threads, ObjInv, ThreadInv, Sound
<1>3. ListenersHeld' /\ \A y \in Objs : refs'[y] \in Int
  BY <1>2, ReleaseListeners
<1>4. /\ refs' = [refs EXCEPT ![x] = @ - 1]
      /\ \/ UNCHANGED <<dtor, dobj>>
         \/ /\ dtor' = [dtor EXCEPT ![w] = "attach"]
            /\ dobj' = [dobj EXCEPT ![w] = x]
  BY <1>2 DEF ReleaseOn
<1>5. CountsExact'
  <2>1. ASSUME NEW y \in Objs
        PROVE  refs'[y] = One(y \in registered') + One(y \in started')
                            + Cardinality(CallbackRefs(y)')
                            + Cardinality(CallRefs(y)')
    <3>1. refs'[y] + One(cobj[w] = y) = refs[y] + One(cobj'[w] = y)
      BY <1>1, <1>2, <1>4, UtilAssumption DEF One
    <3>2. /\ UNCHANGED <<registered, started, lobj>>
          /\ \A v \in Workers : v # w => cobj'[v] = cobj[v]
      BY <1>2
    <3>. QED  BY <1>3, <3>1, <3>2, CallbackMoves
  <2>. QED  BY <2>1 DEF CountsExact
<1>6. TypeOK'
  <2>1. refs' = [y \in Objs |-> refs'[y]]
    BY <1>4
  <2>2. refs' \in [Objs -> Nat]
    BY <1>5, <2>1, CountsType
  <2>. QED  BY <1>2, <1>4, <2>2 DEF jvm, Places
<1>7. PlacesHeld'
  BY <1>1, <1>2, <1>4, UtilAssumption DEF PlacesHeld
<1>8. BothHeld'
  BY <1>2 DEF BothHeld
<1>. QED  BY <1>3, <1>5, <1>6, <1>7, <1>8

(* What a callback does in between leaves the references alone.             *)
LEMMA CallbackObj ==
  ASSUME ObjInv, NEW w \in Workers,
         \/ CbCheck(w) \/ CbAttach(w) \/ CbCall(w) \/ CbDrop(w) \/ CbReturn(w)
         \/ CbDetach(w) \/ Exit(w)
  PROVE  TypeOK' /\ CountsExact' /\ BothHeld' /\ PlacesHeld' /\ ListenersHeld'
<1>. USE FromObjInv, UtilAssumption DEF TypeOK, objVars, jvm
<1>1. /\ UNCHANGED <<lobj, dtor, dobj, cobj, started, registered, refs, listeners,
                     nested, refused>>
      /\ \E p \in Places : /\ pc' = [pc EXCEPT ![w] = p]
                           /\ p \in {"idle", "gone"} <=> pc[w] \in {"idle", "gone"}
      /\ attached' \subseteq Threads /\ key' \subseteq Threads
      /\ pending' \subseteq Workers
  <2>1. CASE CbCheck(w)
    BY <2>1 DEF CbCheck, Runs, At, Places
  <2>2. CASE CbAttach(w)
    BY <2>2 DEF CbAttach, Attach, AttachRefused, Runs, At, Places, Threads
  <2>3. CASE CbCall(w) \/ CbDrop(w) \/ CbReturn(w)
    BY <2>3 DEF CbCall, CbDrop, CbReturn, Runs, At, Places
  <2>4. CASE CbDetach(w) \/ Exit(w)
    BY <2>4 DEF CbDetach, Exit, Detach, Runs, At, Places
  <2>. QED  BY <2>1, <2>2, <2>3, <2>4
<1>2. CountsExact'
  BY <1>1, CountsFrame
<1>3. TypeOK' /\ PlacesHeld' /\ BothHeld'
  BY <1>1 DEF PlacesHeld, BothHeld
<1>4. ListenersHeld'
  BY <1>1 DEF ListenersHeld
<1>. QED  BY <1>2, <1>3, <1>4

\* The invariant of threads and objects.
THEOREM ObjectsSound == Spec => []ObjInv
<1>1. ObjInv /\ [Next]_vars /\ ThreadInv' => ObjInv'
  <2> SUFFICES ASSUME ObjInv, [Next]_vars, ThreadInv'
               PROVE  TypeOK' /\ CountsExact' /\ BothHeld' /\ PlacesHeld' /\ ListenersHeld'
    BY DEF ObjInv
  <2>1. CASE UNCHANGED vars
    BY <2>1, FromObjInv, CountsFrame
       DEF vars, jvm, callback, objVars, TypeOK, BothHeld, PlacesHeld, ListenersHeld
  <2>. QED
    BY <2>1, CreateObj, HandleObj, CallEndObj, DtorObj, CbBeginObj, CbEndObj,
       CallbackObj
       DEF Next
<1>. QED  BY InitObj, ThreadsSound, <1>1, PTL DEF Spec

(* Every variable keeps its type; above all, no count falls below zero.     *)
THEOREM UtilTypeCorrect == Spec => []TypeOK
<1>1. ObjInv => TypeOK
  BY DEF ObjInv
<1>. QED  BY <1>1, ObjectsSound, PTL

(* A listener is there as long as it may be called and goes with its        *)
(* object, except if the virtual machine does not attach the thread that    *)
(* destroys the object (msg_client_jni.cpp:131-136,190).                    *)
THEOREM UtilListenerGoes == Spec => []ListenerGoes
<1>1. ObjInv => ListenerGoes
  BY FromObjInv DEF ListenersHeld, ListenerGoes, TypeOK
<1>. QED  BY <1>1, ObjectsSound, PTL
==============================================================================
