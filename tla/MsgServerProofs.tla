--------------------------- MODULE MsgServerProofs ---------------------------
(****************************************************************************)
(* Proofs about MsgServer, for any numbers of threads and objects and any   *)
(* peers and configurations.  The invariants of the model support each      *)
(* other: who is online depends on whom the passwords were taken from, that *)
(* on the address not being reused under a check, that on the reference     *)
(* counts, and those on every server having one owner.                      *)
(****************************************************************************)
EXTENDS MsgServer, FiniteSetTheorems, TLAPS

\* The members are set and reset together (msg_server.cpp:378-386,417-424).
MembersTogether ==
  /\ m_reactor <=> m_msgServer # NULL
  /\ m_sslConfig # NULL => m_reactor

\* A thread has a server where it uses or deletes one, a TLS configuration only
\* where it is about to delete it, and a peer where it checks one
\* (msg_server.cpp:401,427-428,548-553,646-672).
ServerPlaces == {"send", "finiServer", "check", "admit", "event", "deliver",
                 "eventEnd"}

LocalsHeld ==
  /\ \A t \in Threads :
       /\ lserver[t] # NULL <=> pc[t] \in ServerPlaces
       /\ lssl[t] # NULL => pc[t] \in {"exit", "finiServer", "finiSsl"}
  /\ \A w \in Workers : pc[w] \in {"check", "admit"} => lask[w] \in Asks

\* A server goes together with the TLS configuration it was made with, from
\* member to thread (msg_server.cpp:420-428).
SslTogether ==
  \A s \in open :
    /\ s = m_msgServer => sssl[s] = m_sslConfig
    /\ \A t \in Threads : Deletes(t, s) => sssl[s] = lssl[t]

\* The passwords in use are those the current server was opened with
\* (msg_server.cpp:381-384).
PasswordsKept ==
  m_reactor => /\ m_passwords \in Configs
               /\ m_passwords = openedWith[m_msgServer]

\* What a peer must know and be to have come in.
Fits(p, config, c2s) ==
  /\ Proves(p, config[Slot(ClassOf[p])])
  /\ c2s => ClassOf[p] = 255

\* A favourable verdict on its way to an open server is right for that server
\* (msg_server.cpp:646-672).
VerdictsRight ==
  \A w \in Workers :
    pc[w] = "admit" /\ lverdict[w] # "refused" /\ lserver[w] \in open =>
      Fits(lask[w].peer, openedWith[lserver[w]], lverdict[w] = "c2s")

IInv ==
  /\ TypeOK /\ MembersTogether /\ LocalsHeld /\ OneOwner
  /\ RefsExact /\ SslTogether
  /\ PasswordsKept /\ VerdictsRight /\ Admission

------------------------------------------------------------------------------
(* Type correctness holds initially (msg_server.cpp:177-183).               *)
LEMMA InitTypeOK == Init => TypeOK
<1>. SUFFICES ASSUME Init PROVE TypeOK
  OBVIOUS
<1>. USE DEF Init
<1>0. 0 \in 0 .. (W - 1)
  BY ServerAssumption
<1>1. /\ m_reactor \in BOOLEAN
      /\ m_msgServer \in Servers \cup {NULL} /\ m_sslConfig \in Ssls \cup {NULL}
      /\ m_passwords \in Configs \cup {NULL}
  OBVIOUS
<1>6. refs \in Int /\ open \subseteq Servers /\ sslLive \subseteq Ssls
  OBVIOUS
<1>5. m_redline \in 0 .. (W - 1) /\ holds \subseteq Apps
  BY <1>0
<1>2. /\ srefs \in [Servers -> Int]
      /\ sssl \in [Servers -> Ssls \cup {NULL}]
      /\ sred \in [Servers -> Nat]
      /\ online \in [Servers -> SUBSET Members]
      /\ openedWith \in [Servers -> Configs \cup {NULL}]
  OBVIOUS
<1>3. /\ pc \in [Threads -> AppPlaces \cup WorkerPlaces]
      /\ \A a \in Apps : pc[a] \in AppPlaces
      /\ \A w \in Workers : pc[w] \in WorkerPlaces
  BY DEF Threads, AppPlaces, WorkerPlaces
<1>4. /\ lserver \in [Threads -> Servers \cup {NULL}]
      /\ lssl \in [Threads -> Ssls \cup {NULL}]
      /\ lask \in [Workers -> Asks \cup {NULL}]
      /\ lverdict \in [Workers -> {"refused", "user", "c2s"}]
  OBVIOUS
<1>. QED  BY <1>1, <1>2, <1>3, <1>4, <1>5, <1>6 DEF TypeOK

(* The places a thread moves to are its own.                                *)
LEMMA GotoType ==
  ASSUME TypeOK, NEW t \in Threads, NEW p, Goto(t, p),
         t \in Apps => p \in AppPlaces,
         t \in Workers => p \in WorkerPlaces
  PROVE  /\ pc' \in [Threads -> AppPlaces \cup WorkerPlaces]
         /\ \A a \in Apps : pc'[a] \in AppPlaces
         /\ \A w \in Workers : pc'[w] \in WorkerPlaces
BY DEF TypeOK, Goto, Threads

(* Every call of an app keeps the types.                                    *)
LEMMA AppTypeOK ==
  ASSUME TypeOK, LocalsHeld, NEW a \in Apps, AppCalls(a) \/ AppReturns(a)
  PROVE  TypeOK'
<1>. USE DEF TypeOK, fields, serverVars, asks, AppPlaces
<1>0. /\ a \in Threads /\ a \notin Workers /\ W \in Nat \ {0}
      /\ Redlines \subseteq Nat
  BY ServerAssumption DEF Threads
<1>1. CASE InitOk(a)
  <2>1. \A v \in Redlines : v < W => v \in 0 .. (W - 1)
    BY <1>0
  <2>. QED  BY <1>0, <1>1, <2>1 DEF InitOk, FreeServers, FreeSsls
<1>2. CASE InitFail(a)
  BY <1>0, <1>2, GotoType DEF InitFail, FreeSsls
<1>3. CASE FiniLocked(a)
  BY <1>0, <1>3, GotoType DEF FiniLocked
<1>4. CASE SendBegin(a) \/ SendEnd(a)
  BY <1>0, <1>4, GotoType DEF SendBegin, SendEnd
<1>5. CASE SetOutputRedline(a)
  <2>1. \A v \in Redlines : v % W \in 0 .. (W - 1)
    BY <1>0
  <2>. QED  BY <1>0, <1>5, <2>1 DEF SetOutputRedline
<1>6. CASE Release(a) \/ \E b \in Apps : AddRef(a, b)
  BY <1>6 DEF Release, AddRef
<1>7. ASSUME NEW p \in Peers, KickoutUser(a, p) PROVE TypeOK'
  BY <1>7 DEF KickoutUser
<1>8. CASE FiniServer(a)
  <2>1. lserver[a] \in Servers
    BY <1>0, <1>8 DEF FiniServer, LocalsHeld, ServerPlaces
  <2>2. online' \in [Servers -> SUBSET Members] /\ srefs' \in [Servers -> Int]
    BY <1>8, <2>1 DEF FiniServer
  <2>. QED  BY <1>0, <1>8, <2>2, GotoType DEF FiniServer
<1>9. CASE DeleteSsl(a)
  BY <1>0, <1>9, GotoType DEF DeleteSsl
<1>. QED
  BY <1>1, <1>2, <1>3, <1>4, <1>5, <1>6, <1>7, <1>8, <1>9
     DEF AppCalls, AppReturns

(* The callbacks keep the types.                                            *)
LEMMA WorkerTypeOK ==
  ASSUME TypeOK, LocalsHeld, NEW w \in Workers,
         \/ \E s \in Servers : CheckBegin(w, s) \/ EventBegin(w, s)
         \/ WorkerReturns(w)
  PROVE  TypeOK'
<1>. USE DEF TypeOK, fields, serverVars, asks, WorkerPlaces
<1>0. w \in Threads /\ w \notin Apps
  BY ServerAssumption DEF Threads
<1>1. ASSUME NEW s \in Servers, CheckBegin(w, s) PROVE TypeOK'
  <2>1. {m.peer : m \in {x \in online[s] : x.c2s}} \subseteq Peers
    BY DEF Members
  <2>2. lask' \in [Workers -> Asks \cup {NULL}]
    BY <1>1, <2>1 DEF CheckBegin, Asks
  <2>. QED  BY <1>0, <1>1, <2>2, GotoType DEF CheckBegin, Begin
<1>2. ASSUME NEW s \in Servers, EventBegin(w, s) PROVE TypeOK'
  BY <1>0, <1>2, GotoType DEF EventBegin, Begin
<1>3. CASE OnCheckUser(w)
  <2>1. lverdict' \in [Workers -> {"refused", "user", "c2s"}]
    BY <1>3 DEF OnCheckUser
  <2>. QED  BY <1>0, <1>3, <2>1, GotoType DEF OnCheckUser
<1>4. CASE Admit(w)
  <2>1. lask[w] \in Asks /\ lserver[w] \in Servers
    BY <1>0, <1>4 DEF Admit, LocalsHeld, ServerPlaces
  <2>2. [peer |-> lask[w].peer, c2s |-> lverdict[w] = "c2s"] \in Members
    BY <2>1 DEF Asks, Members
  <2>3. online' \in [Servers -> SUBSET Members]
    <3>. DEFINE rest == {m \in online[lserver[w]] : m.peer # lask[w].peer}
                new == [peer |-> lask[w].peer, c2s |-> lverdict[w] = "c2s"]
    <3>1. rest \in SUBSET Members /\ new \in Members
      BY <2>1, <2>2
    <3>2. \/ online' = [online EXCEPT ![lserver[w]] = rest \cup {new}]
          \/ online' = online
      BY <1>4, <2>1 DEF Admit
    <3>. QED  BY <2>1, <3>1, <3>2
  <2>. QED  BY <1>0, <1>4, <2>3, GotoType DEF Admit
<1>5. CASE EventCheck(w) \/ EventEnd(w)
  BY <1>0, <1>5, GotoType DEF EventCheck, EventEnd
<1>. QED  BY <1>1, <1>2, <1>3, <1>4, <1>5 DEF WorkerReturns

(* Every step keeps the types.                                              *)
LEMMA NextTypeOK == TypeOK /\ LocalsHeld /\ [Next]_vars => TypeOK'
<1>. SUFFICES ASSUME TypeOK, LocalsHeld, [Next]_vars PROVE TypeOK'
  OBVIOUS
<1>1. CASE UNCHANGED vars
  BY <1>1 DEF vars, fields, serverVars, asks, TypeOK
<1>2. ASSUME NEW s \in Servers, NEW m \in online[s], Leave(s, m) PROVE TypeOK'
  BY <1>2 DEF Leave, fields, asks, TypeOK
<1>. QED  BY <1>1, <1>2, AppTypeOK, WorkerTypeOK DEF Next, Abandoned

------------------------------------------------------------------------------
(* The members are set and reset together.                                  *)
LEMMA NextMembers ==
  ASSUME TypeOK, MembersTogether, [Next]_vars PROVE MembersTogether'
<1>. USE DEF MembersTogether
<1>1. CASE UNCHANGED fields
  BY <1>1 DEF fields
<1>2. ASSUME NEW a \in Apps, AppCalls(a) PROVE MembersTogether'
  <2>1. CASE InitOk(a)
    BY <2>1, ServerAssumption DEF InitOk, FreeServers
  <2>2. CASE FiniLocked(a)
    BY <2>2 DEF FiniLocked
  <2>. QED
    BY <1>1, <1>2, <2>1, <2>2
       DEF AppCalls, InitFail, SendBegin, SetOutputRedline, KickoutUser, Release,
           AddRef
<1>3. ASSUME NEW a \in Apps, AppReturns(a) PROVE UNCHANGED fields
  BY <1>3 DEF AppReturns, FiniServer, DeleteSsl, SendEnd
<1>4. ASSUME NEW w \in Workers, NEW s \in Servers, CheckBegin(w, s) \/ EventBegin(w, s)
      PROVE  UNCHANGED fields
  BY <1>4 DEF CheckBegin, EventBegin, Begin
<1>5. ASSUME NEW w \in Workers, WorkerReturns(w) PROVE UNCHANGED fields
  BY <1>5 DEF WorkerReturns, OnCheckUser, Admit, EventCheck, EventEnd
<1>6. ASSUME NEW s \in Servers, NEW m \in online[s], Leave(s, m)
      PROVE  UNCHANGED fields
  BY <1>6 DEF Leave
<1>. QED
  BY <1>1, <1>2, <1>3, <1>4, <1>5, <1>6 DEF Next, Abandoned, vars

(* A thread has its locals where it needs them.                             *)
LEMMA NextLocals ==
  ASSUME TypeOK, MembersTogether, LocalsHeld, [Next]_vars PROVE LocalsHeld'
<1>. USE DEF LocalsHeld, ServerPlaces, Goto, fields, serverVars, asks
<1>0. /\ pc \in [Threads -> AppPlaces \cup WorkerPlaces]
      /\ lserver \in [Threads -> Servers \cup {NULL}]
      /\ lssl \in [Threads -> Ssls \cup {NULL}]
      /\ lask \in [Workers -> Asks \cup {NULL}]
      /\ Threads = Apps \cup Workers
      /\ NULL \notin Servers /\ Apps \cap Workers = {}
  BY ServerAssumption DEF TypeOK, Threads
<1>1. CASE UNCHANGED vars
  BY <1>0, <1>1 DEF vars
<1>2. ASSUME NEW a \in Apps, AppCalls(a) PROVE LocalsHeld'
  <2>1. CASE InitOk(a)
    BY <1>0, <2>1 DEF InitOk
  <2>2. CASE InitFail(a)
    BY <1>0, <2>2 DEF InitFail, Calls
  <2>3. CASE FiniLocked(a)
    BY <1>0, <2>3 DEF FiniLocked, Calls, MembersTogether
  <2>4. CASE SendBegin(a)
    BY <1>0, <2>4 DEF SendBegin, Calls
  <2>. QED
    BY <1>0, <1>2, <2>1, <2>2, <2>3, <2>4
       DEF AppCalls, SetOutputRedline, KickoutUser, Release, AddRef
<1>3. ASSUME NEW a \in Apps, AppReturns(a) PROVE LocalsHeld'
  BY <1>0, <1>3 DEF AppReturns, FiniServer, DeleteSsl, SendEnd
<1>4. ASSUME NEW w \in Workers, NEW s \in Servers, CheckBegin(w, s)
      PROVE LocalsHeld'
  <2>1. lask'[w] \in Asks
    <3>1. {m.peer : m \in {x \in online[s] : x.c2s}} \subseteq Peers
      BY DEF TypeOK, Members
    <3>. QED  BY <1>0, <1>4, <3>1 DEF CheckBegin, Asks
  <2>. QED  BY <1>0, <1>4, <2>1 DEF CheckBegin, Begin
<1>5. ASSUME NEW w \in Workers, NEW s \in Servers, EventBegin(w, s)
      PROVE LocalsHeld'
  BY <1>0, <1>5 DEF EventBegin, Begin
<1>6. ASSUME NEW w \in Workers, WorkerReturns(w) PROVE LocalsHeld'
  BY <1>0, <1>6 DEF WorkerReturns, OnCheckUser, Admit, EventCheck, EventEnd
<1>7. ASSUME NEW s \in Servers, NEW m \in online[s], Leave(s, m)
      PROVE  LocalsHeld'
  BY <1>7 DEF Leave
<1>. QED
  BY <1>1, <1>2, <1>3, <1>4, <1>5, <1>6, <1>7 DEF Next, Abandoned

------------------------------------------------------------------------------
(* Ownership of servers and TLS configurations.                             *)

(* A step that moves no object and changes no deleter keeps all owners.     *)
LEMMA OwnerFrame ==
  ASSUME OneOwner, UNCHANGED <<m_msgServer, m_sslConfig, open, sslLive, lssl>>,
         \A t \in Threads, s \in Servers : Deletes(t, s)' <=> Deletes(t, s)
  PROVE  OneOwner'
BY DEF OneOwner, ServerOwned, SslOwned, Owned, DeletesSsl

(* A thread that starts or ends a use of a server deletes none.             *)
LEMMA UseOwner ==
  ASSUME TypeOK, OneOwner, NEW t \in Threads, NEW p, NEW s,
         pc[t] # "finiServer", p # "finiServer", Goto(t, p),
         lserver' = [lserver EXCEPT ![t] = s] \/ UNCHANGED lserver,
         UNCHANGED <<m_msgServer, m_sslConfig, open, sslLive, lssl>>
  PROVE  OneOwner'
<1>1. \A u \in Threads, x \in Servers : Deletes(u, x)' <=> Deletes(u, x)
  BY DEF Deletes, Goto, TypeOK
<1>. QED  BY <1>1, OwnerFrame

(* Apps keep every object with one owner (msg_server.cpp:295-432).          *)
LEMMA AppOwner ==
  ASSUME TypeOK, MembersTogether, LocalsHeld, OneOwner,
         NEW a \in Apps, AppCalls(a) \/ AppReturns(a)
  PROVE  OneOwner'
<1>. USE DEF TypeOK, fields, serverVars, asks
<1>0. a \in Threads /\ NULL \notin Servers \cup Ssls
  BY ServerAssumption DEF Threads
<1>1. CASE InitOk(a)
  <2>1. PICK s \in FreeServers, l \in FreeSsls \cup {NULL} :
          /\ open' = open \cup {s} /\ m_msgServer' = s
          /\ sslLive' = sslLive \cup ({l} \ {NULL}) /\ m_sslConfig' = l
          /\ m_msgServer = NULL /\ m_sslConfig = NULL
          /\ UNCHANGED <<pc, lserver, lssl>>
    BY <1>1 DEF InitOk
  <2>2. ServerOwned'
    BY <1>0, <2>1 DEF OneOwner, ServerOwned, Owned, Deletes, FreeServers
  <2>3. SslOwned'
    BY <1>0, <2>1 DEF OneOwner, SslOwned, Owned, DeletesSsl, FreeSsls
  <2>. QED  BY <2>2, <2>3 DEF OneOwner
<1>2. CASE InitFail(a)
  <2>1. PICK l \in FreeSsls : /\ sslLive' = sslLive \cup {l}
                              /\ lssl' = [lssl EXCEPT ![a] = l]
    BY <1>2 DEF InitFail
  <2>2. /\ pc[a] = "idle" /\ pc' = [pc EXCEPT ![a] = "exit"]
        /\ m_sslConfig = NULL
        /\ UNCHANGED <<m_msgServer, m_sslConfig, open, lserver>>
    BY <1>2 DEF InitFail, Calls, Goto
  <2>3. lssl[a] = NULL
    BY <1>0, <2>2 DEF LocalsHeld
  <2>4. ServerOwned'
    BY <1>0, <2>2 DEF OneOwner, ServerOwned, Owned, Deletes
  <2>5. SslOwned'
    BY <1>0, <2>1, <2>2, <2>3 DEF OneOwner, SslOwned, Owned, DeletesSsl, FreeSsls
  <2>. QED  BY <2>4, <2>5 DEF OneOwner
<1>3. CASE FiniLocked(a)
  <2>1. /\ pc[a] = "idle" /\ pc' = [pc EXCEPT ![a] = "finiServer"]
        /\ lserver' = [lserver EXCEPT ![a] = m_msgServer]
        /\ lssl' = [lssl EXCEPT ![a] = m_sslConfig]
        /\ m_msgServer' = NULL /\ m_sslConfig' = NULL
        /\ UNCHANGED <<open, sslLive>>
    BY <1>3 DEF FiniLocked, Calls, Goto
  <2>2. lssl[a] = NULL
    BY <1>0, <2>1 DEF LocalsHeld
  <2>3. ServerOwned'
    BY <1>0, <2>1 DEF OneOwner, ServerOwned, Owned, Deletes
  <2>4. SslOwned'
    BY <1>0, <2>1, <2>2 DEF OneOwner, SslOwned, Owned, DeletesSsl
  <2>. QED  BY <2>3, <2>4 DEF OneOwner
<1>4. CASE FiniServer(a)
  <2>1. /\ pc[a] = "finiServer" /\ pc' = [pc EXCEPT ![a] = "finiSsl"]
        /\ open' = open \ {lserver[a]}
        /\ lserver' = [lserver EXCEPT ![a] = NULL]
        /\ UNCHANGED <<m_msgServer, m_sslConfig, sslLive, lssl>>
    BY <1>4 DEF FiniServer, Goto
  <2>2. ServerOwned'
    BY <1>0, <2>1 DEF OneOwner, ServerOwned, Owned, Deletes
  <2>3. SslOwned'
    BY <2>1 DEF OneOwner, SslOwned, Owned, DeletesSsl
  <2>. QED  BY <2>2, <2>3 DEF OneOwner
<1>5. CASE DeleteSsl(a)
  <2>1. /\ pc[a] \in {"exit", "finiSsl"} /\ pc' = [pc EXCEPT ![a] = "idle"]
        /\ sslLive' = sslLive \ {lssl[a]}
        /\ lssl' = [lssl EXCEPT ![a] = NULL]
        /\ UNCHANGED <<m_msgServer, m_sslConfig, open, lserver>>
    BY <1>5 DEF DeleteSsl, Goto
  <2>2. ServerOwned'
    BY <1>0, <2>1 DEF OneOwner, ServerOwned, Owned, Deletes
  <2>3. SslOwned'
    BY <1>0, <2>1 DEF OneOwner, SslOwned, Owned, DeletesSsl
  <2>. QED  BY <2>2, <2>3 DEF OneOwner
<1>6. CASE SendBegin(a)
  BY <1>0, <1>6, UseOwner DEF SendBegin, Calls
<1>7. CASE SendEnd(a)
  BY <1>0, <1>7, UseOwner DEF SendEnd
<1>8. CASE \/ SetOutputRedline(a) \/ Release(a)
           \/ \E p \in Peers : KickoutUser(a, p)
           \/ \E b \in Apps : AddRef(a, b)
  <2>1. /\ UNCHANGED <<m_msgServer, m_sslConfig, open, sslLive, lssl>>
        /\ UNCHANGED <<pc, lserver>>
    BY <1>8 DEF SetOutputRedline, Release, KickoutUser, AddRef
  <2>. QED  BY <2>1, OwnerFrame DEF Deletes
<1>. QED
  BY <1>1, <1>2, <1>3, <1>4, <1>5, <1>6, <1>7, <1>8 DEF AppCalls, AppReturns

(* Callbacks move no object.                                                *)
LEMMA WorkerOwner ==
  ASSUME TypeOK, OneOwner, NEW w \in Workers,
         \/ \E s \in Servers : CheckBegin(w, s) \/ EventBegin(w, s)
         \/ WorkerReturns(w)
  PROVE  OneOwner'
<1>. USE DEF fields, serverVars, asks
<1>0. w \in Threads
  BY DEF Threads
<1>1. ASSUME NEW s \in Servers, Begin(w, s, "check") \/ Begin(w, s, "event")
      PROVE  OneOwner'
  BY <1>0, <1>1, UseOwner DEF Begin
<1>2. CASE OnCheckUser(w)
  BY <1>0, <1>2, UseOwner DEF OnCheckUser
<1>3. CASE Admit(w)
  BY <1>0, <1>3, UseOwner DEF Admit
<1>4. CASE EventCheck(w)
  BY <1>0, <1>4, UseOwner DEF EventCheck
<1>5. CASE EventEnd(w)
  BY <1>0, <1>5, UseOwner DEF EventEnd
<1>. QED
  BY <1>1, <1>2, <1>3, <1>4, <1>5 DEF CheckBegin, EventBegin, WorkerReturns

(* Every step keeps every object with one owner.                            *)
LEMMA NextOwner ==
  ASSUME TypeOK, MembersTogether, LocalsHeld, OneOwner, [Next]_vars
  PROVE  OneOwner'
<1>1. CASE UNCHANGED vars
  BY <1>1, OwnerFrame DEF vars, fields, serverVars, Deletes
<1>2. ASSUME NEW s \in Servers, NEW m \in online[s], Leave(s, m)
      PROVE  OneOwner'
  BY <1>2, OwnerFrame DEF Leave, fields, Deletes
<1>. QED  BY <1>1, <1>2, AppOwner, WorkerOwner DEF Next, Abandoned

------------------------------------------------------------------------------
(* Reference counts.                                                        *)

(* Adding and removing one element changes a count by one.                  *)
LEMMA CountMore ==
  ASSUME NEW S, IsFiniteSet(S), NEW x, x \notin S
  PROVE  /\ IsFiniteSet(S \cup {x})
         /\ Cardinality(S \cup {x}) = Cardinality(S) + 1
BY FS_AddElement

(* And removing one.                                                        *)
LEMMA CountLess ==
  ASSUME NEW S, IsFiniteSet(S), NEW x \in S
  PROVE  /\ IsFiniteSet(S \ {x})
         /\ Cardinality(S \ {x}) = Cardinality(S) - 1
BY FS_RemoveElement

(* There are finitely many threads that could hold a reference.             *)
LEMMA HoldersFinite ==
  ASSUME NEW s
  PROVE  IsFiniteSet(Holders(s)) /\ Cardinality(Holders(s)) \in Nat
<1>1. IsFiniteSet(Threads)
  BY ServerAssumption, FS_Union DEF Threads
<1>2. Holders(s) \in SUBSET Threads
  BY DEF Holders
<1>. QED  BY <1>1, <1>2, FS_Subset, FS_CardinalityType

(* A server nobody has opened and with no reference left is in nobody's     *)
(* hands: its address can be used again.                                    *)
LEMMA FreeUnused ==
  ASSUME ServerRefs, OneOwner, NEW s \in FreeServers, NEW t \in Threads
  PROVE  lserver[t] # s
<1>1. Cardinality(Holders(s)) = 0
  BY HoldersFinite DEF ServerRefs, FreeServers, One
<1>2. Holders(s) = {}
  BY <1>1, HoldersFinite, FS_EmptySet
<1>3. ~ Deletes(t, s)
  BY DEF OneOwner, ServerOwned, Owned, FreeServers
<1>. QED  BY <1>2, <1>3 DEF Holders, Deletes

(* Counts stay exact where no reference is taken or given back.             *)
LEMMA ServerRefsFrame ==
  ASSUME ServerRefs, UNCHANGED <<srefs, open>>,
         \A s \in Servers : Holders(s)' = Holders(s)
  PROVE  ServerRefs'
BY DEF ServerRefs

(* A thread that begins to use a server takes a reference to it.            *)
LEMMA ServerRefsJoin ==
  ASSUME TypeOK, ServerRefs, NEW t \in Threads, NEW s \in Servers, NEW p,
         lserver[t] = NULL, p # "finiServer", Goto(t, p),
         lserver' = [lserver EXCEPT ![t] = s],
         srefs' = [srefs EXCEPT ![s] = @ + 1], open' = open
  PROVE  ServerRefs'
<1>. USE DEF TypeOK
<1>1. NULL \notin Servers
  BY ServerAssumption
<1>2. t \notin Holders(s) /\ Holders(s)' = Holders(s) \cup {t}
  BY <1>1 DEF Holders, Goto
<1>3. \A x \in Servers \ {s} : Holders(x)' = Holders(x)
  BY <1>1 DEF Holders, Goto
<1>4. Cardinality(Holders(s)') = Cardinality(Holders(s)) + 1
  BY <1>2, HoldersFinite, CountMore
<1>. QED  BY <1>3, <1>4, HoldersFinite DEF ServerRefs, One

(* A thread that ends its use gives the reference back.                     *)
LEMMA ServerRefsLeave ==
  ASSUME TypeOK, ServerRefs, NEW t \in Threads, NEW s \in Servers, NEW p,
         lserver[t] = s, pc[t] # "finiServer", Goto(t, p),
         lserver' = [lserver EXCEPT ![t] = NULL],
         srefs' = [srefs EXCEPT ![s] = @ - 1], open' = open
  PROVE  ServerRefs'
<1>. USE DEF TypeOK
<1>1. NULL \notin Servers
  BY ServerAssumption
<1>2. t \in Holders(s) /\ Holders(s)' = Holders(s) \ {t}
  BY <1>1 DEF Holders, Goto
<1>3. \A x \in Servers \ {s} : Holders(x)' = Holders(x)
  BY <1>1 DEF Holders, Goto
<1>4. Cardinality(Holders(s)') = Cardinality(Holders(s)) - 1
  BY <1>2, HoldersFinite, CountLess
<1>5. srefs'[s] = One(s \in open') + Cardinality(Holders(s)')
  BY <1>4, HoldersFinite DEF ServerRefs, One
<1>6. \A x \in Servers \ {s} :
        srefs'[x] = One(x \in open') + Cardinality(Holders(x)')
  BY <1>3 DEF ServerRefs
<1>. QED  BY <1>5, <1>6 DEF ServerRefs

(* The calls of apps keep the servers' counts exact                         *)
(* (msg_server.cpp:422-427,548-553).                                        *)
LEMMA AppServerRefs ==
  ASSUME TypeOK, LocalsHeld, MembersTogether, OneOwner, ServerRefs,
         NEW a \in Apps, AppCalls(a) \/ AppReturns(a)
  PROVE  ServerRefs'
<1>. USE DEF TypeOK, fields, serverVars, asks
<1>0. a \in Threads /\ NULL \notin Servers
  BY ServerAssumption DEF Threads
<1>1. CASE InitOk(a)
  <2>1. PICK s \in FreeServers : /\ open' = open \cup {s}
                                 /\ srefs' = [srefs EXCEPT ![s] = 1]
                                 /\ UNCHANGED <<pc, lserver>>
    BY <1>1 DEF InitOk
  <2>2. \A x \in Servers : Holders(x)' = Holders(x)
    BY <2>1 DEF Holders
  <2>3. s \in Servers /\ s \notin open /\ srefs[s] = 0
    BY DEF FreeServers
  <2>. QED  BY <2>1, <2>2, <2>3, HoldersFinite DEF ServerRefs, One
<1>2. CASE InitFail(a) \/ DeleteSsl(a)
  <2>1. \A x \in Servers : Holders(x)' = Holders(x)
    BY <1>0, <1>2 DEF InitFail, DeleteSsl, Calls, Goto, Holders, LocalsHeld,
                      ServerPlaces
  <2>. QED  BY <1>2, <2>1, ServerRefsFrame DEF InitFail, DeleteSsl
<1>3. CASE FiniLocked(a)
  <2>1. /\ pc[a] = "idle" /\ lserver[a] = NULL
        /\ pc' = [pc EXCEPT ![a] = "finiServer"]
        /\ lserver' = [lserver EXCEPT ![a] = m_msgServer]
    BY <1>0, <1>3 DEF FiniLocked, Calls, Goto, LocalsHeld, ServerPlaces
  <2>2. \A x \in Servers : Holders(x)' = Holders(x)
    BY <1>0, <2>1 DEF Holders
  <2>. QED  BY <1>3, <2>2, ServerRefsFrame DEF FiniLocked
<1>4. CASE FiniServer(a)
  <2>. DEFINE s == lserver[a]
  <2>1. /\ pc[a] = "finiServer" /\ pc' = [pc EXCEPT ![a] = "finiSsl"]
        /\ lserver' = [lserver EXCEPT ![a] = NULL]
        /\ open' = open \ {s}
        /\ srefs' = [srefs EXCEPT ![s] = @ - 1]
    BY <1>4 DEF FiniServer, Goto
  <2>2. s \in Servers
    BY <1>0, <2>1 DEF LocalsHeld, ServerPlaces
  <2>3. s \in open
    BY <1>0, <2>1, <2>2 DEF OneOwner, ServerOwned, Owned, Deletes
  <2>4. \A x \in Servers : Holders(x)' = Holders(x)
    BY <1>0, <2>1 DEF Holders
  <2>. QED  BY <2>1, <2>2, <2>3, <2>4, HoldersFinite DEF ServerRefs, One
<1>5. CASE SendBegin(a)
  BY <1>0, <1>5, ServerRefsJoin
     DEF SendBegin, Calls, LocalsHeld, ServerPlaces
<1>6. CASE SendEnd(a)
  BY <1>0, <1>6, ServerRefsLeave DEF SendEnd, LocalsHeld, ServerPlaces
<1>7. CASE \/ SetOutputRedline(a) \/ Release(a)
           \/ \E p \in Peers : KickoutUser(a, p)
           \/ \E b \in Apps : AddRef(a, b)
  BY <1>7, ServerRefsFrame
     DEF SetOutputRedline, Release, KickoutUser, AddRef, Holders
<1>. QED
  BY <1>1, <1>2, <1>3, <1>4, <1>5, <1>6, <1>7 DEF AppCalls, AppReturns

(* Callbacks keep the servers' counts exact.                                *)
LEMMA WorkerServerRefs ==
  ASSUME TypeOK, LocalsHeld, ServerRefs, NEW w \in Workers,
         \/ \E s \in Servers : CheckBegin(w, s) \/ EventBegin(w, s)
         \/ WorkerReturns(w)
  PROVE  ServerRefs'
<1>. USE DEF fields, serverVars, asks
<1>0. w \in Threads /\ NULL \notin Servers
  BY ServerAssumption DEF Threads
<1>1. ASSUME NEW s \in Servers, Begin(w, s, "check") \/ Begin(w, s, "event")
      PROVE  ServerRefs'
  BY <1>0, <1>1, ServerRefsJoin DEF Begin, LocalsHeld, ServerPlaces
<1>2. CASE OnCheckUser(w) \/ EventCheck(w)
  <2>1. \A x \in Servers : Holders(x)' = Holders(x)
    BY <1>0, <1>2 DEF OnCheckUser, EventCheck, Goto, Holders, TypeOK
  <2>. QED  BY <1>2, <2>1, ServerRefsFrame DEF OnCheckUser, EventCheck
<1>3. CASE Admit(w) \/ EventEnd(w)
  <2>1. lserver[w] \in Servers
    BY <1>0, <1>3 DEF Admit, EventEnd, LocalsHeld, ServerPlaces, TypeOK
  <2>. QED  BY <1>0, <1>3, <2>1, ServerRefsLeave DEF Admit, EventEnd
<1>. QED  BY <1>1, <1>2, <1>3 DEF CheckBegin, EventBegin, WorkerReturns

(* Every step keeps the servers' counts exact.                              *)
LEMMA NextServerRefs ==
  ASSUME TypeOK, LocalsHeld, MembersTogether, OneOwner, ServerRefs,
         [Next]_vars
  PROVE  ServerRefs'
<1>1. CASE UNCHANGED vars
  BY <1>1 DEF vars, serverVars, ServerRefs, Holders
<1>2. ASSUME NEW s \in Servers, NEW m \in online[s], Leave(s, m)
      PROVE  ServerRefs'
  BY <1>2, ServerRefsFrame DEF Leave, Holders
<1>. QED
  BY <1>1, <1>2, AppServerRefs, WorkerServerRefs DEF Next, Abandoned

(* The sets the references to the CMsgServer are counted by are finite.     *)
LEMMA SelfFinite ==
  ASSUME TypeOK
  PROVE  /\ IsFiniteSet(holds) /\ Cardinality(holds) \in Nat
         /\ IsFiniteSet(open) /\ Cardinality(open) \in Nat
         /\ IsFiniteSet(Callbacks) /\ Cardinality(Callbacks) \in Nat
<1>1. /\ holds \in SUBSET Apps /\ open \in SUBSET Servers
      /\ Callbacks \in SUBSET Workers
  BY DEF TypeOK, Callbacks
<1>2. IsFiniteSet(holds) /\ IsFiniteSet(open) /\ IsFiniteSet(Callbacks)
  BY <1>1, ServerAssumption, FS_Subset
<1>. QED  BY <1>2, FS_CardinalityType

(* The place of an app counts for no reference to the CMsgServer.           *)
LEMMA CallbacksFrame ==
  ASSUME TypeOK, NEW a \in Apps, UNCHANGED pc \/ \E p : Goto(a, p)
  PROVE  Callbacks' = Callbacks
BY ServerAssumption DEF TypeOK, Goto, Callbacks, Threads

(* A worker counts for one exactly while it is in a callback.               *)
LEMMA CallbacksGoto ==
  ASSUME TypeOK, NEW w \in Workers, NEW p, Goto(w, p)
  PROVE  /\ p # "idle" => Callbacks' = Callbacks \cup {w}
         /\ p = "idle" => Callbacks' = Callbacks \ {w}
<1>1. \A v \in Workers : pc'[v] = IF v = w THEN p ELSE pc[v]
  BY DEF TypeOK, Goto, Threads
<1>. QED  BY <1>1 DEF Callbacks

(* Apps keep the count of the CMsgServer exact (msg_server.cpp:157-175,390, *)
(* 424).                                                                    *)
LEMMA AppSelfRefs ==
  ASSUME TypeOK, LocalsHeld, OneOwner, SelfRefs,
         NEW a \in Apps, AppCalls(a) \/ AppReturns(a)
  PROVE  SelfRefs'
<1>. USE DEF fields, serverVars, asks
<1>0. a \in Threads /\ NULL \notin Servers /\ refs \in Int
  BY ServerAssumption DEF Threads, TypeOK
<1>1. Callbacks' = Callbacks
  BY <1>0, CallbacksFrame
     DEF AppCalls, AppReturns, InitOk, InitFail, FiniLocked, FiniServer,
         DeleteSsl, SendBegin, SendEnd, SetOutputRedline, KickoutUser, AddRef,
         Release
<1>2. CASE InitOk(a)
  <2>1. PICK s \in FreeServers : open' = open \cup {s}
    BY <1>2 DEF InitOk
  <2>2. Cardinality(open') = Cardinality(open) + 1
    BY <2>1, SelfFinite, CountMore DEF FreeServers
  <2>. QED  BY <1>0, <1>1, <1>2, <2>2, SelfFinite DEF InitOk, SelfRefs
<1>3. CASE FiniServer(a)
  <2>1. open' = open \ {lserver[a]} /\ refs' = refs - 1 /\ UNCHANGED holds
    BY <1>3 DEF FiniServer
  <2>2. lserver[a] \in open
    BY <1>0, <1>3 DEF FiniServer, LocalsHeld, ServerPlaces, TypeOK, OneOwner,
                      ServerOwned, Owned, Deletes
  <2>3. Cardinality(open') = Cardinality(open) - 1
    BY <2>1, <2>2, SelfFinite, CountLess
  <2>. QED  BY <1>0, <1>1, <2>1, <2>3, SelfFinite DEF SelfRefs
<1>4. ASSUME NEW b \in Apps, AddRef(a, b) PROVE SelfRefs'
  <2>1. Cardinality(holds') = Cardinality(holds) + 1
    BY <1>4, SelfFinite, CountMore DEF AddRef
  <2>. QED  BY <1>0, <1>1, <1>4, <2>1, SelfFinite DEF AddRef, SelfRefs
<1>5. CASE Release(a)
  <2>1. Cardinality(holds') = Cardinality(holds) - 1
    BY <1>5, SelfFinite, CountLess DEF Release, Calls
  <2>. QED  BY <1>0, <1>1, <1>5, <2>1, SelfFinite DEF Release, SelfRefs
<1>6. CASE \/ InitFail(a) \/ FiniLocked(a) \/ DeleteSsl(a) \/ SendBegin(a)
           \/ SendEnd(a) \/ SetOutputRedline(a)
           \/ \E p \in Peers : KickoutUser(a, p)
  <2>1. UNCHANGED <<refs, holds, open>>
    BY <1>6 DEF InitFail, FiniLocked, DeleteSsl, SendBegin, SendEnd,
                SetOutputRedline, KickoutUser
  <2>. QED  BY <1>1, <2>1 DEF SelfRefs
<1>. QED
  BY <1>2, <1>3, <1>4, <1>5, <1>6 DEF AppCalls, AppReturns

(* A callback counts for one reference while it runs.                       *)
LEMMA WorkerSelfRefs ==
  ASSUME TypeOK, SelfRefs, NEW w \in Workers,
         \/ \E s \in Servers : CheckBegin(w, s) \/ EventBegin(w, s)
         \/ WorkerReturns(w)
  PROVE  SelfRefs'
<1>. USE DEF fields, serverVars, asks
<1>0. w \in Threads /\ refs \in Int
  BY DEF Threads, TypeOK
<1>1. ASSUME NEW s \in Servers, Begin(w, s, "check") \/ Begin(w, s, "event")
      PROVE  SelfRefs'
  <2>1. w \notin Callbacks /\ Callbacks' = Callbacks \cup {w}
    BY <1>1, CallbacksGoto DEF Begin, Callbacks
  <2>2. Cardinality(Callbacks') = Cardinality(Callbacks) + 1
    BY <2>1, SelfFinite, CountMore
  <2>. QED  BY <1>0, <1>1, <2>2, SelfFinite DEF Begin, SelfRefs
<1>2. CASE OnCheckUser(w) \/ EventCheck(w)
  <2>1. Callbacks' = Callbacks
    BY <1>2, CallbacksGoto DEF OnCheckUser, EventCheck, Callbacks
  <2>. QED  BY <1>2, <2>1 DEF OnCheckUser, EventCheck, SelfRefs
<1>3. CASE Admit(w) \/ EventEnd(w)
  <2>1. w \in Callbacks /\ Callbacks' = Callbacks \ {w}
    BY <1>3, CallbacksGoto DEF Admit, EventEnd, Callbacks
  <2>2. Cardinality(Callbacks') = Cardinality(Callbacks) - 1
    BY <2>1, SelfFinite, CountLess
  <2>. QED  BY <1>0, <1>3, <2>2, SelfFinite DEF Admit, EventEnd, SelfRefs
<1>. QED  BY <1>1, <1>2, <1>3 DEF CheckBegin, EventBegin, WorkerReturns

(* Every step keeps all counts exact.                                       *)
LEMMA NextRefs ==
  ASSUME TypeOK, LocalsHeld, MembersTogether, OneOwner, RefsExact, [Next]_vars
  PROVE  RefsExact'
<1>. USE DEF RefsExact
<1>1. ASSUME UNCHANGED vars PROVE SelfRefs'
  BY <1>1 DEF vars, serverVars, SelfRefs, Callbacks
<1>2. ASSUME NEW s \in Servers, NEW m \in online[s], Leave(s, m)
      PROVE  SelfRefs'
  BY <1>2 DEF Leave, SelfRefs, Callbacks
<1>3. SelfRefs'
  BY <1>1, <1>2, AppSelfRefs, WorkerSelfRefs DEF Next, Abandoned
<1>. QED  BY <1>3, NextServerRefs

------------------------------------------------------------------------------
(* Servers with their TLS configurations.                                   *)

(* A step that opens no server and makes nobody delete one keeps each with  *)
(* its TLS configuration.                                                   *)
LEMMA SslFrame ==
  ASSUME SslTogether, open' \subseteq open,
         UNCHANGED <<m_msgServer, m_sslConfig, sssl>>,
         \A t \in Threads, s \in Servers :
           Deletes(t, s)' => Deletes(t, s) /\ lssl'[t] = lssl[t],
         open \subseteq Servers
  PROVE  SslTogether'
BY DEF SslTogether

(* Every step keeps each server with its TLS configuration.                 *)
LEMMA NextSsl ==
  ASSUME TypeOK, LocalsHeld, OneOwner, SslTogether, [Next]_vars
  PROVE  SslTogether'
<1>. USE DEF TypeOK, fields, serverVars, asks, Goto, Calls
<1>0. NULL \notin Servers /\ Apps \cap Workers = {} /\ Threads = Apps \cup Workers
  BY ServerAssumption DEF Threads
<1>1. ASSUME NEW a \in Apps, InitOk(a) PROVE SslTogether'
  <2>1. PICK s \in FreeServers :
          /\ open' = open \cup {s} /\ m_msgServer' = s
          /\ sssl' = [sssl EXCEPT ![s] = m_sslConfig']
          /\ m_msgServer = NULL
          /\ UNCHANGED <<pc, lserver, lssl>>
    BY <1>1 DEF InitOk
  <2>2. s \in Servers /\ \A t \in Threads : ~ Deletes(t, s)
    BY DEF FreeServers, OneOwner, ServerOwned, Owned
  <2>. QED  BY <2>1, <2>2 DEF SslTogether, Deletes
<1>2. ASSUME NEW a \in Apps, FiniLocked(a) PROVE SslTogether'
  <2>1. /\ pc[a] = "idle" /\ pc' = [pc EXCEPT ![a] = "finiServer"]
        /\ lserver' = [lserver EXCEPT ![a] = m_msgServer]
        /\ lssl' = [lssl EXCEPT ![a] = m_sslConfig]
        /\ m_msgServer' = NULL
        /\ UNCHANGED <<open, sssl>>
    BY <1>2 DEF FiniLocked
  <2>. QED  BY <1>0, <2>1 DEF SslTogether, Deletes
<1>3. ASSUME NEW a \in Apps,
             \/ InitFail(a) \/ FiniServer(a) \/ DeleteSsl(a)
             \/ SendBegin(a) \/ SendEnd(a)
      PROVE  SslTogether'
  <2>1. \A t \in Threads, s \in Servers :
          Deletes(t, s)' => Deletes(t, s) /\ lssl'[t] = lssl[t]
    BY <1>0, <1>3
       DEF InitFail, FiniServer, DeleteSsl, SendBegin, SendEnd, Deletes
  <2>. QED
    BY <1>3, <2>1, SslFrame
       DEF InitFail, FiniServer, DeleteSsl, SendBegin, SendEnd
<1>4. ASSUME NEW a \in Apps,
             \/ SetOutputRedline(a) \/ Release(a)
             \/ \E p \in Peers : KickoutUser(a, p)
             \/ \E b \in Apps : AddRef(a, b)
      PROVE  SslTogether'
  BY <1>4, SslFrame
     DEF SetOutputRedline, Release, KickoutUser, AddRef, Deletes
<1>5. ASSUME NEW w \in Workers,
             \/ \E s \in Servers : CheckBegin(w, s) \/ EventBegin(w, s)
             \/ WorkerReturns(w)
      PROVE  SslTogether'
  <2>1. \A t \in Threads, s \in Servers :
          Deletes(t, s)' => Deletes(t, s) /\ lssl'[t] = lssl[t]
    BY <1>0, <1>5
       DEF CheckBegin, EventBegin, Begin, WorkerReturns, OnCheckUser, Admit,
           EventCheck, EventEnd, Deletes
  <2>. QED
    BY <1>5, <2>1, SslFrame
       DEF CheckBegin, EventBegin, Begin, WorkerReturns, OnCheckUser, Admit,
           EventCheck, EventEnd
<1>6. ASSUME NEW s \in Servers, NEW m \in online[s], Leave(s, m)
      PROVE  SslTogether'
  BY <1>6, SslFrame DEF Leave, Deletes
<1>7. CASE UNCHANGED vars
  BY <1>7, SslFrame DEF vars, Deletes
<1>. QED
  BY <1>1, <1>2, <1>3, <1>4, <1>5, <1>6, <1>7
     DEF Next, AppCalls, AppReturns, Abandoned

------------------------------------------------------------------------------
(* Who is let in.                                                           *)

(* The passwords stay those of the server they came with.                   *)
LEMMA NextPasswords ==
  ASSUME TypeOK, PasswordsKept, [Next]_vars PROVE PasswordsKept'
<1>. USE DEF PasswordsKept, fields, serverVars, asks
<1>1. ASSUME NEW a \in Apps, InitOk(a) PROVE PasswordsKept'
  BY <1>1 DEF InitOk, FreeServers, TypeOK
<1>2. ASSUME NEW a \in Apps, FiniLocked(a) PROVE PasswordsKept'
  BY <1>2 DEF FiniLocked
<1>3. CASE UNCHANGED <<m_reactor, m_passwords, openedWith, m_msgServer>>
  BY <1>3
<1>4. ASSUME NEW a \in Apps, AppCalls(a) \/ AppReturns(a)
      PROVE  \/ InitOk(a) \/ FiniLocked(a)
             \/ UNCHANGED <<m_reactor, m_passwords, openedWith, m_msgServer>>
  BY <1>4 DEF AppCalls, AppReturns, InitFail, FiniServer, DeleteSsl, SendBegin,
              SendEnd, SetOutputRedline, KickoutUser, Release, AddRef
<1>5. ASSUME NEW w \in Workers,
             \/ \E s \in Servers : CheckBegin(w, s) \/ EventBegin(w, s)
             \/ WorkerReturns(w)
      PROVE  UNCHANGED <<m_reactor, m_passwords, openedWith, m_msgServer>>
  BY <1>5 DEF CheckBegin, EventBegin, Begin, WorkerReturns, OnCheckUser, Admit,
              EventCheck, EventEnd
<1>6. ASSUME NEW s \in Servers, NEW m \in online[s], Leave(s, m)
      PROVE  UNCHANGED <<m_reactor, m_passwords, openedWith, m_msgServer>>
  BY <1>6 DEF Leave
<1>. QED
  BY <1>1, <1>2, <1>3, <1>4, <1>5, <1>6 DEF Next, Abandoned, vars

(* A step that gives no verdict and opens no server keeps verdicts right.   *)
LEMMA VerdictsFrame ==
  ASSUME VerdictsRight, open' \subseteq open, UNCHANGED openedWith,
         \A w \in Workers :
           pc'[w] = "admit" => /\ pc[w] = "admit"
                               /\ lverdict'[w] = lverdict[w]
                               /\ lserver'[w] = lserver[w]
                               /\ lask'[w] = lask[w]
  PROVE  VerdictsRight'
BY DEF VerdictsRight

(* OnCheckUser lets in whom the passwords in use let in, and only if the    *)
(* server that asks is the current one (msg_server.cpp:646-672).            *)
LEMMA OnCheckUserRight ==
  ASSUME TypeOK, LocalsHeld, PasswordsKept, VerdictsRight,
         NEW w \in Workers, OnCheckUser(w)
  PROVE  VerdictsRight'
<1>. USE DEF TypeOK, Goto
<1>0. w \in Threads
  BY DEF Threads
<1>1. /\ UNCHANGED <<open, openedWith, lserver, lask>>
      /\ pc' = [pc EXCEPT ![w] = "admit"]
  BY DEF OnCheckUser, serverVars
<1>2. ASSUME NEW v \in Workers, v # w
      PROVE  pc'[v] = pc[v] /\ lverdict'[v] = lverdict[v]
  BY <1>1, <1>2 DEF OnCheckUser, Threads
<1>3. ASSUME lverdict'[w] # "refused"
      PROVE  Fits(lask[w].peer, openedWith[lserver[w]], lverdict'[w] = "c2s")
  <2>1. /\ m_reactor /\ m_msgServer = lserver[w]
        /\ Proves(lask[w].peer, m_passwords[Slot(ClassOf[lask[w].peer])])
        /\ lverdict'[w] = "c2s" => ClassOf[lask[w].peer] = 255
    BY <1>3 DEF OnCheckUser
  <2>. QED  BY <2>1 DEF PasswordsKept, Fits
<1>. QED  BY <1>1, <1>2, <1>3 DEF VerdictsRight

(* Every step keeps verdicts right: a server under a check is not reopened  *)
(* with other passwords, as the check holds a reference to it.              *)
LEMMA NextVerdicts ==
  ASSUME TypeOK, LocalsHeld, OneOwner, ServerRefs, PasswordsKept,
         VerdictsRight, [Next]_vars
  PROVE  VerdictsRight'
<1>. USE DEF TypeOK, fields, serverVars, asks, Goto
<1>0. Apps \cap Workers = {} /\ Threads = Apps \cup Workers
  BY ServerAssumption DEF Threads
<1>1. ASSUME NEW a \in Apps, InitOk(a) PROVE VerdictsRight'
  <2>1. PICK s \in FreeServers, config \in Configs :
          /\ open' = open \cup {s}
          /\ openedWith' = [openedWith EXCEPT ![s] = config]
          /\ UNCHANGED <<pc, lserver, asks>>
    BY <1>1 DEF InitOk
  <2>2. \A w \in Workers : lserver[w] # s
    BY <1>0, FreeUnused
  <2>. QED  BY <2>1, <2>2 DEF VerdictsRight, FreeServers
<1>2. ASSUME NEW a \in Apps, ~ InitOk(a), AppCalls(a) \/ AppReturns(a)
      PROVE  VerdictsRight'
  <2>1. /\ open' \subseteq open /\ UNCHANGED <<openedWith, asks>>
        /\ \A w \in Workers : pc'[w] = pc[w] /\ lserver'[w] = lserver[w]
    BY <1>0, <1>2 DEF AppCalls, AppReturns, InitFail, FiniLocked, FiniServer,
         DeleteSsl, SendBegin, SendEnd, SetOutputRedline, KickoutUser, Release,
         AddRef
  <2>. QED  BY <2>1, VerdictsFrame
<1>3. ASSUME NEW w \in Workers, ~ OnCheckUser(w),
             \/ \E s \in Servers : CheckBegin(w, s) \/ EventBegin(w, s)
             \/ WorkerReturns(w)
      PROVE  VerdictsRight'
  <2>1. /\ open' \subseteq open /\ UNCHANGED openedWith
        /\ pc'[w] # "admit"
        /\ \A v \in Workers \ {w} :
             /\ pc'[v] = pc[v] /\ lserver'[v] = lserver[v]
             /\ lask'[v] = lask[v] /\ lverdict'[v] = lverdict[v]
    BY <1>0, <1>3 DEF CheckBegin, EventBegin, Begin, WorkerReturns, Admit,
         EventCheck, EventEnd
  <2>. QED  BY <2>1, VerdictsFrame
<1>4. ASSUME NEW s \in Servers, NEW m \in online[s], Leave(s, m)
      PROVE  VerdictsRight'
  BY <1>4, VerdictsFrame DEF Leave
<1>5. CASE UNCHANGED vars
  BY <1>5, VerdictsFrame DEF vars
<1>. QED
  BY <1>1, <1>2, <1>3, <1>4, <1>5, OnCheckUserRight
     DEF Next, WorkerReturns, Abandoned

(* Whom a step does not let in and whom it does not move stays rightly in.  *)
LEMMA AdmissionFrame ==
  ASSUME Admission, UNCHANGED <<open, openedWith>>,
         \A s \in Servers : online'[s] \subseteq online[s]
  PROVE  Admission'
BY DEF Admission

(* The library acts on a verdict only while the server is open              *)
(* (msg_server.cpp:633-672).                                                *)
LEMMA AdmitRight ==
  ASSUME TypeOK, LocalsHeld, VerdictsRight, Admission,
         NEW w \in Workers, Admit(w)
  PROVE  Admission'
<1>. USE DEF TypeOK
<1>0. w \in Threads /\ UNCHANGED <<open, openedWith>>
  BY DEF Threads, Admit
<1>1. lserver[w] \in Servers /\ pc[w] = "admit"
  BY <1>0 DEF Admit, LocalsHeld, ServerPlaces
<1>2. CASE ~ (lverdict[w] # "refused" /\ lserver[w] \in open)
  <2>1. online' = online
    BY <1>1, <1>2 DEF Admit
  <2>. QED  BY <1>0, <2>1, AdmissionFrame
<1>3. CASE lverdict[w] # "refused" /\ lserver[w] \in open
  <2>. DEFINE m == [peer |-> lask[w].peer, c2s |-> lverdict[w] = "c2s"]
  <2>1. Fits(m.peer, openedWith[lserver[w]], m.c2s)
    BY <1>1, <1>3 DEF VerdictsRight
  <2>2. \A s \in Servers : \A n \in online'[s] :
          n \in online[s] \/ (n = m /\ s = lserver[w])
    BY <1>1, <1>3 DEF Admit
  <2>. QED  BY <1>0, <1>3, <2>1, <2>2 DEF Admission, Fits
<1>. QED  BY <1>2, <1>3

(* Every step keeps those online rightly in.                                *)
LEMMA NextAdmission ==
  ASSUME TypeOK, LocalsHeld, VerdictsRight, Admission, [Next]_vars
  PROVE  Admission'
<1>. USE DEF TypeOK, fields, serverVars, asks
<1>1. ASSUME NEW a \in Apps, InitOk(a) PROVE Admission'
  <2>1. PICK s \in FreeServers, config \in Configs :
          /\ open' = open \cup {s}
          /\ openedWith' = [openedWith EXCEPT ![s] = config]
          /\ UNCHANGED online
    BY <1>1 DEF InitOk
  <2>. QED  BY <2>1 DEF Admission, FreeServers
<1>2. ASSUME NEW a \in Apps, FiniServer(a) PROVE Admission'
  BY <1>2 DEF FiniServer, Admission
<1>3. ASSUME NEW a \in Apps, NEW p \in Peers, KickoutUser(a, p)
      PROVE  Admission'
  BY <1>3, AdmissionFrame DEF KickoutUser
<1>4. ASSUME NEW s \in Servers, NEW m \in online[s], Leave(s, m)
      PROVE  Admission'
  BY <1>4, AdmissionFrame DEF Leave
<1>5. CASE UNCHANGED <<open, openedWith, online>>
  BY <1>5, AdmissionFrame
<1>6. ASSUME NEW a \in Apps, AppCalls(a) \/ AppReturns(a)
      PROVE  \/ InitOk(a) \/ FiniServer(a) \/ \E p \in Peers : KickoutUser(a, p)
             \/ UNCHANGED <<open, openedWith, online>>
  BY <1>6 DEF AppCalls, AppReturns, InitFail, FiniLocked, DeleteSsl, SendBegin,
              SendEnd, SetOutputRedline, Release, AddRef
<1>7. ASSUME NEW w \in Workers, ~ Admit(w),
             \/ \E s \in Servers : CheckBegin(w, s) \/ EventBegin(w, s)
             \/ WorkerReturns(w)
      PROVE  UNCHANGED <<open, openedWith, online>>
  BY <1>7 DEF CheckBegin, EventBegin, Begin, WorkerReturns, OnCheckUser,
              EventCheck, EventEnd
<1>. QED
  BY <1>1, <1>2, <1>3, <1>4, <1>5, <1>6, <1>7, AdmitRight
     DEF Next, Abandoned, vars, WorkerReturns

------------------------------------------------------------------------------
(* The program starts with nothing open and nobody online                   *)
(* (msg_server.cpp:149-183).                                                *)
LEMMA InitIInv == Init => IInv
<1>. SUFFICES ASSUME Init PROVE IInv
  OBVIOUS
<1>0. NULL \notin Servers \cup Ssls
  BY ServerAssumption
<1>1. TypeOK
  BY InitTypeOK
<1>2. MembersTogether /\ LocalsHeld /\ PasswordsKept
  BY DEF Init, MembersTogether, LocalsHeld, PasswordsKept, ServerPlaces, Threads
<1>3. OneOwner
  BY <1>0 DEF Init, OneOwner, ServerOwned, SslOwned, Owned, Deletes, DeletesSsl
<1>4. ServerRefs
  <2>1. \A s \in Servers : Holders(s) = {}
    BY <1>0 DEF Init, Holders
  <2>2. Cardinality({}) = 0
    BY FS_EmptySet
  <2>3. \A s \in Servers : srefs[s] = 0 /\ s \notin open
    BY DEF Init
  <2>4. \A s \in Servers : One(s \in open) = 0
    BY <2>3 DEF One
  <2>. QED  BY <2>1, <2>2, <2>3, <2>4 DEF ServerRefs
<1>5. SelfRefs
  <2>1. Callbacks = {} /\ open = {} /\ refs = 1 /\ \E a \in Apps : holds = {a}
    BY DEF Init, Callbacks, Threads
  <2>. QED  BY <2>1, FS_EmptySet, FS_Singleton DEF SelfRefs
<1>6. SslTogether /\ VerdictsRight /\ Admission
  BY DEF Init, SslTogether, VerdictsRight, Admission
<1>. QED  BY <1>1, <1>2, <1>3, <1>4, <1>5, <1>6 DEF IInv, RefsExact

(* The invariant is inductive.                                              *)
LEMMA NextIInv == IInv /\ [Next]_vars => IInv'
BY NextTypeOK, NextMembers, NextLocals, NextOwner, NextRefs, NextSsl,
   NextPasswords, NextVerdicts, NextAdmission
   DEF IInv, RefsExact

(* It holds of every behaviour.                                             *)
THEOREM ServerIInv == Spec => []IInv
BY InitIInv, NextIInv, PTL DEF Spec

(* Every variable keeps its type, whatever the threads, pools and peers.    *)
THEOREM ServerTypeCorrect == Spec => []TypeOK
<1>1. IInv => TypeOK
  BY DEF IInv
<1>. QED  BY <1>1, ServerIInv, PTL

(* No server and no TLS configuration is leaked or deleted twice, however   *)
(* Fini, failing Inits and callbacks interleave (msg_server.cpp:398-401,    *)
(* 420-428).                                                                *)
THEOREM ServerOneOwner == Spec => []OneOwner
<1>1. IInv => OneOwner
  BY DEF IInv
<1>. QED  BY <1>1, ServerIInv, PTL

(* The reference counts of servers and of the CMsgServer are exact in every *)
(* state, so nothing is used after its end (msg_server.cpp:548-553).        *)
THEOREM ServerRefsExact == Spec => []RefsExact
<1>1. IInv => RefsExact
  BY DEF IInv
<1>. QED  BY <1>1, ServerIInv, PTL

(* A server never outlives its TLS configuration (msg_server.cpp:427-428).  *)
THEOREM ServerSslOutlives == Spec => []SslOutlives
<1>1. IInv => SslOutlives
  <2>. SUFFICES ASSUME IInv, NEW s \in open, sssl[s] # NULL
                PROVE  sssl[s] \in sslLive
    BY DEF SslOutlives
  <2>1. s = m_msgServer \/ \E t \in Threads : Deletes(t, s)
    BY DEF IInv, OneOwner, ServerOwned, Owned, TypeOK
  <2>2. sssl[s] = m_sslConfig \/ \E t \in Threads : lssl[t] = sssl[s]
    BY <2>1 DEF IInv, SslTogether
  <2>. QED
    BY <2>2 DEF IInv, TypeOK, OneOwner, SslOwned, Owned, DeletesSsl
<1>. QED  BY <1>1, ServerIInv, PTL

(* Whoever is online has proved the password of its class in the            *)
(* configuration its server was opened with, whatever peers, configurations *)
(* and numbers of lives and threads there are (msg_server.cpp:633-672).     *)
THEOREM ServerAdmission == Spec => []Admission
<1>1. IInv => Admission
  BY DEF IInv
<1>. QED  BY <1>1, ServerIInv, PTL
==============================================================================
