------------------------------ MODULE MsgServer ------------------------------
(****************************************************************************)
(* One CMsgServer and the objects of the library (libpronet, external) it   *)
(* owns: the listening message server and the TLS configuration.  Apps are  *)
(* application threads, Workers are reactor threads that run the observer's *)
(* callbacks; OnCheckUser decides whether a peer that shook hands becomes a *)
(* user.  As in MsgClient, a section of m_lock is one action, the code      *)
(* after the unlock is one action per call, and objects are addresses that  *)
(* are reused once free.                                                    *)
(****************************************************************************)
EXTENDS Integers, FiniteSets

CONSTANTS
  Apps, Workers,    \* application threads, reactor threads
  Servers,          \* IRtpMsgServer objects
  Ssls,             \* PRO_SSL_SERVER_CONFIG objects
  NULL,
  Redlines,         \* arguments of SetOutputRedline (size_t)
  W,                \* 2^32 in the code: values of an unsigned int
  Peers,            \* what connects to the server
  ClassOf,          \* a peer's classId
  Secret,           \* the password a peer proves to know
  Configs           \* configurations: a password for each slot

Slots == {"cid1", "cid2", "cid255", "cidx"}

ASSUME ServerAssumption ==
  /\ NULL \notin Servers \cup Ssls \cup Peers
  /\ Apps \cap Workers = {}
  /\ IsFiniteSet(Apps) /\ IsFiniteSet(Workers) /\ IsFiniteSet(Servers)
  /\ Redlines \subseteq Nat
  /\ W \in Nat \ {0}
  /\ ClassOf \in [Peers -> 1 .. 255]
  /\ \A config \in Configs : DOMAIN config = Slots

Threads == Apps \cup Workers

VARIABLES
  m_reactor,        \* the pointer is set
  m_msgServer, m_sslConfig,
  m_passwords,      \* m_msgConfigInfo.msgs_password_*, NULL before Init
  m_redline,        \* m_msgConfigInfo.msgs_redline_bytes
  refs,             \* the CProRefCount of the CMsgServer
  open,             \* servers created and not yet deleted
  srefs, sssl, sred,    \* of a server: references, TLS config, redline
  online,           \* of a server: the users it has let in
  openedWith,       \* history: the passwords it was opened with
  sslLive,          \* TLS configurations created and not deleted
  holds,            \* the apps that own a reference to the CMsgServer
  pc, lserver, lssl,    \* each thread's place and locals
  lask, lverdict    \* the peer and route a worker checks, and the outcome

fields == <<m_reactor, m_msgServer, m_sslConfig, m_passwords>>
serverVars == <<open, srefs, sssl, sred, online, openedWith>>
asks == <<lask, lverdict>>
vars == <<fields, m_redline, refs, serverVars, sslLive, holds, pc, lserver,
          lssl, asks>>

AppPlaces == {"idle", "send", "exit", "finiServer", "finiSsl"}
WorkerPlaces == {"idle", "check", "admit", "event", "deliver", "eventEnd"}
Asks == [peer : Peers, via : Peers \cup {NULL}]
Members == [peer : Peers, c2s : BOOLEAN]

\* The one type invariant.
TypeOK ==
  /\ m_reactor \in BOOLEAN
  /\ m_msgServer \in Servers \cup {NULL}
  /\ m_sslConfig \in Ssls \cup {NULL}
  /\ m_passwords \in Configs \cup {NULL}
  /\ m_redline \in 0 .. (W - 1)
  /\ refs \in Int
  /\ open \subseteq Servers
  /\ srefs \in [Servers -> Int]
  /\ sssl \in [Servers -> Ssls \cup {NULL}]
  /\ sred \in [Servers -> Nat]
  /\ online \in [Servers -> SUBSET Members]
  /\ openedWith \in [Servers -> Configs \cup {NULL}]
  /\ sslLive \subseteq Ssls
  /\ holds \subseteq Apps
  /\ pc \in [Threads -> AppPlaces \cup WorkerPlaces]
  /\ \A a \in Apps : pc[a] \in AppPlaces
  /\ \A w \in Workers : pc[w] \in WorkerPlaces
  /\ lserver \in [Threads -> Servers \cup {NULL}]
  /\ lssl \in [Threads -> Ssls \cup {NULL}]
  /\ lask \in [Workers -> Asks \cup {NULL}]
  /\ lverdict \in [Workers -> {"refused", "user", "c2s"}]

------------------------------------------------------------------------------
(* Helpers.                                                                 *)

Goto(t, place) == pc' = [pc EXCEPT ![t] = place]

FreeServers == {s \in Servers \ open : srefs[s] = 0}
FreeSsls == Ssls \ sslLive

\* Which password OnCheckUser takes for a class.
Slot(class) == CASE class = 1 -> "cid1"
                 [] class = 2 -> "cid2"
                 [] class = 255 -> "cid255"
                 [] OTHER -> "cidx"

Init ==
  /\ m_reactor = FALSE
  /\ m_msgServer = NULL /\ m_sslConfig = NULL /\ m_passwords = NULL
  /\ m_redline = 0
  /\ refs = 1
  /\ open = {}
  /\ srefs = [s \in Servers |-> 0]
  /\ sssl = [s \in Servers |-> NULL]
  /\ sred = [s \in Servers |-> 0]
  /\ online = [s \in Servers |-> {}]
  /\ openedWith = [s \in Servers |-> NULL]
  /\ sslLive = {}
  /\ \E a \in Apps : holds = {a}
  /\ pc = [t \in Threads |-> "idle"]
  /\ lserver = [t \in Threads |-> NULL]
  /\ lssl = [t \in Threads |-> NULL]
  /\ lask = [w \in Workers |-> NULL]
  /\ lverdict = [w \in Workers |-> "refused"]

------------------------------------------------------------------------------
\* An app that owns a reference calls the server.
Calls(a) == a \in holds /\ pc[a] = "idle"

\* CMsgServer::Init that succeeds: CreateRtpMsgServer takes a reference to its
\* observer, the CMsgServer.
InitOk(a) ==
  /\ Calls(a)
  /\ ~m_reactor /\ m_sslConfig = NULL /\ m_msgServer = NULL
  /\ \E s \in FreeServers, l \in FreeSsls \cup {NULL}, config \in Configs,
        v \in {x \in Redlines : x < W} :
       /\ open' = open \cup {s}
       /\ srefs' = [srefs EXCEPT ![s] = 1]
       /\ sssl' = [sssl EXCEPT ![s] = l]
       /\ sred' = [sred EXCEPT ![s] = v]
       /\ openedWith' = [openedWith EXCEPT ![s] = config]
       /\ sslLive' = sslLive \cup ({l} \ {NULL})
       /\ m_msgServer' = s
       /\ m_sslConfig' = l
       /\ m_passwords' = config
       /\ m_redline' = v
  /\ m_reactor' = TRUE
  /\ refs' = refs + 1
  /\ UNCHANGED <<online, holds, pc, lserver, lssl, asks>>

\* CMsgServer::Init that fails once the TLS configuration exists, because a
\* certificate cannot be read or the port cannot be had.
InitFail(a) ==
  /\ Calls(a)
  /\ ~m_reactor /\ m_sslConfig = NULL /\ m_msgServer = NULL
  /\ \E l \in FreeSsls : /\ sslLive' = sslLive \cup {l}
                         /\ lssl' = [lssl EXCEPT ![a] = l]
  /\ Goto(a, "exit")
  /\ UNCHANGED <<fields, m_redline, refs, serverVars, holds, lserver, asks>>

\* CMsgServer::Fini, under m_lock.
FiniLocked(a) ==
  /\ Calls(a)
  /\ m_reactor
  /\ lserver' = [lserver EXCEPT ![a] = m_msgServer]
  /\ lssl' = [lssl EXCEPT ![a] = m_sslConfig]
  /\ m_msgServer' = NULL
  /\ m_sslConfig' = NULL
  /\ m_reactor' = FALSE
  /\ Goto(a, "finiServer")
  /\ UNCHANGED <<m_passwords, m_redline, refs, serverVars, sslLive, holds, asks>>

\* Mutant of FiniServer: the TLS configuration goes first.
FiniServerSslFirst(a) ==
  /\ pc[a] = "finiServer"
  /\ \/ /\ lssl[a] \in sslLive
        /\ sslLive' = sslLive \ {lssl[a]}
        /\ UNCHANGED <<serverVars, refs, pc, lserver>>
     \/ /\ lssl[a] \notin sslLive
        /\ open' = open \ {lserver[a]}
        /\ online' = [online EXCEPT ![lserver[a]] = {}]
        /\ srefs' = [srefs EXCEPT ![lserver[a]] = @ - 1]
        /\ refs' = refs - 1
        /\ lserver' = [lserver EXCEPT ![a] = NULL]
        /\ Goto(a, "finiSsl")
        /\ UNCHANGED <<sssl, sred, openedWith, sslLive>>
  /\ UNCHANGED <<fields, m_redline, holds, lssl, asks>>

\* DeleteRtpMsgServer: its users are gone, no callback starts any more.
FiniServer(a) ==
  /\ pc[a] = "finiServer"
  /\ open' = open \ {lserver[a]}
  /\ online' = [online EXCEPT ![lserver[a]] = {}]
  /\ srefs' = [srefs EXCEPT ![lserver[a]] = @ - 1]
  /\ refs' = refs - 1
  /\ lserver' = [lserver EXCEPT ![a] = NULL]
  /\ Goto(a, "finiSsl")
  /\ UNCHANGED <<fields, m_redline, sssl, sred, openedWith, sslLive, holds, lssl,
                 asks>>

\* Mutant of DeleteSsl: Init's error path leaves the TLS configuration behind.
DeleteSslOnFini(a) ==
  /\ pc[a] \in {"exit", "finiSsl"}
  /\ sslLive' = IF pc[a] = "finiSsl" THEN sslLive \ {lssl[a]} ELSE sslLive
  /\ lssl' = [lssl EXCEPT ![a] = NULL]
  /\ Goto(a, "idle")
  /\ UNCHANGED <<fields, m_redline, refs, serverVars, holds, lserver, asks>>

\* ProSslServerConfig_Delete, at the end of Fini and on Init's error path.
DeleteSsl(a) ==
  /\ pc[a] \in {"exit", "finiSsl"}
  /\ sslLive' = sslLive \ {lssl[a]}
  /\ lssl' = [lssl EXCEPT ![a] = NULL]
  /\ Goto(a, "idle")
  /\ UNCHANGED <<fields, m_redline, refs, serverVars, holds, lserver, asks>>

\* CMsgServer::SendMsg2: the server is kept alive across the unlock.
SendBegin(a) ==
  /\ Calls(a)
  /\ m_reactor /\ m_msgServer # NULL
  /\ srefs' = [srefs EXCEPT ![m_msgServer] = @ + 1]
  /\ lserver' = [lserver EXCEPT ![a] = m_msgServer]
  /\ Goto(a, "send")
  /\ UNCHANGED <<fields, m_redline, refs, open, sssl, sred, online, openedWith,
                 sslLive, holds, lssl, asks>>

\* Mutant of SendEnd: the reference is not given back.
SendEndForgets(a) ==
  /\ pc[a] = "send"
  /\ lserver' = [lserver EXCEPT ![a] = NULL]
  /\ Goto(a, "idle")
  /\ UNCHANGED <<fields, m_redline, refs, serverVars, sslLive, holds, lssl, asks>>

SendEnd(a) ==
  /\ pc[a] = "send"
  /\ srefs' = [srefs EXCEPT ![lserver[a]] = @ - 1]
  /\ lserver' = [lserver EXCEPT ![a] = NULL]
  /\ Goto(a, "idle")
  /\ UNCHANGED <<fields, m_redline, refs, open, sssl, sred, online, openedWith,
                 sslLive, holds, lssl, asks>>

\* Mutant of SetOutputRedline: the configuration keeps a size_t.
SetOutputRedlineUncut(a) ==
  /\ Calls(a) /\ m_reactor /\ m_msgServer # NULL
  /\ \E v \in Redlines : /\ sred' = [sred EXCEPT ![m_msgServer] = v]
                         /\ m_redline' = v
  /\ UNCHANGED <<fields, refs, open, srefs, sssl, online, openedWith, sslLive,
                 holds, pc, lserver, lssl, asks>>

\* CMsgServer::SetOutputRedline.
SetOutputRedline(a) ==
  /\ Calls(a)
  /\ m_reactor /\ m_msgServer # NULL
  /\ \E v \in Redlines : /\ sred' = [sred EXCEPT ![m_msgServer] = v]
                         /\ m_redline' = v % W
  /\ UNCHANGED <<fields, refs, open, srefs, sssl, online, openedWith, sslLive,
                 holds, pc, lserver, lssl, asks>>

\* CMsgServer::KickoutUser: the library closes the user's connection.
KickoutUser(a, p) ==
  /\ Calls(a)
  /\ m_reactor /\ m_msgServer # NULL
  /\ online' = [online EXCEPT ![m_msgServer] = {m \in @ : m.peer # p}]
  /\ UNCHANGED <<fields, m_redline, refs, open, srefs, sssl, sred, openedWith,
                 sslLive, holds, pc, lserver, lssl, asks>>

AddRef(a, b) ==
  /\ Calls(a)
  /\ b \in Apps \ holds /\ pc[b] = "idle"
  /\ refs' = refs + 1
  /\ holds' = holds \cup {b}
  /\ UNCHANGED <<fields, m_redline, serverVars, sslLive, pc, lserver, lssl, asks>>

Release(a) ==
  /\ Calls(a)
  /\ refs' = refs - 1
  /\ holds' = holds \ {a}
  /\ UNCHANGED <<fields, m_redline, serverVars, sslLive, pc, lserver, lssl, asks>>

------------------------------------------------------------------------------
(* Reactor threads.                                                         *)

\* The library begins a callback on an open server: it refers to the server
\* and to the observer until the callback has returned.
Begin(w, s, place) ==
  /\ pc[w] = "idle"
  /\ s \in open
  /\ srefs' = [srefs EXCEPT ![s] = @ + 1]
  /\ refs' = refs + 1
  /\ lserver' = [lserver EXCEPT ![w] = s]
  /\ Goto(w, place)
  /\ UNCHANGED <<fields, m_redline, open, sssl, sred, openedWith, online,
                 sslLive, holds, lssl, lverdict>>

\* A peer has shaken hands, by itself or through a user that is a c2s.
CheckBegin(w, s) ==
  /\ Begin(w, s, "check")
  /\ \E p \in Peers, v \in {m.peer : m \in {x \in online[s] : x.c2s}} \cup {NULL} :
       lask' = [lask EXCEPT ![w] = [peer |-> p, via |-> v]]

\* A peer's proof holds for password.
Proves(p, password) == Secret[p] = password

\* Mutant of OnCheckUser: the server that asks is not compared.
OnCheckUserAnyServer(w) ==
  /\ pc[w] = "check"
  /\ LET p == lask[w].peer
         class == ClassOf[p]
     IN lverdict' = [lverdict EXCEPT ![w] =
                       IF m_reactor /\ Proves(p, m_passwords[Slot(class)])
                         THEN IF lask[w].via = NULL /\ class = 255
                                THEN "c2s" ELSE "user"
                         ELSE "refused"]
  /\ Goto(w, "admit")
  /\ UNCHANGED <<fields, m_redline, refs, serverVars, sslLive, holds, lserver,
                 lssl, lask>>

\* CMsgServer::OnCheckUser, under m_lock.
OnCheckUser(w) ==
  /\ pc[w] = "check"
  /\ LET p == lask[w].peer
         class == ClassOf[p]
     IN lverdict' = [lverdict EXCEPT ![w] =
                       IF /\ m_reactor
                          /\ m_msgServer = lserver[w]
                          /\ Proves(p, m_passwords[Slot(class)])
                         THEN IF lask[w].via = NULL /\ class = 255
                                THEN "c2s" ELSE "user"
                         ELSE "refused"]
  /\ Goto(w, "admit")
  /\ UNCHANGED <<fields, m_redline, refs, serverVars, sslLive, holds, lserver,
                 lssl, lask>>

\* The library acts on the verdict, unless the server is closed by now.
Admit(w) ==
  /\ pc[w] = "admit"
  /\ online' = [online EXCEPT ![lserver[w]] =
                  IF lverdict[w] # "refused" /\ lserver[w] \in open
                    THEN {m \in @ : m.peer # lask[w].peer}
                           \cup {[peer |-> lask[w].peer,
                                  c2s |-> lverdict[w] = "c2s"]}
                    ELSE @]
  /\ srefs' = [srefs EXCEPT ![lserver[w]] = @ - 1]
  /\ refs' = refs - 1
  /\ lserver' = [lserver EXCEPT ![w] = NULL]
  /\ lask' = [lask EXCEPT ![w] = NULL]
  /\ lverdict' = [lverdict EXCEPT ![w] = "refused"]
  /\ Goto(w, "idle")
  /\ UNCHANGED <<fields, m_redline, open, sssl, sred, openedWith, sslLive, holds,
                 lssl>>

\* A user's connection closes by itself.
Leave(s, m) ==
  /\ s \in open
  /\ m \in online[s]
  /\ online' = [online EXCEPT ![s] = @ \ {m}]
  /\ UNCHANGED <<fields, m_redline, refs, open, srefs, sssl, sred, openedWith,
                 sslLive, holds, pc, lserver, lssl, asks>>

\* OnOkUser, OnCloseUser, OnHeartbeatUser or OnRecvMsg.
EventBegin(w, s) == Begin(w, s, "event") /\ UNCHANGED lask

\* The section of m_lock these callbacks start with.
EventCheck(w) ==
  /\ pc[w] = "event"
  /\ \/ /\ m_reactor /\ m_msgServer = lserver[w]
        /\ Goto(w, "deliver")
     \/ /\ ~m_reactor \/ m_msgServer # lserver[w]
        /\ Goto(w, "eventEnd")
  /\ UNCHANGED <<fields, m_redline, refs, serverVars, sslLive, holds, lserver,
                 lssl, asks>>

EventEnd(w) ==
  /\ pc[w] \in {"deliver", "eventEnd"}
  /\ srefs' = [srefs EXCEPT ![lserver[w]] = @ - 1]
  /\ refs' = refs - 1
  /\ lserver' = [lserver EXCEPT ![w] = NULL]
  /\ Goto(w, "idle")
  /\ UNCHANGED <<fields, m_redline, open, sssl, sred, online, openedWith,
                 sslLive, holds, lssl, asks>>

------------------------------------------------------------------------------
AppCalls(a) ==
  \/ InitOk(a) \/ InitFail(a) \/ FiniLocked(a) \/ SendBegin(a)
  \/ SetOutputRedline(a) \/ Release(a)
  \/ \E p \in Peers : KickoutUser(a, p)
  \/ \E b \in Apps : AddRef(a, b)

AppReturns(a) == FiniServer(a) \/ DeleteSsl(a) \/ SendEnd(a)

WorkerReturns(w) ==
  OnCheckUser(w) \/ Admit(w) \/ EventCheck(w) \/ EventEnd(w)

Abandoned ==
  /\ holds = {}
  /\ \A t \in Threads : pc[t] = "idle"
  /\ UNCHANGED vars

Next ==
  \/ \E a \in Apps : AppCalls(a) \/ AppReturns(a)
  \/ \E w \in Workers, s \in Servers : CheckBegin(w, s) \/ EventBegin(w, s)
  \/ \E w \in Workers : WorkerReturns(w)
  \/ \E s \in Servers : \E m \in online[s] : Leave(s, m)
  \/ Abandoned

Spec == Init /\ [][Next]_vars

\* Locks are granted and started calls go on.
Fairness ==
  /\ \A a \in Apps : WF_vars(AppReturns(a))
  /\ \A w \in Workers : WF_vars(WorkerReturns(w))

FairSpec == Spec /\ Fairness

------------------------------------------------------------------------------
(* Properties.                                                              *)

\* A thread has taken server s, TLS configuration l out of the members and is
\* about to delete it.
Deletes(t, s) == pc[t] = "finiServer" /\ lserver[t] = s
DeletesSsl(t, l) == lssl[t] = l

\* Each live object is either the member or due for deletion by one thread
\* (msg_server.cpp:398-401,420-428).
Owned(Objects, Live, member, GivesBack(_, _)) ==
  \A x \in Objects :
    /\ x \in Live <=> (x = member \/ \E t \in Threads : GivesBack(t, x))
    /\ \A t \in Threads : GivesBack(t, x) => x # member
    /\ \A t, u \in Threads : GivesBack(t, x) /\ GivesBack(u, x) => t = u

ServerOwned == Owned(Servers, open, m_msgServer, Deletes)
SslOwned == Owned(Ssls, sslLive, m_sslConfig, DeletesSsl)
OneOwner == ServerOwned /\ SslOwned

One(b) == IF b THEN 1 ELSE 0

\* The threads that hold a reference to server s, and those that, besides the
\* apps' own references, hold one to the CMsgServer.
Holders(s) == {t \in Threads : lserver[t] = s /\ pc[t] # "finiServer"}
Callbacks == {w \in Workers : pc[w] # "idle"}

ServerRefs ==
  \A s \in Servers : srefs[s] = One(s \in open) + Cardinality(Holders(s))
SelfRefs == refs = Cardinality(holds) + Cardinality(open) + Cardinality(Callbacks)

\* Reference counts are exact: nobody uses a dead server, nobody keeps a dead
\* one alive (msg_server.cpp:548-553).
RefsExact == ServerRefs /\ SelfRefs

\* With no reconnects, a server never outlives its TLS configuration
\* (msg_server.cpp:427-428).
SslOutlives == \A s \in open : sssl[s] # NULL => sssl[s] \in sslLive

\* Whoever is online proved the password of its class in the configuration that
\* server was opened with, however checks, Fini and a new Init with other
\* passwords interleave; only class 255 becomes a c2s
\* (msg_server.cpp:633-672).
Admission ==
  \A s \in Servers : \A m \in online[s] :
    /\ s \in open
    /\ Proves(m.peer, openedWith[s][Slot(ClassOf[m.peer])])
    /\ m.c2s => ClassOf[m.peer] = 255

\* After Fini and the last Release, everything is given back.
Reclaimed ==
  (~m_reactor /\ holds = {}) ~>
    (refs = 0 /\ open = {} /\ sslLive = {} /\ \A s \in Servers : srefs[s] = 0)
==============================================================================
