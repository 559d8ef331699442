# A TLA+ model of LibProMsg

LibProMsg wraps the message client and server of LibProNet (external, not in
this repository) in classes an application can open, close and use from several
threads, and in a JNI library that does the same for Java. It does little work
of its own: what it has to get right is *who owns what, which thread gives it
back, and what a callback may still rely on* when application threads, timers
and connection events meet. That is what this directory models and checks.

## Inventory

| Component | State | Operations | Who calls it |
| --- | --- | --- | --- |
| `CMsgReconnector` (`msg_reconnector.cpp`) | client, reactor, timer id, tick of the last attempt; `m_lock` | `Init`, `Fini`, `Reconnect`, `OnTimer` | the client; the reactor's timer |
| `CMsgClient` (`msg_client.cpp`) | reactor, configuration, TLS configuration, connection, reconnector; recursive `m_lock`; reference count | `Init`, `Fini`, `SendMsg2`, `SetOutputRedline`, `Reconnect`, `Reconnect_i`, the `On...Msg` callbacks, getters | application threads; the reconnector; the library |
| `CMsgClient2` (`msg_client2.cpp`) | an observer on top of a `CMsgClient` | `Init`, `Fini`, callbacks passed on | as above |
| `CMsgServer` (`msg_server.cpp`) | reactor, configuration, TLS configuration, server; recursive `m_lock`; reference count | `Init`, `Fini`, `OnCheckUser`, `KickoutUser`, `SendMsg2`, `SetOutputRedline`, callbacks, getters | application threads; the library |
| JNI registry (`com_pro_msg_ProMsgJni.cpp`) | reactor, class references, sets of client and server handles; `g_s_lock` | `init`, `fini`, create, delete, every call on a handle | Java threads; callbacks for the class references |
| `CMsgClientJni`, `CMsgServerJni` | a `CMsgClient` or `CMsgServer` and a global reference to a Java listener | callbacks to Java | the library |
| `jni_util.cpp` | the virtual machine, a thread-local key | attach, detach | callbacks, destructors |
| Configuration (`ReadConfig_i`, `Init`) | none | parse, default, override | `Init` |

Hard behaviour, and what makes each part correct:

* **Reconnector.** A timer callback that a reactor thread has started cannot be
  recalled by `CancelTimer`. `OnTimer` compares timer ids for that reason.
  Correct means: attempts only when asked for, one for any number of requests,
  never sooner than the interval after the last one, none after `Fini`, and no
  request lost.
* **Client.** Pointers are taken out of the members under `m_lock` and the
  objects deleted after the unlock; client and reconnector refer to each other;
  `Reconnect_i` runs some time after the timer has left the reconnector's lock.
  Correct means: each object deleted once, none used after its last reference,
  a closed client never revived, the cycle broken by `Fini`.
* **Client with observer.** An event is checked under the lock and delivered
  after it. Correct means: to the observer of the life the event belongs to.
* **Server.** The library asks `OnCheckUser` with a server that may be closed
  by then. Correct means: nobody gets in by another configuration's passwords.
* **Registry.** Handles are addresses; `delete` and `fini` take objects out
  under `g_s_lock` and finish them after it; a call converts its users before it
  looks at its handle, each in a section of its own. Correct means: a registered
  object lives on the current reactor, a handle is only taken for an object of
  its class, racing calls finish it once, and a call works for the users it was
  given.
* **Thread attachment.** A callback and a destructor both attach and detach the
  thread they run on, and a destructor may run inside a callback. Correct means:
  an environment is used only while the thread is attached, and a reactor thread
  leaves every callback detached.

A failed reconnect is the only thing that is retried. Nothing is persisted, and messages
are the library's business: there is no crash recovery and no lost message to
model here.

## Modules

| Module | Models | How it corresponds to the code |
| --- | --- | --- |
| `ReconnectPolicy` | what a client may rely on | abstract: `Open`, `Request`, `Attempt`, `Close` and a clock |
| `ClientLife` | what an application may rely on from a client | abstract: the connection, whether a new one is wanted, whose events are delivered; `Open`, `Request`, `Replace`, `Close`, `Deliver` |
| `ObjectLife` | what Java may rely on from handles | abstract: which objects are being made, open, being closed and closed, which threads work on them, which are alive; `Create`, `Publish`, `Delete`, `Close`, `Leave`, `Begin`, `End` and the library's `Init` and `Fini` |
| `MsgReconnector` | `CMsgReconnector` with a clock | one action per method, each of which is one section of `m_lock`; a started timer callback is an element of `fired`; `AttemptDone` and `AttemptFailed` are `Reconnect_i` as the reconnector sees it |
| `MsgClient` | `CMsgClient` with its reconnector, without the clock | one action per section of `m_lock` and one per call after an unlock (`FiniLocked`, `FiniRec`, `FiniRel`, `FiniConn`, `FiniSsl`); `pc` and `l...` are a thread's place and locals |
| `MsgClient2` | `CMsgClient2` | `C == INSTANCE MsgClient`; each action is one of `C`'s joined with the observer's part, or one of the two steps `Fini` makes before the base class |
| `MsgServer` | `CMsgServer` | as `MsgClient`; a check of a peer is `CheckBegin` (library), `OnCheckUser` (section of `m_lock`), `Admit` (library) |
| `JniRegistry` | the globals of the JNI library and the life of its objects | one action per section of `g_s_lock`, except that a create holds it from `CreateClient` or `CreateServer` (`CreateObj`) to `InsertClient` or `InsertServer`; a call on a handle is one of `ReadClient`, `UseClient`, `SendClient`, their server forms, `ReadServerUser` or `KickoutUser`, and then `ReleaseLast`; `Convert` comes before those that take users, once per user; `fini` is `FiniLocked`, then `FiniNext` and `FiniRel` per object, then `DeleteReactor` |
| `MsgConfig` | `ReadConfig_i` and the part of `Init` before the life cycle, of client and server | one action per kind of item in `ReadConfig_i`'s loop (`ReadValue`, `ReadSecret`, `ReadFiles`, `ReadPath`, `ReadUnknown`), then `Override`, `Resolve` (DNS), `MakeSsl`; `ClientKind` and `ServerKind` say which name is of which kind |
| `JniUser` | the conversion of users between Java and C++ | operators `Legal`, `ToCpp`, `ToJava`, used by `JniRegistry` |
| `JniUtil` | `jni_util.cpp` and its use in callbacks and destructors | `Attach`, `AttachRefused` and `Detach` are `JniUtilAttach` and `JniUtilDetach`, shared by the callback (`CbBegin` to `CbEnd`) and the destructor (`DtorAttach`, `DtorDelete`, `DtorDetach`) of any thread; `dtor` is a second place of a thread, as a destructor may interrupt a callback; `Exit` is the thread's end with `JniUtilCleanup_i` |
| `MsgReconnectorProofs`, `MsgClientProofs`, `MsgClient2Proofs`, `MsgServerProofs`, `MsgConfigProofs`, `JniRegistryProofs`, `JniUserProofs`, `JniUtilProofs` | theorems | each extends the module it is about; `MsgClient2Proofs` also has `CP == INSTANCE MsgClientProofs` for its base class |
| `MC...` | instances for TLC | symmetry sets and values of constants |

Operators named like an action with a suffix (`FiniLockedSslFirst`) and marked
"Mutant of" are faulty variants of that action. No specification uses them:
each shows that a property notices a plausible bug.

### Abstractions

* Objects are addresses from finite pools, reused as soon as their reference
  count is 0. Stale pointers therefore meet new objects at the old address.
* The library is modelled by what the code relies on: a deleted connection or
  server starts no new callback; a callback holds a reference to its object and
  its observer; a timer fires once; `CancelTimer` does not recall a callback;
  `ProDeleteReactor` waits for the callbacks of its threads.
* A call made inside a callback acts like the same call by an application
  thread at that moment, since no lock of this code is held there. (In `JniUtil`,
  where the thread matters, it is a call by that very thread.) The one
  exception is `fini` inside a callback, which would wait for itself. It is
  excluded, as no thread may delete the reactor it runs on.
* Getters are left out: they change nothing. Calls that return early (not
  initialised, already initialised, unknown handle) change nothing either and
  are the absence of a step. A failing `Init` without a TLS configuration
  creates nothing that stays.
* In `JniRegistry` the objects' own `Init` and `Fini` are single steps:
  `MsgClient` and `MsgServer` have the detail.
* `JniUtil` has the registry of `JniRegistry` in brief, without locks and without
  the reactor's life: a reactor thread may end whenever it is in no callback. The
  virtual machine is modelled by the JNI specification: attaching may fail;
  detaching fails with Java methods on the stack, and otherwise ends with a
  pending exception; what `CallVoidMethod` does with an exception pending is open.
* In `JniRegistry` the users of a call are a set: their order does not matter.
* `MsgConfig` is sequential: nothing is shared before `Init` takes `m_lock`. Texts
  are members of a small set, with functions for `atoi`, for the prefix of
  relative paths, for the name service and for `RtpMsgString2User`. The last is the
  library's and fills in a member, with a result nobody looks at: `UserOf` says
  which user it makes of a text, a malformed one too, or that it leaves the member
  alone. What it makes is taken to depend on the text only. The code compares names without
  regard to case, so a name is its lower-case form here.
* `size_t` and `unsigned int` are modelled where they differ: redlines are
  naturals, the configuration keeps them modulo `W` (2^32 in the code).

## Runs

| Run | Question | Bounds |
| --- | --- | --- |
| `MsgReconnector` | Is a request kept, are timers not left behind; does it implement `ReconnectPolicy`, so that attempts come only when asked for, and spaced? | 3 timer ids: the pending timer, one callback under way, one new. Interval 0, which counts as 1 second of 2 ticks; 6 ticks are three intervals |
| `MsgReconnectorLive` | Is a request attempted in the end? | 2 timer ids, 5 ticks |
| `MsgClient` | Is everything given back once, is nothing used after its end, is a closed client never revived; does it implement `ClientLife`, so that a reconnect asked for or failed is tried until it succeeds? | 2 application and 2 reactor threads, 3 connections (current, replaced, new), 2 reconnectors (a past and a present life), 3 timers, 1 TLS configuration or none |
| `MsgClientLive` | Does the redline survive a reconnect; is the cycle broken after `Fini` and `Release`? | redlines below and above `W` |
| `MsgClient2` | Does an event reach the observer of its own connection, alive? | 2 observers, 2 lives, 2 threads of each kind |
| `MsgClient2Init` | Do `CMsgClient::Init`'s assertions hold? They do not: see Findings | as `MsgClient2` |
| `MsgServer` | Who gets in; is everything given back once and in order? | 2 servers (a past and a present life), 2 configurations that trust different peers, a peer of class 1 and one of class 255 |
| `MsgServerLive` | Reclamation of the server; the width of its redline | redlines below and above `W` |
| `MsgConfig` | Does the last legal item win, do arguments override it, is a client's server an address, are the items' passwords wiped, when is there TLS? | every file of up to 2 items (a legal and an illegal one, two files, a CA file and a certificate), names of every kind on both sides, six texts (as an id: a user, one of class 0, none), at most one argument (`MaxItems`, `MaxArgs`) |
| `JniRegistry` | Do init, fini, create, delete, calls and callbacks leave a sound registry; does it implement `ObjectLife`, so that no call begins on an object that has been taken out? | 3 Java threads (two deletes and a fini), 2 reactor threads, 2 addresses, which clients and servers share, 2 reactors (two lives) |
| `JniRegistryLive` | Does `fini` return, and is every erased object destroyed; which users does a call work for? | 2 Java threads, 1 reactor thread, 1 reactor; calls with up to 2 users out of a legal one, one with an id too wide and one with a class out of range, all three the same if they were cut |
| `JniUtil` | Is a thread attached when it has to be and detached when it should be, and is a listener given back? | 2 Java and 2 reactor threads, 3 objects (called, deleted in the callback, made in vain) |

The bounds are the smallest at which the races of interest happen: each needs
at most two threads of a kind and one old and one new object of each pool. Pools
are not history: an address is free again when its object is gone, so lives
repeat without a limit, except for reactors (`JniRegistry`) and the clock
(`MsgReconnector`), where the bound ends the behaviour. `Abandoned` and
`Exhausted` are those ends: no reference is left, or every reactor is used up.
Deadlock is checked in every run.

Symmetry is used in the runs without liveness only: threads and addresses are
interchangeable.

### Fairness

Calls by applications are never assumed to happen. Weakly fair is only what the
code or the library goes on with by itself: code after an unlock, a callback
that has begun, a due timer, the clock. In `JniRegistry` a callback that waits
for `g_s_lock` gets it in the end (strong fairness), as the sections of that
lock are short; a mutex that starved a thread forever would break it.
`RequestServed` needs the application to stop calling `Reconnect`: each call
puts the timer off, as long as the last attempt's date plus the interval has
not passed, and the code promises nothing else.

### What some properties say exactly

* `SslOutlived` (client) and `ReactorOutlives` (registry) name the only case in
  which an order is broken. A replaced connection can outlive the TLS
  configuration it was made with when `Fini` runs between the unlock and the
  delete of `Reconnect_i` (`msg_client.cpp:723`); whether that matters depends
  on the library's own reference to the configuration. `fini` can delete the
  reactor under an object that another thread has erased but not finished
  (`com_pro_msg_ProMsgJni.cpp:582-586`): a Java program has to order the two.
  TLC reaches both cases.
* `ImplementsLife` counts a reconnect as wanted while the client's reconnector
  has a timer pending, or a callback of that timer has not come to the end of
  `Reconnect_i`. `ClientLife` lets a replacement leave the request standing (one
  asked for in between), and drops it only at `Close` or with a replacement.
* `ImplementsObjects` has one stage of an object's life per place that refers to
  it: a create that holds `g_s_lock` (`making`), the handle sets (`open`), a
  delete that has not called `Fini` or the list a `fini` goes through
  (`closing`), a delete or `fini` before its `Release` (`closed`). `ObjectLife`
  knows no lock, no count and no reactor. It allows two deletes to meet, and a
  callback to come before the handle is known or after it is erased; it does not
  allow a call to find an object that is no longer open, which no count and no
  invariant of the registry would notice (mutant `LookupTrusting`).
* `LeavesDetached` excepts threads in one of whose callbacks a destructor has
  run. Java code does that by `msgClientDelete` or `msgServerDelete` of another
  object, by a create that fails, or by holding the last reference in some other
  call. The destructor's `JniUtilDetach` finds the key that the callback's
  `JniUtilAttach` has set, tries to detach (the virtual machine refuses) and
  clears the key (`jni_util.cpp:145-166`). The callback's own `JniUtilDetach`
  then does nothing: the thread stays attached for its life, its end does not
  detach it either (`JniUtilCleanup_i` runs for a key that is set), a virtual
  machine that wants to end waits for it, and an exception a later listener
  throws stays pending, so that from then on events with a user are dropped.
  TLC reaches each of these states.
* `LastLegalWins` cannot promise for `msgc_id` what it promises for every other
  name. `ReadConfig_i` passes any nonempty text to `RtpMsgString2User`
  (`msg_client.cpp:81-84`), so a malformed item takes a legal one away if the
  library makes a user of it. An argument is looked at, if only for its class
  (`msg_client.cpp:265`), and prevails. TLC reaches a client whose id is of class 0.
* `UsersAsGiven` lets a legal user come to nobody if the library was closed when
  it was converted, and to another one if its id has more than the 40 bits that
  `ProMsgJni.java:31` gives it, which the check at
  `com_pro_msg_ProMsgJni.cpp:148` does not look for.
* A timer callback of a previous life that is still under way after `Fini` and a
  new `Init` makes `Reconnect_i` replace the new life's connection
  (`msg_client.cpp:692`). Nothing is leaked by it; the extra reconnect is
  allowed by the model as by the code.

## Findings

`MsgClient2Init`: `CMsgClient2::Fini` clears `m_observer` in one section of
`m_lock` (`msg_client2.cpp:101`) and closes the base class after the unlock
(`msg_client2.cpp:104-106`). An `Init` by another thread in between passes its
own assertion (`msg_client2.cpp:68`) and reaches the assertions of
`CMsgClient::Init` (`msg_client.cpp:301-304`) with a client that is still open.
With assertions compiled in the process aborts; without them `Init` returns
false although `Fini` has taken the observer away. TLC's shortest trace: `Init2`
by one user, `AddRef` for another, `FiniObserver`.

## Proofs

TLAPS proves all invariants of the passing runs and their refinements
(`ImplementsPolicy`, `ImplementsLife`, `ImplementsObjects`) for every value of
the constants that satisfies the modules' named assumptions. The
assumptions (`ReconnectorAssumption`, `ClientAssumption`, `Client2Assumption`,
`ServerAssumption`, `RegistryAssumption`, `UtilAssumption`, `UserAssumption`,
`ConfigAssumption`; TLC evaluates each on its instances) say that `NULL` is no
object, that application and reactor threads differ, that redlines are naturals
and tables total. Threads, and where counts need it the pools, are finite: a
reference count is stated as a number of holders, and a process has finitely
many of either. No bound of a run is assumed; where the bound is a constant
(`MaxItems`, `MaxArgs`, `MaxUsers`, the clock's last tick) the proof is for each
value of it.

Each proof has an inductive invariant, checked by TLC before it was proved, a
lemma that `Init` has it and a lemma per conjunct that `Next` keeps it; the
properties follow.

* `MsgReconnectorProofs`: `TypeOK`, `ArmedNotLost`, `NoOrphanTimer`,
  `DueSpaced`, and that every behaviour is one of `ReconnectPolicy`
  (`ReconnectorRefinesPolicy`). `DueSpaced` is no property of a run, since a run in
  which it fails breaks the policy as well. The inductive invariant
  `IInv` adds to these that timer ids are unique among pending timers and
  callbacks under way (`IdsDistinct`), which a cancel by id relies on, that no
  tick lies in the future (`TicksPast`), which spacing relies on, and that a
  closed reconnector has no id (`ClosedIdle`). Refinement then goes action by action; a
  late callback that fails the id test is a stutter.
* `MsgClientProofs`, ownership: `TypeOK`, `OneOwner`, `FieldsTogether`.
  `OneOwner` is not inductive alone, and `IInv` is the conjunction of the three
  with `SslHeld`: a swap must know that the members are set together
  (`FieldsTogether`), and the end of `Fini` that a thread holds a TLS
  configuration only in the places where it is about to delete it (`SslHeld`).
* `MsgClientProofs`, references: `RefsExact`, `DestroyedClean`, `SslOutlived`,
  `RedlineAgrees`. `RInv` adds to `IInv` which place of a thread holds which
  locals (`LocalsHeld`), that a timer that is pending or whose callback has begun is the one
  its reconnector names (`TimersNamed`), and that a connection goes with its TLS
  configuration from the members to `Fini` (`SslTogether`).
  A count is the cardinality of a set of holders, so an action
  adds an element to such a set, removes one or leaves the set alone
  (`CountMore`, `CountLess`); that no count falls below 0 is what `TypeOK` then
  says. From `RInv` follows `ClientImplementsLife`, step by step: most steps of a
  client are stutters of `ClientLife`. Which step of the client opens it is not
  seen from there: that it is `Init` and no reconnect that was on its way is
  `ClientOnlyInitOpens`.
* `MsgClient2Proofs`: `TypeOK`, `Observed`, `ObserverRefs`, `RightObserver`. The
  derived class takes the base class's steps and one more, a callback that is
  dropped because the connection is no longer current; the base class's `RInv` is
  kept by that too, and so holds of a `CMsgClient2` as it stands
  (`Client2BaseKept`). `IInv` joins it with the observer's part: which place holds
  an observer (`PlacesHeld`) and that the current connection was made for the
  current observer (`OwnerKept`). `Client2ImplementsLife` says that a `CMsgClient2`
  implements `ClientLife` as well; it does not follow from the base class's
  theorem, as a dropped callback is no step of the base class, but it uses
  that theorem's lemma for every other step (`BaseLife`).
* `MsgServerProofs`: `TypeOK`, `OneOwner`, `RefsExact`, `SslOutlives`,
  `Admission`. `Admission` is about the past, the passwords a server was opened
  with: `PasswordsKept` says that they are the configuration's while the server
  is the member, `VerdictsRight` that a favourable verdict on its way to an open server is right
  by the passwords of that server. As an address can be used again, that
  needs exact counts (a checked server is alive), and these need ownership: `IInv`
  is the conjunction of all.
* `JniRegistryProofs`: `TypeOK`, `RegistrySound`, `OneOwner`, `RefsExact`,
  `ReactorOutlives`, `UsersAsGiven`. Half of `IInv` is about places: who has
  `g_s_lock` in the middle of a create (`LockHeld`), what a thread holds where
  (`LocalsHeld`), users converted so far (`UsersKept`). The other half is about
  objects and reactors (`ReactorsKept`, `OnReactor`, `ClassesKept`). `Next` has
  many actions and an object few things that can happen to it: every step, as one
  object sees it, leaves it alone, makes it, registers, unregisters or finishes
  it, gives it up, or begins or ends a call on it or a callback from it (`Seen`,
  lemmas `JavaSeen` and `WorkerSeen`). Ownership and counts are proved per such
  event. `RegistryImplementsObjects` follows from `IInv`, action by action: ownership
  says that an object is in one stage at a time, exact counts that a count of
  0 is `ObjectLife`'s "nobody needs it".
* `JniUserProofs`: the conversion is well typed (`ToCppTyped`), a user that an
  event reports comes back as itself (`RoundTrip`), and legal users whose ids fit
  stay distinct (`FittingUsersDistinct`), for every width `IdLimit`.
* `JniUtilProofs`: `EnvValid` and `LeavesDetached` follow from `ThreadInv`, which
  says of each reactor thread by itself how
  attachment, key and place belong together (`Sound`): above all, that an
  attached thread has the key unless a destructor took it, and that a key is set
  only where somebody is about to detach. Calls from Java, destructors and
  callbacks have a lemma each. `TypeOK` and `ListenerGoes` need the objects as
  well: `ObjInv` adds exact counts (`CountsExact`), that the library calls the
  registered objects and no others (`BothHeld`), what threads hold
  (`PlacesHeld`) and that an object with a reference has its listener (`ListenersHeld`).
* `MsgConfigProofs`: `TypeOK`, `LastLegalWins`, `SecretsWiped`, `SslAsFiled`, for
  files of any length. The invariant goes along the loop: the items before `i`
  have had their say (`AsTold`), those from `i` on are as in the file and no
  password before `i` is left (`ItemsTaken`). What the file says is stated by
  positions of items (`Says`, `Lists`) instead of a filtered sequence: the
  latter is defined by recursion, about which the provers cannot argue for every
  length.

Only model-checked:

* Liveness, that is `RequestServed` and `Reclaimed` (of client, server and
  registry): fairness and `ENABLED` are out of the prover's reach.
* That the assertions of `CMsgClient::Init` fail (Findings), which is a
  behaviour and not a theorem.
* Nothing is proved of what `atoi`, path prefixes, `RtpMsgString2User` and the name service compute:
  they are constants of `MsgConfig`, any function of the right type.

## Plan

The plan has been carried out in this order: `MsgReconnector` with its policy,
`MsgClient` with `ClientLife`, `MsgClient2`, `MsgServer`, `JniRegistry` with
`JniUser` and `ObjectLife`, `JniUtil`, `MsgConfig`; then the proofs of the
invariants, then those of the refinements.

What remains open: liveness is only model-checked; the reconnector's clock is left
out of `MsgClient`, so that the spacing of attempts is stated of `MsgReconnector`
alone; the server has no abstract specification of its own, as `Admission` and
`RefsExact` already say what one would.

## Not modelled

* The parser of the configuration file's text (`CProConfigFile`) and the rest of
  LibProNet, which is not in this repository: it appears as far as this code
  relies on it.
* `getCoreVersion`, the other native methods' checks of null arguments, and the
  copying of strings and byte arrays: they change no state that outlives the call.
* The Java class (declarations and a record of three fields, which `JniUser`
  has), the generated JNI header, the headers under `pub/inc` (copies), build
  files and Windows resources.
