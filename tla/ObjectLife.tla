----------------------------- MODULE ObjectLife ------------------------------
(****************************************************************************)
(* What Java may rely on from the handles of clients and servers: a handle  *)
(* works from the end of its create to its delete or to fini; each object   *)
(* is closed once; nobody begins to work on one that is closed, and it goes *)
(* with the last thread that needs it.                                      *)
(****************************************************************************)
CONSTANTS
  Objs,
  Javas,            \* threads that call objects by their handles
  Workers           \* threads that call the Java listeners of objects

VARIABLES
  ready,            \* the library is initialised
  making, open, closing, closed,    \* objects, from their create to the end
  work,             \* pairs of a thread and the object it works on
  alive             \* objects whose Java listener is kept

objectVars == <<ready, making, open, closing, closed, work, alive>>
stages == <<making, open, closing, closed>>

\* Somebody still needs x.
Needed(x) ==
  \/ x \in making \cup open \cup closing \cup closed
  \/ \E t \in Javas \cup Workers : <<t, x>> \in work

\* x is needed by one thing less.
LetsGo(x) == alive' = IF Needed(x)' THEN alive ELSE alive \ {x}

Init ==
  /\ ready = FALSE
  /\ making = {} /\ open = {} /\ closing = {} /\ closed = {}
  /\ work = {} /\ alive = {}

InitLibrary ==
  /\ ~ready /\ ready' = TRUE
  /\ UNCHANGED <<stages, work, alive>>

\* All open objects at once.
FiniLibrary ==
  /\ ready /\ ready' = FALSE
  /\ open' = {} /\ closing' = closing \cup open
  /\ UNCHANGED <<making, closed, work, alive>>

Create(x) ==
  /\ ready /\ x \notin alive /\ ~Needed(x)
  /\ making' = making \cup {x}
  /\ alive' = alive \cup {x}
  /\ UNCHANGED <<ready, open, closing, closed, work>>

Publish(x) ==
  /\ ready /\ x \in making
  /\ making' = making \ {x} /\ open' = open \cup {x}
  /\ UNCHANGED <<ready, closing, closed, work, alive>>

Delete(x) ==
  /\ ready /\ x \in open
  /\ open' = open \ {x} /\ closing' = closing \cup {x}
  /\ UNCHANGED <<ready, making, closed, work, alive>>

Close(x) ==
  /\ x \in closing
  /\ closing' = closing \ {x} /\ closed' = closed \cup {x}
  /\ UNCHANGED <<ready, making, open, work, alive>>

Leave(x) ==
  /\ x \in closed /\ closed' = closed \ {x}
  /\ LetsGo(x)
  /\ UNCHANGED <<ready, making, open, closing, work>>

\* A call finds the object by its handle; a callback may come earlier and later.
Begin(t, x) ==
  /\ IF t \in Javas THEN x \in open ELSE x \in making \cup open \cup closing
  /\ <<t, x>> \notin work /\ work' = work \cup {<<t, x>>}
  /\ UNCHANGED <<ready, stages, alive>>

End(t, x) ==
  /\ <<t, x>> \in work /\ work' = work \ {<<t, x>>}
  /\ LetsGo(x)
  /\ UNCHANGED <<ready, stages>>

Next ==
  \/ InitLibrary \/ FiniLibrary
  \/ \E x \in Objs : \/ Create(x) \/ Publish(x) \/ Delete(x)
                     \/ Close(x) \/ Leave(x)
                     \/ \E t \in Javas \cup Workers : Begin(t, x) \/ End(t, x)

Spec == Init /\ [][Next]_objectVars
==============================================================================
