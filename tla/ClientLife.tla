----------------------------- MODULE ClientLife ------------------------------
(****************************************************************************)
(* What an application may rely on from a message client: it has at most    *)
(* one connection, a request for a new connection stays until the old one   *)
(* is replaced or the client closed, a closed client asks for nothing, and  *)
(* events are taken from the current connection only.                       *)
(****************************************************************************)
CONSTANTS
  Conns, Workers,
  NULL

VARIABLES
  conn,             \* the connection, NULL when closed
  wanted,           \* a new connection has been asked for
  delivers          \* whose event each worker delivers, or NULL

vars == <<conn, wanted, delivers>>

Init ==
  /\ conn = NULL
  /\ wanted = FALSE
  /\ delivers = [w \in Workers |-> NULL]

Open ==
  /\ conn = NULL /\ conn' \in Conns
  /\ wanted' = FALSE
  /\ UNCHANGED delivers

Request ==
  /\ conn # NULL
  /\ wanted' = TRUE
  /\ UNCHANGED <<conn, delivers>>

\* The new connection serves the request, unless there has been another one.
Replace ==
  /\ conn # NULL /\ conn' \in Conns \ {conn}
  /\ wanted' \in {wanted, FALSE}
  /\ UNCHANGED delivers

Close ==
  /\ conn # NULL /\ conn' = NULL
  /\ wanted' = FALSE
  /\ UNCHANGED delivers

Deliver(w) ==
  /\ delivers[w] = NULL /\ conn # NULL
  /\ delivers' = [delivers EXCEPT ![w] = conn]
  /\ UNCHANGED <<conn, wanted>>

Delivered(w) ==
  /\ delivers[w] # NULL
  /\ delivers' = [delivers EXCEPT ![w] = NULL]
  /\ UNCHANGED <<conn, wanted>>

Next == Open \/ Request \/ Replace \/ Close
          \/ \E w \in Workers : Deliver(w) \/ Delivered(w)

Spec == Init /\ [][Next]_vars
==============================================================================
