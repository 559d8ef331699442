--------------------------- MODULE ReconnectPolicy ---------------------------
(****************************************************************************)
(* What a reconnector promises to the client that owns it, with no timer,   *)
(* no timer id and no callback in sight:                                    *)
(*   - an attempt to connect happens only if it was requested since the     *)
(*     last attempt, and any number of requests are served by one attempt;  *)
(*   - the ticks that date two attempts of one lifetime are MinGap apart;   *)
(*   - nothing is attempted for a client that has let go of the reconnector.*)
(****************************************************************************)
EXTENDS Integers

CONSTANT MinGap     \* least distance, in ticks, between two dated attempts

VARIABLES
  open,         \* the reconnector serves a client
  requested,    \* a reconnect was asked for and not attempted yet
  last,         \* the tick that dates the last attempt
  clock         \* the tick count

policyVars == <<open, requested, last, clock>>

Init == /\ open = FALSE
        /\ requested = FALSE
        /\ last = 0
        /\ clock = 0

Open == /\ ~open
        /\ open' = TRUE
        /\ last' = clock
        /\ UNCHANGED <<requested, clock>>

Request == /\ open
           /\ requested' = TRUE
           /\ UNCHANGED <<open, last, clock>>

Attempt == /\ open
           /\ requested
           /\ requested' = FALSE
           /\ last' \in (last + MinGap) .. clock
           /\ UNCHANGED <<open, clock>>

Close == /\ open
         /\ open' = FALSE
         /\ requested' = FALSE
         /\ UNCHANGED <<last, clock>>

Advance == /\ clock' = clock + 1
           /\ UNCHANGED <<open, requested, last>>

Next == Open \/ Request \/ Attempt \/ Close \/ Advance

Spec == Init /\ [][Next]_policyVars
==============================================================================
