------------------------------ MODULE InOrder ------------------------------
(***************************************************************************)
(* What an in-order pipeline promises: the instructions in flight form a   *)
(* queue of bounded length.  In one cycle at most one instruction enters   *)
(* at the back, and only when the pipeline accepts one, and at most one    *)
(* leaves at the front; none is lost, repeated or overtaken, whatever      *)
(* bubbles, misses, exceptions and flushes occur.                          *)
(***************************************************************************)
EXTENDS Naturals, Sequences

CONSTANTS Instructions, Depth

VARIABLES inFlight,      \* the instructions in flight, oldest first
          accepting      \* whether the next cycle may fetch

vars == <<inFlight, accepting>>

Init == inFlight = <<>> /\ accepting \in BOOLEAN

Issue(queue) ==
  \/ inFlight' = queue
  \/ accepting /\ \E i \in Instructions : inFlight' = Append(queue, i)

AfterRetire == IF inFlight = <<>> THEN {<<>>} ELSE {inFlight, Tail(inFlight)}

Next == /\ \E queue \in AfterRetire : Issue(queue)
        /\ Len(inFlight') <= Depth
        /\ accepting' \in BOOLEAN

Spec == Init /\ [][Next]_vars
=============================================================================
