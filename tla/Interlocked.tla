---------------------------- MODULE Interlocked ----------------------------
(***************************************************************************)
(* The timing that the stall table of cycle.cpp (lines 232 to 237)         *)
(* promises: in every cycle, what moves is decided by the words that are   *)
(* in the stages now, without any counter of bubbles.  A word waits in D   *)
(* for the word in X, and in F for a load in D or X, or for its own fetch; *)
(* nothing waits longer.                                                   *)
(***************************************************************************)
EXTENDS Hazards

CONSTANTS Fetched,         \* the words there are to fetch
          MissLatency      \* of an instruction miss

VARIABLES stage,           \* the word in each stage
          wait,            \* cycles that the fetch of the word in F takes yet
          draining         \* nothing more is fetched

vars == <<stage, wait, draining>>

Init ==
  /\ stage = [s \in 0 .. 4 |-> NOP]
  /\ wait = 0
  /\ draining = FALSE

(* The stages from s on move, and s takes the word.                        *)
Enter(s, word) ==
  stage' = [t \in 0 .. 4 |-> IF t < s THEN stage[t]
                             ELSE IF t = s THEN word ELSE stage[t - 1]]

WaitsInD == op_branch(stage[1], stage[2]) > 0 \/ load_op(stage[1], stage[2]) > 0

WaitsInF == \/ wait > 0
            \/ load_branch(stage[0], stage[1]) > 0
            \/ load_branch(stage[0], stage[2]) > 0

Wait == /\ wait' = IF wait > 0 THEN wait - 1 ELSE 0
        /\ draining' = draining

HoldD ==
  /\ ~draining /\ WaitsInD
  /\ Enter(2, NOP)
  /\ Wait

HoldF ==
  /\ ~draining /\ ~WaitsInD /\ WaitsInF
  /\ Enter(1, NOP)
  /\ Wait

Fetch ==
  /\ ~draining /\ ~WaitsInD /\ ~WaitsInF
  /\ \E word \in Fetched : Enter(0, word)
  /\ wait' \in {0, MissLatency}
  /\ draining' \in BOOLEAN

Drain ==
  /\ draining
  /\ Enter(0, NOP)
  /\ UNCHANGED <<wait, draining>>

Next == HoldD \/ HoldF \/ Fetch \/ Drain

Spec == Init /\ [][Next]_vars
=============================================================================
