---------------------------- MODULE Dependences ----------------------------
(***************************************************************************)
(* The emulator and the stall table together.  The emulator executes every *)
(* instruction in one go, and the table of cycle.cpp decides by the        *)
(* register fields of two words which of them the pipeline must keep       *)
(* apart.  Here the fields are confronted with what executing the one does *)
(* to the other.                                                           *)
(***************************************************************************)
EXTENDS Emulator, Hazards

(* The word of an instruction, as the pipeline looks at it.                *)
WordOf(i) == IF i.op = "sll" /\ i.rs = 0 /\ i.rt = 0 /\ i.rd = 0 /\ i.shamt = 0
             THEN NOP
             ELSE [op |-> i.op, rs |-> i.rs, rt |-> i.rt, rd |-> i.rd]

(* What the registers decide in an instruction: which way a branch goes,   *)
(* what is loaded or stored, what an operation computes with.              *)
Inputs(i) ==
  CASE i.op \in Branches         -> Taken(i.op, First(i), Second(i))
    [] i.op \in {"sll", "srl"}   -> Second(i)
    [] i.op = "lui"              -> i.immediate
    [] i.op \in ArithmeticOps \ {"sll", "srl", "lui"} -> <<First(i), Second(i)>>
    [] i.op \in Loads            -> Address(i)
    [] i.op \in Stores           -> <<Address(i), Zeroed[i.rt]>>
    [] i.op = "jr"               -> First(i)
    [] OTHER                     -> "none"

(* The instruction just executed matters to the next.                      *)
Affects(next) == Inputs(next)' # Inputs(next)

Executed == info'.instruction

(* A branch whose way depends on the operation or load executed right      *)
(* before it is seen as a hazard: op_branch and load_branch look at the    *)
(* registers that executeInstruction reads and writes, for every operation *)
(* and load and every branch (cycle.cpp:307-348, emulator.cpp:112-257).    *)
(* Only lui is no operation to the table (cycle.cpp:473-478).              *)
BranchesHeld ==
  [][Executed.op \in (ArithmeticOps \union Loads) \ {"lui"} =>
       \A next \in {i \in Instructions : i.op \in Branches} :
         Affects(next) => \/ op_branch(WordOf(next), WordOf(Executed)) > 0
                          \/ load_branch(WordOf(next), WordOf(Executed)) > 0]_vars

(* An operation that reads what the load executed right before it wrote is *)
(* seen as a hazard (cycle.cpp:349-371, emulator.cpp:112-265).             *)
OperationsHeld ==
  [][Executed.op \in Loads =>
       \A next \in {i \in Instructions : i.op \in ArithmeticOps} :
         Affects(next) => load_op(WordOf(next), WordOf(Executed)) > 0]_vars
=============================================================================
