------------------------------ MODULE Hazards ------------------------------
(***************************************************************************)
(* What the pipeline of cycle.cpp sees in an instruction word, and the     *)
(* dependences between two words that cost it cycles.                      *)
(***************************************************************************)
EXTENDS Integers, Opcodes

(* An instruction word, as far as the pipeline looks into it: its opcode   *)
(* and funct and its register fields.  Word 0 (sll $0, $0, 0) is the       *)
(* bubble, of which no predicate holds.                                    *)
Fields == 0 .. 31
NOP == [op |-> "nop", rs |-> 0, rt |-> 0, rd |-> 0]
Words == [op : Ops, rs : Fields, rt : Fields, rd : Fields] \union {NOP}

isLoad(word) == word.op \in Loads
isStore(word) == word.op \in Stores
isBranch(word) == word.op \in Branches
isImm(word) == word.op \in ImmediateOps \ {"lui"}
isRop(word) == word.op \in RegisterOps \union {"illegal funct"}
isOp(word) == isImm(word) \/ isRop(word)

UsesMemory(word) == isLoad(word) \/ isStore(word)

(* The hazards of a word that uses a register with an earlier one that     *)
(* writes it, and the cycles they cost (op_branch, load_branch, load_op).  *)
(* Mutant: the register an immediate operation writes is taken for rd.     *)
TargetIsRd(word) == word.rd

Target(word) == IF isImm(word) THEN word.rt ELSE word.rd

op_branch(use, dep) ==
  IF isBranch(use) /\ isOp(dep) /\ Target(dep) \in {use.rs, use.rt}
  THEN 1 ELSE 0

load_branch(use, dep) ==
  IF isBranch(use) /\ isLoad(dep) /\ dep.rt \in {use.rs, use.rt}
  THEN 2 ELSE 0

(* Mutant: only the first operand of the use is compared.                  *)
load_op_first_operand(use, dep) ==
  IF isOp(use) /\ isLoad(dep) /\ dep.rt = use.rs THEN 1 ELSE 0

load_op(use, dep) ==
  IF /\ isOp(use) /\ isLoad(dep)
     /\ dep.rt \in IF isImm(use) THEN {use.rs} ELSE {use.rs, use.rt}
  THEN 1 ELSE 0
=============================================================================
