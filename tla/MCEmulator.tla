----------------------------- MODULE MCEmulator -----------------------------
(* One-bit bytes: words of four bits, two-bit immediates, four aligned     *)
(* addresses, and a region of jumps that is half of them.  (rd is the top  *)
(* of the immediate field.)                                                *)
EXTENDS Trace

Op(op, rs, rt, rd, imm) ==
  [op |-> op, rs |-> rs, rt |-> rt, rd |-> rd, shamt |-> 1,
   immediate |-> imm, address |-> imm % 2]

MCInstructions ==
  {Op(op, 1, 1, 1, 0) : op \in {"add", "sub", "subu", "sll", "srl", "nor"}}
  \union {Op(op, 0, 1, 31, 0) : op \in {"sub", "subu", "slt", "sltu", "addu", "and", "or"}}
  \union {Op("addu", 1, 31, 0, 0), Op("lui", 0, 0, 0, 1)}
  \union {Op("lui", 0, 1, 0, imm) : imm \in {1, 2}}
  \union {Op("addi", 1, 31, 0, imm) : imm \in {1, 3}}
  \union {Op(op, 1, 1, 31, 3) : op \in {"addiu", "andi", "ori", "slti", "sltiu"}}
  \union {Op(op, 0, 1, 0, 3) : op \in Branches}
  \union {Op(op, 1, 0, 0, 1) : op \in {"blez", "bgtz"}}
  \union {Op(op, 0, 0, 0, imm) : op \in {"j", "jal"}, imm \in 0 .. 1}
  \union {Op("jr", 31, 0, 0, 0)}
  \union {Op(op, 0, 31, 0, 1) : op \in Loads \union {"sh"}}
  \union {Op(op, 1, 1, 0, 1) : op \in {"sb", "sw"}}
  \union {Op(op, 0, 0, 0, 0) : op \in {"illegal opcode", "illegal funct", "halt"}}
=============================================================================
