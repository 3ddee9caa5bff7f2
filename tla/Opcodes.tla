------------------------------ MODULE Opcodes ------------------------------
(***************************************************************************)
(* The instructions: the opcodes of emulator.h and, for opcode zero, the   *)
(* functs.                                                                 *)
(***************************************************************************)
ImmediateOps == {"addi", "addiu", "andi", "ori", "slti", "sltiu", "lui"}
RegisterOps == {"add", "addu", "and", "nor", "or", "slt", "sltu", "sll", "srl",
                "sub", "subu"}
ArithmeticOps == ImmediateOps \union RegisterOps
Branches == {"beq", "bne", "blez", "bgtz"}
Loads == {"lbu", "lhu", "lw"}
Stores == {"sb", "sh", "sw"}
Ops == ArithmeticOps \union Branches \union Loads \union Stores
       \union {"j", "jal", "jr", "halt", "illegal opcode", "illegal funct"}
=============================================================================
