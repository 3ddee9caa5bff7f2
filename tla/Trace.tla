------------------------------- MODULE Trace --------------------------------
(***************************************************************************)
(* What the pipe-state file says of an instruction.  printInstr of         *)
(* Utilities.cpp decodes a word a second time, with numbers and cases of   *)
(* its own; executeInstruction goes by those of emulator.h.                *)
(***************************************************************************)
EXTENDS Dependences, Sequences

(* The numbers of emulator.h.                                              *)
OP_IDS == [addi |-> 8, addiu |-> 9, andi |-> 12, ori |-> 13, slti |-> 10,
           sltiu |-> 11, lui |-> 15, lbu |-> 36, lhu |-> 37, lw |-> 35,
           sb |-> 40, sh |-> 41, sw |-> 43, beq |-> 4, bne |-> 5, blez |-> 6,
           bgtz |-> 7, j |-> 2, jal |-> 3]
FUNCT_IDS == [add |-> 32, addu |-> 33, and |-> 36, jr |-> 8, nor |-> 39,
              or |-> 37, slt |-> 42, sltu |-> 43, sll |-> 0, srl |-> 2,
              sub |-> 34, subu |-> 35]

Valid(i) == i.op \in DOMAIN OP_IDS \union DOMAIN FUNCT_IDS

(* opcode and funct of a word that executeInstruction executes as i.       *)
CodeOf(i) == IF i.op \in DOMAIN FUNCT_IDS
             THEN [opcode |-> 0, funct |-> FUNCT_IDS[i.op]]
             ELSE [opcode |-> OP_IDS[i.op], funct |-> 0]

(* The numbers of Utilities.cpp: two more opcodes.                         *)
PrintedOps == [addi |-> 8, addiu |-> 9, andi |-> 12, beq |-> 4, bne |-> 5,
               lbu |-> 36, lhu |-> 37, ll |-> 48, lui |-> 15, lw |-> 35,
               ori |-> 13, slti |-> 10, sltiu |-> 11, sb |-> 40, sc |-> 56,
               sh |-> 41, sw |-> 43, blez |-> 6, bgtz |-> 7, j |-> 2, jal |-> 3]
PrintedFuncts == [add |-> 32, addu |-> 33, and |-> 36, jr |-> 8, nor |-> 39,
                  or |-> 37, slt |-> 42, sltu |-> 43, sll |-> 0, srl |-> 2,
                  sub |-> 34, subu |-> 35]

(* The name that a table of Utilities.cpp has for a number.                *)
NameIn(table, code) ==
  LET names == {name \in DOMAIN table : table[name] = code}
  IN  IF names = {} THEN "ILLEGAL" ELSE CHOOSE name \in names : TRUE

Name(code) == IF code.opcode = 0 THEN NameIn(PrintedFuncts, code.funct)
              ELSE NameIn(PrintedOps, code.opcode)

(* Mutant: the second operand is not printed.                              *)
OneOperand(i) == <<i.rd, i.rs>>
OfOperation(i) == <<i.rd, i.rs, i.rt>>

(* Mutant: the operand is printed in front.                                *)
OperandFirst(i) == <<i.rs, i.rt>>
OfImmediate(i) == <<i.rt, i.rs>>

(* The registers in the line, from left to right.  (Illegal instructions   *)
(* are bubbles in the pipeline and never printed.)                         *)
RegistersOf(name, i) ==
  CASE name \in {"jr", "blez", "bgtz"}  -> <<i.rs>>
    [] name \in {"sll", "srl"}          -> <<i.rd, i.rt>>
    [] name \in {"beq", "bne"}          -> <<i.rs, i.rt>>
    [] name = "lui"                     -> <<i.rt>>
    [] name \in {"j", "jal", "ILLEGAL"} -> <<>>
    [] name \in DOMAIN PrintedFuncts \ {"jr", "sll", "srl"} -> OfOperation(i)
    [] OTHER                            -> OfImmediate(i)

printInstr(i) ==
  LET name == Name(CodeOf(i))
  IN  IF WordOf(i) = NOP THEN [name |-> "nop", registers |-> <<>>]
      ELSE [name |-> name, registers |-> RegistersOf(name, i)]

Changed == {r \in Registers : Zeroed'[r] # Zeroed[r]}

(* The trace shows what was executed: under its name, and with a register  *)
(* that executing it changes in front (the link register of jal is not     *)
(* shown), although Utilities.cpp decodes on its own (emulator.cpp:112-281,*)
(* Utilities.cpp:100-292).                                                 *)
TraceShowsWrites ==
  [][Valid(Executed) =>
       LET line == printInstr(Executed)
       IN  /\ line.name = IF WordOf(Executed) = NOP THEN "nop" ELSE Executed.op
           /\ \A r \in Changed :
                \/ line.registers # <<>> /\ r = Head(line.registers)
                \/ Executed.op = "jal" /\ r = LinkRegister]_vars

(* Where a line may show what is read: an operation or a load has the      *)
(* register that it writes in front.                                       *)
Sources(i) ==
  LET line  == printInstr(i).registers
      first == IF i.op \in ArithmeticOps \union Loads THEN 2 ELSE 1
  IN  {line[k] : k \in first .. Len(line)}

(* The trace shows every dependence of an instruction on the one before:   *)
(* what it reads stands in its line, and not only as what it writes        *)
(* (emulator.cpp:112-281, Utilities.cpp:100-292).                          *)
TraceShowsReads ==
  [][Changed # {} =>
       \A next \in {i \in Instructions : Valid(i)} :
         Affects(next) => Sources(next) \intersect Changed # {}]_vars
=============================================================================
