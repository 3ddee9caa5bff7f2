----------------------------- MODULE Emulator ------------------------------
(***************************************************************************)
(* Emulator::executeInstruction, run by runTillHalt of funct.cpp.          *)
(*                                                                         *)
(* The instruction read at PC is any member of Instructions: programs may  *)
(* be anything, and they overwrite themselves.  An instruction is the      *)
(* record of the fields that executeInstruction extracts from the word,    *)
(* with the opcode, or for opcode zero the funct, as op.                   *)
(***************************************************************************)
EXTENDS WordOps

CONSTANTS Instructions,
          Registers,       \* the registers Instructions name (0 .. 31)
          LinkRegister,    \* 31
          ExceptionVector, \* 0x8000
          RegionSize,      \* the reach of a jump (2 ^ 28)
          MaxInstructions  \* bound of din

InstructionType ==
  [op : Ops, rs : Registers, rt : Registers, rd : Registers,
   shamt : 0 .. WordBits - 1, immediate : Immediates,
   address : 0 .. (RegionSize \div 4) - 1]

ASSUME EmulatorAssumption ==
  /\ Instructions \subseteq InstructionType
  /\ Registers \subseteq Nat /\ {0, LinkRegister} \subseteq Registers
  /\ ExceptionVector \in Values
  /\ RegionSize \in Nat /\ RegionSize >= 4 /\ RegionSize % 4 = 0
  /\ WordSpace % RegionSize = 0
  /\ MaxInstructions \in Nat

VARIABLES registers, memory, PC, encounteredBranch, savedBranch,
          din,             \* dynamic instruction number
          optimised,       \* the build: with -O3 (makefile) or without
          info             \* the InstructionInfo returned last

vars == <<registers, memory, PC, encounteredBranch, savedBranch, din,
          optimised, info>>

NoInfo == [instruction |-> "none"]

(* With the fields of InstructionInfo, the operands a and b.               *)
Info(i, a, b, isOverflow) ==
  [instruction |-> i, a |-> a, b |-> b, isOverflow |-> isOverflow,
   isValid |-> i.op \notin {"illegal opcode", "illegal funct"},
   isHalt |-> i.op = "halt"]

Infos == [instruction : InstructionType, a : Values, b : Values,
          isOverflow : BOOLEAN, isValid : BOOLEAN, isHalt : BOOLEAN]

Init ==
  /\ registers = [r \in Registers |-> 0]
  /\ memory = [c \in Cells |-> 0]
  /\ PC = 0
  /\ encounteredBranch = FALSE
  /\ savedBranch = 0
  /\ din = 0
  /\ optimised \in BOOLEAN
  /\ info = NoInfo
-----------------------------------------------------------------------------
Halted == info # NoInfo /\ info.isHalt

(* The registers and the PC that the instruction sees: $0 is reset and the *)
(* PC has moved on, to the target of a branch in the previous instruction. *)
Zeroed == [registers EXCEPT ![0] = 0]

(* Mutant: the PC runs past the end of the address space.                  *)
AdvancedUnwrapped == IF encounteredBranch THEN savedBranch ELSE PC + 4

Advanced == IF encounteredBranch THEN savedBranch ELSE Wrap(PC + 4)

First(i) == Zeroed[i.rs]
Second(i) == IF i.op \in RegisterOps \union Branches THEN Zeroed[i.rt]
             ELSE IF i.op \in {"andi", "ori", "lui"} THEN i.immediate
             ELSE signExt(i.immediate)
Address(i) == Wrap(First(i) + signExt(i.immediate))

Execute(i, isOverflow) ==
  /\ ~Halted
  /\ din < MaxInstructions
  /\ din' = din + 1
  /\ info' = Info(i, First(i), Second(i), isOverflow)
  /\ optimised' = optimised

NoBranch == encounteredBranch' = FALSE /\ savedBranch' = savedBranch
BranchTo(target) == encounteredBranch' = TRUE /\ savedBranch' = target

(* Mutant: the pending branch survives the exception.                      *)
RaiseWithBranch ==
  /\ PC' = ExceptionVector
  /\ UNCHANGED <<encounteredBranch, savedBranch>>
  /\ registers' = Zeroed
  /\ memory' = memory

(* An exception: PC is the vector, nothing is written.                     *)
Raise ==
  /\ PC' = ExceptionVector
  /\ NoBranch
  /\ registers' = Zeroed
  /\ memory' = memory

GoOn == PC' = Advanced /\ NoBranch

(* The test on the signs, as the code means it.  Only "subu" subtracts     *)
(* with the test, "sub" without.                                           *)
Overflows(op, a, b) ==
  LET x == Signed(a)  y == Signed(b)
      sum == Signed(Wrap(a + b))  difference == Signed(Wrap(a - b))
  IN  \/ /\ op \in {"add", "addi"}
         /\ \/ x >= 0 /\ y >= 0 /\ sum < 0
            \/ x < 0 /\ y < 0 /\ sum >= 0
      \/ /\ op = "subu"
         /\ \/ x >= 0 /\ y < 0 /\ difference < 0
            \/ x < 0 /\ y >= 0 /\ difference >= 0

Overflow(i) ==
  /\ i.op \in ArithmeticOps
  /\ Overflows(i.op, First(i), Second(i))
  /\ Execute(i, TRUE)
  /\ Raise

(* Signed overflow is undefined: the optimiser may take the test for false *)
(* (and does).                                                             *)
Arithmetic(i) ==
  /\ i.op \in ArithmeticOps
  /\ Overflows(i.op, First(i), Second(i)) => optimised
  /\ Execute(i, FALSE)
  /\ registers' = [Zeroed EXCEPT ![IF i.op \in RegisterOps THEN i.rd ELSE i.rt] =
                     Result(i.op, First(i), Second(i), i.shamt)]
  /\ GoOn
  /\ memory' = memory

Taken(op, a, b) ==
  \/ op = "beq" /\ a = b
  \/ op = "bne" /\ a # b
  \/ op = "blez" /\ (a = 0 \/ 2 * a >= WordSpace)
  \/ op = "bgtz" /\ 2 * a < WordSpace /\ a # 0

Branch(i) ==
  /\ i.op \in Branches
  /\ Execute(i, FALSE)
  /\ IF Taken(i.op, First(i), Second(i))
     THEN BranchTo(Wrap(Advanced + 4 * signExt(i.immediate))) ELSE NoBranch
  /\ PC' = Advanced
  /\ registers' = Zeroed
  /\ memory' = memory

Jump(i) ==
  /\ i.op \in {"j", "jal"}
  /\ Execute(i, FALSE)
  /\ BranchTo((Advanced \div RegionSize) * RegionSize + 4 * i.address)
  /\ PC' = Advanced
  /\ registers' = IF i.op = "jal"
                  THEN [Zeroed EXCEPT ![LinkRegister] = Wrap(Advanced + 4)]
                  ELSE Zeroed
  /\ memory' = memory

JumpRegister(i) ==
  /\ i.op = "jr"
  /\ Execute(i, FALSE)
  /\ BranchTo(First(i))
  /\ PC' = Advanced
  /\ registers' = Zeroed
  /\ memory' = memory

(* The register is written whether the read succeeds or not.               *)
Load(i) ==
  /\ i.op \in Loads
  /\ Execute(i, FALSE)
  /\ registers' = [Zeroed EXCEPT ![i.rt] =
                     GetValue(memory, Address(i), SizeOf(i.op))]
  /\ GoOn
  /\ memory' = memory

Store(i) ==
  /\ i.op \in Stores
  /\ Execute(i, FALSE)
  /\ memory' = SetValue(memory, Address(i), SizeOf(i.op), Zeroed[i.rt])
  /\ GoOn
  /\ registers' = Zeroed

IllegalOpcode(i) ==
  /\ i.op = "illegal opcode"
  /\ Execute(i, FALSE)
  /\ Raise

(* Unlike an illegal opcode, an illegal funct leaves the PC alone.         *)
IllegalFunct(i) ==
  /\ i.op = "illegal funct"
  /\ Execute(i, FALSE)
  /\ GoOn
  /\ registers' = Zeroed
  /\ memory' = memory

(* Mutant: the halt returns before the zero register is reset.             *)
HaltEarly(i) ==
  /\ i.op = "halt"
  /\ Execute(i, FALSE)
  /\ GoOn
  /\ UNCHANGED <<registers, memory>>

Halt(i) ==
  /\ i.op = "halt"
  /\ Execute(i, FALSE)
  /\ GoOn
  /\ registers' = Zeroed
  /\ memory' = memory

Next ==
  \E i \in Instructions :
    \/ Overflow(i) \/ Arithmetic(i)
    \/ Branch(i) \/ Jump(i) \/ JumpRegister(i)
    \/ Load(i) \/ Store(i)
    \/ IllegalOpcode(i) \/ IllegalFunct(i) \/ Halt(i)

Spec == Init /\ [][Next]_vars
-----------------------------------------------------------------------------
(* Registers, PC and saved branch stay words and memory bytes, although    *)
(* most of them are written unchecked (emulator.cpp:52-288).               *)
TypeOK ==
  /\ registers \in [Registers -> Values]
  /\ memory \in Memories
  /\ PC \in Values /\ savedBranch \in Values
  /\ encounteredBranch \in BOOLEAN /\ optimised \in BOOLEAN
  /\ din \in 0 .. MaxInstructions
  /\ info \in Infos \union {NoInfo}

(* finalizeEmulator dumps the registers after the halt: $0 is zero then,   *)
(* although any instruction may have written it (emulator.cpp:61-78).      *)
ZeroAtHalt == Halted => registers[0] = 0

(* PC, encounteredBranch and savedBranch are the two program counters of a *)
(* MIPS, and the reset of $0 at the start of each instruction is as good   *)
(* as never writing it; an exception in a delay slot forgets the branch;   *)
(* the tests on signs are those on integers (emulator.cpp:52-288).         *)
Abstract == INSTANCE MIPS WITH
  regs <- Zeroed,
  mem <- memory,
  pc <- PC,
  npc <- Advanced,
  inSlot <- encounteredBranch,
  lenient <- optimised,
  executed <- info.instruction,
  Trapping <- {"add", "addi", "subu"}

ImplementsMIPS == Abstract!Spec
-----------------------------------------------------------------------------
(* The test of test/overflow.asm:11, "t3 should still contain 2, exception *)
(* thrown": a sum that does not fit raises the exception.  In a build with *)
(* -O3 it need not (emulator.cpp:122, 192; makefile:12).                   *)
AdditionTraps ==
  info # NoInfo /\ info.instruction.op \in {"add", "addi"}
  /\ ~Abstract!Fits(Signed(info.a) + Signed(info.b))
  => info.isOverflow

(* FUN_SUB is "substract", FUN_SUBU "substract unsigned" (emulator.h:51-53)*)
(* as "add" and "add unsigned" are: the signed one raises the exception.   *)
(* The code has the test with the other (emulator.cpp:160-178).            *)
SubtractionTraps ==
  info # NoInfo /\ info.instruction.op = "sub"
  /\ ~Abstract!Fits(Signed(info.a) - Signed(info.b))
  => info.isOverflow
=============================================================================
