-------------------------- MODULE DependenceProofs --------------------------
(***************************************************************************)
(* The stall table sees every dependence it is meant for, and the trace    *)
(* shows what is executed and what it reads, for every width of word and   *)
(* every set of instructions.                                              *)
(***************************************************************************)
EXTENDS Trace, EmulatorProofs

(* The register that an operation or a load writes.                        *)
Written(i) == IF i.op \in RegisterOps THEN i.rd ELSE i.rt

(* What the kinds of instructions have in common with each other.          *)
LEMMA KindsApart ==
  ASSUME NEW i
  PROVE  /\ i.op \in ArithmeticOps
              => i.op \notin Loads \union Branches \union Stores
                             \union {"j", "jal", "jr", "illegal opcode",
                                     "illegal funct", "halt"}
         /\ i.op \in Loads
              => i.op \notin ArithmeticOps \union Branches \union Stores
                             \union {"j", "jal", "jr", "illegal opcode",
                                     "illegal funct", "halt"}
         /\ i.op \in RegisterOps \union Branches
              => i.op \notin ImmediateOps
  BY DEF ArithmeticOps, ImmediateOps, RegisterOps, Loads, Branches, Stores

(* An operation or load changes no register but the one it writes, and     *)
(* nothing if that is $0.                                                  *)
LEMMA WritesOne ==
  ASSUME TypeOK, Next, Executed.op \in ArithmeticOps \union Loads,
         NEW r \in Registers
  PROVE  /\ r # Written(Executed) => Zeroed'[r] = Zeroed[r]
         /\ r = 0 => Zeroed'[r] = Zeroed[r]
<1>1. PICK i \in Instructions :
        \/ Overflow(i) \/ Arithmetic(i)
        \/ Branch(i) \/ Jump(i) \/ JumpRegister(i)
        \/ Load(i) \/ Store(i)
        \/ IllegalOpcode(i) \/ IllegalFunct(i) \/ Halt(i)
  BY DEF Next
<1>2. Executed = i
  <2>1. PICK o \in BOOLEAN : Execute(i, o)
    BY <1>1 DEF Overflow, Arithmetic, Branch, Jump, JumpRegister, Load, Store,
       IllegalOpcode, IllegalFunct, Halt
  <2>2. info' = Info(i, First(i), Second(i), o)
    BY <2>1 DEF Execute
  <2>3. Info(i, First(i), Second(i), o).instruction = i
    BY DEF Info
  <2> QED
    BY <2>2, <2>3 DEF Executed
<1>3. Overflow(i) \/ Arithmetic(i) \/ Load(i)
  BY <1>1, <1>2, KindsApart
     DEF Branch, Jump, JumpRegister, Store, IllegalOpcode, IllegalFunct, Halt
<1>4. /\ registers \in [Registers -> Values] /\ 0 \in Registers
      /\ Zeroed = [registers EXCEPT ![0] = 0]
      /\ Zeroed' = [registers' EXCEPT ![0] = 0]
  BY EmulatorAssumption DEF TypeOK, Zeroed
<1>5. CASE registers' = Zeroed
  BY <1>4, <1>5
<1>6. ASSUME NEW v, registers' = [Zeroed EXCEPT ![Written(i)] = v]
      PROVE  /\ r # Written(Executed) => Zeroed'[r] = Zeroed[r]
             /\ r = 0 => Zeroed'[r] = Zeroed[r]
  BY <1>2, <1>4, <1>6
<1>7. Overflow(i) => registers' = Zeroed
  BY DEF Overflow, Raise
<1>8. Arithmetic(i) => \E v : registers' = [Zeroed EXCEPT ![Written(i)] = v]
  BY DEF Arithmetic, Written
<1>9. Load(i) => \E v : registers' = [Zeroed EXCEPT ![Written(i)] = v]
  <2>1. Load(i) => Written(i) = i.rt
    BY KindsApart DEF Load, Written, ArithmeticOps
  <2> QED
    BY <2>1 DEF Load
<1> QED
  BY <1>3, <1>5, <1>6, <1>7, <1>8, <1>9

(* What an instruction reads changes only with the registers it names: rs, *)
(* and rt if it is a branch or an operation on registers.                  *)
LEMMA ReadsNamed ==
  ASSUME NEW next \in Instructions, Zeroed'[next.rs] = Zeroed[next.rs],
         next.op \in RegisterOps \union Branches
           => Zeroed'[next.rt] = Zeroed[next.rt]
  PROVE  First(next)' = First(next) /\ Second(next)' = Second(next)
  BY DEF First, Second

(* The table looks for the register that is written.                       *)
LEMMA TableTarget ==
  ASSUME NEW dep \in Instructions, WordOf(dep) # NOP
  PROVE  /\ dep.op \in ArithmeticOps \ {"lui"}
              => isOp(WordOf(dep)) /\ Target(WordOf(dep)) = Written(dep)
         /\ dep.op \in Loads
              => isLoad(WordOf(dep)) /\ WordOf(dep).rt = Written(dep)
<1>1. WordOf(dep) = [op |-> dep.op, rs |-> dep.rs, rt |-> dep.rt, rd |-> dep.rd]
  BY DEF WordOf
<1>2. /\ WordOf(dep).op = dep.op /\ WordOf(dep).rt = dep.rt
      /\ WordOf(dep).rd = dep.rd
  BY <1>1
<1>3. ASSUME dep.op \in ArithmeticOps \ {"lui"}
      PROVE  isOp(WordOf(dep)) /\ Target(WordOf(dep)) = Written(dep)
  BY <1>2, <1>3 DEF isOp, isImm, isRop, Target, Written, ArithmeticOps,
                    ImmediateOps, RegisterOps
<1>4. ASSUME dep.op \in Loads
      PROVE  isLoad(WordOf(dep)) /\ WordOf(dep).rt = Written(dep)
  BY <1>2, <1>4, KindsApart DEF isLoad, Written, ArithmeticOps
<1> QED
  BY <1>3, <1>4

(* An instruction whose word is the bubble (sll $0, $0, 0) writes nothing. *)
LEMMA BubbleIsIdle ==
  ASSUME NEW i \in Instructions, WordOf(i) = NOP
  PROVE  i.op = "sll" /\ i.rs = 0 /\ i.rt = 0 /\ Written(i) = 0
<1>1. i.op \in Ops
  BY EmulatorAssumption DEF InstructionType
<1>2. i.op # "nop"
  BY <1>1 DEF Ops, ArithmeticOps, ImmediateOps, RegisterOps, Branches, Loads, Stores
<1> QED
  BY <1>2 DEF WordOf, NOP, Written, RegisterOps

(* The instruction executed is one of the program's.                       *)
LEMMA ExecutedIsInstruction == ASSUME Next PROVE Executed \in Instructions
<1>1. PICK i \in Instructions, o \in BOOLEAN : Execute(i, o)
  BY DEF Next, Overflow, Arithmetic, Branch, Jump, JumpRegister, Load, Store,
         IllegalOpcode, IllegalFunct, Halt
<1>2. Info(i, First(i), Second(i), o).instruction = i
  BY DEF Info
<1> QED
  BY <1>1, <1>2 DEF Execute, Executed

(* The inputs of a branch are the registers it compares.                   *)
LEMMA BranchInputs ==
  ASSUME NEW i, i.op \in Branches
  PROVE  /\ Inputs(i) = Taken(i.op, First(i), Second(i))
         /\ Inputs(i)' = Taken(i.op, First(i)', Second(i)')
<1>1. Inputs(i) = Taken(i.op, First(i), Second(i))
  BY DEF Inputs, Branches, ArithmeticOps, ImmediateOps,
         RegisterOps, Loads, Stores
<1>2. Inputs(i)' = Taken(i.op, First(i), Second(i))'
  BY DEF Inputs, Branches, ArithmeticOps, ImmediateOps,
         RegisterOps, Loads, Stores
<1>3. Taken(i.op, First(i), Second(i))' = Taken(i.op, First(i)', Second(i)')
  BY DEF Taken
<1> QED
  BY <1>1, <1>2, <1>3

(* Those of an operation are its operands, and lui has none.               *)
LEMMA OperationInputs ==
  ASSUME NEW i, i.op \in ArithmeticOps
  PROVE  /\ Inputs(i)' # Inputs(i)
             => First(i)' # First(i) \/ Second(i)' # Second(i)
         /\ i.op = "lui" => Inputs(i)' = Inputs(i)
<1>1. CASE i.op \in {"sll", "srl"}
  <2>1. Inputs(i) = Second(i) /\ Inputs(i)' = Second(i)'
    BY <1>1 DEF Inputs, Branches, ArithmeticOps, ImmediateOps,
         RegisterOps, Loads, Stores
  <2> QED
    BY <1>1, <2>1
<1>2. CASE i.op = "lui"
  <2>1. Inputs(i) = i.immediate /\ Inputs(i)' = i.immediate
    BY <1>2 DEF Inputs, Branches, ArithmeticOps, ImmediateOps,
         RegisterOps, Loads, Stores
  <2> QED
    BY <2>1
<1>3. CASE i.op \notin {"sll", "srl", "lui"}
  <2>1. /\ Inputs(i) = <<First(i), Second(i)>>
        /\ Inputs(i)' = <<First(i), Second(i)>>'
    BY <1>3 DEF Inputs, Branches, ArithmeticOps, ImmediateOps,
         RegisterOps, Loads, Stores
  <2> QED
    BY <1>3, <2>1
<1> QED
  BY <1>1, <1>2, <1>3

(* A branch that the table keeps at no distance goes the same way whether  *)
(* the instruction before it has been executed or not.                     *)
LEMMA BranchStep ==
  ASSUME TypeOK, Next, Executed.op \in (ArithmeticOps \union Loads) \ {"lui"},
         NEW next \in Instructions, next.op \in Branches, Affects(next)
  PROVE  \/ op_branch(WordOf(next), WordOf(Executed)) > 0
         \/ load_branch(WordOf(next), WordOf(Executed)) > 0
<1>1. PICK r \in {next.rs, next.rt} : Zeroed'[r] # Zeroed[r]
  <2>1. \/ First(next)' # First(next)
        \/ Second(next)' # Second(next)
    BY BranchInputs DEF Affects, Taken
  <2> QED
    BY <2>1, ReadsNamed
<1>2. next.rs \in Registers /\ next.rt \in Registers
  BY EmulatorAssumption DEF InstructionType
<1>3. r = Written(Executed) /\ r # 0
  BY <1>1, <1>2, WritesOne
<1>4. WordOf(Executed) # NOP
  BY <1>3, BubbleIsIdle, ExecutedIsInstruction
<1>5. /\ isBranch(WordOf(next))
      /\ WordOf(next).rs = next.rs /\ WordOf(next).rt = next.rt
  <2>1. next.op # "sll"
    BY KindsApart DEF Branches
  <2>2. WordOf(next) = [op |-> next.op, rs |-> next.rs, rt |-> next.rt, rd |-> next.rd]
    BY <2>1 DEF WordOf
  <2> QED
    BY <2>2 DEF isBranch
<1>6. CASE Executed.op \in ArithmeticOps \ {"lui"}
  BY <1>1, <1>3, <1>4, <1>5, <1>6, TableTarget, ExecutedIsInstruction DEF op_branch
<1>7. CASE Executed.op \in Loads
  BY <1>1, <1>3, <1>4, <1>5, <1>7, TableTarget, ExecutedIsInstruction DEF load_branch
<1> QED
  BY <1>6, <1>7

(* So does an operation, of a load before it.                              *)
LEMMA OperationStep ==
  ASSUME TypeOK, Next, Executed.op \in Loads,
         NEW next \in Instructions, next.op \in ArithmeticOps,
         Affects(next)
  PROVE  load_op(WordOf(next), WordOf(Executed)) > 0
<1>0. next.op # "lui"
  BY OperationInputs DEF Affects
<1>1. PICK r \in {next.rs, next.rt} :
        /\ Zeroed'[r] # Zeroed[r]
        /\ r = next.rs \/ next.op \in RegisterOps
  <2>1. \/ First(next)' # First(next)
        \/ Second(next)' # Second(next)
    BY OperationInputs DEF Affects
  <2>2. next.op \notin Branches
    BY KindsApart
  <2> QED
    BY <2>1, <2>2, ReadsNamed
<1>2. next.rs \in Registers /\ next.rt \in Registers
  BY EmulatorAssumption DEF InstructionType
<1>3. r = Written(Executed) /\ r # 0
  BY <1>1, <1>2, WritesOne
<1>4. WordOf(Executed) # NOP /\ WordOf(next) # NOP
  BY <1>1, <1>3, BubbleIsIdle, ExecutedIsInstruction
<1>5. isLoad(WordOf(Executed)) /\ WordOf(Executed).rt = r
  BY <1>3, <1>4, TableTarget, ExecutedIsInstruction
<1>6. WordOf(next) = [op |-> next.op, rs |-> next.rs, rt |-> next.rt, rd |-> next.rd]
  BY <1>4 DEF WordOf
<1>7. /\ isOp(WordOf(next))
      /\ isImm(WordOf(next)) => next.op \notin RegisterOps
      /\ WordOf(next).rs = next.rs /\ WordOf(next).rt = next.rt
  <2>1. WordOf(next).op = next.op /\ WordOf(next).rs = next.rs /\ WordOf(next).rt = next.rt
    BY <1>6
  <2>2. next.op \in ImmediateOps \ {"lui"} \/ next.op \in RegisterOps
    BY <1>0 DEF ArithmeticOps
  <2> QED
    BY <2>1, <2>2, KindsApart DEF isOp, isImm, isRop
<1> QED
  BY <1>1, <1>5, <1>7 DEF load_op

(* Every branch that depends on the operation or load before it is seen.   *)
THEOREM DependentBranchesHeld == Spec => BranchesHeld
<1>1. TypeOK /\ [Next]_vars
        => [Executed.op \in (ArithmeticOps \union Loads) \ {"lui"} =>
              \A next \in {i \in Instructions : i.op \in Branches} :
                Affects(next) =>
                  \/ op_branch(WordOf(next), WordOf(Executed)) > 0
                  \/ load_branch(WordOf(next), WordOf(Executed)) > 0]_vars
  BY BranchStep
<1> QED
  BY <1>1, EmulatorTypeCorrect, PTL DEF Spec, BranchesHeld

(* Every operation that depends on the load before it is seen.             *)
THEOREM DependentOperationsHeld == Spec => OperationsHeld
<1>1. TypeOK /\ [Next]_vars
        => [Executed.op \in Loads =>
              \A next \in {i \in Instructions : i.op \in ArithmeticOps} :
                Affects(next) => load_op(WordOf(next), WordOf(Executed)) > 0]_vars
  BY OperationStep
<1> QED
  BY <1>1, EmulatorTypeCorrect, PTL DEF Spec, OperationsHeld
-----------------------------------------------------------------------------
(* emulator.h and Utilities.cpp have the same number for a name, and no    *)
(* other name for it.                                                      *)
LEMMA SameNumbers ==
  /\ \A op \in DOMAIN FUNCT_IDS :
       /\ op \in DOMAIN PrintedFuncts /\ PrintedFuncts[op] = FUNCT_IDS[op]
       /\ \A name \in DOMAIN PrintedFuncts :
            PrintedFuncts[name] = FUNCT_IDS[op] => name = op
  /\ \A op \in DOMAIN OP_IDS :
       /\ op \in DOMAIN PrintedOps /\ PrintedOps[op] = OP_IDS[op]
       /\ OP_IDS[op] # 0
       /\ \A name \in DOMAIN PrintedOps :
            PrintedOps[name] = OP_IDS[op] => name = op
<1>1. \A op \in DOMAIN FUNCT_IDS :
       /\ op \in DOMAIN PrintedFuncts /\ PrintedFuncts[op] = FUNCT_IDS[op]
       /\ \A name \in DOMAIN PrintedFuncts :
            PrintedFuncts[name] = FUNCT_IDS[op] => name = op
  BY SMTT(60) DEF FUNCT_IDS, PrintedFuncts
<1>2. \A op \in DOMAIN OP_IDS :
       /\ op \in DOMAIN PrintedOps /\ PrintedOps[op] = OP_IDS[op]
       /\ OP_IDS[op] # 0
  BY SMTT(60) DEF OP_IDS, PrintedOps
<1>3. \A op \in DOMAIN OP_IDS :
        \A name \in DOMAIN PrintedOps :
            PrintedOps[name] = OP_IDS[op] => name = op
  BY SMTT(60) DEF OP_IDS, PrintedOps
<1> QED
  BY <1>1, <1>2, <1>3

(* A table without a second name for a number gives the name back.         *)
LEMMA NameFound ==
  ASSUME NEW table, NEW op \in DOMAIN table, NEW code, table[op] = code,
         \A name \in DOMAIN table : table[name] = code => name = op
  PROVE  NameIn(table, code) = op
<1>1. {name \in DOMAIN table : table[name] = code} = {op}
  OBVIOUS
<1> QED
  BY <1>1 DEF NameIn

(* The trace names an instruction as executeInstruction does.              *)
LEMMA NameOfValid ==
  ASSUME NEW i, Valid(i)
  PROVE  Name(CodeOf(i)) = i.op
<1>1. CASE i.op \in DOMAIN FUNCT_IDS
  <2>1. CodeOf(i).opcode = 0 /\ CodeOf(i).funct = FUNCT_IDS[i.op]
    BY <1>1 DEF CodeOf
  <2>2. NameIn(PrintedFuncts, FUNCT_IDS[i.op]) = i.op
    BY <1>1, SameNumbers, NameFound
  <2> QED
    BY <2>1, <2>2 DEF Name
<1>2. CASE i.op \notin DOMAIN FUNCT_IDS
  <2>1. i.op \in DOMAIN OP_IDS
    BY <1>2 DEF Valid
  <2>2. CodeOf(i).opcode = OP_IDS[i.op]
    BY <1>2 DEF CodeOf
  <2>3. NameIn(PrintedOps, OP_IDS[i.op]) = i.op
    BY <2>1, SameNumbers, NameFound
  <2> QED
    BY <2>1, <2>2, <2>3, SameNumbers DEF Name
<1> QED
  BY <1>1, <1>2

(* The instructions with a number are those of the kinds.                  *)
LEMMA ValidKinds ==
  ASSUME NEW i
  PROVE  Valid(i) <=> i.op \in ArithmeticOps \union Branches \union Loads
                                \union Stores \union {"j", "jal", "jr"}
  BY DEF Valid, OP_IDS, FUNCT_IDS, ArithmeticOps, ImmediateOps, RegisterOps,
         Branches, Loads, Stores

(* What the line of an instruction shows, kind by kind.                    *)
LEMMA PrintedRegisters ==
  ASSUME NEW i, Valid(i), WordOf(i) # NOP,
         NEW line, line = printInstr(i).registers
  PROVE  /\ i.op \in RegisterOps \ {"sll", "srl"} => line = <<i.rd, i.rs, i.rt>>
         /\ i.op \in {"sll", "srl"} => line = <<i.rd, i.rt>>
         /\ i.op = "lui" => line = <<i.rt>>
         /\ i.op \in (ImmediateOps \ {"lui"}) \union Loads \union Stores
              => line = <<i.rt, i.rs>>
         /\ i.op \in {"beq", "bne"} => line = <<i.rs, i.rt>>
         /\ i.op \in {"jr", "blez", "bgtz"} => line = <<i.rs>>
<1>1. line = RegistersOf(i.op, i)
  BY NameOfValid DEF printInstr
<1>2. DOMAIN PrintedFuncts = RegisterOps \union {"jr"}
  BY DEF PrintedFuncts, RegisterOps
<1> QED
  BY <1>1, <1>2 DEF RegistersOf, OfOperation, OfImmediate, RegisterOps,
     ImmediateOps, Loads, Stores

(* An instruction of another kind changes the link register if it is jal,  *)
(* and none else.                                                          *)
LEMMA OthersWriteNone ==
  ASSUME TypeOK, Next, Executed.op \notin ArithmeticOps \union Loads,
         NEW r \in Registers, Zeroed'[r] # Zeroed[r]
  PROVE  Executed.op = "jal" /\ r = LinkRegister
<1>1. PICK i \in Instructions :
        \/ Overflow(i) \/ Arithmetic(i)
        \/ Branch(i) \/ Jump(i) \/ JumpRegister(i)
        \/ Load(i) \/ Store(i)
        \/ IllegalOpcode(i) \/ IllegalFunct(i) \/ Halt(i)
  BY DEF Next
<1>2. Executed = i
  <2>1. PICK o \in BOOLEAN : Execute(i, o)
    BY <1>1 DEF Overflow, Arithmetic, Branch, Jump, JumpRegister, Load, Store,
       IllegalOpcode, IllegalFunct, Halt
  <2>2. Info(i, First(i), Second(i), o).instruction = i
    BY DEF Info
  <2> QED
    BY <2>1, <2>2 DEF Execute, Executed
<1>3. /\ registers \in [Registers -> Values] /\ 0 \in Registers
      /\ Zeroed = [registers EXCEPT ![0] = 0]
      /\ Zeroed' = [registers' EXCEPT ![0] = 0]
  BY EmulatorAssumption DEF TypeOK, Zeroed
<1>4. registers' # Zeroed
  BY <1>3
<1>5. Jump(i)
  BY <1>1, <1>2, <1>4 DEF Overflow, Arithmetic, Branch, JumpRegister, Load,
     Store, Raise, IllegalOpcode, IllegalFunct, Halt
<1>6. i.op = "jal" /\ registers' = [Zeroed EXCEPT ![LinkRegister] = Wrap(Advanced + 4)]
  BY <1>4, <1>5 DEF Jump
<1> QED
  BY <1>2, <1>3, <1>6

(* The line has the name of what is executed, and what that changes in     *)
(* front.                                                                  *)
LEMMA WritesShown ==
  ASSUME TypeOK, Next, Valid(Executed), NEW line, line = printInstr(Executed)
  PROVE  /\ line.name = IF WordOf(Executed) = NOP THEN "nop" ELSE Executed.op
         /\ \A r \in Changed :
              \/ line.registers # <<>> /\ r = Head(line.registers)
              \/ Executed.op = "jal" /\ r = LinkRegister
<1>1. line.name = IF WordOf(Executed) = NOP THEN "nop" ELSE Executed.op
  BY NameOfValid DEF printInstr
<1>2. ASSUME NEW r \in Changed, Executed.op \in ArithmeticOps \union Loads
      PROVE  line.registers # <<>> /\ r = Head(line.registers)
  <2>1. r \in Registers /\ Zeroed'[r] # Zeroed[r]
    BY DEF Changed
  <2>2. r = Written(Executed) /\ r # 0
    BY <1>2, <2>1, WritesOne
  <2>3. WordOf(Executed) # NOP
    BY <2>2, BubbleIsIdle, ExecutedIsInstruction
  <2>4. CASE Executed.op \in RegisterOps
    <3>1. \/ line.registers = <<Executed.rd, Executed.rs, Executed.rt>>
          \/ line.registers = <<Executed.rd, Executed.rt>>
      BY <2>3, <2>4, PrintedRegisters
    <3> QED
      BY <2>2, <2>4, <3>1 DEF Written
  <2>5. CASE Executed.op \notin RegisterOps
    <3>1. \/ line.registers = <<Executed.rt, Executed.rs>>
          \/ line.registers = <<Executed.rt>>
      BY <1>2, <2>3, <2>5, PrintedRegisters DEF ArithmeticOps
    <3> QED
      BY <2>2, <2>5, <3>1 DEF Written
  <2> QED
    BY <2>4, <2>5
<1>3. ASSUME NEW r \in Changed, Executed.op \notin ArithmeticOps \union Loads
      PROVE  Executed.op = "jal" /\ r = LinkRegister
  BY <1>3, OthersWriteNone DEF Changed
<1> QED
  BY <1>1, <1>2, <1>3

(* What an instruction takes from the registers changes only with rs, or   *)
(* with rt if it reads that.                                               *)
LEMMA ReadsByKind ==
  ASSUME NEW next \in Instructions, Affects(next)
  PROVE  \/ /\ Zeroed'[next.rs] # Zeroed[next.rs]
            /\ next.op \notin {"sll", "srl", "lui", "j", "jal"}
         \/ /\ Zeroed'[next.rt] # Zeroed[next.rt]
            /\ next.op \in RegisterOps \union Stores \union {"beq", "bne"}
<1>1. next.op \in Ops
  BY EmulatorAssumption DEF InstructionType
<1>2. CASE next.op \in Branches
  <2>1. \/ First(next)' # First(next)
        \/ next.op \in {"beq", "bne"} /\ Second(next)' # Second(next)
    <3>1. Taken(next.op, First(next)', Second(next)')
            # Taken(next.op, First(next), Second(next))
      BY <1>2, BranchInputs DEF Affects
    <3>2. CASE next.op \in {"beq", "bne"}
      BY <3>1, <3>2
    <3>3. CASE next.op \in {"blez", "bgtz"}
      <4>1. ASSUME NEW a, NEW b, NEW c
            PROVE  Taken(next.op, a, b) = Taken(next.op, a, c)
        BY <3>3 DEF Taken
      <4> QED
        BY <3>1, <4>1
    <3> QED
      BY <1>2, <3>2, <3>3 DEF Branches
  <2>2. Second(next) = Zeroed[next.rt] /\ Second(next)' = Zeroed'[next.rt]
    BY <1>2 DEF Second
  <2>3. next.op \notin {"sll", "srl", "lui", "j", "jal"}
    BY <1>2 DEF Branches
  <2> QED
    BY <2>1, <2>2, <2>3 DEF First
<1>3. CASE next.op \in {"sll", "srl"}
  <2>1. Inputs(next) = Second(next) /\ Inputs(next)' = Second(next)'
    BY <1>3 DEF Inputs, Branches, ArithmeticOps, ImmediateOps,
         RegisterOps, Loads, Stores
  <2>2. next.op \in RegisterOps
    BY <1>3 DEF RegisterOps
  <2> QED
    BY <2>1, <2>2 DEF Affects, Second
<1>4. CASE next.op \in ArithmeticOps \ {"sll", "srl"}
  <2>1. First(next)' # First(next) \/ Second(next)' # Second(next)
    BY <1>4, OperationInputs DEF Affects
  <2>2. next.op \notin Branches \union {"lui", "j", "jal"}
    BY <1>4, OperationInputs, KindsApart DEF Affects
  <2>3. next.op \notin RegisterOps => Second(next)' = Second(next)
    BY <2>2 DEF Second
  <2>4. next.op \in RegisterOps
          => Second(next) = Zeroed[next.rt] /\ Second(next)' = Zeroed'[next.rt]
    BY DEF Second
  <2> QED
    BY <1>4, <2>1, <2>2, <2>3, <2>4 DEF First
<1>5. CASE next.op \in Loads \union Stores
  <2>1. next.op \notin ArithmeticOps \union Branches \union {"j", "jal"}
    BY <1>5 DEF Loads, Stores, ArithmeticOps, ImmediateOps, RegisterOps, Branches
  <2>2. ASSUME next.op \in Loads PROVE First(next)' # First(next)
    <3>1. Inputs(next) = Address(next) /\ Inputs(next)' = Address(next)'
      BY <2>2 DEF Inputs, Branches, ArithmeticOps, ImmediateOps,
           RegisterOps, Loads, Stores
    <3> QED
      BY <3>1 DEF Affects, Address
  <2>3. ASSUME next.op \in Stores
        PROVE First(next)' # First(next) \/ Zeroed'[next.rt] # Zeroed[next.rt]
    <3>1. /\ Inputs(next) = <<Address(next), Zeroed[next.rt]>>
          /\ Inputs(next)' = <<Address(next)', Zeroed'[next.rt]>>
      BY <2>3 DEF Inputs, Branches, ArithmeticOps, ImmediateOps,
           RegisterOps, Loads, Stores
    <3> QED
      BY <3>1 DEF Affects, Address
  <2>4. next.op \notin {"sll", "srl", "lui", "j", "jal"}
    BY <2>1 DEF ArithmeticOps, RegisterOps, ImmediateOps
  <2> QED
    BY <1>5, <2>2, <2>3, <2>4 DEF First
<1>6. CASE next.op = "jr"
  <2>1. Inputs(next) = First(next) /\ Inputs(next)' = First(next)'
    BY <1>6 DEF Inputs, Branches, ArithmeticOps, ImmediateOps, RegisterOps,
       Loads, Stores
  <2> QED
    BY <1>6, <2>1 DEF Affects, First
<1>7. next.op \notin {"j", "jal", "halt", "illegal opcode", "illegal funct"}
  BY DEF Affects, Inputs, Branches, ArithmeticOps, ImmediateOps, RegisterOps,
         Loads, Stores
<1> QED
  BY <1>1, <1>2, <1>3, <1>4, <1>5, <1>6, <1>7 DEF Ops

(* What an instruction reads stands in its line.                           *)
LEMMA ReadsShown ==
  ASSUME TypeOK, TypeOK', NEW next \in Instructions, Valid(next), Affects(next)
  PROVE  Sources(next) \intersect Changed # {}
<1> DEFINE line == printInstr(next).registers
           first == IF next.op \in ArithmeticOps \union Loads THEN 2 ELSE 1
<1>1. next.rs \in Registers /\ next.rt \in Registers
  BY EmulatorAssumption DEF InstructionType
<1>2. WordOf(next) # NOP
  <2>1. 0 \in Registers
    BY EmulatorAssumption
  <2>2. Zeroed[0] = 0 /\ Zeroed'[0] = 0
    BY <2>1 DEF Zeroed, TypeOK
  <2> QED
    BY <2>2, BubbleIsIdle, ReadsByKind
<1>3. ASSUME NEW k \in first .. Len(line), line[k] \in Changed
      PROVE  Sources(next) \intersect Changed # {}
  BY <1>3 DEF Sources
<1> HIDE DEF line
<1>4. CASE /\ Zeroed'[next.rs] # Zeroed[next.rs]
           /\ next.op \notin {"sll", "srl", "lui", "j", "jal"}
  <2>1. next.rs \in Changed
    BY <1>1, <1>4 DEF Changed
  <2>2. \/ line = <<next.rd, next.rs, next.rt>> \/ line = <<next.rt, next.rs>>
        \/ /\ line = <<next.rs, next.rt>> \/ line = <<next.rs>>
           /\ first = 1
    BY <1>2, <1>4, ValidKinds, PrintedRegisters
       DEF line, ArithmeticOps, Branches, RegisterOps, ImmediateOps, Loads, Stores
  <2>3. \E k \in first .. Len(line) : line[k] = next.rs
    BY <2>2
  <2> QED
    BY <1>3, <2>1, <2>3
<1>5. CASE /\ Zeroed'[next.rt] # Zeroed[next.rt]
           /\ next.op \in RegisterOps \union Stores \union {"beq", "bne"}
  <2>1. next.rt \in Changed
    BY <1>1, <1>5 DEF Changed
  <2>2. \/ line = <<next.rd, next.rs, next.rt>> \/ line = <<next.rd, next.rt>>
        \/ /\ line = <<next.rt, next.rs>> \/ line = <<next.rs, next.rt>>
           /\ first = 1
    BY <1>2, <1>5, PrintedRegisters
       DEF line, ArithmeticOps, RegisterOps, ImmediateOps, Loads, Stores
  <2>3. \E k \in first .. Len(line) : line[k] = next.rt
    BY <2>2
  <2> QED
    BY <1>3, <2>1, <2>3
<1> QED
  BY <1>4, <1>5, ReadsByKind

(* The trace shows what was executed, and the register it changed first.   *)
THEOREM TraceShowsWhatIsWritten == Spec => TraceShowsWrites
<1>1. TypeOK /\ [Next]_vars
        => [Valid(Executed) =>
              LET line == printInstr(Executed)
              IN  /\ line.name = IF WordOf(Executed) = NOP THEN "nop" ELSE Executed.op
                  /\ \A r \in Changed :
                       \/ line.registers # <<>> /\ r = Head(line.registers)
                       \/ Executed.op = "jal" /\ r = LinkRegister]_vars
  BY WritesShown
<1> QED
  BY <1>1, EmulatorTypeCorrect, PTL DEF Spec, TraceShowsWrites

(* The trace shows every register by which an instruction depends on the   *)
(* one before, as one that is read.                                        *)
THEOREM TraceShowsWhatIsRead == Spec => TraceShowsReads
<1>1. TypeOK /\ TypeOK' /\ [Next]_vars
        => [Changed # {} =>
              \A next \in {i \in Instructions : Valid(i)} :
                Affects(next) => Sources(next) \intersect Changed # {}]_vars
  BY ReadsShown
<1> QED
  BY <1>1, EmulatorTypeCorrect, PTL DEF Spec, TraceShowsReads
=============================================================================
