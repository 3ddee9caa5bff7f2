-------------------------------- MODULE MIPS --------------------------------
(***************************************************************************)
(* The instruction set, as a programmer reads it: two program counters pc  *)
(* and npc, so that a branch takes effect behind its delay slot; $0 is     *)
(* zero; an instruction that raises an exception writes nothing and goes   *)
(* to the handler at once.  Sums, differences and comparisons are those of *)
(* the integers the words stand for.                                       *)
(***************************************************************************)
EXTENDS WordOps

CONSTANTS Instructions, Registers, LinkRegister, ExceptionVector, RegionSize,
          Trapping         \* the operations that raise overflow

VARIABLES regs, mem, pc, npc,
          inSlot,          \* the next instruction is in a delay slot
          lenient,         \* overflow need not be raised
          executed         \* the last instruction

vars == <<regs, mem, pc, npc, inSlot, lenient, executed>>

Init ==
  /\ regs = [r \in Registers |-> 0]
  /\ mem \in Memories
  /\ pc = 0 /\ npc = 4
  /\ inSlot = FALSE
  /\ lenient \in BOOLEAN
  /\ executed = "none"

Write(r, v) == regs' = [regs EXCEPT ![r] = IF r = 0 THEN 0 ELSE v]

Goto(target) == pc' = npc /\ npc' = target /\ inSlot' = TRUE
GoOn == pc' = npc /\ npc' = Wrap(npc + 4) /\ inSlot' = FALSE
Raise ==
  /\ pc' = ExceptionVector /\ npc' = Wrap(ExceptionVector + 4)
  /\ inSlot' = FALSE
  /\ UNCHANGED <<regs, mem>>

(* A branch in a delay slot is UNPREDICTABLE: it goes anywhere.            *)
GotoFromSlot == \E target \in Values : Goto(target)

Operand(i) == CASE i.op \in RegisterOps         -> regs[i.rt]
                [] i.op \in {"andi", "ori", "lui"} -> i.immediate
                [] OTHER                        -> signExt(i.immediate)

Fits(n) == -WordSpace <= 2 * n /\ 2 * n < WordSpace

Overflows(op, a, b) ==
  /\ op \in Trapping
  /\ ~Fits(IF op \in {"sub", "subu"} THEN Signed(a) - Signed(b)
           ELSE Signed(a) + Signed(b))

Arithmetic(i) ==
  LET a == regs[i.rs]  b == Operand(i)
  IN  /\ i.op \in ArithmeticOps
      /\ \/ Overflows(i.op, a, b) /\ Raise
         \/ /\ Overflows(i.op, a, b) => lenient
            /\ Write(IF i.op \in RegisterOps THEN i.rd ELSE i.rt,
                     Result(i.op, a, b, i.shamt))
            /\ GoOn
            /\ mem' = mem

Holds(op, a, b) == CASE op = "beq"  -> a = b
                     [] op = "bne"  -> a # b
                     [] op = "blez" -> Signed(a) <= 0
                     [] op = "bgtz" -> Signed(a) > 0

Branch(i) ==
  /\ i.op \in Branches
  /\ IF ~Holds(i.op, regs[i.rs], regs[i.rt]) THEN GoOn
     ELSE IF inSlot THEN GotoFromSlot
     ELSE Goto(Wrap(pc + 4 + 4 * signExt(i.immediate)))
  /\ UNCHANGED <<regs, mem>>

(* A jump stays in the region of its delay slot.                           *)
Jump(i) ==
  /\ i.op \in {"j", "jal"}
  /\ IF inSlot THEN GotoFromSlot
     ELSE Goto(npc - (npc % RegionSize) + 4 * i.address)
  /\ CASE i.op = "j"            -> regs' = regs
       [] i.op = "jal" /\ ~inSlot -> Write(LinkRegister, Wrap(pc + 8))
       [] i.op = "jal" /\ inSlot  -> \E v \in Values : Write(LinkRegister, v)
  /\ mem' = mem

JumpRegister(i) ==
  /\ i.op = "jr"
  /\ Goto(regs[i.rs])
  /\ UNCHANGED <<regs, mem>>

Address(i) == Wrap(regs[i.rs] + signExt(i.immediate))

Load(i) ==
  /\ i.op \in Loads
  /\ Write(i.rt, GetValue(mem, Address(i), SizeOf(i.op)))
  /\ GoOn
  /\ mem' = mem

Store(i) ==
  /\ i.op \in Stores
  /\ mem' = SetValue(mem, Address(i), SizeOf(i.op), regs[i.rt])
  /\ GoOn
  /\ regs' = regs

Illegal(i) == i.op = "illegal opcode" /\ Raise

(* A word with a funct it does not know is skipped, as is the halt.        *)
Skip(i) ==
  /\ i.op \in {"illegal funct", "halt"}
  /\ GoOn
  /\ UNCHANGED <<regs, mem>>

Next ==
  \E i \in Instructions :
    /\ executed' = i
    /\ lenient' = lenient
    /\ \/ Arithmetic(i) \/ Branch(i) \/ Jump(i) \/ JumpRegister(i)
       \/ Load(i) \/ Store(i) \/ Illegal(i) \/ Skip(i)

Spec == Init /\ [][Next]_vars
=============================================================================
