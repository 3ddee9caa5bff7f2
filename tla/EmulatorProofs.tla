--------------------------- MODULE EmulatorProofs ---------------------------
(***************************************************************************)
(* The emulator keeps its registers words, leaves $0 zero at the halt and  *)
(* implements MIPS, for every size of word and memory and every set of     *)
(* instructions and registers.                                             *)
(***************************************************************************)
EXTENDS Emulator, MemoryOpsProofs

(* A word needs at least four values: PC + 4 wraps around at most once.    *)
LEMMA SpacesOK ==
  /\ HalfSpace \in Nat /\ HalfSpace >= 4
  /\ WordSpace \in Nat /\ WordSpace >= 16
  /\ WordSpace = HalfSpace * HalfSpace
  /\ HalfSpace <= WordSpace
<1>1. HalfSpace = Radix * Radix /\ WordSpace = Radix * Radix * Radix * Radix
  BY DEF HalfSpace, WordSpace, Power
<1>2. HalfSpace \in Nat /\ HalfSpace >= 4
  BY <1>1, MemoryAssumption
<1>3. WordSpace = HalfSpace * HalfSpace
  BY <1>1, MemoryAssumption
<1>4. \A n \in Nat : n >= 4 => n * n \in Nat /\ n * n >= 16 /\ n <= n * n
  OBVIOUS
<1> QED
  BY <1>2, <1>3, <1>4

(* Values and the wrapping of integers into them.                          *)
LEMMA WrapOK ==
  /\ \A n \in Int : Wrap(n) \in Values
  /\ \A v \in Values : v \in Int /\ v >= 0 /\ v < WordSpace
  /\ 0 \in Values
  /\ \A n \in 0 .. WordSpace - 1 : Wrap(n) = n
  /\ \A n \in WordSpace .. WordSpace + WordSpace - 1 : Wrap(n) = n - WordSpace
  /\ \A n \in -WordSpace .. -1 : Wrap(n) = n + WordSpace
  BY WordSpacePositive, Remainder DEF Wrap, Values

(* The remainder is the only number below w that completes a multiple.     *)
LEMMA RemainderUnique ==
  ASSUME NEW w \in Nat, w > 0, NEW q \in Int, NEW r \in 0 .. w - 1
  PROVE  (q * w + r) % w = r
<1> DEFINE z == q * w + r
           p == z \div w
           s == z % w
<1>1. z \in Int /\ p \in Int /\ s \in 0 .. w - 1
  OBVIOUS
<1>2. z = p * w + s
  OBVIOUS
<1>3. z = q * w + r
  OBVIOUS
<1> HIDE DEF z, p, s
<1>4. (p - q) * w = r - s
  <2>1. (p - q) * w = p * w - q * w
    BY <1>1
  <2>2. p * w \in Int /\ q * w \in Int
    BY <1>1
  <2> QED
    BY <1>1, <1>2, <1>3, <2>1, <2>2
<1>5. ASSUME NEW d \in Int, d * w = r - s
      PROVE  d = 0
  <2>1. d >= 1 => d * w >= w
    OBVIOUS
  <2>2. d <= -1 => d * w <= -w
    OBVIOUS
  <2> QED
    BY <1>1, <1>5, <2>1, <2>2
<1>6. r = s
  <2>1. p - q = 0
    BY <1>1, <1>4, <1>5
  <2>2. (p - q) * w = 0
    BY <2>1
  <2> QED
    BY <1>1, <1>4, <2>2
<1> QED
  BY <1>6 DEF z, s

(* Taking the divisor away does not change the remainder.                  *)
LEMMA RemainderShift ==
  ASSUME NEW w \in Nat, w > 0, NEW z \in Int
  PROVE  (z - w) % w = z % w
<1> DEFINE p == z \div w
           s == z % w
<1>1. p \in Int /\ s \in 0 .. w - 1 /\ z = p * w + s /\ s = z % w
  OBVIOUS
<1> HIDE DEF p, s
<1>2. p - 1 \in Int
  BY <1>1
<1>3. z - w = (p - 1) * w + s
  BY <1>1
<1>4. ((p - 1) * w + s) % w = s
  BY <1>1, <1>2, RemainderUnique
<1> QED
  BY <1>1, <1>3, <1>4

(* Wrapping a summand first makes no difference.                           *)
LEMMA WrapSum ==
  ASSUME NEW x \in 0 .. WordSpace + 3, NEW y \in Int
  PROVE  Wrap(Wrap(x) + y) = Wrap(x + y)
<1>1. CASE x < WordSpace
  <2>1. Wrap(x) = x
    BY <1>1, WrapOK, SpacesOK
  <2> QED
    BY <2>1
<1>2. CASE x >= WordSpace
  <2>1. Wrap(x) = x - WordSpace
    BY <1>2, WrapOK, SpacesOK
  <2>2. Wrap(x) + y = (x + y) - WordSpace /\ x + y \in Int
    BY <2>1, SpacesOK
  <2>3. ((x + y) - WordSpace) % WordSpace = (x + y) % WordSpace
    BY <2>2, WordSpacePositive, RemainderShift
  <2> QED
    BY <2>2, <2>3 DEF Wrap
<1> QED
  BY <1>1, <1>2, SpacesOK

(* A jump stays within its region, which is within the address space.      *)
LEMMA RegionOK ==
  ASSUME NEW v \in Values, NEW n \in 0 .. (RegionSize \div 4) - 1
  PROVE  /\ (v \div RegionSize) * RegionSize + 4 * n \in Values
         /\ (v \div RegionSize) * RegionSize = v - (v % RegionSize)
<1> DEFINE q == v \div RegionSize
           k == WordSpace \div RegionSize
<1>1. RegionSize \in Nat /\ RegionSize > 0 /\ WordSpace % RegionSize = 0
  BY EmulatorAssumption
<1>2. v \in Nat /\ v < WordSpace /\ WordSpace \in Nat
  BY WrapOK, SpacesOK
<1>3. q \in Nat /\ k \in Nat /\ WordSpace = k * RegionSize
  BY <1>1, <1>2
<1>4. q * RegionSize <= v /\ q * RegionSize = v - (v % RegionSize)
  BY <1>1, <1>2
<1> HIDE DEF q, k
<1>5. q < k
  <2>1. q >= k => q * RegionSize >= k * RegionSize
    BY <1>1, <1>3
  <2> QED
    BY <1>1, <1>2, <1>3, <1>4, <2>1
<1>6. q * RegionSize + RegionSize <= k * RegionSize
  BY <1>1, <1>3, <1>5
<1>7. 4 * n < RegionSize /\ n \in Nat
  <2>1. 4 * (RegionSize \div 4) = RegionSize
    BY EmulatorAssumption
  <2> QED
    BY <1>1, <2>1
<1>8. q * RegionSize \in Nat
  BY <1>1, <1>3
<1>9. q * RegionSize + 4 * n \in Values
  BY <1>1, <1>2, <1>3, <1>6, <1>7, <1>8 DEF Values
<1> QED
  BY <1>4, <1>9 DEF q
-----------------------------------------------------------------------------
(* Extended immediates are words.                                          *)
LEMMA ImmediateOK ==
  ASSUME NEW imm \in Immediates
  PROVE  signExt(imm) \in Values /\ imm \in Values
  BY SpacesOK DEF signExt, Immediates, Values

(* An operation writes a word.                                             *)
LEMMA ResultOK ==
  ASSUME NEW op \in ArithmeticOps, NEW a \in Values, NEW b \in Values,
         op = "lui" => b \in Immediates, NEW shamt
  PROVE  Result(op, a, b, shamt) \in Values
<1>1. \A S : OfBits(S) \in Values
  <2> SUFFICES ASSUME NEW S
               PROVE  OfBits(S) \in Values
    OBVIOUS
  <2> DEFINE words == {v \in Values : Bits(v) = S}
  <2>1. \E v \in Values : words # {} => v \in words
    <3>1. CASE words = {}
      BY <3>1, WrapOK
    <3>2. CASE words # {}
      BY <3>2
    <3> QED
      BY <3>1, <3>2
  <2> QED
    BY <2>1 DEF OfBits
<1>2. \A p : Indicator(p) \in Values
  BY SpacesOK DEF Indicator, Values
<1>3. Wrap(a + b) \in Values /\ Wrap(a - b) \in Values
  BY WrapOK
<1>4. op = "lui" => b * HalfSpace \in Values
  <2>1. \A h \in Nat : \A n \in 0 .. h - 1 : n * h \in 0 .. h * h - h
    OBVIOUS
  <2> QED
    BY <2>1, SpacesOK DEF Immediates, Values
<1> QED
  BY <1>1, <1>2, <1>3, <1>4 DEF Result, ArithmeticOps, ImmediateOps, RegisterOps
-----------------------------------------------------------------------------
(* What an instruction reads is typed, and it reads $0 as zero.            *)
LEMMA OperandsOK ==
  ASSUME TypeOK, NEW i \in Instructions
  PROVE  /\ i \in InstructionType
         /\ Zeroed \in [Registers -> Values] /\ Zeroed[0] = 0
         /\ First(i) \in Values /\ Second(i) \in Values
         /\ i.op = "lui" => Second(i) \in Immediates
         /\ Address(i) \in Values /\ Advanced \in Values
<1>1. i \in InstructionType
  BY EmulatorAssumption
<1>2. i.rs \in Registers /\ i.rt \in Registers /\ i.immediate \in Immediates
  BY <1>1 DEF InstructionType
<1>3. Zeroed \in [Registers -> Values] /\ Zeroed[0] = 0
  BY EmulatorAssumption, WrapOK DEF TypeOK, Zeroed
<1>4. First(i) \in Values
  BY <1>2, <1>3 DEF First
<1>5. Second(i) \in Values
  BY <1>2, <1>3, ImmediateOK DEF Second
<1>6. i.op = "lui" => Second(i) \in Immediates
  BY <1>2 DEF Second, RegisterOps, Branches
<1>7. Address(i) \in Values
  BY <1>2, <1>4, ImmediateOK, WrapOK DEF Address
<1>8. Advanced \in Values
  BY WrapOK DEF Advanced, TypeOK
<1> QED
  BY <1>1, <1>3, <1>4, <1>5, <1>6, <1>7, <1>8

(* The bookkeeping of every instruction is typed.                          *)
LEMMA ExecuteOK ==
  ASSUME TypeOK, NEW i \in Instructions, NEW isOverflow \in BOOLEAN,
         Execute(i, isOverflow)
  PROVE  /\ din' \in 0 .. MaxInstructions
         /\ info' \in Infos
         /\ optimised' \in BOOLEAN
         /\ info'.isHalt = (i.op = "halt")
<1>1. din' \in 0 .. MaxInstructions
  BY EmulatorAssumption DEF TypeOK, Execute
<1>2. info' = Info(i, First(i), Second(i), isOverflow)
  BY DEF Execute
<1>3. Info(i, First(i), Second(i), isOverflow) \in Infos
  BY OperandsOK DEF Info, Infos
<1>4. Info(i, First(i), Second(i), isOverflow).isHalt = (i.op = "halt")
  BY DEF Info
<1> QED
  BY <1>1, <1>2, <1>3, <1>4 DEF Execute, TypeOK

(* The initial state is typed.                                             *)
LEMMA InitTypeOK == Init => TypeOK
<1> SUFFICES ASSUME Init
             PROVE  TypeOK
  OBVIOUS
<1>1. 0 \in Bytes /\ 0 \in 0 .. MaxInstructions
  BY MemoryAssumption, EmulatorAssumption DEF Bytes
<1>2. registers \in [Registers -> Values] /\ memory \in Memories
  BY <1>1, WrapOK DEF Init, Memories
<1>3. PC \in Values /\ savedBranch \in Values
  BY WrapOK DEF Init
<1> QED
  BY <1>1, <1>2, <1>3 DEF Init, TypeOK

(* Every instruction, also one that raises an exception or fails to reach  *)
(* the memory, keeps the types.                                            *)
LEMMA NextTypeOK ==
  ASSUME TypeOK, [Next]_vars
  PROVE  TypeOK'
<1>1. SUFFICES ASSUME NEW i \in Instructions,
                      \/ Overflow(i) \/ Arithmetic(i)
                      \/ Branch(i) \/ Jump(i) \/ JumpRegister(i)
                      \/ Load(i) \/ Store(i)
                      \/ IllegalOpcode(i) \/ IllegalFunct(i) \/ Halt(i)
               PROVE  TypeOK'
  BY DEF Next, vars, TypeOK
<1>2. i \in InstructionType
  BY OperandsOK
<1>3. i.rd \in Registers /\ i.rt \in Registers /\ i.shamt \in 0 .. WordBits - 1
      /\ i.immediate \in Immediates /\ i.address \in 0 .. (RegionSize \div 4) - 1
  BY <1>2 DEF InstructionType
<1>4. /\ din' \in 0 .. MaxInstructions
      /\ info' \in Infos
      /\ optimised' \in BOOLEAN
  BY <1>1, ExecuteOK DEF Overflow, Arithmetic, Branch, Jump, JumpRegister, Load,
     Store, IllegalOpcode, IllegalFunct, Halt
<1>5. /\ PC' \in Values
      /\ memory \in Memories /\ registers \in [Registers -> Values]
      /\ savedBranch \in Values
  BY <1>1, OperandsOK, EmulatorAssumption DEF TypeOK, Overflow, Arithmetic, Branch,
     Jump, JumpRegister, Load, Store, IllegalOpcode, IllegalFunct, Halt, Raise, GoOn
<1>6. encounteredBranch' \in BOOLEAN /\ savedBranch' \in Values
  <2>1. CASE Branch(i)
    <3>1. Wrap(Advanced + 4 * signExt(i.immediate)) \in Values
      BY <1>3, OperandsOK, ImmediateOK, WrapOK
    <3> QED
      BY <1>5, <2>1, <3>1 DEF Branch, BranchTo, NoBranch
  <2>2. CASE Jump(i)
    <3>1. (Advanced \div RegionSize) * RegionSize + 4 * i.address \in Values
      BY <1>3, OperandsOK, RegionOK
    <3> QED
      BY <1>5, <2>2, <3>1 DEF Jump, BranchTo
  <2>3. CASE JumpRegister(i)
    BY <1>5, <2>3, OperandsOK DEF JumpRegister, BranchTo
  <2>4. CASE ~Branch(i) /\ ~Jump(i) /\ ~JumpRegister(i)
    <3>1. NoBranch
      BY <1>1, <2>4 DEF Overflow, Arithmetic, Load, Store, IllegalOpcode,
         IllegalFunct, Halt, Raise, GoOn
    <3> QED
      BY <1>5, <3>1 DEF NoBranch
  <2> QED
    BY <2>1, <2>2, <2>3, <2>4
<1>7. registers' \in [Registers -> Values]
  <2>1. \A r \in Registers, v \in Values :
          [Zeroed EXCEPT ![r] = v] \in [Registers -> Values]
    BY OperandsOK
  <2>2. CASE Arithmetic(i)
    <3>1. Result(i.op, First(i), Second(i), i.shamt) \in Values
      BY <2>2, OperandsOK, ResultOK DEF Arithmetic
    <3> QED
      BY <1>3, <2>1, <2>2, <3>1 DEF Arithmetic
  <2>3. CASE Jump(i)
    BY <2>1, <2>3, OperandsOK, WrapOK, EmulatorAssumption DEF Jump
  <2>4. CASE Load(i)
    <3>1. SizeOf(i.op) \in Sizes
      BY <2>4 DEF Load, Loads, SizeOf, Sizes
    <3>2. GetValue(memory, Address(i), SizeOf(i.op)) \in Values
      BY <1>5, <3>1, OperandsOK, WrapOK, GetOK
    <3> QED
      BY <1>3, <2>1, <2>4, <3>2 DEF Load
  <2>5. CASE ~Arithmetic(i) /\ ~Jump(i) /\ ~Load(i)
    <3>1. registers' = Zeroed
      BY <1>1, <2>5 DEF Overflow, Branch, JumpRegister, Store, IllegalOpcode,
         IllegalFunct, Halt, Raise
    <3> QED
      BY <3>1, OperandsOK
  <2> QED
    BY <2>2, <2>3, <2>4, <2>5
<1>8. memory' \in Memories
  <2>1. CASE Store(i)
    <3>1. SizeOf(i.op) \in Sizes
      BY <2>1 DEF Store, Stores, SizeOf, Sizes
    <3>2. Zeroed[i.rt] \in Values
      BY <1>3, OperandsOK
    <3> QED
      BY <1>5, <2>1, <3>1, <3>2, OperandsOK, WrapOK, SetOK DEF Store
  <2>2. CASE ~Store(i)
    <3>1. memory' = memory
      BY <1>1, <2>2 DEF Overflow, Arithmetic, Branch, Jump, JumpRegister, Load,
         IllegalOpcode, IllegalFunct, Halt, Raise
    <3> QED
      BY <1>5, <3>1
  <2> QED
    BY <2>1, <2>2
<1> QED
  BY <1>4, <1>5, <1>6, <1>7, <1>8 DEF TypeOK

(* Words stay words through every program (emulator.cpp:52-288).           *)
THEOREM EmulatorTypeCorrect == Spec => []TypeOK
  BY InitTypeOK, NextTypeOK, PTL DEF Spec

(* Every register dump comes after a halt, and shows zero for $0, whatever *)
(* was written to it before (emulator.cpp:69-78).                          *)
THEOREM HaltLeavesZero == Spec => []ZeroAtHalt
<1>1. Init => ZeroAtHalt
  BY DEF Init, ZeroAtHalt, Halted
<1>2. TypeOK /\ ZeroAtHalt /\ [Next]_vars => ZeroAtHalt'
  <2>1. SUFFICES ASSUME TypeOK, Next, Halted'
                 PROVE  registers'[0] = 0
    BY DEF vars, ZeroAtHalt, Halted
  <2>2. PICK i \in Instructions :
           \/ Overflow(i) \/ Arithmetic(i)
           \/ Branch(i) \/ Jump(i) \/ JumpRegister(i)
           \/ Load(i) \/ Store(i)
           \/ IllegalOpcode(i) \/ IllegalFunct(i) \/ Halt(i)
    BY <2>1 DEF Next
  <2>3. info'.isHalt = (i.op = "halt")
    BY <2>1, <2>2, ExecuteOK DEF Overflow, Arithmetic, Branch, Jump, JumpRegister,
       Load, Store, IllegalOpcode, IllegalFunct, Halt
  <2>4. i.op = "halt"
    BY <2>1, <2>3 DEF Halted
  <2>5. Halt(i)
    BY <2>2, <2>4 DEF Overflow, Arithmetic, Branch, Jump, JumpRegister, Load, Store,
       IllegalOpcode, IllegalFunct, ArithmeticOps, ImmediateOps, RegisterOps,
       Branches, Loads, Stores
  <2> QED
    BY <2>1, <2>5, OperandsOK DEF Halt
<1> QED
  BY <1>1, <1>2, EmulatorTypeCorrect, PTL DEF Spec
-----------------------------------------------------------------------------
(* The instruction set uses the same words as the emulator.                *)
LEMMA SameWords ==
  /\ Abstract!WordSpace = WordSpace /\ Abstract!Values = Values
  /\ Abstract!HalfSpace = HalfSpace
  /\ Abstract!Memories = Memories
  /\ \A n : Abstract!Wrap(n) = Wrap(n)
  /\ \A v : Abstract!Signed(v) = Signed(v)
  /\ \A imm : Abstract!signExt(imm) = signExt(imm)
<1>1. Abstract!Power = Power
  BY DEF Abstract!Power, Power
<1>2. Abstract!WordSpace = WordSpace /\ Abstract!HalfSpace = HalfSpace
  BY <1>1 DEF Abstract!WordSpace, WordSpace, Abstract!HalfSpace, HalfSpace
<1>3. Abstract!Values = Values
  BY <1>2 DEF Abstract!Values, Values
<1>4. Abstract!Memories = Memories
  BY DEF Abstract!Memories, Memories, Abstract!Cells, Cells, Abstract!Bytes, Bytes
<1>5. \A n : Abstract!Wrap(n) = Wrap(n)
  BY <1>2 DEF Abstract!Wrap, Wrap
<1>6. \A v : Abstract!Signed(v) = Signed(v)
  BY <1>2 DEF Abstract!Signed, Signed
<1>7. \A imm : Abstract!signExt(imm) = signExt(imm)
  BY <1>2 DEF Abstract!signExt, signExt
<1> QED
  BY <1>2, <1>3, <1>4, <1>5, <1>6, <1>7

(* And the same operations.                                                *)
LEMMA SameOperations ==
  /\ Abstract!ArithmeticOps = ArithmeticOps /\ Abstract!RegisterOps = RegisterOps
  /\ Abstract!Branches = Branches
  /\ Abstract!Loads = Loads /\ Abstract!Stores = Stores
  /\ \A op : Abstract!SizeOf(op) = SizeOf(op)
  /\ \A op, a, b, shamt : Abstract!Result(op, a, b, shamt) = Result(op, a, b, shamt)
<1>1. /\ Abstract!RegisterOps = RegisterOps /\ Abstract!ImmediateOps = ImmediateOps
      /\ Abstract!Branches = Branches
      /\ Abstract!Loads = Loads /\ Abstract!Stores = Stores
  BY DEF Abstract!RegisterOps, RegisterOps, Abstract!ImmediateOps, ImmediateOps,
         Abstract!Branches, Branches, Abstract!Loads, Loads, Abstract!Stores, Stores
<1>2. Abstract!ArithmeticOps = ArithmeticOps
  BY <1>1 DEF Abstract!ArithmeticOps, ArithmeticOps
<1>3. \A op : Abstract!SizeOf(op) = SizeOf(op)
  BY DEF Abstract!SizeOf, SizeOf, Abstract!BYTE_SIZE, BYTE_SIZE,
         Abstract!HALF_SIZE, HALF_SIZE, Abstract!WORD_SIZE, WORD_SIZE
<1>4. /\ Abstract!Positions = Positions
      /\ \A v : Abstract!Bits(v) = Bits(v)
      /\ \A S : Abstract!OfBits(S) = OfBits(S)
      /\ \A p : Abstract!Indicator(p) = Indicator(p)
  <2>1. Abstract!Positions = Positions
    BY DEF Abstract!Positions, Positions
  <2>2. \A v : Abstract!Bits(v) = Bits(v)
    BY <2>1 DEF Abstract!Bits, Bits
  <2>3. \A S : Abstract!OfBits(S) = OfBits(S)
    BY <2>2, SameWords DEF Abstract!OfBits, OfBits
  <2>4. \A p : Abstract!Indicator(p) = Indicator(p)
    BY DEF Abstract!Indicator, Indicator
  <2> QED
    BY <2>1, <2>2, <2>3, <2>4
<1>5. \A op, a, b, shamt : Abstract!Result(op, a, b, shamt) = Result(op, a, b, shamt)
  <2> SUFFICES ASSUME NEW op, NEW a, NEW b, NEW shamt
               PROVE  Abstract!Result(op, a, b, shamt) = Result(op, a, b, shamt)
    OBVIOUS
  <2>1. /\ {k \in Abstract!Positions : k - shamt \in Abstract!Bits(b)}
             = {k \in Positions : k - shamt \in Bits(b)}
        /\ {k \in Abstract!Positions : k + shamt \in Abstract!Bits(b)}
             = {k \in Positions : k + shamt \in Bits(b)}
    BY <1>4
  <2>2. /\ Abstract!Bits(a) = Bits(a) /\ Abstract!Bits(b) = Bits(b)
        /\ Abstract!Positions = Positions
        /\ Abstract!Wrap(a + b) = Wrap(a + b) /\ Abstract!Wrap(a - b) = Wrap(a - b)
        /\ Abstract!Indicator(a < b) = Indicator(a < b)
        /\ Abstract!Signed(a) = Signed(a) /\ Abstract!Signed(b) = Signed(b)
        /\ Abstract!Indicator(Signed(a) < Signed(b)) = Indicator(Signed(a) < Signed(b))
        /\ Abstract!HalfSpace = HalfSpace
    BY <1>4, SameWords
  <2>3. \A S : Abstract!OfBits(S) = OfBits(S)
    BY <1>4
  <2> QED
    BY <2>1, <2>2, <2>3, Zenon DEF Abstract!Result, Result
<1> QED
  BY <1>1, <1>2, <1>3, <1>5

(* And the same memory.                                                    *)
LEMMA SameMemory ==
  /\ \A m, address, size :
       Abstract!GetValue(m, address, size) = GetValue(m, address, size)
  /\ \A m, address, size, value :
       Abstract!SetValue(m, address, size, value) = SetValue(m, address, size, value)
<1>1. Abstract!Power = Power
  BY DEF Abstract!Power, Power
<1>2. Abstract!Cells = Cells /\ \A a, i : Abstract!Cell(a, i) = Cell(a, i)
  BY SameWords DEF Abstract!Cells, Cells, Abstract!Cell, Cell
<1>3. \A a, size : Abstract!Reached(a, size) = Reached(a, size)
  BY <1>2 DEF Abstract!Reached, Reached
<1>4. /\ \A v, size, i : Abstract!Digit(v, size, i) = Digit(v, size, i)
      /\ \A b, size, i : Abstract!Weigh(b, size, i) = Weigh(b, size, i)
  BY <1>1 DEF Abstract!Digit, Digit, Abstract!Weigh, Weigh
<1>5. \A m, address, size :
        Abstract!GetValue(m, address, size) = GetValue(m, address, size)
  BY <1>2, <1>3, <1>4 DEF Abstract!GetValue, GetValue
<1>6. \A m, address, size, value :
        Abstract!SetValue(m, address, size, value) = SetValue(m, address, size, value)
  BY <1>2, <1>3, <1>4, SameWords DEF Abstract!SetValue, SetValue
<1> QED
  BY <1>5, <1>6
-----------------------------------------------------------------------------
(* The tests on signs find the sums and differences that do not fit.       *)
LEMMA SignTest ==
  ASSUME NEW op, NEW a \in Values, NEW b \in Values
  PROVE  Overflows(op, a, b) <=> Abstract!Overflows(op, a, b)
<1> DEFINE x == Signed(a)  y == Signed(b)
           sum == Signed(Wrap(a + b))  difference == Signed(Wrap(a - b))
           W == WordSpace
<1>1. /\ W \in Nat /\ W > 0
      /\ a \in 0 .. W - 1 /\ b \in 0 .. W - 1
  BY WrapOK, SpacesOK
<1>2. /\ x = IF 2 * a >= W THEN a - W ELSE a
      /\ y = IF 2 * b >= W THEN b - W ELSE b
  BY DEF Signed
<1>3. /\ Wrap(a + b) = IF a + b >= W THEN a + b - W ELSE a + b
      /\ Wrap(a - b) = IF a >= b THEN a - b ELSE a - b + W
  BY <1>1, WrapOK
<1>4. /\ sum = IF 2 * Wrap(a + b) >= W THEN Wrap(a + b) - W ELSE Wrap(a + b)
      /\ difference = IF 2 * Wrap(a - b) >= W THEN Wrap(a - b) - W ELSE Wrap(a - b)
  BY DEF Signed
<1>5. \A n : Abstract!Fits(n) <=> -W <= 2 * n /\ 2 * n < W
  BY SameWords DEF Abstract!Fits
<1> DEFINE u == Wrap(a + b)  v == Wrap(a - b)
<1>6. u \in Int /\ v \in Int
  BY WrapOK, <1>1
<1> HIDE DEF x, y, sum, difference, W, u, v
<1>7. (x >= 0 /\ y >= 0 /\ sum < 0) \/ (x < 0 /\ y < 0 /\ sum >= 0)
      <=> ~(-W <= 2 * (x + y) /\ 2 * (x + y) < W)
  BY <1>1, <1>2, <1>3, <1>4, <1>6 DEF u, v
<1>8. (x >= 0 /\ y < 0 /\ difference < 0) \/ (x < 0 /\ y >= 0 /\ difference >= 0)
      <=> ~(-W <= 2 * (x - y) /\ 2 * (x - y) < W)
  BY <1>1, <1>2, <1>3, <1>4, <1>6 DEF u, v
<1>9. Overflows(op, a, b) <=>
        \/ /\ op \in {"add", "addi"}
           /\ (x >= 0 /\ y >= 0 /\ sum < 0) \/ (x < 0 /\ y < 0 /\ sum >= 0)
        \/ /\ op = "subu"
           /\ (x >= 0 /\ y < 0 /\ difference < 0) \/ (x < 0 /\ y >= 0 /\ difference >= 0)
  BY DEF Overflows, x, y, sum, difference
<1>10. Abstract!Overflows(op, a, b) <=>
        \/ op \in {"add", "addi"} /\ ~Abstract!Fits(x + y)
        \/ op = "subu" /\ ~Abstract!Fits(x - y)
  BY SameWords DEF Abstract!Overflows, x, y
<1> QED
  BY <1>5, <1>7, <1>8, <1>9, <1>10
-----------------------------------------------------------------------------
(* The emulator starts as a MIPS does.                                     *)
LEMMA InitRefines == Init => Abstract!Init
<1> SUFFICES ASSUME Init
             PROVE  Abstract!Init
  OBVIOUS
<1>1. Zeroed = [r \in Registers |-> 0]
  BY EmulatorAssumption DEF Init, Zeroed
<1>2. memory \in Memories
  BY InitTypeOK DEF TypeOK
<1>3. PC = 0 /\ Advanced = 4
  <2>1. Wrap(4) = 4
    BY SpacesOK, WrapOK
  <2> QED
    BY <2>1 DEF Init, Advanced
<1>4. info.instruction = "none"
  BY DEF Init, NoInfo
<1> QED
  BY <1>1, <1>2, <1>3, <1>4, SameWords DEF Init, Abstract!Init

(* The two program counters of a MIPS after GoOn, BranchTo and Raise.      *)
LEMMA GoOnRefines == GoOn => Abstract!GoOn
  BY SameWords DEF GoOn, NoBranch, Advanced, Abstract!GoOn

(* A branch to a target is one of a MIPS.                                  *)
LEMMA BranchRefines ==
  ASSUME NEW target, PC' = Advanced, BranchTo(target)
  PROVE  Abstract!Goto(target)
  BY DEF BranchTo, Advanced, Abstract!Goto

(* An instruction that writes no register changes none.                    *)
LEMMA ZeroedAgain ==
  ASSUME TypeOK, registers' = Zeroed
  PROVE  Zeroed' = Zeroed
<1>1. Zeroed' = [Zeroed EXCEPT ![0] = 0]
  BY DEF Zeroed
<1>2. registers \in [Registers -> Values] /\ 0 \in Registers
  BY EmulatorAssumption DEF TypeOK
<1> QED
  BY <1>1, <1>2 DEF Zeroed

(* An exception is one of a MIPS, also in a delay slot.                    *)
LEMMA RaiseRefines ==
  ASSUME TypeOK, Raise
  PROVE  Abstract!Raise
<1>1. Zeroed' = Zeroed
  BY ZeroedAgain DEF Raise
<1> QED
  BY <1>1, SameWords DEF Raise, NoBranch, Advanced, Abstract!Raise

(* Resetting $0 later is as good as never writing it.                      *)
LEMMA WriteRefines ==
  ASSUME TypeOK, NEW r \in Registers, NEW v,
         registers' = [Zeroed EXCEPT ![r] = v]
  PROVE  Abstract!Write(r, v)
<1>1. Zeroed' = [[Zeroed EXCEPT ![r] = v] EXCEPT ![0] = 0]
  BY DEF Zeroed
<1>2. registers \in [Registers -> Values] /\ 0 \in Registers
  BY EmulatorAssumption DEF TypeOK
<1>3. Zeroed' = [Zeroed EXCEPT ![r] = IF r = 0 THEN 0 ELSE v]
  BY <1>1, <1>2 DEF Zeroed
<1> QED
  BY <1>3 DEF Abstract!Write

(* A taken branch or jump goes where that of a MIPS goes; in a delay slot  *)
(* it goes to some word.                                                   *)
LEMMA TargetOK ==
  ASSUME TypeOK, NEW offset \in Int
  PROVE  /\ Wrap(Advanced + offset) \in Values
         /\ ~encounteredBranch => Wrap(Advanced + offset) = Wrap(PC + 4 + offset)
<1>1. PC \in 0 .. WordSpace - 1 /\ WordSpace \in Nat
  BY WrapOK, SpacesOK DEF TypeOK
<1>2. Advanced \in Int
  BY WrapOK DEF TypeOK, Advanced
<1>3. Wrap(Advanced + offset) \in Values
  BY <1>2, WrapOK
<1>4. Wrap(Wrap(PC + 4) + offset) = Wrap(PC + 4 + offset)
  <2>1. PC + 4 \in 0 .. WordSpace + 3
    BY <1>1
  <2> QED
    BY <2>1, WrapSum
<1> QED
  BY <1>3, <1>4 DEF Advanced
-----------------------------------------------------------------------------
(* Each action of the emulator is one of a MIPS.                           *)
LEMMA OverflowRefines ==
  ASSUME TypeOK, NEW i \in Instructions, Overflow(i)
  PROVE  Abstract!Arithmetic(i)
<1>1. i.op \in ArithmeticOps /\ i.op \notin Branches
  BY DEF Overflow, ArithmeticOps, ImmediateOps, RegisterOps, Branches
<1>2. Second(i) = Abstract!Operand(i) /\ First(i) = Zeroed[i.rs]
  BY <1>1, SameWords, SameOperations DEF Second, First, Abstract!Operand,
     RegisterOps, ArithmeticOps, ImmediateOps
<1>3. Abstract!Overflows(i.op, First(i), Second(i))
  BY OperandsOK, SignTest DEF Overflow
<1>4. Abstract!Raise
  BY RaiseRefines DEF Overflow
<1> QED
  BY <1>1, <1>2, <1>3, <1>4, SameOperations DEF Abstract!Arithmetic

(* An operation that does not overflow, or whose overflow the build        *)
(* misses.                                                                 *)
LEMMA ArithmeticRefines ==
  ASSUME TypeOK, NEW i \in Instructions, Arithmetic(i)
  PROVE  Abstract!Arithmetic(i)
<1>1. i.op \in ArithmeticOps /\ i.op \notin Branches
  BY DEF Arithmetic, ArithmeticOps, ImmediateOps, RegisterOps, Branches
<1>2. Second(i) = Abstract!Operand(i) /\ First(i) = Zeroed[i.rs]
  BY <1>1, SameWords, SameOperations DEF Second, First, Abstract!Operand,
     RegisterOps, ArithmeticOps, ImmediateOps
<1>3. Abstract!Overflows(i.op, First(i), Second(i)) => optimised
  BY OperandsOK, SignTest DEF Arithmetic
<1> DEFINE r == IF i.op \in RegisterOps THEN i.rd ELSE i.rt
           v == Result(i.op, First(i), Second(i), i.shamt)
<1>4. r \in Registers
  BY OperandsOK DEF InstructionType
<1>5. registers' = [Zeroed EXCEPT ![r] = v]
  BY DEF Arithmetic
<1> HIDE DEF r, v
<1>6. Abstract!Write(r, v)
  BY <1>4, <1>5, WriteRefines
<1>7. Abstract!GoOn /\ memory' = memory
  BY GoOnRefines DEF Arithmetic
<1> QED
  BY <1>1, <1>2, <1>3, <1>6, <1>7, SameOperations DEF Abstract!Arithmetic, r, v

(* A conditional branch: the tests on the sign bit compare with zero.      *)
LEMMA BranchStepRefines ==
  ASSUME TypeOK, NEW i \in Instructions, Branch(i)
  PROVE  Abstract!Branch(i)
<1>1. i.op \in Branches /\ Second(i) = Zeroed[i.rt] /\ First(i) = Zeroed[i.rs]
  BY DEF Branch, Second, First
<1>2. Zeroed' = Zeroed /\ memory' = memory
  BY ZeroedAgain DEF Branch
<1> DEFINE a == First(i)  b == Second(i)
           offset == 4 * signExt(i.immediate)
<1>3. a \in Values /\ b \in Values
  BY OperandsOK
<1>4. Taken(i.op, a, b) <=> Abstract!Holds(i.op, a, b)
  <2>1. a \in Int /\ a >= 0 /\ a < WordSpace /\ WordSpace \in Nat
    BY <1>3, WrapOK, SpacesOK
  <2>2. /\ (a = 0 \/ 2 * a >= WordSpace) <=> Signed(a) <= 0
        /\ (2 * a < WordSpace /\ a # 0) <=> Signed(a) > 0
    BY <2>1 DEF Signed
  <2> HIDE DEF a, b
  <2> QED
    BY <1>1, <2>2, SameWords DEF Taken, Abstract!Holds, Branches
<1>5. offset \in Int
  BY OperandsOK, ImmediateOK, WrapOK DEF InstructionType
<1>6. CASE ~Taken(i.op, a, b)
  <2>1. Abstract!GoOn
    BY <1>6, GoOnRefines DEF Branch, GoOn
  <2> QED
    BY <1>1, <1>2, <1>4, <1>6, <2>1, SameOperations DEF Abstract!Branch
<1>7. CASE Taken(i.op, a, b)
  <2>1. Abstract!Goto(Wrap(Advanced + offset))
    BY <1>7, BranchRefines DEF Branch
  <2>2. CASE encounteredBranch
    <3>1. Abstract!GotoFromSlot
      BY <1>5, <2>1, TargetOK, SameWords DEF Abstract!GotoFromSlot
    <3> QED
      BY <1>1, <1>2, <1>4, <1>7, <2>2, <3>1, SameOperations DEF Abstract!Branch
  <2>3. CASE ~encounteredBranch
    <3>1. Wrap(Advanced + offset)
            = Abstract!Wrap(PC + 4 + 4 * Abstract!signExt(i.immediate))
      BY <1>5, <2>3, TargetOK, SameWords
    <3> QED
      BY <1>1, <1>2, <1>4, <1>7, <2>1, <2>3, <3>1, SameOperations
      DEF Abstract!Branch
  <2> QED
    BY <2>2, <2>3
<1> QED
  BY <1>6, <1>7

(* A jump, and the link it leaves.                                         *)
LEMMA JumpStepRefines ==
  ASSUME TypeOK, NEW i \in Instructions, Jump(i)
  PROVE  Abstract!Jump(i)
<1> DEFINE target == (Advanced \div RegionSize) * RegionSize + 4 * i.address
<1>1. /\ target \in Values
      /\ target = Advanced - (Advanced % RegionSize) + 4 * i.address
  <2>1. Advanced \in Values /\ i.address \in 0 .. (RegionSize \div 4) - 1
    BY OperandsOK DEF InstructionType
  <2> QED
    BY <2>1, RegionOK
<1>2. Abstract!Goto(target)
  BY BranchRefines DEF Jump
<1> HIDE DEF target
<1>3. memory' = memory /\ i.op \in {"j", "jal"}
  BY DEF Jump
<1>4. IF encounteredBranch THEN Abstract!GotoFromSlot
      ELSE Abstract!Goto(Advanced - (Advanced % RegionSize) + 4 * i.address)
  BY <1>1, <1>2, SameWords DEF Abstract!GotoFromSlot
<1>5. CASE i.op = "j"
  <2>1. Zeroed' = Zeroed
    BY <1>5, ZeroedAgain DEF Jump
  <2> QED
    BY <1>3, <1>4, <1>5, <2>1 DEF Abstract!Jump
<1>6. CASE i.op = "jal"
  <2>1. Abstract!Write(LinkRegister, Wrap(Advanced + 4))
    BY <1>6, WriteRefines, EmulatorAssumption DEF Jump
  <2>2. Wrap(Advanced + 4) \in Values
    BY TargetOK
  <2>3. ~encounteredBranch => Wrap(Advanced + 4) = Abstract!Wrap(PC + 8)
    <3>1. PC + 4 + 4 = PC + 8
      BY WrapOK DEF TypeOK
    <3> QED
      BY <3>1, TargetOK, SameWords
  <2>4. CASE encounteredBranch
    BY <1>3, <1>4, <1>6, <2>1, <2>2, <2>4, SameWords DEF Abstract!Jump
  <2>5. CASE ~encounteredBranch
    BY <1>3, <1>4, <1>6, <2>1, <2>3, <2>5 DEF Abstract!Jump
  <2> QED
    BY <2>4, <2>5
<1> QED
  BY <1>3, <1>5, <1>6

(* A jump to the address in a register.                                    *)
LEMMA JumpRegisterRefines ==
  ASSUME TypeOK, NEW i \in Instructions, JumpRegister(i)
  PROVE  Abstract!JumpRegister(i)
<1>1. Zeroed' = Zeroed
  BY ZeroedAgain DEF JumpRegister
<1>2. Abstract!Goto(Zeroed[i.rs])
  BY BranchRefines DEF JumpRegister, First
<1> QED
  BY <1>1, <1>2 DEF JumpRegister, Abstract!JumpRegister

(* A load, also one that fails.                                            *)
LEMMA LoadRefines ==
  ASSUME TypeOK, NEW i \in Instructions, Load(i)
  PROVE  Abstract!Load(i)
<1>1. Address(i) = Abstract!Address(i)
  BY SameWords DEF Address, First, Abstract!Address
<1>2. Abstract!Write(i.rt, GetValue(memory, Address(i), SizeOf(i.op)))
  <2>1. i.rt \in Registers
    BY OperandsOK DEF InstructionType
  <2> QED
    BY <2>1, WriteRefines DEF Load
<1>3. Abstract!GoOn
  BY GoOnRefines DEF Load
<1> QED
  BY <1>1, <1>2, <1>3, SameOperations, SameMemory DEF Load, Abstract!Load

(* A store, also one that fails.                                           *)
LEMMA StoreRefines ==
  ASSUME TypeOK, NEW i \in Instructions, Store(i)
  PROVE  Abstract!Store(i)
<1>1. Address(i) = Abstract!Address(i)
  BY SameWords DEF Address, First, Abstract!Address
<1>2. Zeroed' = Zeroed
  BY ZeroedAgain DEF Store
<1>3. Abstract!GoOn
  BY GoOnRefines DEF Store
<1> QED
  BY <1>1, <1>2, <1>3, SameOperations, SameMemory DEF Store, Abstract!Store

(* An illegal opcode raises the exception.                                 *)
LEMMA IllegalOpcodeRefines ==
  ASSUME TypeOK, NEW i \in Instructions, IllegalOpcode(i)
  PROVE  Abstract!Illegal(i)
  BY RaiseRefines DEF IllegalOpcode, Abstract!Illegal

(* An illegal funct and the halt do nothing.                               *)
LEMMA SkipRefines ==
  ASSUME TypeOK, NEW i \in Instructions, IllegalFunct(i) \/ Halt(i)
  PROVE  Abstract!Skip(i)
<1>1. Zeroed' = Zeroed
  BY ZeroedAgain DEF IllegalFunct, Halt
<1>2. Abstract!GoOn
  BY GoOnRefines DEF IllegalFunct, Halt
<1> QED
  BY <1>1, <1>2 DEF IllegalFunct, Halt, Abstract!Skip

(* Every step of the emulator is a step of a MIPS, or none.                *)
LEMMA StepRefines ==
  ASSUME TypeOK, [Next]_vars
  PROVE  [Abstract!Next]_(Abstract!vars)
<1>1. CASE UNCHANGED vars
  BY <1>1 DEF vars, Abstract!vars, Zeroed, Advanced
<1>2. ASSUME NEW i \in Instructions,
             \/ Overflow(i) \/ Arithmetic(i)
             \/ Branch(i) \/ Jump(i) \/ JumpRegister(i)
             \/ Load(i) \/ Store(i)
             \/ IllegalOpcode(i) \/ IllegalFunct(i) \/ Halt(i)
      PROVE  Abstract!Next
  <2>1. info'.instruction = i /\ optimised' = optimised
    <3>1. PICK o \in BOOLEAN : Execute(i, o)
      BY <1>2 DEF Overflow, Arithmetic, Branch, Jump, JumpRegister, Load, Store,
         IllegalOpcode, IllegalFunct, Halt
    <3>2. info' = Info(i, First(i), Second(i), o) /\ optimised' = optimised
      BY <3>1 DEF Execute
    <3>3. Info(i, First(i), Second(i), o).instruction = i
      BY DEF Info
    <3> QED
      BY <3>2, <3>3
  <2>2. \/ Abstract!Arithmetic(i) \/ Abstract!Branch(i) \/ Abstract!Jump(i)
        \/ Abstract!JumpRegister(i) \/ Abstract!Load(i) \/ Abstract!Store(i)
        \/ Abstract!Illegal(i) \/ Abstract!Skip(i)
    BY <1>2, OverflowRefines, ArithmeticRefines, BranchStepRefines, JumpStepRefines,
       JumpRegisterRefines, LoadRefines, StoreRefines, IllegalOpcodeRefines,
       SkipRefines
  <2> QED
    BY <2>1, <2>2 DEF Abstract!Next
<1> QED
  BY <1>1, <1>2 DEF Next

(* Executing with one PC, a flag and a saved branch, resetting $0 at the   *)
(* start of each instruction and testing signs for overflow implements the *)
(* instruction set (emulator.cpp:52-288).                                  *)
THEOREM EmulatorImplementsMIPS == Spec => ImplementsMIPS
<1>1. TypeOK /\ [Next]_vars => [Abstract!Next]_(Abstract!vars)
  BY StepRefines
<1> QED
  BY <1>1, InitRefines, EmulatorTypeCorrect, PTL
  DEF Spec, ImplementsMIPS, Abstract!Spec
=============================================================================
