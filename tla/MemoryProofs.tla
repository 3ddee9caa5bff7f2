---------------------------- MODULE MemoryProofs ----------------------------
(***************************************************************************)
(* The memory keeps its shape, starts as the files say, reads back what is *)
(* written, and is dumped as it is read, for every byte radix, size and    *)
(* start address of the memory and every image, program and range.         *)
(***************************************************************************)
EXTENDS MemoryDump, MemoryOpsProofs

(* The files do not change, and the next word of the image is one of its.  *)
Inv ==
  /\ TypeOK
  /\ image \in Images /\ program \in Programs
  /\ phase = "prepare" => next >= 1

(* The invariant holds when the constructor starts.                        *)
LEMMA InitInv == Init => Inv
  BY MemoryAssumption DEF Init, Inv, TypeOK, Memories, Bytes

(* The arguments of the writes of each action are words.                   *)
LEMMA PrepareWordArguments ==
  ASSUME Inv, PrepareWord
  PROVE  image[next].address \in Values /\ image[next].value \in Values
<1> DEFINE Entries == [address : Values, value : Values]
<1>1. image \in Seq(Entries)
  BY FilesAssumption DEF Inv, PrepareWord
<1> HIDE DEF Entries
<1>2. next \in 1 .. Len(image)
  BY <1>1 DEF Inv, TypeOK, PrepareWord
<1>3. image[next] \in Entries
  BY <1>1, <1>2
<1> QED
  BY <1>3 DEF Entries

(* So are those of the copy of the program.                                *)
LEMMA LoadByteArguments ==
  ASSUME Inv, LoadByte
  PROVE  next \in Int /\ program[next + 1] % WordSpace \in Int
<1>1. program \in Seq(Chars)
  BY FilesAssumption DEF Inv, LoadByte
<1>2. next + 1 \in 1 .. Len(program)
  BY <1>1 DEF Inv, TypeOK, LoadByte
<1>3. program[next + 1] \in Int
  BY <1>1, <1>2, MemoryAssumption DEF Chars
<1> QED
  BY <1>3, PowersOK, Remainder DEF Inv, TypeOK

(* Every action preserves the invariant.                                   *)
LEMMA NextInv == Inv /\ [Next]_vars => Inv'
<1> SUFFICES ASSUME Inv, [Next]_vars
             PROVE  Inv'
  OBVIOUS
<1> USE DEF Inv, TypeOK
<1>1. Values \subseteq Int /\ 0 \in Int /\ 0 \in Values
  BY PowersOK DEF Values
<1>2. BYTE_SIZE \in Sizes /\ WORD_SIZE \in Sizes
  BY DEF Sizes
<1>3. CASE PrepareWord
  <2>1. memory' \in Memories
    BY <1>1, <1>2, <1>3, PrepareWordArguments, SetOK DEF PrepareWord
  <2> QED
    BY <1>3, <2>1 DEF PrepareWord
<1>4. CASE PrepareEnd
  <2>1. memory' \in Memories
    BY <1>1, <1>2, <1>4, SetOK DEF PrepareEnd
  <2> QED
    BY <1>4, <2>1 DEF PrepareEnd
<1>5. CASE PrepareNothing
  BY <1>5 DEF PrepareNothing
<1>6. CASE LoadByte
  <2>1. memory' \in Memories
    BY <1>2, <1>6, LoadByteArguments, SetOK DEF LoadByte
  <2> QED
    BY <1>6, <2>1 DEF LoadByte
<1>7. CASE LoadEnd
  BY <1>7 DEF LoadEnd
<1>8. CASE LoadNothing
  BY <1>8 DEF LoadNothing
<1>9. ASSUME NEW address \in Accesses, NEW size \in Sizes, Get(address, size)
      PROVE  Inv'
  <2>1. address \in Values
    BY AccessesAssumption
  <2>2. GetValue(memory, address, size) \in Values
    BY <1>1, <2>1, GetOK
  <2>3. last' \in Access
    BY <1>9, <2>1, <2>2 DEF Get, Access
  <2> QED
    BY <1>9, <2>3 DEF Get
<1>10. ASSUME NEW address \in Accesses, NEW size \in Sizes, NEW value \in Stored,
              Set(address, size, value)
       PROVE  Inv'
  <2>1. address \in Values /\ value \in Values
    BY AccessesAssumption
  <2>2. memory' \in Memories
    BY <1>1, <1>10, <2>1, SetOK DEF Set
  <2>3. last' \in Access
    BY <1>10, <2>1 DEF Set, Access
  <2> QED
    BY <1>10, <2>2, <2>3 DEF Set
<1>11. CASE Finish
  BY <1>11 DEF Finish
<1>12. CASE UNCHANGED vars
  BY <1>12 DEF vars
<1> QED
  BY <1>3, <1>4, <1>5, <1>6, <1>7, <1>8, <1>9, <1>10, <1>11, <1>12
     DEF Next, Running

(* It holds in every reachable state.                                      *)
LEMMA InvHolds == Spec => []Inv
  BY InitInv, NextInv, PTL DEF Spec

(* Whatever the files say and whatever is read and written, every cell     *)
(* holds a byte and every read returns a word (MemoryStore.cpp:12-125).    *)
THEOREM MemoryTypeCorrect == Spec => []TypeOK
<1>1. Inv => TypeOK
  BY DEF Inv
<1> QED
  BY <1>1, InvHolds, PTL

(* A word reads as its two halves and a half as its two bytes, wherever    *)
(* memArr ends and whatever was written in which size                      *)
(* (MemoryStore.cpp:72-79).                                                *)
THEOREM ReadsAgree == Spec => []SizesAgree
<1>1. Inv => SizesAgree
  <2> SUFFICES ASSUME Inv
               PROVE  SizesAgree
    OBVIOUS
  <2>1. memory \in Memories
    BY DEF Inv, TypeOK
  <2>2. \A a \in Accesses : a \in Values
    BY AccessesAssumption
  <2>3. \A a \in Accesses :
          Reached(a, 1) # {} =>
            GetValue(memory, a % WordSpace, HALF_SIZE)
              = Radix * GetValue(memory, a % WordSpace, BYTE_SIZE)
                + GetValue(memory, (a + 1) % WordSpace, BYTE_SIZE)
    BY <2>1, <2>2, HalfIsBytes
  <2>4. \A a \in Accesses :
          GetValue(memory, a % WordSpace, WORD_SIZE)
            = Power[2] * GetValue(memory, a % WordSpace, HALF_SIZE)
              + (IF Succeeds(a, HALF_SIZE)
                 THEN GetValue(memory, (a + 2) % WordSpace, HALF_SIZE) ELSE 0)
    BY <2>1, <2>2, WordIsHalves
  <2> QED
    BY <2>3, <2>4 DEF SizesAgree
<1> QED
  BY <1>1, InvHolds, PTL

(* Before the memory is ready nothing has been read or written, and since  *)
(* the last write its bytes have not changed.                              *)
ReadyInv == StoreReadsBack /\ (phase # "ready" => last = NoAccess)

(* Every write and read of the same size and address agree, in every       *)
(* memory and for every value, also when the write fails in the middle     *)
(* (MemoryStore.cpp:73-87).                                                *)
THEOREM StoresReadBack == Spec => []StoreReadsBack
<1>1. Init => ReadyInv
  BY DEF Init, ReadyInv, StoreReadsBack, NoAccess
<1>2. Inv /\ ReadyInv /\ [Next]_vars => ReadyInv'
  <2> SUFFICES ASSUME Inv, ReadyInv, [Next]_vars
               PROVE  ReadyInv'
    OBVIOUS
  <2>1. CASE PrepareWord \/ PrepareEnd \/ PrepareNothing
             \/ LoadByte \/ LoadEnd \/ LoadNothing \/ Finish
    <3>1. last' = NoAccess
      BY <2>1 DEF ReadyInv, PrepareWord, PrepareEnd, PrepareNothing, LoadByte,
                  LoadEnd, LoadNothing, Finish
    <3> QED
      BY <3>1 DEF ReadyInv, StoreReadsBack, NoAccess
  <2>2. ASSUME NEW address \in Accesses, NEW size \in Sizes, Get(address, size)
        PROVE  ReadyInv'
    BY <2>2 DEF Get, ReadyInv, StoreReadsBack
  <2>3. ASSUME NEW address \in Accesses, NEW size \in Sizes, NEW value \in Stored,
               Set(address, size, value)
        PROVE  ReadyInv'
    <3>1. address \in Values /\ value \in Values /\ memory \in Memories
      BY AccessesAssumption DEF Inv, TypeOK
    <3>2. /\ memory' = SetValue(memory, address, size, value)
          /\ last' = [op |-> "set", address |-> address, size |-> size,
                      value |-> value]
          /\ phase' = "ready"
      BY <2>3 DEF Set
    <3>3. GetValue(memory', address, size) = Fitting(address, size, value)
      BY <3>1, <3>2, ReadBack
    <3>4. /\ last'.address = address /\ last'.size = size /\ last'.value = value
      BY <3>2
    <3>5. StoreReadsBack'
      BY <3>3, <3>4 DEF StoreReadsBack, Fitting, Done, Lost, Cut
    <3> QED
      BY <3>2, <3>5 DEF ReadyInv
  <2>4. CASE UNCHANGED vars
    BY <2>4 DEF vars, ReadyInv, StoreReadsBack
  <2> QED
    BY <2>1, <2>2, <2>3, <2>4 DEF Next, Running
<1>3. ReadyInv => StoreReadsBack
  BY DEF ReadyInv
<1> QED
  BY <1>1, <1>2, <1>3, InvHolds, PTL DEF Spec

(* No read changes a byte, and no write, failed or not, a byte outside the *)
(* range it names (MemoryStore.cpp:59-98).                                 *)
THEOREM StoresAreLocal == Spec => StoreIsLocal
<1> DEFINE Local ==
      phase = "ready" =>
        \A c \in Cells :
          memory'[c] # memory[c] =>
            /\ last'.op = "set"
            /\ c \in {Cell(last'.address, i) : i \in 0 .. last'.size - 1}
<1>1. Inv /\ [Next]_vars => [Local]_vars
  <2> SUFFICES ASSUME Inv, Next, phase = "ready", NEW c \in Cells,
                      memory'[c] # memory[c]
               PROVE  /\ last'.op = "set"
                      /\ c \in {Cell(last'.address, i) : i \in 0 .. last'.size - 1}
    OBVIOUS
  <2>1. PICK address \in Accesses, size \in Sizes, value \in Stored :
          Set(address, size, value)
    BY DEF Next, Running, Finish, PrepareWord, PrepareEnd, PrepareNothing,
           LoadByte, LoadEnd, LoadNothing, Get
  <2>2. address \in Int /\ value \in Int
    BY AccessesAssumption, PowersOK DEF Values
  <2>3. memory \in Memories
    BY DEF Inv, TypeOK
  <2>4. c \in {Cell(address, i) : i \in 0 .. size - 1}
    BY <2>1, <2>2, <2>3, SetIsLocal DEF Set
  <2> QED
    BY <2>1, <2>4 DEF Set
<1> QED
  BY <1>1, InvHolds, PTL DEF Spec, StoreIsLocal
-----------------------------------------------------------------------------
Address(c) == (c + startAddr) % WordSpace
ZeroWord == {Cell(0, i) : i \in 0 .. WORD_SIZE - 1}

ImageByte(c, k) ==
  Digit(image[k].value, WORD_SIZE, (c - Cell(image[k].address, 0)) % WordSpace)

(* The byte is that of the last of the entries, or zero if there is none.  *)
FromLast(c, entries, byte) ==
  \/ entries = {} /\ byte = 0
  \/ \E k \in entries : (\A j \in entries : j <= k) /\ byte = ImageByte(c, k)

(* What the image says of the cell is lost to the last round of the loop.  *)
LostToEnd(c) == memory[c] = 0 /\ Covering(c) # {} /\ c \in ZeroWord

InPlace(c) ==
  program # NoFile /\ Address(c) < Len(program) /\ Address(c) < next

(* How far the constructor has come: while it prepares the memory, a cell  *)
(* is that of the entries read so far; while it copies the program, the    *)
(* bytes copied so far are in place and the others those of the image.     *)
LoadInv ==
  /\ phase = "prepare" =>
       \A c \in Cells : FromLast(c, {k \in Covering(c) : k < next}, memory[c])
  /\ phase = "load" \/ Loaded =>
       \A c \in Cells :
         IF InPlace(c) THEN memory[c] = program[Address(c) + 1] % Radix
                       ELSE FromLast(c, Covering(c), memory[c]) \/ LostToEnd(c)
  /\ phase = "ready" /\ program # NoFile => next = Len(program)

(* The entries that cover a cell are among those of the image.             *)
LEMMA CoveringEntries ==
  ASSUME Inv, NEW c
  PROVE  /\ image = NoFile => Covering(c) = {}
         /\ image # NoFile => /\ Len(image) \in Nat
                              /\ Covering(c) \subseteq 1 .. Len(image)
<1>1. image # NoFile => Len(image) \in Nat
  BY FilesAssumption DEF Inv
<1> QED
  BY <1>1 DEF Covering

(* A cell has an address.                                                  *)
LEMMA AddressOK == ASSUME NEW c \in Cells PROVE Address(c) \in Values
  BY WordSpacePositive, Remainder, MemoryAssumption DEF Address, Cells, Values

(* A word of the image becomes the last of those it covers a cell with.    *)
LEMMA PrepareWordLoads ==
  ASSUME Inv, LoadInv, PrepareWord
  PROVE  LoadInv'
<1> DEFINE a == image[next].address
           v == image[next].value
<1>1. /\ phase = "prepare" /\ image # NoFile /\ next \in Nat /\ next >= 1
      /\ next <= Len(image) /\ next' = next + 1
      /\ memory' = SetValue(memory, a, WORD_SIZE, v)
      /\ phase' = IF Succeeds(a, WORD_SIZE) THEN "prepare" ELSE "aborted"
      /\ image' = image /\ memory \in Memories
  BY DEF PrepareWord, Inv, TypeOK
<1>2. a \in Int /\ v \in Int
  BY PrepareWordArguments, PowersOK DEF Values
<1>3. CASE ~Succeeds(a, WORD_SIZE)
  BY <1>1, <1>3 DEF LoadInv, Loaded
<1>4. CASE Succeeds(a, WORD_SIZE)
  <2>1. ASSUME NEW c \in Cells
        PROVE  FromLast(c, {k \in Covering(c) : k < next}, memory[c])
               => FromLast(c, {k \in Covering(c) : k < next}, memory[c])'
    <3>1. /\ Covering(c)' = Covering(c)
          /\ \A k : ImageByte(c, k)' = ImageByte(c, k)
      BY <1>1 DEF Covering, ImageByte
    <3>2. Len(image) \in Nat /\ Covering(c) \subseteq 1 .. Len(image)
      BY <1>1, CoveringEntries
    <3>3. memory'[c] = IF c \in {Cell(a, i) : i \in 0 .. WORD_SIZE - 1}
                       THEN ImageByte(c, next) ELSE memory[c]
      BY <1>1, <1>2, <1>4, WordStored DEF ImageByte
    <3>4. next \in Covering(c) <=> c \in {Cell(a, i) : i \in 0 .. WORD_SIZE - 1}
      <4>1. next \in 1 .. Len(image)
        BY <1>1, <3>2
      <4> QED
        BY <1>1, <4>1 DEF Covering
    <3>5. CASE next \in Covering(c)
      <4>1. memory'[c] = ImageByte(c, next)
        BY <3>3, <3>4, <3>5
      <4>2. next \in {k \in Covering(c) : k < next'}
        BY <1>1, <3>5
      <4>3. \A j \in {k \in Covering(c) : k < next'} : j <= next
        BY <1>1, <3>2
      <4> QED
        BY <3>1, <4>1, <4>2, <4>3 DEF FromLast
    <3>6. CASE next \notin Covering(c)
      <4>1. memory'[c] = memory[c]
        BY <3>3, <3>4, <3>6
      <4>2. {k \in Covering(c) : k < next'} = {k \in Covering(c) : k < next}
        BY <1>1, <3>2, <3>6
      <4> QED
        BY <3>1, <4>1, <4>2 DEF FromLast
    <3> QED
      BY <3>5, <3>6
  <2>2. \A c \in Cells : Covering(c)' = Covering(c)
    BY <1>1 DEF Covering
  <2>3. phase' = "prepare"
    BY <1>1, <1>4
  <2> QED
    BY <1>1, <2>1, <2>2, <2>3 DEF LoadInv, Loaded
<1> QED
  BY <1>3, <1>4

(* The round behind the last word loses what the image says of the word at *)
(* address 0, and nothing else.                                            *)
LEMMA PrepareEndLoads ==
  ASSUME Inv, LoadInv, PrepareEnd
  PROVE  LoadInv'
<1>1. /\ phase = "prepare" /\ image # NoFile /\ next > Len(image) /\ next \in Nat
      /\ memory' = SetValue(memory, 0, WORD_SIZE, 0)
      /\ phase' = IF Succeeds(0, WORD_SIZE) THEN "load" ELSE "aborted"
      /\ next' = 0 /\ image' = image /\ program' = program
      /\ memory \in Memories
  BY DEF PrepareEnd, Inv, TypeOK
<1>2. CASE ~Succeeds(0, WORD_SIZE)
  BY <1>1, <1>2 DEF LoadInv, Loaded
<1>3. CASE Succeeds(0, WORD_SIZE)
  <2>1. ASSUME NEW c \in Cells
        PROVE  ~InPlace(c)' /\ (FromLast(c, Covering(c), memory[c]) \/ LostToEnd(c))'
    <3>1. /\ Covering(c)' = Covering(c)
          /\ \A k : ImageByte(c, k)' = ImageByte(c, k)
      BY <1>1 DEF Covering, ImageByte
    <3>2. Len(image) \in Nat /\ Covering(c) \subseteq 1 .. Len(image)
      BY <1>1, CoveringEntries
    <3>3. {k \in Covering(c) : k < next} = Covering(c)
      BY <1>1, <3>2
    <3>4. FromLast(c, Covering(c), memory[c])
      BY <1>1, <3>3 DEF LoadInv
    <3>5. memory'[c] = IF c \in ZeroWord
                       THEN Digit(0, WORD_SIZE, (c - Cell(0, 0)) % WordSpace)
                       ELSE memory[c]
      BY <1>1, <1>3, WordStored DEF ZeroWord
    <3>6. c \in ZeroWord => memory'[c] = 0
      <4> SUFFICES ASSUME c \in ZeroWord PROVE memory'[c] = 0
        OBVIOUS
      <4> DEFINE i == (c - Cell(0, 0)) % WordSpace
      <4>1. i \in 0 .. 3
        BY CellIndex DEF ZeroWord, WORD_SIZE
      <4> HIDE DEF i
      <4>2. \A k \in 1 .. 3 : 0 \div Power[k] = 0
        BY PowersPositive
      <4>3. 0 % Radix = 0
        BY MemoryAssumption, Remainder
      <4>4. Digit(0, WORD_SIZE, i) = 0
        BY <4>1, <4>2, <4>3 DEF Digit, WORD_SIZE
      <4> QED
        BY <3>5, <4>4 DEF i
    <3>7. ~InPlace(c)'
      <4>1. Address(c) \in Nat
        BY AddressOK, WordSpacePositive DEF Values
      <4> QED
        BY <1>1, <4>1 DEF InPlace, Address
    <3>8. CASE c \notin ZeroWord
      BY <3>1, <3>4, <3>5, <3>7, <3>8 DEF FromLast
    <3>9. CASE c \in ZeroWord
      BY <3>1, <3>6, <3>7, <3>9 DEF FromLast, LostToEnd, ZeroWord, Cell
    <3> QED
      BY <3>8, <3>9
  <2>2. phase' = "load"
    BY <1>1, <1>3
  <2> QED
    BY <2>1, <2>2 DEF LoadInv
<1> QED
  BY <1>2, <1>3

(* Without an image every cell stays zero.                                 *)
LEMMA PrepareNothingLoads ==
  ASSUME Inv, LoadInv, PrepareNothing
  PROVE  LoadInv'
<1>1. /\ phase = "prepare" /\ image = NoFile /\ phase' = "load" /\ next' = 0
      /\ memory' = memory /\ image' = image /\ program' = program
  BY DEF PrepareNothing
<1>2. ASSUME NEW c \in Cells
      PROVE  ~InPlace(c)' /\ FromLast(c, Covering(c), memory[c])'
  <2>1. Covering(c) = {} /\ Covering(c)' = {}
    BY <1>1, CoveringEntries DEF Covering
  <2>2. FromLast(c, {k \in Covering(c) : k < next}, memory[c])
    BY <1>1 DEF LoadInv
  <2>3. memory[c] = 0
    BY <2>1, <2>2 DEF FromLast
  <2>4. Address(c) \in Nat
    BY AddressOK, WordSpacePositive DEF Values
  <2> QED
    BY <1>1, <2>1, <2>3, <2>4 DEF FromLast, InPlace, Address
<1> QED
  BY <1>1, <1>2 DEF LoadInv

(* A byte of the program goes to the cell with its address, if there is    *)
(* one, and to no other.                                                   *)
LEMMA LoadByteLoads ==
  ASSUME Inv, LoadInv, LoadByte
  PROVE  LoadInv'
<1> DEFINE b == program[next + 1]
<1>1. /\ phase = "load" /\ program # NoFile /\ next < Len(program) /\ next \in Nat
      /\ memory' = SetValue(memory, next, BYTE_SIZE, b % WordSpace)
      /\ next' = next + 1 /\ phase' = "load"
      /\ image' = image /\ program' = program /\ memory \in Memories
  BY DEF LoadByte, Inv, TypeOK
<1>2. b \in Int /\ Len(program) \in Nat /\ next \in Values
  <2>1. program \in Seq(Chars) /\ Len(program) < WordSpace
    BY <1>1, FilesAssumption DEF Inv
  <2>2. next + 1 \in 1 .. Len(program) /\ Len(program) \in Nat
    BY <1>1, <2>1
  <2>3. b \in Chars
    BY <2>1, <2>2
  <2>4. b \in Int
    BY <2>3, MemoryAssumption DEF Chars
  <2> QED
    BY <1>1, <2>1, <2>2, <2>4, WordSpacePositive DEF Values
<1>3. ASSUME NEW c \in Cells
      PROVE  memory'[c] = IF Address(c) = next THEN b % Radix ELSE memory[c]
  <2> DEFINE i == (c - Cell(next, 0)) % WordSpace
  <2>1. i = 0 <=> c = Cell(next, 0)
    BY <1>1, CellIndex
  <2>2. c = Cell(next, 0) <=> Address(c) = next
    BY <1>2, AddressOfCell DEF Address
  <2>3. i \in Reached(next, BYTE_SIZE) <=> i = 0
    <3>1. Reached(next, BYTE_SIZE) \subseteq {0}
      BY DEF Reached, BYTE_SIZE
    <3>2. i = 0 => 0 \in Reached(next, BYTE_SIZE)
      BY <2>1 DEF Reached, BYTE_SIZE
    <3> QED
      BY <3>1, <3>2
  <2>4. Digit(b % WordSpace, BYTE_SIZE, 0) = b % Radix
    BY <1>2, ByteOfWord DEF Digit, BYTE_SIZE
  <2>5. memory'[c] = IF i \in Reached(next, BYTE_SIZE)
                     THEN Digit(b % WordSpace, BYTE_SIZE, i) ELSE memory[c]
    BY <1>1 DEF SetValue
  <2> HIDE DEF i
  <2> QED
    BY <2>1, <2>2, <2>3, <2>4, <2>5
<1> HIDE DEF b
<1>4. ASSUME NEW c \in Cells
      PROVE  (IF InPlace(c) THEN memory[c] = program[Address(c) + 1] % Radix
                            ELSE FromLast(c, Covering(c), memory[c]) \/ LostToEnd(c))'
  <2>1. /\ Covering(c)' = Covering(c) /\ Address(c)' = Address(c)
        /\ \A k : ImageByte(c, k)' = ImageByte(c, k)
        /\ ZeroWord' = ZeroWord
    BY <1>1 DEF Covering, ImageByte, Address, ZeroWord, Cell
  <2>2. Address(c) \in Nat
    BY AddressOK, WordSpacePositive DEF Values
  <2>3. IF InPlace(c) THEN memory[c] = program[Address(c) + 1] % Radix
                      ELSE FromLast(c, Covering(c), memory[c]) \/ LostToEnd(c)
    BY <1>1 DEF LoadInv
  <2>4. CASE Address(c) = next
    <3>1. InPlace(c)'
      BY <1>1, <2>1, <2>2, <2>4 DEF InPlace
    <3>2. memory'[c] = program[Address(c) + 1] % Radix
      BY <1>3, <2>4 DEF b
    <3> QED
      BY <1>1, <2>1, <3>1, <3>2
  <2>5. CASE Address(c) # next
    <3>1. InPlace(c)' <=> InPlace(c)
      BY <1>1, <2>1, <2>2, <2>5 DEF InPlace
    <3>2. memory'[c] = memory[c]
      BY <1>3, <2>5
    <3> QED
      BY <1>1, <2>1, <2>3, <3>1, <3>2 DEF FromLast, LostToEnd
  <2> QED
    BY <2>4, <2>5
<1> QED
  BY <1>1, <1>4 DEF LoadInv

(* What is loaded stays so until the first access.                         *)
LEMMA LoadStays ==
  ASSUME LoadInv, UNCHANGED <<memory, image, program, next>>,
         \/ phase' = phase /\ last' = last
         \/ phase' = "ready" /\ last' = last /\ phase = "load"
            /\ (program # NoFile => next = Len(program))
  PROVE  LoadInv'
<1>1. \A c : /\ Covering(c)' = Covering(c) /\ (InPlace(c)' <=> InPlace(c))
             /\ (LostToEnd(c)' <=> LostToEnd(c)) /\ Address(c)' = Address(c)
  BY DEF Covering, InPlace, LostToEnd, Address, ZeroWord, Cell
<1>2. \A c, S, x : FromLast(c, S, x)' <=> FromLast(c, S, x)
  BY DEF FromLast, ImageByte
<1> QED
  BY <1>1, <1>2 DEF LoadInv, Loaded

(* The simulator starts with what its two files give: the program, beyond  *)
(* it the last word of the image at each place, zeros elsewhere, for every *)
(* image and every program; the word at address 0 alone may be lost.       *)
THEOREM MemoryLoadedAsGiven == Spec => []LoadedAsGiven
<1>1. Init => LoadInv
  <2> SUFFICES ASSUME Init, NEW c \in Cells
               PROVE  FromLast(c, {k \in Covering(c) : k < next}, memory[c])
    BY DEF Init, LoadInv, Loaded
  <2>1. Covering(c) = {} \/ Covering(c) \subseteq Nat \ {0}
    BY InitInv, CoveringEntries
  <2>2. {k \in Covering(c) : k < next} = {}
    BY <2>1 DEF Init
  <2> QED
    BY <2>2 DEF Init, FromLast
<1>2. Inv /\ LoadInv /\ [Next]_vars => LoadInv'
  <2> SUFFICES ASSUME Inv, LoadInv, [Next]_vars PROVE LoadInv'
    OBVIOUS
  <2>1. CASE LoadEnd \/ LoadNothing \/ UNCHANGED vars
    BY <2>1, LoadStays DEF LoadEnd, LoadNothing, vars
  <2>2. ASSUME NEW address, NEW size, Get(address, size) PROVE LoadInv'
    BY <2>2 DEF Get, LoadInv, Loaded
  <2>3. ASSUME NEW address, NEW size, NEW value, Set(address, size, value)
        PROVE  LoadInv'
    BY <2>3 DEF Set, LoadInv, Loaded
  <2>4. CASE Finish
    BY <2>4 DEF Finish, LoadInv, Loaded
  <2> QED
    BY <2>1, <2>2, <2>3, <2>4, PrepareWordLoads, PrepareEndLoads,
       PrepareNothingLoads, LoadByteLoads DEF Next, Running
<1>3. Inv /\ LoadInv => LoadedAsGiven
  <2> SUFFICES ASSUME Inv, LoadInv, Loaded, NEW c \in Cells
               PROVE  \/ memory[c] = Given(c)
                      \/ memory[c] = 0 /\ Covering(c) # {} /\ c \in ZeroWord
    BY DEF LoadedAsGiven, ZeroWord
  <2>1. IF InPlace(c) THEN memory[c] = program[Address(c) + 1] % Radix
                      ELSE FromLast(c, Covering(c), memory[c]) \/ LostToEnd(c)
    BY DEF LoadInv
  <2>2. InPlace(c) <=> program # NoFile /\ Address(c) < Len(program)
    BY DEF LoadInv, Loaded, InPlace
  <2>3. CASE InPlace(c)
    BY <2>1, <2>2, <2>3 DEF Given, Address
  <2>4. CASE ~InPlace(c) /\ LostToEnd(c)
    BY <2>4 DEF LostToEnd
  <2>5. CASE ~InPlace(c) /\ FromLast(c, Covering(c), memory[c])
    <3>1. CASE Covering(c) = {}
      BY <2>2, <2>5, <3>1 DEF Given, Address, FromLast
    <3>2. CASE Covering(c) # {}
      <4>1. PICK k \in Covering(c) : /\ \A j \in Covering(c) : j <= k
                                     /\ memory[c] = ImageByte(c, k)
        BY <2>5, <3>2 DEF FromLast
      <4> DEFINE l == CHOOSE l \in Covering(c) : \A j \in Covering(c) : j <= l
      <4>2. l \in Covering(c) /\ \A j \in Covering(c) : j <= l
        BY <4>1
      <4>3. Covering(c) \subseteq Nat
        BY CoveringEntries
      <4>4. l = k
        <5> HIDE DEF l
        <5> QED
          BY <4>1, <4>2, <4>3
      <4>5. Given(c) = ImageByte(c, l)
        BY <2>2, <2>5, <3>2 DEF Given, Address, ImageByte
      <4> QED
        BY <4>1, <4>4, <4>5
    <3> QED
      BY <3>1, <3>2
  <2> QED
    BY <2>1, <2>3, <2>4, <2>5
<1> QED
  BY <1>1, <1>2, <1>3, InvHolds, PTL DEF Spec
-----------------------------------------------------------------------------
(* The places in the memory, from that of the first, of so many bytes.     *)
Places(bytes) == {i - 1 : i \in DOMAIN bytes}

(* An entry of the dump, as DumpShowsMemory asks it to be.                 *)
EntryOK(entry, k) ==
  LET address == Plus(asked.start, asked.size * (k - 1))
  IN  /\ entry.column = (k - 1) % EntriesPerRow
      /\ Plus(entry.row, asked.size * entry.column) = address
      /\ Places(entry.bytes) = Reached(address, asked.size)
      /\ \A i \in DOMAIN entry.bytes :
           entry.bytes[i] = GetValue(memory, Plus(address, i - 1), BYTE_SIZE)

Entries == [row : Values, column : 0 .. EntriesPerRow, bytes : Seq(Bytes)]

(* Where the loops are: relStart has passed the entries printed without    *)
(* wrapping around, and curAddr the rows that are full.                    *)
InStep ==
  /\ relStart = Cell(asked.start, 0) + asked.size * Len(printed)
  /\ relStart \in Values
  /\ \E rows \in Nat :
       /\ Len(printed) = rows * EntriesPerRow + column
       /\ curAddr = Plus(asked.start, (asked.size * EntriesPerRow) * rows)

(* The loop invariant of the dump.                                         *)
DumpInv ==
  \/ asked = NotAsked /\ column = 0 /\ printed = <<>> /\ returned = FALSE
  \/ /\ asked \in [start : Values, end : Values, size : Sizes]
     /\ column \in 0 .. EntriesPerRow
     /\ printed \in Seq(Entries)
     /\ returned \in BOOLEAN
     /\ phase = "finished"
     /\ LET wanted == Cell(asked.end, 0) - Cell(asked.start, 0)
        IN  /\ \/ Len(printed) = 0
               \/ asked.size * (Len(printed) - 1) < wanted
            /\ returned =>
                 \/ asked.size * Len(printed) >= wanted
                 \/ /\ Len(printed) > 0
                    /\ Len(printed[Len(printed)].bytes) < asked.size
     /\ ~returned => InStep
     /\ \A k \in 1 .. Len(printed) : EntryOK(printed[k], k)

(* What is asked for is a range and a size.                                *)
LEMMA AskedOK ==
  ASSUME NEW a \in [start : Values, end : Values, size : Sizes]
  PROVE  /\ a.start \in Int /\ a.end \in Int /\ a.size \in {1, 2, 4}
         /\ Cell(a.start, 0) \in Values /\ Cell(a.end, 0) \in Values
         /\ a # NotAsked
<1>1. /\ a.start \in Values /\ a.end \in Values /\ a.size \in {1, 2, 4}
  BY DEF Sizes, BYTE_SIZE, HALF_SIZE, WORD_SIZE
<1>2. WordSpace \in Nat /\ WordSpace > 0
  BY WordSpacePositive
<1>3. Values \subseteq Int
  BY <1>2 DEF Values
<1>4. \A v \in Int : Cell(v, 0) \in Values
  <2>1. ASSUME NEW v \in Int PROVE Cell(v, 0) \in Values
    <3>1. v - startAddr \in Int
      BY <1>3, MemoryAssumption
    <3>2. (v - startAddr) % WordSpace \in Values
      BY <1>2, <3>1, Remainder DEF Values
    <3>3. ((v - startAddr) % WordSpace) + 0 \in Int
      <4> DEFINE w == (v - startAddr) % WordSpace
      <4>1. w \in Int
        BY <1>3, <3>2
      <4> HIDE DEF w
      <4>2. w + 0 \in Int
        BY <4>1
      <4> QED
        BY <4>2 DEF w
    <3> QED
      BY <1>2, <3>3, Remainder DEF Cell, Values
  <2> QED
    BY <2>1
<1>5. a # NotAsked
  <2>1. a.size # 0 /\ NotAsked.size = 0
    BY <1>1 DEF NotAsked
  <2> QED
    BY <2>1
<1>6. a.start \in Int /\ a.end \in Int
  BY <1>1, <1>3
<1> QED
  BY <1>1, <1>4, <1>5, <1>6

(* An entry has as many bytes as a read would reach, and they are those    *)
(* that a read finds.                                                      *)
LEMMA EntryShows ==
  ASSUME NEW a \in Values, NEW size \in Sizes, NEW rel \in Values,
         \A j \in Int : Cell(a, j) = Plus(rel, j), memory \in Memories
  PROVE  LET n == Shown(rel, size)
         IN  /\ n \in 0 .. size /\ EntryAt(rel, size) \in Seq(Bytes)
             /\ Len(EntryAt(rel, size)) = n
             /\ \A j \in 0 .. n - 1 : Plus(rel, j) \in Cells
             /\ Places(EntryAt(rel, size)) = Reached(a, size)
             /\ \A i \in DOMAIN EntryAt(rel, size) :
                  EntryAt(rel, size)[i] = GetValue(memory, Plus(a, i - 1), BYTE_SIZE)
<1> DEFINE n == Shown(rel, size)
           stops(m) == /\ \A j \in 0 .. m - 1 : Plus(rel, j) \in Cells
                       /\ m = size \/ Plus(rel, m) \notin Cells
<1>1. size \in {1, 2, 4}
  BY DEF Sizes, BYTE_SIZE, HALF_SIZE, WORD_SIZE
<1>2. Reached(a, size)
        = {i \in 0 .. size - 1 : \A j \in 0 .. i : Plus(rel, j) \in Cells}
  <2>1. \A i \in 0 .. size - 1 : \A j \in 0 .. i : Cell(a, j) = Plus(rel, j)
    OBVIOUS
  <2> QED
    BY <2>1 DEF Reached
<1>3. PICK m \in 0 .. size : Reached(a, size) = 0 .. m - 1
  BY ReachedCount
<1>4. stops(m)
  <2>1. ASSUME NEW j \in 0 .. m - 1 PROVE Plus(rel, j) \in Cells
    <3>1. j \in Reached(a, size) /\ j \in 0 .. j
      BY <1>3
    <3> QED
      BY <1>2, <3>1
  <2>2. ASSUME m # size, Plus(rel, m) \in Cells PROVE FALSE
    <3>1. m \in 0 .. size - 1 /\ m \notin 0 .. m - 1
      BY <1>1, <2>2
    <3>2. \A j \in 0 .. m : j \in 0 .. m - 1 \/ j = m
      BY <1>1
    <3>3. \A j \in 0 .. m : Plus(rel, j) \in Cells
      BY <2>1, <2>2, <3>2
    <3> QED
      BY <1>2, <1>3, <3>1, <3>3
  <2> QED
    BY <2>1, <2>2
<1>5. n \in 0 .. size /\ stops(n)
  <2>1. n = CHOOSE k \in 0 .. size : stops(k)
    BY DEF Shown
  <2> HIDE DEF n, stops
  <2> QED
    BY <1>4, <2>1
<1>6. Reached(a, size) = 0 .. n - 1
  <2>1. ASSUME NEW i \in 0 .. size - 1
        PROVE  (\A j \in 0 .. i : Plus(rel, j) \in Cells) <=> i \in 0 .. n - 1
    <3>1. CASE i < n
      <4>1. \A j \in 0 .. i : j \in 0 .. n - 1
        BY <1>1, <1>5, <3>1
      <4> HIDE DEF n
      <4> QED
        BY <1>5, <3>1, <4>1
    <3>2. CASE ~(i < n)
      <4>1. n # size /\ n \in 0 .. i
        BY <1>1, <1>5, <3>2
      <4> HIDE DEF n
      <4> QED
        BY <1>5, <3>2, <4>1
    <3> QED
      BY <3>1, <3>2
  <2>2. \A i \in 0 .. n - 1 : i \in 0 .. size - 1
    BY <1>1, <1>5
  <2> QED
    BY <1>2, <2>1, <2>2
<1>7. EntryAt(rel, size) = [k \in 1 .. n |-> memory[Plus(rel, k - 1)]]
  BY DEF EntryAt
<1>8. \A k \in 1 .. n : k - 1 \in 0 .. n - 1 /\ memory[Plus(rel, k - 1)] \in Bytes
  <2>1. \A k \in 1 .. n : k - 1 \in 0 .. n - 1
    BY <1>5
  <2> HIDE DEF n
  <2> QED
    BY <1>5, <2>1 DEF Memories
<1>9. \A i \in 1 .. n :
        memory[Plus(rel, i - 1)] = GetValue(memory, Plus(a, i - 1), BYTE_SIZE)
  <2> SUFFICES ASSUME NEW i \in 1 .. n
               PROVE  memory[Plus(rel, i - 1)]
                        = GetValue(memory, Plus(a, i - 1), BYTE_SIZE)
    OBVIOUS
  <2>1. i - 1 \in Int /\ a \in Int /\ WordSpace \in Nat /\ WordSpace > 0
    BY <1>5, WordSpacePositive DEF Values
  <2>2. Cell(Plus(a, i - 1), 0) = Plus(rel, i - 1)
    <3>1. Cell(a, i - 1) = Plus(rel, i - 1)
      BY <2>1
    <3>2. Cell(Plus(a, i - 1), 0) = ((Cell(a, 0) + (i - 1)) + 0) % WordSpace
      BY <2>1, CellAfter DEF Plus
    <3>3. Cell(a, 0) = rel
      <4>1. Cell(a, 0) = (rel + 0) % WordSpace
        BY DEF Plus
      <4>2. rel + 0 = rel /\ rel \in 0 .. WordSpace - 1 /\ rel \in Int
        BY <2>1 DEF Values
      <4> QED
        BY <2>1, <4>1, <4>2, Remainder
    <3>4. (Cell(a, 0) + (i - 1)) + 0 = rel + (i - 1)
      BY <2>1, <3>3 DEF Values
    <3> QED
      BY <3>2, <3>4 DEF Plus
  <2>3. Plus(rel, i - 1) \in Cells
    BY <1>5, <1>8
  <2>4. Plus(a, i - 1) \in Int
    <3>1. a + (i - 1) \in Int
      BY <2>1
    <3> QED
      BY <2>1, <3>1, Remainder DEF Plus
  <2>5. GetValue(memory, Plus(a, i - 1), 1) = Byte(memory, Plus(a, i - 1), 0)
    BY <2>4, GetByBytes
  <2>6. \A j \in 0 .. 0 : j = 0
    OBVIOUS
  <2> QED
    BY <2>2, <2>3, <2>5, <2>6 DEF Byte, BYTE_SIZE
<1>10. {i - 1 : i \in 1 .. n} = 0 .. n - 1
  <2>1. \A x \in 0 .. n - 1 : x + 1 \in 1 .. n /\ x = (x + 1) - 1
    BY <1>5
  <2> QED
    BY <1>8, <2>1
<1>11. /\ EntryAt(rel, size) \in Seq(Bytes) /\ Len(EntryAt(rel, size)) = n
       /\ DOMAIN EntryAt(rel, size) = 1 .. n
  <2> HIDE DEF n
  <2>1. n \in Nat
    BY <1>1, <1>5
  <2> QED
    BY <1>7, <1>8, <2>1
<1> HIDE DEF n
<1>12. \A i \in 1 .. n :
         EntryAt(rel, size)[i] = GetValue(memory, Plus(a, i - 1), BYTE_SIZE)
  BY <1>7, <1>9
<1> QED
  BY <1>5, <1>6, <1>10, <1>11, <1>12 DEF n, Places

(* After a whole entry, memArr ends at its end or later: the address of    *)
(* the next does not wrap around.                                          *)
LEMMA NoWrap ==
  ASSUME NEW rel \in Values, NEW size \in {1, 2, 4},
         \A j \in 0 .. size - 1 : Plus(rel, j) \in Cells
  PROVE  Plus(rel, size) = rel + size /\ rel + size \in Values
<1>1. /\ WordSpace \in Nat /\ WordSpace >= 16 /\ NumEntries \in Nat
      /\ NumEntries < WordSpace /\ rel \in 0 .. WordSpace - 1
  BY WordSpaceLarge, MemoryAssumption DEF Values
<1>2. \A x \in Int : x \in 0 .. WordSpace - 1 => x % WordSpace = x
  BY <1>1, Remainder
<1>3. ASSUME NEW j \in 0 .. 3, rel + j \in Values, Plus(rel, j) \in Cells
      PROVE  rel + (j + 1) \in Values
  <2>1. rel + j \in 0 .. WordSpace - 1 /\ rel + j \in Int
    BY <1>1, <1>3 DEF Values
  <2>2. (rel + j) % WordSpace = rel + j
    BY <1>2, <2>1
  <2>3. rel + j \in 0 .. NumEntries - 1
    BY <1>3, <2>2 DEF Plus, Cells
  <2> QED
    BY <1>1, <2>3 DEF Values
<1>4. rel + 0 \in Values
  BY <1>1 DEF Values
<1>5. Plus(rel, 0) \in Cells
  <2>1. 0 \in 0 .. size - 1
    OBVIOUS
  <2> QED
    BY <2>1
<1>6. rel + 1 \in Values
  BY <1>3, <1>4, <1>5
<1>7. size > 1 => rel + 2 \in Values
  <2>1. size > 1 => 1 \in 0 .. size - 1
    OBVIOUS
  <2> QED
    BY <1>3, <1>6, <2>1
<1>8. size > 2 => rel + 3 \in Values /\ rel + 4 \in Values
  <2>1. size > 2 => 2 \in 0 .. size - 1 /\ 3 \in 0 .. size - 1 /\ size > 1
    OBVIOUS
  <2>2. size > 2 => rel + 3 \in Values
    BY <1>3, <1>7, <2>1
  <2> QED
    BY <1>3, <2>1, <2>2
<1>9. rel + size \in Values
  BY <1>6, <1>7, <1>8
<1>10. rel + size \in 0 .. WordSpace - 1 /\ rel + size \in Int
  BY <1>1, <1>9 DEF Values
<1> QED
  BY <1>2, <1>9, <1>10 DEF Plus

(* The dump starts in step.                                                *)
LEMMA DumpStarts ==
  ASSUME DumpInv, NEW range \in Ranges, NEW size \in Sizes,
         printMemArray(range[1], range[2], size)
  PROVE  DumpInv'
<1> DEFINE a == [start |-> range[1], end |-> range[2], size |-> size]
<1>1. /\ phase = "ready" /\ phase' = "finished" /\ asked' = a
      /\ relStart' = Cell(range[1], 0) /\ curAddr' = range[1]
      /\ column' = column /\ printed' = printed /\ returned' = returned
  BY DEF printMemArray, Finish
<1>2. column = 0 /\ printed = <<>> /\ returned = FALSE
  BY <1>1 DEF DumpInv
<1>3. range[1] \in Values /\ range[2] \in Values
  BY DumpAssumption
<1>4. a \in [start : Values, end : Values, size : Sizes] /\ a.start = range[1]
      /\ a.size = size
  BY <1>3
<1>5. /\ a.start \in Int /\ a.size \in {1, 2, 4} /\ Cell(a.start, 0) \in Values
      /\ EntriesPerRow \in Nat
  BY <1>4, AskedOK, DumpAssumption
<1> HIDE DEF a
<1>6. WordSpace \in Nat /\ WordSpace > 0 /\ Values \subseteq Int
  BY WordSpacePositive DEF Values
<1>7. InStep'
  <2>1. Cell(a.start, 0) = Cell(a.start, 0) + a.size * 0
    <3> DEFINE f == Cell(a.start, 0)
    <3>1. f \in Int
      BY <1>5, <1>6
    <3>2. a.size * 0 = 0
      BY <1>5
    <3> HIDE DEF f
    <3>3. f = f + a.size * 0
      BY <3>1, <3>2
    <3> QED
      BY <3>3 DEF f
  <2>2. 0 = 0 * EntriesPerRow + 0 /\ (a.size * EntriesPerRow) * 0 = 0
    BY <1>5
  <2>3. Plus(a.start, 0) = a.start
    <3>1. a.start + 0 = a.start /\ a.start \in 0 .. WordSpace - 1
      BY <1>3, <1>4, <1>5 DEF Values
    <3> QED
      BY <1>5, <1>6, <3>1, Remainder DEF Plus
  <2>4. /\ asked' = a /\ relStart' = Cell(a.start, 0) /\ curAddr' = a.start
        /\ column' = 0 /\ Len(printed') = 0
    BY <1>1, <1>2, <1>4
  <2>5. \E rows \in Nat :
          /\ 0 = rows * EntriesPerRow + 0
          /\ a.start = Plus(a.start, (a.size * EntriesPerRow) * rows)
    BY <2>2, <2>3
  <2> QED
    BY <1>5, <2>1, <2>4, <2>5 DEF InStep
<1>8. printed' = <<>> /\ Len(printed') = 0
  BY <1>1, <1>2
<1>9. printed' \in Seq(Entries) /\ column' \in 0 .. EntriesPerRow
  BY <1>1, <1>2, <1>5
<1>10. 1 .. Len(printed') = {}
  BY <1>8
<1> QED
  BY <1>1, <1>2, <1>4, <1>7, <1>8, <1>9, <1>10 DEF DumpInv

(* An entry is one more that shows the memory.                             *)
LEMMA PrintEntryShows ==
  ASSUME Inv, DumpInv, PrintEntry
  PROVE  DumpInv'
<1> DEFINE size  == asked.size
           start == asked.start
           first == Cell(start, 0)
           count == Len(printed)
           bytes == EntryAt(relStart, size)
           entry == [row |-> curAddr, column |-> column, bytes |-> bytes]
           wanted == Cell(asked.end, 0) - first
<1>1. /\ asked # NotAsked /\ returned = FALSE
      /\ asked' = asked /\ memory' = memory /\ phase' = phase
      /\ column < EntriesPerRow /\ relStart < Cell(asked.end, 0)
      /\ printed' = Append(printed, entry)
      /\ returned' = (Len(bytes) < size)
      /\ relStart' = Plus(relStart, size) /\ column' = column + 1
      /\ curAddr' = curAddr
  BY DEF PrintEntry, Printing, HasMore, vars, DumpInv
<1>2. /\ asked \in [start : Values, end : Values, size : Sizes]
      /\ column \in 0 .. EntriesPerRow /\ printed \in Seq(Entries)
      /\ phase = "finished" /\ InStep
      /\ \A k \in 1 .. Len(printed) : EntryOK(printed[k], k)
  BY <1>1 DEF DumpInv
<1>3. /\ start \in Int /\ size \in {1, 2, 4} /\ first \in Values
      /\ Cell(asked.end, 0) \in Values /\ size \in Sizes
  BY <1>2, AskedOK
<1>4. /\ WordSpace \in Nat /\ WordSpace > 0 /\ Values \subseteq Int
      /\ EntriesPerRow \in Nat /\ EntriesPerRow > 0
  BY WordSpacePositive, DumpAssumption DEF Values
<1>5. /\ count \in Nat /\ relStart = first + size * count /\ relStart \in Values
      /\ column \in 0 .. EntriesPerRow - 1 /\ column \in Nat
  BY <1>1, <1>2, <1>4 DEF InStep
<1> DEFINE end  == Cell(asked.end, 0)
           done == size * count
<1>6. first \in Int /\ end \in Int /\ size \in Int /\ done \in Int
  <2>1. size \in Int /\ done \in Int
    BY <1>3, <1>5
  <2>2. first \in Int /\ end \in Int
    BY <1>3, <1>4
  <2> QED
    BY <2>1, <2>2
<1>7. PICK rows \in Nat : /\ count = rows * EntriesPerRow + column
                          /\ curAddr = Plus(start, (size * EntriesPerRow) * rows)
  BY <1>2 DEF InStep
<1> DEFINE address == Plus(start, size * count)
<1>8. address \in Values /\ curAddr \in Values
  <2>1. \A x \in Int : Plus(start, x) \in Values
    <3> SUFFICES ASSUME NEW x \in Int PROVE Plus(start, x) \in Values
      OBVIOUS
    <3>1. start + x \in Int
      BY <1>3
    <3> QED
      BY <1>4, <3>1, Remainder DEF Plus, Values
  <2>2. size * count \in Int /\ (size * EntriesPerRow) * rows \in Int
    BY <1>3, <1>4, <1>5
  <2> QED
    BY <1>7, <2>1, <2>2
<1>9. \A j \in Int : Cell(address, j) = Plus(relStart, j)
  <2> SUFFICES ASSUME NEW j \in Int PROVE Cell(address, j) = Plus(relStart, j)
    OBVIOUS
  <2>1. size * count \in Int
    BY <1>3, <1>5
  <2>2. Cell(address, j) = ((first + size * count) + j) % WordSpace
    BY <1>3, <2>1, CellAfter DEF Plus
  <2> QED
    BY <1>5, <2>2 DEF Plus
<1>10. /\ bytes \in Seq(Bytes) /\ Len(bytes) \in 0 .. size
       /\ \A j \in 0 .. Len(bytes) - 1 : Plus(relStart, j) \in Cells
       /\ Places(bytes) = Reached(address, size)
       /\ \A i \in DOMAIN bytes :
            bytes[i] = GetValue(memory, Plus(address, i - 1), BYTE_SIZE)
  <2>1. memory \in Memories
    BY DEF Inv, TypeOK
  <2> HIDE DEF address, size
  <2> QED
    BY <1>3, <1>5, <1>8, <1>9, <2>1, EntryShows
<1> HIDE DEF address, bytes
<1>11. entry \in Entries /\ entry.row = curAddr /\ entry.column = column
       /\ entry.bytes = bytes
  BY <1>2, <1>8, <1>10 DEF Entries
<1>12. column = count % EntriesPerRow
  BY <1>4, <1>5, <1>7, Quotient
<1>13. Plus(curAddr, size * column) = address
  <2> DEFINE full == (size * EntriesPerRow) * rows
             more == size * column
  <2>1. full \in Int /\ more \in Int
    BY <1>3, <1>4, <1>5
  <2>2. size * count = full + more
    <3>1. size * (rows * EntriesPerRow + column) = size * (rows * EntriesPerRow) + size * column
      BY <1>3, <1>4, <1>5, Products
    <3>2. size * (rows * EntriesPerRow) = (size * EntriesPerRow) * rows
      BY <1>3, <1>4, Products
    <3> QED
      BY <1>7, <3>1, <3>2
  <2> HIDE DEF full, more
  <2>3. (((start + full) % WordSpace) + more) % WordSpace
          = ((start + full) + more) % WordSpace
    <3>1. start + full \in Int
      BY <1>3, <2>1
    <3> QED
      BY <1>4, <2>1, <3>1, RemainderOfSum
  <2>4. (start + full) + more = start + (full + more)
    BY <1>3, <2>1
  <2>5. Plus(curAddr, more) = Plus(start, full + more)
    BY <1>7, <2>3, <2>4 DEF Plus, full
  <2> QED
    BY <2>2, <2>5 DEF address, more
<1>14. /\ printed' \in Seq(Entries) /\ Len(printed') = count + 1
       /\ printed'[count + 1] = entry
       /\ \A k \in 1 .. count : printed'[k] = printed[k]
  <2> HIDE DEF entry
  <2> QED
    BY <1>1, <1>2, <1>11
<1>15. \A e, k : EntryOK(e, k)' <=> EntryOK(e, k)
  BY <1>1 DEF EntryOK
<1>16. EntryOK(entry, count + 1)
  <2>1. (count + 1) - 1 = count
    BY <1>5
  <2>2. Plus(asked.start, asked.size * ((count + 1) - 1)) = address
    BY <2>1 DEF address
  <2> DEFINE k == count + 1
  <2>3. /\ entry.column = (k - 1) % EntriesPerRow
        /\ Plus(entry.row, asked.size * entry.column) = address
    BY <1>11, <1>12, <1>13, <2>1
  <2>4. Plus(asked.start, asked.size * (k - 1)) = address
    BY <2>2
  <2> HIDE DEF entry, k
  <2>5. Places(entry.bytes) = Reached(address, asked.size)
    BY <1>10, <1>11
  <2>6. \A i \in DOMAIN entry.bytes :
          entry.bytes[i] = GetValue(memory, Plus(address, i - 1), BYTE_SIZE)
    BY <1>10, <1>11
  <2>7. EntryOK(entry, k)
    BY <2>3, <2>4, <2>5, <2>6 DEF EntryOK
  <2> QED
    BY <2>7 DEF k
<1>17. \A k \in 1 .. Len(printed') : EntryOK(printed'[k], k)
  <2>1. \A k \in 1 .. count + 1 : k \in 1 .. count \/ k = count + 1
    BY <1>5
  <2> HIDE DEF entry
  <2> QED
    BY <1>2, <1>14, <1>16, <2>1
<1>18. size * ((count + 1) - 1) < wanted
  <2>1. (count + 1) - 1 = count
    BY <1>5
  <2>2. first + done < end
    BY <1>1, <1>5
  <2> HIDE DEF first, end, done
  <2>3. done < end - first
    BY <1>6, <2>2
  <2> QED
    BY <2>1, <2>3 DEF end, done
<1>19. ~returned' => InStep'
  <2> SUFFICES ASSUME ~returned' PROVE InStep'
    OBVIOUS
  <2>0. Len(bytes) = size
    <3>1. ~(Len(bytes) < size)
      BY <1>1
    <3> QED
      BY <1>3, <1>10, <3>1
  <2>1. Plus(relStart, size) = relStart + size /\ relStart + size \in Values
    <3> HIDE DEF size
    <3> QED
      BY <1>3, <1>5, <1>10, <2>0, NoWrap
  <2>2. relStart + size = first + size * (count + 1)
    <3>2. size * (count + 1) = done + size
      <4> HIDE DEF size, count
      <4>1. size * (count + 1) = size * count + size * 1
        BY <1>5, <1>6, Products
      <4> QED
        BY <1>6, <4>1 DEF done
    <3>3. relStart = first + done
      BY <1>5
    <3> HIDE DEF first, done, size
    <3> QED
      BY <1>6, <3>2, <3>3
  <2>3. count + 1 = rows * EntriesPerRow + (column + 1)
    BY <1>4, <1>5, <1>7
  <2>4. Cell(asked.start, 0)' = first
    BY <1>1
  <2> QED
    BY <1>1, <1>7, <1>14, <2>1, <2>2, <2>3, <2>4 DEF InStep
<1>20. returned' => Len(printed') > 0 /\ Len(printed'[Len(printed')].bytes) < size
  <2> HIDE DEF entry
  <2>1. returned' => Len(bytes) < size
    BY <1>1
  <2>2. printed'[Len(printed')].bytes = bytes
    BY <1>11, <1>14
  <2> QED
    BY <1>5, <1>14, <2>1, <2>2
<1>21. column' \in 0 .. EntriesPerRow /\ returned' \in BOOLEAN
  BY <1>1, <1>4, <1>5
<1>22. Cell(asked.end, 0)' - Cell(asked.start, 0)' = wanted /\ asked'.size = size
  BY <1>1
<1> HIDE DEF entry
<1> QED
  BY <1>1, <1>2, <1>14, <1>15, <1>17, <1>18, <1>19, <1>20, <1>21, <1>22
     DEF DumpInv

(* A row is followed by the next without gap.                              *)
LEMMA NextRowStays ==
  ASSUME DumpInv, NextRow
  PROVE  DumpInv'
<1>1. /\ asked # NotAsked /\ returned = FALSE /\ returned' = FALSE
      /\ asked' = asked /\ memory' = memory /\ phase' = phase
      /\ relStart' = relStart /\ printed' = printed
      /\ column = EntriesPerRow /\ column' = 0
      /\ curAddr' = Plus(curAddr, asked.size * EntriesPerRow)
  BY DEF NextRow, Printing, vars, DumpInv
<1>2. asked \in [start : Values, end : Values, size : Sizes] /\ InStep
  BY <1>1 DEF DumpInv
<1>3. asked.start \in Int /\ asked.size \in {1, 2, 4}
  BY <1>2, AskedOK
<1>4. WordSpace \in Nat /\ WordSpace > 0 /\ EntriesPerRow \in Nat
  BY WordSpacePositive, DumpAssumption
<1>5. PICK rows \in Nat :
        /\ Len(printed) = rows * EntriesPerRow + EntriesPerRow
        /\ curAddr = Plus(asked.start, (asked.size * EntriesPerRow) * rows)
  BY <1>1, <1>2 DEF InStep
<1> DEFINE row == asked.size * EntriesPerRow
<1>6. row \in Int /\ row * rows \in Int /\ row * (rows + 1) = row * rows + row
  <2>1. row \in Int
    BY <1>3, <1>4
  <2> HIDE DEF row
  <2> QED
    BY <2>1, Products
<1> HIDE DEF row
<1>7. curAddr' = Plus(asked.start, row * (rows + 1))
  <2>1. asked.start + row * rows \in Int
    BY <1>3, <1>6
  <2>2. (((asked.start + row * rows) % WordSpace) + row) % WordSpace
          = ((asked.start + row * rows) + row) % WordSpace
    BY <1>4, <1>6, <2>1, RemainderOfSum
  <2>3. (asked.start + row * rows) + row = asked.start + row * (rows + 1)
    BY <1>3, <1>6
  <2> QED
    BY <1>1, <1>5, <2>2, <2>3 DEF Plus, row
<1>8. Len(printed) = (rows + 1) * EntriesPerRow + 0
  <2>1. (rows + 1) * EntriesPerRow = rows * EntriesPerRow + EntriesPerRow
    BY <1>4
  <2> QED
    BY <1>4, <1>5, <2>1
<1>9. InStep'
  <2>1. rows + 1 \in Nat
    OBVIOUS
  <2> QED
    BY <1>1, <1>2, <1>7, <1>8, <2>1 DEF InStep, row
<1>10. \A e, k : EntryOK(e, k)' <=> EntryOK(e, k)
  BY <1>1 DEF EntryOK
<1>11. 0 \in 0 .. EntriesPerRow
  BY <1>4
<1> QED
  BY <1>1, <1>9, <1>10, <1>11 DEF DumpInv

(* The dump returns when the range is printed.                             *)
LEMMA ReturnStays ==
  ASSUME DumpInv, Return
  PROVE  DumpInv'
<1>1. /\ asked # NotAsked /\ returned = FALSE /\ returned' = TRUE
      /\ asked' = asked /\ memory' = memory /\ phase' = phase
      /\ printed' = printed /\ column' = column
      /\ ~(relStart < Cell(asked.end, 0))
  BY DEF Return, Printing, HasMore, vars, DumpInv
<1>2. /\ asked \in [start : Values, end : Values, size : Sizes] /\ InStep
      /\ printed \in Seq(Entries)
  BY <1>1 DEF DumpInv
<1>3. /\ asked.size \in {1, 2, 4} /\ Cell(asked.start, 0) \in Int
      /\ Cell(asked.end, 0) \in Int /\ Len(printed) \in Nat
  BY <1>2, AskedOK, WordSpacePositive DEF Values
<1>4. asked.size * Len(printed) >= Cell(asked.end, 0) - Cell(asked.start, 0)
  <2>1. asked.size * Len(printed) \in Int
    BY <1>3
  <2> QED
    BY <1>1, <1>2, <1>3, <2>1 DEF InStep
<1>5. \A e, k : EntryOK(e, k)' <=> EntryOK(e, k)
  BY <1>1 DEF EntryOK
<1> QED
  BY <1>1, <1>4, <1>5 DEF DumpInv

(* A simulation with its dump is one of the memory: what is proved of Spec *)
(* holds of DumpSpec.                                                      *)
LEMMA DumpIsOfMemory == DumpSpec => Spec
<1>1. DumpInit => Init
  BY DEF DumpInit
<1>2. [DumpNext]_<<vars, dumpVars>> => [Next]_vars
  BY DEF DumpNext, Next, printMemArray, PrintEntry, NextRow, Return, Printing
<1> QED
  BY <1>1, <1>2, PTL DEF DumpSpec, Spec

(* Every dump shows the memory as reads return it, whatever is asked for,  *)
(* wherever memArr starts and ends and however many entries fill a row.    *)
THEOREM DumpsShowMemory == DumpSpec => []DumpShowsMemory
<1>1. DumpInit => DumpInv
  BY DEF DumpInit, DumpInv
<1>2. Inv /\ DumpInv /\ [DumpNext]_<<vars, dumpVars>> => DumpInv'
  <2> SUFFICES ASSUME Inv, DumpInv, [DumpNext]_<<vars, dumpVars>>
               PROVE  DumpInv'
    OBVIOUS
  <2>1. CASE Running /\ UNCHANGED dumpVars
    <3>1. phase # "finished"
      BY <2>1 DEF Running, PrepareWord, PrepareEnd, PrepareNothing, LoadByte,
         LoadEnd, LoadNothing, Get, Set
    <3> QED
      BY <2>1, <3>1 DEF DumpInv, dumpVars
  <2>2. CASE UNCHANGED <<vars, dumpVars>>
    <3>1. \A e, k : EntryOK(e, k)' <=> EntryOK(e, k)
      BY <2>2 DEF EntryOK, vars, dumpVars
    <3> QED
      BY <2>2, <3>1 DEF DumpInv, InStep, vars, dumpVars
  <2> QED
    BY <2>1, <2>2, DumpStarts, PrintEntryShows, NextRowStays, ReturnStays
       DEF DumpNext
<1>3. DumpInv => DumpShowsMemory
  <2> SUFFICES ASSUME DumpInv, returned
               PROVE  DumpShowsMemory
    BY DEF DumpShowsMemory
  <2>1. asked \in [start : Values, end : Values, size : Sizes]
    BY DEF DumpInv
  <2> QED
    BY <2>1 DEF DumpInv, DumpShowsMemory, EntryOK, Places
<1> QED
  BY <1>1, <1>2, <1>3, DumpIsOfMemory, InvHolds, PTL DEF DumpSpec
=============================================================================
