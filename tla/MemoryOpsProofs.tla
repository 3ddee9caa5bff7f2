--------------------------- MODULE MemoryOpsProofs --------------------------
(***************************************************************************)
(* What reads and writes of MemoryOps return and preserve, for every byte  *)
(* radix, size and start address of the memory.                            *)
(***************************************************************************)
EXTENDS MemoryOps, TLAPS

(* Remainders, as far as address arithmetic needs them.                    *)
LEMMA Remainder ==
  ASSUME NEW n \in Nat, n > 0, NEW x \in Int
  PROVE  /\ x % n \in 0 .. n - 1
         /\ x \in 0 .. n - 1 => x % n = x
         /\ x \in n .. n + n - 1 => x % n = x - n
         /\ x \in -n .. -1 => x % n = x + n
  OBVIOUS

(* A byte times a weight stays below the next weight.                      *)
LEMMA Scaled ==
  ASSUME NEW b \in Bytes, NEW p \in Nat
  PROVE  b * p \in 0 .. Radix * p - p
  BY MemoryAssumption DEF Bytes

(* Each weight is the radix times the one before.                          *)
LEMMA PowersOK ==
  /\ Power[1] = Radix /\ Power[2] = Radix * Power[1]
  /\ Power[3] = Radix * Power[2] /\ Power[4] = Radix * Power[3]
  /\ \A k \in 1 .. 4 : Power[k] \in Nat /\ Power[k] > 0
  /\ WordSpace \in Nat /\ WordSpace > 0
<1>1. /\ Power[1] = Radix /\ Power[2] = Radix * Radix
      /\ Power[3] = Radix * Radix * Radix
      /\ Power[4] = Radix * Radix * Radix * Radix
  BY DEF Power
<1>2. \A n \in Nat : n > 0 => n * Radix \in Nat /\ n * Radix > 0
                              /\ n * Radix = Radix * n
  BY MemoryAssumption
<1>3. Power[1] \in Nat /\ Power[1] > 0
  BY <1>1, MemoryAssumption
<1>4. Power[2] \in Nat /\ Power[2] > 0 /\ Power[2] = Radix * Power[1]
  BY <1>1, <1>2, <1>3
<1>5. Power[3] \in Nat /\ Power[3] > 0 /\ Power[3] = Radix * Power[2]
  BY <1>1, <1>2, <1>4
<1>6. Power[4] \in Nat /\ Power[4] > 0 /\ Power[4] = Radix * Power[3]
  BY <1>1, <1>2, <1>5
<1> QED
  BY <1>1, <1>3, <1>4, <1>5, <1>6 DEF WordSpace

(* The weights are positive, and so is the size of the address space.      *)
LEMMA PowersPositive == \A k \in 1 .. 4 : Power[k] \in Nat /\ Power[k] > 0
  BY PowersOK

(* The address space is not empty.                                         *)
LEMMA WordSpacePositive == WordSpace \in Nat /\ WordSpace > 0
  BY PowersOK

(* There are more addresses than bytes in a word.                          *)
LEMMA WordSpaceLarge == WordSpace \in Nat /\ WordSpace >= 16
<1>1. \A x, y \in Nat : x >= 2 /\ y >= 2 => x * y >= 2 * y
  OBVIOUS
<1>2. Power[1] >= 2 /\ Power[2] >= 4 /\ Power[3] >= 8 /\ Power[4] >= 16
  BY <1>1, PowersOK, MemoryAssumption
<1> QED
  BY <1>2, PowersOK DEF WordSpace

(* A digit is a byte, whatever the value it is cut from.                   *)
LEMMA DigitOK ==
  ASSUME NEW size \in Sizes, NEW value \in Int, NEW i \in 0 .. size - 1
  PROVE  Digit(value, size, i) \in Bytes
<1>1. \A n \in Int : n % Radix \in Bytes
  BY MemoryAssumption, Remainder DEF Bytes
<1>2. CASE i = size - 1
  BY <1>1, <1>2 DEF Digit
<1>3. CASE i # size - 1
  <2>1. size - 1 - i \in 1 .. 4
    BY <1>3 DEF Sizes, BYTE_SIZE, HALF_SIZE, WORD_SIZE
  <2>2. \A p \in Nat : p > 0 => value \div p \in Int
    OBVIOUS
  <2>3. value \div Power[size - 1 - i] \in Int
    BY <2>1, <2>2, PowersOK
  <2> QED
    BY <1>1, <1>3, <2>3 DEF Digit
<1> QED
  BY <1>2, <1>3

(* Writing keeps a memory a memory.                                        *)
LEMMA SetOK ==
  ASSUME NEW m \in Memories, NEW address \in Int, NEW size \in Sizes,
         NEW value \in Int
  PROVE  SetValue(m, address, size, value) \in Memories
<1>1. \A i : i \in Reached(address, size) => i \in 0 .. size - 1
  BY DEF Reached
<1>2. \A i \in 0 .. size - 1 : Digit(value, size, i) \in Bytes
  BY DigitOK
<1>3. \A c \in Cells : m[c] \in Bytes
  BY DEF Memories
<1> QED
  BY <1>1, <1>2, <1>3 DEF SetValue, Memories

(* A read of a memory is a word.                                           *)
LEMMA GetOK ==
  ASSUME NEW m \in Memories, NEW address \in Int, NEW size \in Sizes
  PROVE  GetValue(m, address, size) \in Values
<1> DEFINE part(i) == IF i \in Reached(address, size)
                      THEN Weigh(m[Cell(address, i)], size, i) ELSE 0
<1>1. \A i : i \in Reached(address, size) =>
               i \in 0 .. size - 1 /\ m[Cell(address, i)] \in Bytes
  BY DEF Reached, Memories
<1>2. ASSUME NEW i \in 0 .. 3
      PROVE  /\ i >= size => part(i) = 0
             /\ i = size - 1 => part(i) \in 0 .. Radix - 1
             /\ i < size - 1 =>
                  part(i) \in 0 .. Radix * Power[size - 1 - i] - Power[size - 1 - i]
  <2>1. size \in 1 .. 4
    BY DEF Sizes, BYTE_SIZE, HALF_SIZE, WORD_SIZE
  <2>2. CASE i \notin Reached(address, size)
    <3>1. part(i) = 0
      BY <2>2
    <3>2. \A p \in Nat : 0 \in 0 .. Radix * p - p
      BY Scaled, MemoryAssumption DEF Bytes
    <3>3. i < size - 1 => Power[size - 1 - i] \in Nat
      <4> HAVE i < size - 1
      <4>1. size - 1 - i \in 1 .. 4
        BY <2>1
      <4> QED
        BY <4>1, PowersPositive
    <3> HIDE DEF part
    <3> QED
      BY <3>1, <3>2, <3>3, MemoryAssumption
  <2>3. CASE i \in Reached(address, size)
    <3> DEFINE b == m[Cell(address, i)]
    <3>1. i < size /\ b \in Bytes
      BY <1>1, <2>1, <2>3
    <3>2. part(i) = Weigh(b, size, i)
      BY <2>3
    <3> HIDE DEF part, b
    <3>3. CASE i = size - 1
      <4>1. part(i) = b
        BY <3>2, <3>3 DEF Weigh
      <4> QED
        BY <2>1, <3>1, <3>3, <4>1 DEF Bytes
    <3>4. CASE i < size - 1
      <4>1. Power[size - 1 - i] \in Nat
        <5>1. size - 1 - i \in 1 .. 4
          BY <2>1, <3>4
        <5> QED
          BY <5>1, PowersPositive
      <4>2. part(i) = b * Power[size - 1 - i]
        BY <2>1, <3>2, <3>4 DEF Weigh
      <4> QED
        BY <2>1, <3>1, <3>4, <4>1, <4>2, Scaled
    <3> QED
      BY <2>1, <3>1, <3>3, <3>4
  <2> QED
    BY <2>2, <2>3
<1> HIDE DEF part
<1>3. /\ Power[1] = Radix /\ Power[2] = Radix * Power[1]
      /\ Power[3] = Radix * Power[2] /\ Power[4] = Radix * Power[3]
      /\ Power[1] \in Nat /\ Power[2] \in Nat /\ Power[3] \in Nat /\ Power[4] \in Nat
      /\ Power[1] <= Power[2] /\ Power[2] <= Power[4]
  <2>1. \A n \in Nat : n <= Radix * n
    BY MemoryAssumption
  <2> QED
    BY <2>1, PowersOK
<1>4. part(0) + part(1) + part(2) + part(3) \in 0 .. Power[4] - 1
  <2>1. CASE size = 1
    <3>1. /\ part(0) \in 0 .. Power[1] - 1
          /\ part(1) = 0 /\ part(2) = 0 /\ part(3) = 0
      BY <1>2, <1>3, <2>1
    <3> QED
      BY <1>3, <3>1
  <2>2. CASE size = 2
    <3>1. /\ part(0) \in 0 .. Power[2] - Power[1]
          /\ part(1) \in 0 .. Power[1] - 1
          /\ part(2) = 0 /\ part(3) = 0
      BY <1>2, <1>3, <2>2
    <3> QED
      BY <1>3, <3>1
  <2>3. CASE size = 4
    <3>1. /\ part(0) \in 0 .. Power[4] - Power[3]
          /\ part(1) \in 0 .. Power[3] - Power[2]
          /\ part(2) \in 0 .. Power[2] - Power[1]
          /\ part(3) \in 0 .. Power[1] - 1
      BY <1>2, <1>3, <2>3
    <3> QED
      BY <1>3, <3>1
  <2> QED
    BY <2>1, <2>2, <2>3 DEF Sizes, BYTE_SIZE, HALF_SIZE, WORD_SIZE
<1>5. GetValue(m, address, size) = part(0) + part(1) + part(2) + part(3)
  BY DEF GetValue, part
<1> QED
  BY <1>4, <1>5 DEF Values, WordSpace

(* A cell that a write changes is one of those it names.                   *)
LEMMA SetIsLocal ==
  ASSUME NEW m \in Memories, NEW address \in Int, NEW size \in Sizes,
         NEW value \in Int, NEW c \in Cells,
         SetValue(m, address, size, value)[c] # m[c]
  PROVE  c \in {Cell(address, i) : i \in 0 .. size - 1}
<1> DEFINE first == Cell(address, 0)
           i == (c - first) % WordSpace
<1>1. i \in 0 .. size - 1
  BY DEF SetValue, Reached
<1>2. /\ first = (address - startAddr) % WordSpace
      /\ first \in 0 .. WordSpace - 1
  <2>1. (address - startAddr) % WordSpace \in 0 .. WordSpace - 1
    BY PowersOK, MemoryAssumption, Remainder DEF Values
  <2> QED
    BY <2>1, PowersOK, Remainder DEF Cell
<1>3. c \in 0 .. WordSpace - 1
  BY PowersOK, MemoryAssumption DEF Cells
<1>4. Cell(address, i) = (first + i) % WordSpace
  BY <1>2 DEF Cell
<1>5. i = (c - first) % WordSpace
  OBVIOUS
<1> HIDE DEF first, i
<1>6. \A x \in Int :
        /\ x \in 0 .. WordSpace - 1 => x % WordSpace = x
        /\ x \in WordSpace .. WordSpace + WordSpace - 1 => x % WordSpace = x - WordSpace
        /\ x \in -WordSpace .. -1 => x % WordSpace = x + WordSpace
  BY WordSpacePositive, Remainder
<1>7. (first + i) % WordSpace = c
  <2>1. CASE c >= first
    <3>1. i = c - first
      <4>1. c - first \in 0 .. WordSpace - 1
        BY <1>2, <1>3, <2>1, WordSpacePositive
      <4> QED
        BY <1>5, <1>6, <4>1
    <3>2. first + i = c
      BY <1>2, <1>3, <3>1, WordSpacePositive
    <3> QED
      BY <1>3, <1>6, <3>2
  <2>2. CASE c < first
    <3>1. i = c - first + WordSpace
      <4>1. c - first \in -WordSpace .. -1
        BY <1>2, <1>3, <2>2, WordSpacePositive
      <4> QED
        BY <1>5, <1>6, <4>1, WordSpacePositive
    <3>2. first + i = c + WordSpace
      BY <1>2, <1>3, <3>1, WordSpacePositive
    <3>3. c + WordSpace \in WordSpace .. WordSpace + WordSpace - 1
      BY <1>3, WordSpacePositive
    <3> QED
      BY <1>3, <1>6, <3>2, <3>3, WordSpacePositive
  <2> QED
    BY <1>2, <1>3, <2>1, <2>2
<1> QED
  BY <1>1, <1>4, <1>7
-----------------------------------------------------------------------------
(* Products, as far as weights need them.                                  *)
LEMMA Products ==
  /\ \A x, y, z \in Int : x * (y + z) = x * y + x * z
  /\ \A x, y, z \in Int : x * (y * z) = (x * y) * z
  /\ \A x, y \in Int : x * y = y * x
  OBVIOUS

(* Addresses that follow each other name cells that do.                    *)
LEMMA CellShift ==
  ASSUME NEW a \in Values, NEW k \in 0 .. 2, NEW i \in 0 .. 1
  PROVE  Cell((a + k) % WordSpace, i) = Cell(a, k + i)
<1> DEFINE n == WordSpace
<1>1. n \in Nat /\ n >= 16
  BY WordSpaceLarge
<1>2. a \in 0 .. n - 1 /\ startAddr \in 0 .. n - 1
  BY MemoryAssumption DEF Values
<1> HIDE DEF n
<1>3. \A x \in Int :
        /\ x \in 0 .. n - 1 => x % n = x
        /\ x \in n .. n + n - 1 => x % n = x - n
        /\ x \in -n .. -1 => x % n = x + n
  BY <1>1, Remainder
<1>4. (((((a + k) % n) - startAddr) % n) + i) % n = (((a - startAddr) % n) + (k + i)) % n
  <2>1. (a + k) % n = IF a + k < n THEN a + k ELSE a + k - n
    BY <1>1, <1>2, <1>3
  <2>2. (a - startAddr) % n = IF a >= startAddr THEN a - startAddr ELSE a - startAddr + n
    BY <1>1, <1>2, <1>3
  <2>3. (((a + k) % n) - startAddr) % n = (((a - startAddr) % n) + k) % n
    BY <1>1, <1>2, <1>3, <2>1, <2>2
  <2> DEFINE d == (a - startAddr) % n
  <2>4. d \in 0 .. n - 1
    BY <1>1, <1>2, <2>2
  <2> HIDE DEF d
  <2>5. (((d + k) % n) + i) % n = (d + (k + i)) % n
    BY <1>1, <1>3, <2>4
  <2> QED
    BY <2>3, <2>5 DEF d
<1> QED
  BY <1>4 DEF Cell, n

(* The byte a read finds i bytes on, zero behind the end of memArr.        *)
Byte(m, address, i) ==
  IF \A j \in 0 .. i : Cell(address, j) \in Cells THEN m[Cell(address, i)] ELSE 0

(* A read is its bytes with their weights.                                 *)
LEMMA GetByBytes ==
  ASSUME NEW m \in Memories, NEW a \in Int
  PROVE  /\ \A i \in 0 .. 3 : Byte(m, a, i) \in Bytes
         /\ GetValue(m, a, 1) = Byte(m, a, 0)
         /\ GetValue(m, a, 2) = Byte(m, a, 0) * Power[1] + Byte(m, a, 1)
         /\ GetValue(m, a, 4) = Byte(m, a, 0) * Power[3] + Byte(m, a, 1) * Power[2]
                                + Byte(m, a, 2) * Power[1] + Byte(m, a, 3)
<1> DEFINE part(size, i) == IF i \in Reached(a, size)
                            THEN Weigh(m[Cell(a, i)], size, i) ELSE 0
<1>1. ASSUME NEW i \in 0 .. 3 PROVE Byte(m, a, i) \in Bytes
  BY MemoryAssumption DEF Byte, Memories, Bytes
<1>2. ASSUME NEW size \in Sizes, NEW i \in 0 .. 3
      PROVE  /\ i < size - 1 => part(size, i) = Byte(m, a, i) * Power[size - 1 - i]
             /\ i = size - 1 => part(size, i) = Byte(m, a, i)
             /\ i >= size => part(size, i) = 0
  <2>1. i < size => (i \in Reached(a, size)
                     <=> \A j \in 0 .. i : Cell(a, j) \in Cells)
    BY DEF Reached, Sizes, BYTE_SIZE, HALF_SIZE, WORD_SIZE
  <2>2. i >= size => i \notin Reached(a, size)
    BY DEF Reached, Sizes, BYTE_SIZE, HALF_SIZE, WORD_SIZE
  <2>3. i < size - 1 => Power[size - 1 - i] \in Nat
    <3>1. size - 1 \in 0 .. 3
      BY DEF Sizes, BYTE_SIZE, HALF_SIZE, WORD_SIZE
    <3>2. i < size - 1 => size - 1 - i \in 1 .. 4
      BY <3>1
    <3> QED
      BY <3>2, PowersPositive
  <2>4. \A p \in Nat : 0 * p = 0
    OBVIOUS
  <2>5. size \in {1, 2, 4}
    BY DEF Sizes, BYTE_SIZE, HALF_SIZE, WORD_SIZE
  <2>6. CASE i < size - 1
    BY <2>1, <2>3, <2>4, <2>5, <2>6 DEF Byte, Weigh
  <2>7. CASE i = size - 1
    BY <2>1, <2>5, <2>7 DEF Byte, Weigh
  <2>8. CASE i >= size
    BY <2>2, <2>5, <2>8
  <2> QED
    BY <2>5, <2>6, <2>7, <2>8
<1>3. \A size : GetValue(m, a, size)
                = part(size, 0) + part(size, 1) + part(size, 2) + part(size, 3)
  BY DEF GetValue
<1> HIDE DEF part
<1>4. GetValue(m, a, 1) = Byte(m, a, 0) + 0 + 0 + 0
  BY <1>2, <1>3 DEF Sizes, BYTE_SIZE, HALF_SIZE, WORD_SIZE
<1>5. GetValue(m, a, 2) = Byte(m, a, 0) * Power[1] + Byte(m, a, 1) + 0 + 0
  BY <1>2, <1>3 DEF Sizes, BYTE_SIZE, HALF_SIZE, WORD_SIZE
<1>6. GetValue(m, a, 4) = Byte(m, a, 0) * Power[3] + Byte(m, a, 1) * Power[2]
                          + Byte(m, a, 2) * Power[1] + Byte(m, a, 3)
  BY <1>2, <1>3 DEF Sizes, BYTE_SIZE, HALF_SIZE, WORD_SIZE
<1>7. \A b \in Bytes, p \in Nat : b \in Int /\ b * p \in Int
  BY MemoryAssumption DEF Bytes
<1> QED
  BY <1>1, <1>4, <1>5, <1>6, <1>7, PowersOK

(* The bytes of a read further on are the later bytes, if the earlier ones *)
(* are there.                                                              *)
LEMMA ByteShift ==
  ASSUME NEW m, NEW a \in Values, NEW k \in 0 .. 2, NEW i \in 0 .. 1,
         \A j \in 0 .. k - 1 : Cell(a, j) \in Cells
  PROVE  Byte(m, (a + k) % WordSpace, i) = Byte(m, a, k + i)
<1>1. \A j \in 0 .. i : Cell((a + k) % WordSpace, j) = Cell(a, k + j)
  <2>1. \A j \in 0 .. i : j \in 0 .. 1
    OBVIOUS
  <2>2. \A j \in 0 .. 1 : Cell((a + k) % WordSpace, j) = Cell(a, k + j)
    BY CellShift
  <2> QED
    BY <2>1, <2>2
<1>2. (\A j \in 0 .. i : Cell(a, k + j) \in Cells)
        <=> (\A j \in 0 .. k + i : Cell(a, j) \in Cells)
  <2>1. \A j \in 0 .. k + i : j \in 0 .. k - 1 \/ (j - k \in 0 .. i /\ k + (j - k) = j)
    OBVIOUS
  <2>2. \A j \in 0 .. i : k + j \in 0 .. k + i
    OBVIOUS
  <2> QED
    BY <2>1, <2>2
<1> QED
  BY <1>1, <1>2 DEF Byte

(* A half is its two bytes.                                                *)
LEMMA HalfIsBytes ==
  ASSUME NEW m \in Memories, NEW a \in Values, Reached(a, 1) # {}
  PROVE  GetValue(m, a % WordSpace, HALF_SIZE)
           = Radix * GetValue(m, a % WordSpace, BYTE_SIZE)
             + GetValue(m, (a + 1) % WordSpace, BYTE_SIZE)
<1>1. a % WordSpace = a /\ a \in Int /\ (a + 1) % WordSpace \in Int
  BY WordSpacePositive, Remainder DEF Values
<1>2. \A j \in 0 .. 0 : Cell(a, j) \in Cells
  BY DEF Reached
<1>3. Byte(m, (a + 1) % WordSpace, 0) = Byte(m, a, 1)
  BY <1>2, ByteShift
<1>4. GetValue(m, (a + 1) % WordSpace, 1) = Byte(m, a, 1)
  BY <1>1, <1>3, GetByBytes
<1>5. Byte(m, a, 0) * Power[1] = Radix * Byte(m, a, 0)
  BY <1>1, GetByBytes, PowersOK, Products, MemoryAssumption DEF Bytes
<1> QED
  BY <1>1, <1>4, <1>5, GetByBytes DEF HALF_SIZE, BYTE_SIZE

(* A word is its two halves, of which the second counts only if the first  *)
(* is there.                                                               *)
LEMMA WordIsHalves ==
  ASSUME NEW m \in Memories, NEW a \in Values
  PROVE  GetValue(m, a % WordSpace, WORD_SIZE)
           = Power[2] * GetValue(m, a % WordSpace, HALF_SIZE)
             + (IF Succeeds(a, HALF_SIZE)
                THEN GetValue(m, (a + 2) % WordSpace, HALF_SIZE) ELSE 0)
<1> DEFINE b(i) == Byte(m, a, i)
           c == (a + 2) % WordSpace
<1>1. a % WordSpace = a /\ a \in Int /\ c \in Int
  BY WordSpacePositive, Remainder DEF Values
<1>2. Succeeds(a, HALF_SIZE) <=> \A j \in 0 .. 1 : Cell(a, j) \in Cells
  BY DEF Succeeds, Reached, HALF_SIZE
<1>3. Succeeds(a, HALF_SIZE) => Byte(m, c, 0) = b(2) /\ Byte(m, c, 1) = b(3)
  BY <1>2, ByteShift
<1>4. ~Succeeds(a, HALF_SIZE) => b(2) = 0 /\ b(3) = 0
  BY <1>2 DEF Byte
<1>5. b(0) \in Int /\ b(1) \in Int /\ b(2) \in Int /\ b(3) \in Int
  BY <1>1, GetByBytes DEF Bytes
<1>6. /\ GetValue(m, a, 2) = b(0) * Power[1] + b(1)
      /\ GetValue(m, a, 4) = b(0) * Power[3] + b(1) * Power[2] + b(2) * Power[1] + b(3)
      /\ GetValue(m, c, 2) = Byte(m, c, 0) * Power[1] + Byte(m, c, 1)
  BY <1>1, GetByBytes
<1> HIDE DEF b, c
<1>7. /\ Power[2] * (b(0) * Power[1] + b(1)) = b(0) * Power[3] + b(1) * Power[2]
      /\ b(0) * Power[3] \in Int /\ b(1) * Power[2] \in Int /\ b(2) * Power[1] \in Int
  <2> DEFINE p == Power[1]  q == Power[2]  r == Power[3]
  <2>1. p \in Int /\ q \in Int /\ r \in Int /\ r = p * q
    BY PowersOK
  <2> HIDE DEF p, q, r
  <2>2. q * (b(0) * p + b(1)) = q * (b(0) * p) + q * b(1)
    BY <1>5, <2>1, Products
  <2>3. q * (b(0) * p) = b(0) * (p * q)
    BY <1>5, <2>1, Products
  <2>4. q * b(1) = b(1) * q
    BY <1>5, <2>1, Products
  <2>5. b(0) * r \in Int /\ b(1) * q \in Int /\ b(2) * p \in Int
    BY <1>5, <2>1
  <2> QED
    BY <2>1, <2>2, <2>3, <2>4, <2>5 DEF p, q, r
<1>8. CASE Succeeds(a, HALF_SIZE)
  BY <1>1, <1>3, <1>5, <1>6, <1>7, <1>8 DEF c, WORD_SIZE, HALF_SIZE
<1>9. CASE ~Succeeds(a, HALF_SIZE)
  <2>1. b(2) * Power[1] = 0 /\ b(3) = 0
    BY <1>4, <1>9, PowersOK
  <2> QED
    BY <1>1, <1>5, <1>6, <1>7, <1>9, <2>1 DEF WORD_SIZE, HALF_SIZE
<1> QED
  BY <1>8, <1>9
-----------------------------------------------------------------------------
(* The bytes of a range that is written: their digits as far as the range  *)
(* is reached, nothing behind.                                             *)
LEMMA BytesStored ==
  ASSUME NEW m \in Memories, NEW a \in Values, NEW size \in Sizes, NEW value \in Int,
         NEW i \in 0 .. size - 1
  PROVE  Byte(SetValue(m, a, size, value), a, i)
           = IF i \in Reached(a, size) THEN Digit(value, size, i) ELSE 0
<1>1. i \in Reached(a, size) <=> \A j \in 0 .. i : Cell(a, j) \in Cells
  BY DEF Reached
<1>2. WordSpace \in Nat /\ WordSpace >= 16
  BY WordSpaceLarge
<1>3. i \in 0 .. 3
  BY DEF Sizes, BYTE_SIZE, HALF_SIZE, WORD_SIZE
<1>4. (Cell(a, i) - Cell(a, 0)) % WordSpace = i
  <2> DEFINE n == WordSpace
             d == (a - startAddr) % n
  <2>1. a - startAddr \in Int /\ n \in Nat /\ n >= 16
    BY <1>2, MemoryAssumption DEF Values
  <2>2. Cell(a, i) = (d + i) % n /\ Cell(a, 0) = (d + 0) % n
    BY DEF Cell
  <2> HIDE DEF n
  <2>3. d \in 0 .. n - 1
    BY <2>1, Remainder
  <2> HIDE DEF d
  <2>4. (d + 0) % n = d /\ (d + i) % n = IF d + i < n THEN d + i ELSE d + i - n
    BY <1>3, <2>1, <2>3, Remainder
  <2>5. (IF d + i < n THEN d + i ELSE d + i - n) - d = IF d + i < n THEN i ELSE i - n
    BY <1>3, <2>1, <2>3
  <2>6. i % n = i /\ (i - n) % n = i
    BY <1>3, <2>1, Remainder
  <2> QED
    BY <2>2, <2>4, <2>5, <2>6 DEF n
<1>5. CASE i \in Reached(a, size)
  <2>1. Cell(a, i) \in Cells
    BY <1>1, <1>5
  <2>2. SetValue(m, a, size, value)[Cell(a, i)] = Digit(value, size, i)
    BY <1>4, <1>5, <2>1 DEF SetValue
  <2> QED
    BY <1>1, <1>5, <2>2 DEF Byte
<1>6. CASE i \notin Reached(a, size)
  BY <1>1, <1>6 DEF Byte
<1> QED
  BY <1>5, <1>6

(* Quotient and remainder are the only numbers that make up a dividend.    *)
LEMMA Quotient ==
  ASSUME NEW n \in Nat, n > 0, NEW q \in Int, NEW r \in 0 .. n - 1
  PROVE  (q * n + r) \div n = q /\ (q * n + r) % n = r
<1> DEFINE x == q * n + r
           p == x \div n
<1>1. x \in Int
  OBVIOUS
<1> HIDE DEF x
<1>2. p \in Int /\ x = n * p + (x % n) /\ x % n \in 0 .. n - 1
  BY <1>1
<1> HIDE DEF p
<1>3. \A k \in Int : k >= 1 => n * k >= n
  OBVIOUS
<1>4. n * (q - p) = (x % n) - r /\ n * (p - q) = r - (x % n)
  BY <1>1, <1>2, Products DEF x
<1>5. ~ q - p >= 1 /\ ~ p - q >= 1
  BY <1>1, <1>2, <1>3, <1>4
<1>6. p = q
  BY <1>2, <1>5
<1> QED
  BY <1>1, <1>2, <1>4, <1>6 DEF x, p

(* A word is four bytes.                                                   *)
Spelled(a, b, c, d) == ((a * Radix + b) * Radix + c) * Radix + d

LEMMA WordSpelled ==
  ASSUME NEW v \in Values
  PROVE  \E a, b, c, d \in Bytes : v = Spelled(a, b, c, d)
<1>1. ASSUME NEW n \in Nat, NEW x \in 0 .. Radix * n - 1
      PROVE  /\ x \div Radix \in 0 .. n - 1
             /\ x % Radix \in Bytes
             /\ x = (x \div Radix) * Radix + (x % Radix)
  <2> DEFINE q == x \div Radix
  <2>1. q \in Int /\ x = Radix * q + (x % Radix) /\ x % Radix \in 0 .. Radix - 1
    BY MemoryAssumption
  <2> HIDE DEF q
  <2>2. x % Radix \in Int /\ Radix \in Nat /\ Radix > 1
    BY <2>1, MemoryAssumption
  <2>3. Radix * q = q * Radix
    BY <2>1, <2>2
  <2>4. q >= n => Radix * q >= Radix * n
    BY <2>1, <2>2
  <2>5. q <= -1 => Radix * q <= -Radix
    BY <2>1, <2>2
  <2>6. Radix * n \in Int
    BY <2>2
  <2>7. q \in 0 .. n - 1
    BY <2>1, <2>2, <2>4, <2>5, <2>6
  <2> QED
    BY <2>1, <2>3, <2>7 DEF q, Bytes
<1> DEFINE x == v \div Radix
           y == x \div Radix
           z == y \div Radix
<1>2. x \in 0 .. Power[3] - 1 /\ v % Radix \in Bytes /\ v = x * Radix + (v % Radix)
  BY <1>1, PowersOK DEF Values, WordSpace
<1>3. y \in 0 .. Power[2] - 1 /\ x % Radix \in Bytes /\ x = y * Radix + (x % Radix)
  BY <1>1, <1>2, PowersOK
<1>4. z \in 0 .. Power[1] - 1 /\ y % Radix \in Bytes /\ y = z * Radix + (y % Radix)
  BY <1>1, <1>3, PowersOK
<1>5. z \in Bytes
  BY <1>4, PowersOK DEF Bytes
<1> HIDE DEF x, y, z
<1>6. v = Spelled(z, y % Radix, x % Radix, v % Radix)
  BY <1>2, <1>3, <1>4, Zenon DEF Spelled
<1> QED
  BY <1>2, <1>3, <1>4, <1>5, <1>6

(* What the weights cut off a word.                                        *)
LEMMA Cuts ==
  ASSUME NEW a \in Bytes, NEW b \in Bytes, NEW c \in Bytes, NEW d \in Bytes,
         NEW v, v = Spelled(a, b, c, d)
  PROVE  /\ v % Power[1] = d /\ v \div Power[1] = (a * Radix + b) * Radix + c
         /\ v % Power[2] = c * Power[1] + d /\ v \div Power[2] = a * Radix + b
         /\ v \div Power[3] = a
         /\ v % Power[4] = v
         /\ v = a * Power[3] + b * Power[2] + c * Power[1] + d
         /\ v \in Int
<1> DEFINE r == Radix
           p == Power[2]
           q == Power[3]
<1>1. /\ r \in Nat /\ r > 1 /\ p \in Nat /\ q \in Nat /\ p > 0 /\ q > 0
      /\ p = r * r /\ q = r * p /\ Power[4] = r * q /\ Power[1] = r
  BY PowersOK, MemoryAssumption
<1>2. /\ a \in 0 .. r - 1 /\ b \in 0 .. r - 1 /\ c \in 0 .. r - 1 /\ d \in 0 .. r - 1
      /\ v = ((a * r + b) * r + c) * r + d
  BY DEF Bytes, Spelled
<1>3. a \in Int /\ b \in Int /\ c \in Int /\ d \in Int /\ r \in Int
  BY <1>1, <1>2
<1> HIDE DEF r, p, q
<1>4. \A x, n \in Nat : x <= r - 1 => x * n <= r * n - n /\ x * n \in Nat
  BY <1>1
<1>5. \A x, y, z \in Int : (x * z + y) * z = x * (z * z) + y * z
  OBVIOUS
<1>6. c * r + d \in 0 .. p - 1
  BY <1>1, <1>2, <1>4
<1>7. b * p + (c * r + d) \in 0 .. q - 1
  BY <1>1, <1>2, <1>4, <1>6
<1>8. a * q + (b * p + (c * r + d)) \in 0 .. r * q - 1
  BY <1>1, <1>2, <1>4, <1>7
<1> DEFINE h == a * r + b
<1>9. h \in Int /\ h * r \in Int
  BY <1>3
<1>10. h * p = a * q + b * p
  <2>1. (a * r) * p = a * (r * p)
    BY <1>1, <1>3, Products
  <2>2. a * r \in Int /\ p \in Int
    BY <1>1, <1>3
  <2>3. (a * r + b) * p = (a * r) * p + b * p
    BY <1>3, <2>2
  <2> QED
    BY <1>1, <2>1, <2>3
<1> HIDE DEF h
<1>11. v = h * p + (c * r + d)
  <2>1. (h * r + c) * r = h * (r * r) + c * r
    BY <1>3, <1>5, <1>9
  <2>2. v = (h * r + c) * r + d
    BY <1>2 DEF h
  <2>3. h * p \in Int /\ c * r \in Int
    BY <1>1, <1>3, <1>9
  <2> QED
    BY <1>1, <1>3, <2>1, <2>2, <2>3
<1>12. a * q \in Int /\ b * p \in Int /\ c * r \in Int
  BY <1>1, <1>3
<1>13. v = a * q + (b * p + (c * r + d))
  BY <1>3, <1>10, <1>11, <1>12
<1>14. v % r = d /\ v \div r = h * r + c
  <2>1. h * r + c \in Int
    BY <1>3, <1>9
  <2> QED
    BY <1>1, <1>2, <2>1, Quotient DEF h
<1>15. v % p = c * r + d /\ v \div p = h
  BY <1>1, <1>6, <1>9, <1>11, Quotient
<1>16. v \div q = a
  BY <1>1, <1>3, <1>7, <1>13, Quotient
<1>17. v % (r * q) = v
  <2>1. r * q \in Nat /\ r * q > 0
    BY <1>1
  <2> QED
    BY <1>8, <1>13, <2>1, Remainder
<1>18. v = a * q + b * p + c * r + d /\ v \in Int
  BY <1>3, <1>12, <1>13
<1> QED
  BY <1>1, <1>14, <1>15, <1>16, <1>17, <1>18 DEF h, r, p, q

(* The bytes reached are the first ones.                                   *)
LEMMA ReachedFirst ==
  ASSUME NEW a, NEW size \in Sizes
  PROVE  /\ Reached(a, size) \subseteq 0 .. size - 1
         /\ \A i \in 0 .. size - 1 :
              i \in Reached(a, size) <=> \A j \in 0 .. i : j \in Reached(a, size)
<1>1. \A i \in 0 .. size - 1 : \A j \in 0 .. i : j \in 0 .. size - 1 /\ 0 .. j \subseteq 0 .. i
  BY DEF Sizes, BYTE_SIZE, HALF_SIZE, WORD_SIZE
<1>2. \A i \in 0 .. size - 1 : i \in 0 .. i
  BY DEF Sizes, BYTE_SIZE, HALF_SIZE, WORD_SIZE
<1> QED
  BY <1>1, <1>2 DEF Reached

(* The bytes of a write that get in, the numbers of bytes that may be lost  *)
(* behind them, and what a read of the same size finds: zeros for those.   *)
Done(a, size) == {i \in 0 .. size - 1 : i \in Reached(a, size)}
Lost(a, size) == {i \in 1 .. size : Done(a, size) = 0 .. size - 1 - i}
Cut(value, power) == (value \div power) * power

Fitting(a, size, value) ==
  IF Succeeds(a, size) THEN value % Power[size]
  ELSE IF Done(a, size) = {} THEN 0
  ELSE LET l == CHOOSE l \in Lost(a, size) : TRUE
       IN  Cut(value % Power[size], Power[l])

(* If k bytes of size got in, the others are lost.                         *)
LEMMA FittingBytes ==
  ASSUME NEW a, NEW size \in Sizes, NEW value, NEW k \in 0 .. size,
         Reached(a, size) = 0 .. k - 1
  PROVE  Fitting(a, size, value)
           = IF k = size THEN value % Power[size]
             ELSE IF k = 0 THEN 0
             ELSE Cut(value % Power[size], Power[size - k])
<1>1. size \in 1 .. 4
  BY DEF Sizes, BYTE_SIZE, HALF_SIZE, WORD_SIZE
<1>2. Done(a, size) = 0 .. k - 1
  BY <1>1 DEF Done
<1>3. Succeeds(a, size) <=> k = size
  <2>1. k # size => k \in 0 .. size - 1 /\ k \notin 0 .. k - 1
    BY <1>1
  <2> QED
    BY <2>1 DEF Succeeds
<1>4. Done(a, size) = {} <=> k = 0
  <2>1. k # 0 => 0 \in 0 .. k - 1
    BY <1>1
  <2>2. k = 0 => 0 .. k - 1 = {}
    BY <1>1
  <2> QED
    BY <1>2, <2>1, <2>2
<1>5. ASSUME k # 0, k # size
      PROVE  Lost(a, size) = {size - k}
  <2>1. \A n \in 0 .. 4 : 0 .. k - 1 = 0 .. n - 1 => n = k
    <3>1. \A n \in 0 .. 4 : n > k => k \in 0 .. n - 1 /\ k \notin 0 .. k - 1
      BY <1>1
    <3>2. \A n \in 0 .. 4 : n < k => n \in 0 .. k - 1 /\ n \notin 0 .. n - 1
      BY <1>1
    <3>3. \A n \in 0 .. 4 : n > k \/ n < k \/ n = k
      BY <1>1
    <3> QED
      BY <3>1, <3>2, <3>3
  <2>2. \A i \in 1 .. size :
          /\ size - i \in 0 .. 4 /\ size - 1 - i = (size - i) - 1
          /\ size - i = k <=> i = size - k
    BY <1>1
  <2>3. \A i \in 1 .. size : 0 .. k - 1 = 0 .. size - 1 - i <=> i = size - k
    BY <2>1, <2>2
  <2>4. size - k \in 1 .. size
    BY <1>1, <1>5
  <2> QED
    BY <1>2, <2>3, <2>4 DEF Lost
<1>6. (CHOOSE l \in {size - k} : TRUE) = size - k
  OBVIOUS
<1> QED
  BY <1>3, <1>4, <1>5, <1>6 DEF Fitting

(* How many bytes are reached.                                             *)
LEMMA ReachedCount ==
  ASSUME NEW a, NEW size \in Sizes
  PROVE  \E k \in 0 .. size : Reached(a, size) = 0 .. k - 1
<1> DEFINE R == Reached(a, size)
<1>1. size \in {1, 2, 4}
  BY DEF Sizes, BYTE_SIZE, HALF_SIZE, WORD_SIZE
<1>2. /\ \A i \in R : i \in 0 .. size - 1
      /\ \A i \in R : \A j \in 0 .. i : j \in R
  BY ReachedFirst
<1> HIDE DEF R
<1>3. ASSUME NEW k \in 0 .. size, \A j \in 0 .. k - 1 : j \in R, k = size \/ k \notin R
      PROVE  R = 0 .. k - 1
  <2>1. ASSUME NEW i \in R PROVE i \in 0 .. k - 1
    <3>1. i \in 0 .. size - 1
      BY <1>2
    <3>2. i >= k => k \in 0 .. i /\ k # size
      BY <1>1, <3>1
    <3> QED
      BY <1>1, <1>2, <1>3, <3>1, <3>2
  <2> QED
    BY <1>3, <2>1
<1>4. /\ 0 \notin R => R = 0 .. 0 - 1
      /\ 0 \in R /\ 1 \notin R => R = 0 .. 1 - 1
      /\ 0 \in R /\ 1 \in R /\ 2 \notin R => R = 0 .. 2 - 1
      /\ 0 \in R /\ 1 \in R /\ 2 \in R /\ 3 \notin R => R = 0 .. 3 - 1
      /\ 0 \in R /\ 1 \in R /\ 2 \in R /\ 3 \in R => R = 0 .. 4 - 1
  <2>1. /\ 0 .. 0 - 1 = {} /\ 0 .. 1 - 1 = {0} /\ 0 .. 2 - 1 = {0, 1}
        /\ 0 .. 3 - 1 = {0, 1, 2} /\ 0 .. 4 - 1 = {0, 1, 2, 3}
    OBVIOUS
  <2>2. \A k \in 0 .. 3 : k \in R => k + 1 \in 0 .. size
    BY <1>1, <1>2
  <2>3. 0 \notin R => R = 0 .. 0 - 1
    BY <1>1, <1>3, <2>1
  <2>4. 0 \in R /\ 1 \notin R => R = 0 .. 1 - 1
    BY <1>1, <1>3, <2>1, <2>2
  <2>5. 0 \in R /\ 1 \in R /\ 2 \notin R => R = 0 .. 2 - 1
    BY <1>1, <1>3, <2>1, <2>2
  <2>6. 0 \in R /\ 1 \in R /\ 2 \in R /\ 3 \notin R => R = 0 .. 3 - 1
    BY <1>1, <1>3, <2>1, <2>2
  <2>7. 0 \in R /\ 1 \in R /\ 2 \in R /\ 3 \in R => R = 0 .. 4 - 1
    <3>1. 3 \in R => size = 4
      BY <1>1, <1>2
    <3> QED
      BY <1>3, <2>1, <3>1
  <2> QED
    BY <2>3, <2>4, <2>5, <2>6, <2>7
<1>5. /\ 0 \in R => 1 \in 0 .. size
      /\ 1 \in R => 2 \in 0 .. size
      /\ 2 \in R => 3 \in 0 .. size
      /\ 3 \in R => 4 \in 0 .. size
      /\ 0 \in 0 .. size
  BY <1>1, <1>2
<1> QED
  BY <1>4, <1>5 DEF R

(* Cutting off the lower bytes takes the remainder away.                   *)
LEMMA CutRest ==
  ASSUME NEW v \in Int, NEW p \in Nat, p > 0
  PROVE  Cut(v, p) = v - (v % p) /\ v % p \in Int
<1> DEFINE q == v \div p
<1>1. q \in Int /\ v = p * q + (v % p) /\ v % p \in Int
  OBVIOUS
<1>2. Cut(v, p) = q * p
  BY DEF Cut
<1> HIDE DEF q
<1>3. q * p = p * q /\ p * q \in Int
  BY <1>1
<1> QED
  BY <1>1, <1>2, <1>3

(* The digits of a word in each size, and what is left of it when bytes    *)
(* are lost.                                                               *)
LEMMA DigitsAndCuts ==
  ASSUME NEW a \in Bytes, NEW b \in Bytes, NEW c \in Bytes, NEW d \in Bytes,
         NEW v, v = Spelled(a, b, c, d)
  PROVE  /\ Digit(v, 1, 0) = d /\ Digit(v, 2, 1) = d /\ Digit(v, 4, 3) = d
         /\ Digit(v, 2, 0) = c /\ Digit(v, 4, 2) = c
         /\ Digit(v, 4, 1) = b /\ Digit(v, 4, 0) = a
         /\ v % Power[1] = d
         /\ v % Power[2] = c * Power[1] + d
         /\ Cut(v % Power[2], Power[1]) = c * Power[1]
         /\ v % Power[4] = a * Power[3] + b * Power[2] + c * Power[1] + d
         /\ Cut(v % Power[4], Power[1]) = a * Power[3] + b * Power[2] + c * Power[1]
         /\ Cut(v % Power[4], Power[2]) = a * Power[3] + b * Power[2]
         /\ Cut(v % Power[4], Power[3]) = a * Power[3]
<1> DEFINE p == Power[1]
           q == Power[2]
           s == Power[3]
<1>1. /\ p = Radix /\ p \in Nat /\ q \in Nat /\ s \in Nat /\ p > 0 /\ q > 0 /\ s > 0
  BY PowersOK
<1>2. /\ a \in 0 .. p - 1 /\ b \in 0 .. p - 1 /\ c \in 0 .. p - 1 /\ d \in 0 .. p - 1
      /\ a \in Int /\ b \in Int /\ c \in Int /\ d \in Int
  BY MemoryAssumption, <1>1 DEF Bytes
<1> HIDE DEF p, q, s
<1>3. /\ v % p = d /\ v \div p = (a * p + b) * p + c
      /\ v % q = c * p + d /\ v \div q = a * p + b
      /\ v \div s = a /\ v % Power[4] = v
      /\ v = a * s + b * q + c * p + d
      /\ v \in Int
  BY <1>1, Cuts DEF p, q, s
<1>4. /\ a * s \in Int /\ b * q \in Int /\ c * p \in Int
      /\ a * p + b \in Int
  BY <1>1, <1>2
<1>5. /\ ((a * p + b) * p + c) % p = c
      /\ (a * p + b) % p = b
      /\ a % p = a
  BY <1>1, <1>2, <1>4, Quotient, Remainder
<1>6. /\ Digit(v, 1, 0) = v % p /\ Digit(v, 2, 1) = v % p /\ Digit(v, 4, 3) = v % p
      /\ Digit(v, 2, 0) = (v \div p) % p /\ Digit(v, 4, 2) = (v \div p) % p
      /\ Digit(v, 4, 1) = (v \div q) % p /\ Digit(v, 4, 0) = (v \div s) % p
  BY <1>1 DEF Digit, p, q, s
<1>7. Cut(c * p + d, p) = c * p
  BY <1>1, <1>2, Quotient DEF Cut
<1>8. Cut(v, p) = v - d /\ Cut(v, q) = v - (c * p + d)
  BY <1>1, <1>3, CutRest
<1>9. Cut(v, s) = a * s
  BY <1>3 DEF Cut
<1> QED
  BY <1>2, <1>3, <1>4, <1>5, <1>6, <1>7, <1>8, <1>9 DEF p, q, s

(* A read finds what a write of the same size put there.                   *)
LEMMA ReadBack ==
  ASSUME NEW m \in Memories, NEW address \in Values, NEW size \in Sizes,
         NEW value \in Values
  PROVE  GetValue(SetValue(m, address, size, value), address, size)
           = Fitting(address, size, value)
<1> DEFINE n == SetValue(m, address, size, value)
           B(i) == Byte(n, address, i)
<1>1. PICK k \in 0 .. size : Reached(address, size) = 0 .. k - 1
  BY ReachedCount
<1>2. PICK a \in Bytes, b \in Bytes, c \in Bytes, d \in Bytes :
        value = Spelled(a, b, c, d)
  BY WordSpelled
<1>3. address \in Int /\ value \in Int /\ size \in {1, 2, 4}
  BY WordSpacePositive DEF Values, Sizes, BYTE_SIZE, HALF_SIZE, WORD_SIZE
<1>4. n \in Memories
  BY <1>3, SetOK
<1>5. \A i \in 0 .. size - 1 : B(i) = IF i < k THEN Digit(value, size, i) ELSE 0
  <2>1. \A i \in 0 .. size - 1 : i \in 0 .. k - 1 <=> i < k
    BY <1>3
  <2> QED
    BY <1>1, <1>3, <2>1, BytesStored
<1>6. /\ GetValue(n, address, 1) = B(0)
      /\ GetValue(n, address, 2) = B(0) * Power[1] + B(1)
      /\ GetValue(n, address, 4) = B(0) * Power[3] + B(1) * Power[2]
                                   + B(2) * Power[1] + B(3)
  BY <1>3, <1>4, GetByBytes
<1>7. Fitting(address, size, value)
        = IF k = size THEN value % Power[size]
          ELSE IF k = 0 THEN 0
          ELSE Cut(value % Power[size], Power[size - k])
  BY <1>1, FittingBytes
<1>8. /\ a * Power[3] \in Int /\ b * Power[2] \in Int /\ c * Power[1] \in Int /\ d \in Int
      /\ 0 * Power[1] = 0 /\ 0 * Power[2] = 0 /\ 0 * Power[3] = 0
  <2>1. a \in Int /\ b \in Int /\ c \in Int /\ d \in Int
    BY MemoryAssumption DEF Bytes
  <2>2. Power[1] \in Int /\ Power[2] \in Int /\ Power[3] \in Int
    BY PowersOK
  <2>3. \A x, y \in Int : x * y \in Int /\ 0 * x = 0
    OBVIOUS
  <2> QED
    BY <2>1, <2>2, <2>3
<1> SUFFICES GetValue(n, address, size) = Fitting(address, size, value)
  OBVIOUS
<1> HIDE DEF B, n
<1>9. CASE size = 1
  <2>1. CASE k = 1
    BY <1>2, <1>5, <1>6, <1>7, <1>9, <2>1, DigitsAndCuts
  <2>2. CASE k = 0
    BY <1>5, <1>6, <1>7, <1>9, <2>2
  <2> QED
    BY <1>9, <2>1, <2>2
<1>10. CASE size = 2
  <2>1. CASE k = 2
    BY <1>2, <1>5, <1>6, <1>7, <1>10, <2>1, DigitsAndCuts
  <2>2. CASE k = 1
    <3>1. B(0) = c /\ B(1) = 0
      BY <1>2, <1>5, <1>10, <2>2, DigitsAndCuts
    <3>2. Fitting(address, size, value) = c * Power[1]
      BY <1>2, <1>7, <1>10, <2>2, DigitsAndCuts
    <3> QED
      BY <1>6, <1>8, <1>10, <3>1, <3>2
  <2>3. CASE k = 0
    <3>1. B(0) = 0 /\ B(1) = 0
      BY <1>5, <1>10, <2>3
    <3> QED
      BY <1>6, <1>7, <1>8, <1>10, <2>3, <3>1
  <2> QED
    BY <1>10, <2>1, <2>2, <2>3
<1>11. CASE size = 4
  <2>1. CASE k = 4
    <3>1. B(0) = a /\ B(1) = b /\ B(2) = c /\ B(3) = d
      BY <1>2, <1>5, <1>11, <2>1, DigitsAndCuts
    <3> QED
      BY <1>2, <1>6, <1>7, <1>11, <2>1, <3>1, DigitsAndCuts
  <2>2. CASE k = 3
    <3>1. B(0) = a /\ B(1) = b /\ B(2) = c /\ B(3) = 0
      BY <1>2, <1>5, <1>11, <2>2, DigitsAndCuts
    <3>2. Fitting(address, size, value)
            = a * Power[3] + b * Power[2] + c * Power[1]
      BY <1>2, <1>7, <1>11, <2>2, DigitsAndCuts
    <3> QED
      BY <1>6, <1>8, <1>11, <3>1, <3>2
  <2>3. CASE k = 2
    <3>1. B(0) = a /\ B(1) = b /\ B(2) = 0 /\ B(3) = 0
      BY <1>2, <1>5, <1>11, <2>3, DigitsAndCuts
    <3>2. Fitting(address, size, value) = a * Power[3] + b * Power[2]
      BY <1>2, <1>7, <1>11, <2>3, DigitsAndCuts
    <3> QED
      BY <1>6, <1>8, <1>11, <3>1, <3>2
  <2>4. CASE k = 1
    <3>1. B(0) = a /\ B(1) = 0 /\ B(2) = 0 /\ B(3) = 0
      BY <1>2, <1>5, <1>11, <2>4, DigitsAndCuts
    <3>2. Fitting(address, size, value) = a * Power[3]
      BY <1>2, <1>7, <1>11, <2>4, DigitsAndCuts
    <3> QED
      BY <1>6, <1>8, <1>11, <3>1, <3>2
  <2>5. CASE k = 0
    <3>1. B(0) = 0 /\ B(1) = 0 /\ B(2) = 0 /\ B(3) = 0
      BY <1>5, <1>11, <2>5
    <3> QED
      BY <1>6, <1>7, <1>8, <1>11, <2>5, <3>1
  <2> QED
    BY <1>11, <2>1, <2>2, <2>3, <2>4, <2>5
<1> QED
  BY <1>3, <1>9, <1>10, <1>11
-----------------------------------------------------------------------------
(* Dividing with a remainder.                                              *)
LEMMA Division ==
  ASSUME NEW n \in Nat, n > 0, NEW x \in Int
  PROVE  /\ x \div n \in Int
         /\ x % n \in 0 .. n - 1
         /\ x = (x \div n) * n + (x % n)
  OBVIOUS

(* A remainder may be taken before an addition.                            *)
LEMMA RemainderOfSum ==
  ASSUME NEW n \in Nat, n > 0, NEW x \in Int, NEW y \in Int
  PROVE  ((x % n) + y) % n = (x + y) % n
<1> DEFINE r == x % n
           q == x \div n
           z == r + y
           p == z \div n
           s == z % n
<1>1. q \in Int /\ r \in Int /\ x = q * n + r
  BY Division
<1>2. z \in Int
  BY <1>1
<1> HIDE DEF z
<1>3. p \in Int /\ s \in 0 .. n - 1 /\ z = p * n + s
  BY <1>2, Division
<1> HIDE DEF q, r, p, s
<1>4. x + y = (q + p) * n + s
  BY <1>1, <1>3, Products DEF z
<1>5. q + p \in Int
  BY <1>1, <1>3
<1>6. ((q + p) * n + s) % n = s
  BY <1>3, <1>5, Quotient
<1>7. (x + y) % n = s
  BY <1>4, <1>6
<1> QED
  BY <1>7 DEF s, z, r

(* The cells at an address so many bytes after another.                    *)
LEMMA CellAfter ==
  ASSUME NEW a \in Int, NEW k \in Int, NEW i \in Int
  PROVE  Cell((a + k) % WordSpace, i) = ((Cell(a, 0) + k) + i) % WordSpace
<1> DEFINE n == WordSpace
           r == (a - startAddr) % n
<1>1. n \in Nat /\ n > 0 /\ startAddr \in Int
  BY WordSpacePositive, MemoryAssumption DEF Values
<1> HIDE DEF n
<1>2. a - startAddr \in Int /\ a + k \in Int /\ k - startAddr \in Int
  BY <1>1
<1>3. r \in 0 .. n - 1 /\ r \in Int
  BY <1>1, <1>2, Division
<1>4. Cell(a, 0) = r
  <2>1. (r + 0) % n = r
    <3> HIDE DEF r
    <3>1. r + 0 = r
      BY <1>3
    <3> QED
      BY <1>1, <1>3, <3>1, Remainder
  <2> QED
    BY <2>1 DEF Cell, n
<1>5. (((a + k) % n) - startAddr) % n = (r + k) % n
  <2>1. -startAddr \in Int
    BY <1>1
  <2>2. (((a + k) % n) + (-startAddr)) % n = ((a + k) + (-startAddr)) % n
    BY <1>1, <1>2, <2>1, RemainderOfSum
  <2>3. (r + k) % n = ((a - startAddr) + k) % n
    BY <1>1, <1>2, RemainderOfSum
  <2>4. (a + k) % n \in Int
    BY <1>1, <1>2, Division
  <2>5. /\ ((a + k) % n) + (-startAddr) = ((a + k) % n) - startAddr
        /\ (a + k) + (-startAddr) = (a - startAddr) + k
    BY <1>1, <2>4
  <2> QED
    BY <2>2, <2>3, <2>5
<1>6. (((r + k) % n) + i) % n = ((r + k) + i) % n
  <2>1. r + k \in Int
    BY <1>3
  <2> QED
    BY <1>1, <2>1, RemainderOfSum
<1> QED
  BY <1>4, <1>5, <1>6 DEF Cell, n

(* Where a cell lies in the range of an access.                            *)
LEMMA CellIndex ==
  ASSUME NEW a \in Int, NEW i \in 0 .. 3, NEW c \in Cells
  PROVE  c = Cell(a, i) <=> (c - Cell(a, 0)) % WordSpace = i
<1> DEFINE n == WordSpace
           f == Cell(a, 0)
<1>1. n \in Nat /\ n >= 16
  BY WordSpaceLarge
<1>2. f \in 0 .. n - 1 /\ f = (a - startAddr) % n
  <2>1. (a - startAddr) % WordSpace \in 0 .. WordSpace - 1
    BY PowersOK, MemoryAssumption, Remainder DEF Values
  <2> QED
    BY <2>1, PowersOK, Remainder DEF Cell
<1>3. c \in 0 .. n - 1
  BY PowersOK, MemoryAssumption DEF Cells
<1>4. Cell(a, i) = (f + i) % n
  BY <1>2 DEF Cell
<1>5. \A x \in Int :
        /\ x \in 0 .. n - 1 => x % n = x
        /\ x \in n .. n + n - 1 => x % n = x - n
        /\ x \in -n .. -1 => x % n = x + n
  BY WordSpacePositive, Remainder
<1> HIDE DEF n, f
<1>6. (f + i) % n = IF f + i < n THEN f + i ELSE f + i - n
  <2>1. CASE f + i < n
    <3>1. f + i \in 0 .. n - 1
      BY <1>1, <1>2, <2>1
    <3> QED
      BY <1>5, <2>1, <3>1
  <2>2. CASE ~(f + i < n)
    <3>1. f + i \in n .. n + n - 1 /\ f + i \in Int
      BY <1>1, <1>2, <2>2
    <3>2. (f + i) % n = f + i - n
      BY <1>1, <1>2, <1>5, <3>1
    <3> QED
      BY <2>2, <3>2
  <2> QED
    BY <2>1, <2>2
<1>7. (c - f) % n = IF f <= c THEN c - f ELSE c - f + n
  <2>1. CASE f <= c
    <3>1. c - f \in 0 .. n - 1
      BY <1>1, <1>2, <1>3, <2>1
    <3> QED
      BY <1>5, <2>1, <3>1
  <2>2. CASE ~(f <= c)
    <3>1. c - f \in -n .. -1
      BY <1>1, <1>2, <1>3, <2>2
    <3> QED
      BY <1>5, <2>2, <3>1
  <2> QED
    BY <2>1, <2>2
<1>8. c = (IF f + i < n THEN f + i ELSE f + i - n)
        <=> (IF f <= c THEN c - f ELSE c - f + n) = i
  BY <1>1, <1>2, <1>3
<1> QED
  BY <1>4, <1>6, <1>7, <1>8 DEF n, f

(* A word that fits covers its four bytes and no other.                    *)
LEMMA WordStored ==
  ASSUME NEW m \in Memories, NEW a \in Int, NEW value \in Int, NEW c \in Cells,
         Succeeds(a, WORD_SIZE)
  PROVE  SetValue(m, a, WORD_SIZE, value)[c]
           = IF c \in {Cell(a, i) : i \in 0 .. WORD_SIZE - 1}
             THEN Digit(value, WORD_SIZE, (c - Cell(a, 0)) % WordSpace)
             ELSE m[c]
<1>1. Reached(a, WORD_SIZE) = 0 .. 3
  BY DEF Succeeds, WORD_SIZE
<1>2. (c - Cell(a, 0)) % WordSpace \in 0 .. 3
        <=> c \in {Cell(a, i) : i \in 0 .. WORD_SIZE - 1}
  BY CellIndex DEF WORD_SIZE
<1> QED
  BY <1>1, <1>2 DEF SetValue

(* The address of a cell, and the cell of an address.                      *)
LEMMA AddressOfCell ==
  ASSUME NEW a \in Values, NEW c \in Cells
  PROVE  c = Cell(a, 0) <=> (c + startAddr) % WordSpace = a
<1> DEFINE n == WordSpace
<1>1. /\ n \in Nat /\ n >= 16 /\ a \in 0 .. n - 1 /\ startAddr \in 0 .. n - 1
      /\ c \in 0 .. n - 1
  BY WordSpaceLarge, MemoryAssumption DEF Values, Cells
<1>2. \A x \in Int :
        /\ x \in 0 .. n - 1 => x % n = x
        /\ x \in n .. n + n - 1 => x % n = x - n
        /\ x \in -n .. -1 => x % n = x + n
  BY WordSpacePositive, Remainder
<1>3. Cell(a, 0) = (((a - startAddr) % n) + 0) % n
  BY DEF Cell
<1> HIDE DEF n
<1>4. (a - startAddr) % n = IF startAddr <= a THEN a - startAddr ELSE a - startAddr + n
  <2>1. CASE startAddr <= a
    <3>1. a - startAddr \in 0 .. n - 1
      BY <1>1, <2>1
    <3> QED
      BY <1>2, <2>1, <3>1
  <2>2. CASE ~(startAddr <= a)
    <3>1. a - startAddr \in -n .. -1
      BY <1>1, <2>2
    <3> QED
      BY <1>2, <2>2, <3>1
  <2> QED
    BY <2>1, <2>2
<1>5. Cell(a, 0) = IF startAddr <= a THEN a - startAddr ELSE a - startAddr + n
  <2> DEFINE d == IF startAddr <= a THEN a - startAddr ELSE a - startAddr + n
  <2>1. d \in 0 .. n - 1
    BY <1>1
  <2> HIDE DEF d
  <2>2. (d + 0) % n = d
    BY <1>2, <2>1
  <2> QED
    BY <1>3, <1>4, <2>2 DEF d
<1>6. (c + startAddr) % n = IF c + startAddr < n THEN c + startAddr ELSE c + startAddr - n
  <2>1. CASE c + startAddr < n
    <3>1. c + startAddr \in 0 .. n - 1
      BY <1>1, <2>1
    <3> QED
      BY <1>2, <2>1, <3>1
  <2>2. CASE ~(c + startAddr < n)
    <3>1. c + startAddr \in n .. n + n - 1 /\ c + startAddr \in Int
      BY <1>1, <2>2
    <3>2. (c + startAddr) % n = c + startAddr - n
      BY <1>1, <1>2, <3>1
    <3> QED
      BY <2>2, <3>2
  <2> QED
    BY <2>1, <2>2
<1>7. c = (IF startAddr <= a THEN a - startAddr ELSE a - startAddr + n)
        <=> (IF c + startAddr < n THEN c + startAddr ELSE c + startAddr - n) = a
  BY <1>1
<1> QED
  BY <1>5, <1>6, <1>7 DEF n

(* Storing a byte whose value is cut to a word first.                      *)
LEMMA ByteOfWord ==
  ASSUME NEW x \in Int
  PROVE  (x % WordSpace) % Radix = x % Radix
<1> DEFINE n == WordSpace
           p == Power[3]
           q == x \div n
           w == x % n
           s == w \div Radix
           t == w % Radix
<1>1. n = Radix * p /\ n \in Nat /\ n > 0 /\ p \in Nat /\ Radix \in Nat /\ Radix > 1
  BY PowersOK, MemoryAssumption DEF WordSpace
<1>2. q \in Int /\ w \in Int /\ x = q * n + w
  <2> HIDE DEF n
  <2>1. q \in Int /\ w \in 0 .. n - 1 /\ x = q * n + w
    BY <1>1, Division
  <2> QED
    BY <1>1, <2>1
<1>3. s \in Int /\ t \in 0 .. Radix - 1 /\ w = s * Radix + t
  <2> HIDE DEF w
  <2> QED
    BY <1>1, <1>2, Division
<1> HIDE DEF n, p, q, w, s, t
<1>4. x = (q * p + s) * Radix + t
  <2>1. q * n = (q * p) * Radix
    <3>1. q * n = q * (p * Radix)
      BY <1>1, <1>2, Products
    <3> QED
      BY <1>1, <1>2, <3>1, Products
  <2>2. q * p \in Int
    BY <1>1, <1>2
  <2>3. \A u \in Int : (u + s) * Radix = u * Radix + s * Radix
    BY <1>1, <1>3
  <2>4. (q * p) * Radix \in Int /\ s * Radix \in Int
    BY <1>1, <1>3, <2>2
  <2>5. x = ((q * p) * Radix + s * Radix) + t
    BY <1>2, <1>3, <2>1, <2>4
  <2> QED
    BY <2>2, <2>3, <2>5
<1>5. q * p + s \in Int
  BY <1>1, <1>2, <1>3
<1>6. x % Radix = t
  <2> DEFINE u == q * p + s
  <2>1. u \in Int /\ x = u * Radix + t
    BY <1>4, <1>5
  <2> HIDE DEF u
  <2>2. (u * Radix + t) % Radix = t
    BY <1>1, <1>3, <2>1, Quotient
  <2> QED
    BY <2>1, <2>2
<1> QED
  BY <1>6 DEF t, w, n
=============================================================================
