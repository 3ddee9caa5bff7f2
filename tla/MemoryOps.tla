----------------------------- MODULE MemoryOps -----------------------------
(***************************************************************************)
(* What MemoryStore::getOrSetValue computes: big-endian reads and writes   *)
(* of one, two or four bytes in the byte array memArr.                     *)
(***************************************************************************)
EXTENDS Integers

CONSTANTS Radix,           \* the number of values of a byte (256)
          NumEntries,      \* the size of memArr (MEMORY_SIZE)
          startAddr        \* the address of memArr[0]

Bytes == 0 .. Radix - 1
Power == <<Radix, Radix * Radix, Radix * Radix * Radix,
           Radix * Radix * Radix * Radix>>

(* An address, like the value of a register, is a word (uint32_t).         *)
WordSpace == Power[4]
Values == 0 .. WordSpace - 1

BYTE_SIZE == 1
HALF_SIZE == 2
WORD_SIZE == 4
Sizes == {BYTE_SIZE, HALF_SIZE, WORD_SIZE}

ASSUME MemoryAssumption ==
  /\ Radix \in Nat /\ Radix > 1
  /\ NumEntries \in Nat /\ NumEntries < WordSpace
  /\ startAddr \in Values

Cells == 0 .. NumEntries - 1
Memories == [Cells -> Bytes]
-----------------------------------------------------------------------------
(* relativeAddr + i, in uint32_t.                                          *)
Cell(address, i) == (((address - startAddr) % WordSpace) + i) % WordSpace

(* The bytes of an access that are reached before memArr.at throws.        *)
Reached(address, size) ==
  {i \in 0 .. size - 1 : \A j \in 0 .. i : Cell(address, j) \in Cells}

Succeeds(address, size) == Reached(address, size) = 0 .. size - 1

(* Byte i of a value of size bytes, the most significant first, and the    *)
(* value of such a byte.  Mutant: the upper bytes are not masked.          *)
DigitUncut(value, size, i) ==
  IF i = size - 1 THEN value ELSE value \div Power[size - 1 - i]

Digit(value, size, i) ==
  (IF i = size - 1 THEN value ELSE value \div Power[size - 1 - i]) % Radix
Weigh(byte, size, i) ==
  IF i = size - 1 THEN byte ELSE byte * Power[size - 1 - i]

(* Mutant: the least significant byte is stored first.                     *)
SetLittleEndian(memory, address, size, value) ==
  [c \in Cells |-> LET i == (c - Cell(address, 0)) % WordSpace
                   IN  IF i \in Reached(address, size)
                       THEN Digit(value, size, size - 1 - i) ELSE memory[c]]

(* Mutant: a whole word is stored whatever the size.                       *)
SetWord(memory, address, size, value) ==
  [c \in Cells |-> LET i == (c - Cell(address, 0)) % WordSpace
                   IN  IF i \in Reached(address, WORD_SIZE)
                       THEN Digit(value, size, IF i < size THEN i ELSE size - 1)
                       ELSE memory[c]]

(* A write stores the bytes it reaches, also when it fails later.          *)
SetValue(memory, address, size, value) ==
  [c \in Cells |-> LET i == (c - Cell(address, 0)) % WordSpace
                   IN  IF i \in Reached(address, size)
                       THEN Digit(value, size, i) ELSE memory[c]]

(* Mutant: the bytes of a half are read in the wrong order.                *)
GetSwappedHalf(memory, address, size) ==
  LET part(i) == IF i \in Reached(address, size)
                 THEN Weigh(memory[Cell(address, i)], size,
                            IF size = HALF_SIZE THEN 1 - i ELSE i)
                 ELSE 0
  IN  part(0) + part(1) + part(2) + part(3)

(* A read returns the bytes it reaches, zeros for the others.              *)
GetValue(memory, address, size) ==
  LET part(i) == IF i \in Reached(address, size)
                 THEN Weigh(memory[Cell(address, i)], size, i) ELSE 0
  IN  part(0) + part(1) + part(2) + part(3)
=============================================================================
