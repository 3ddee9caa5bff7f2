---------------------------- MODULE MemoryStore ----------------------------
(***************************************************************************)
(* The memory of a simulator, from its constructor on: memArr is zeroed,   *)
(* prepareMemory reads the file init_mem_image word by word, loadFromFile  *)
(* copies the program byte by byte, then the emulator reads and writes it, *)
(* and in the end it is dumped.  Errors of single writes while a program   *)
(* is loaded, and a program file that cannot be opened, are only reported  *)
(* on the console.                                                         *)
(***************************************************************************)
EXTENDS MemoryOps, Sequences

CONSTANTS Images,          \* contents of init_mem_image: addresses and words
          Programs,        \* contents of program files: bytes, as char
          NoFile,          \* a file that does not exist
          Accesses,        \* the addresses and
          Stored           \* the values of later reads and writes

(* char is signed where the simulators are built (x86).  The length of a   *)
(* program is an int, so that all its bytes have addresses.                *)
Chars == -(Radix \div 2) .. Radix - 1 - (Radix \div 2)

ASSUME FilesAssumption ==
  /\ \A image \in Images \ {NoFile} :
        image \in Seq([address : Values, value : Values])
  /\ \A program \in Programs \ {NoFile} :
        program \in Seq(Chars) /\ Len(program) < WordSpace
ASSUME AccessesAssumption == Accesses \subseteq Values /\ Stored \subseteq Values

VARIABLES memory,          \* memArr
          image, program,  \* the files as they are on the disk
          phase,           \* what the simulator has come to
          next,            \* the entry of the image or byte of the program
          last             \* the last read or write, when ready

vars == <<memory, image, program, phase, next, last>>

NoAccess == [op |-> "none"]
Access == [op : {"get", "set"}, address : Values, size : Sizes, value : Values]

Init ==
  /\ memory = [c \in Cells |-> 0]
  /\ image \in Images
  /\ program \in Programs
  /\ phase = "prepare"
  /\ next = 1
  /\ last = NoAccess
-----------------------------------------------------------------------------
(* A word of the image is written; prepareMemory gives up, and the assert  *)
(* of the constructor ends the simulator, if that fails.                   *)
PrepareWord ==
  /\ phase = "prepare" /\ image # NoFile
  /\ next <= Len(image)
  /\ LET entry == image[next]
     IN  /\ memory' = SetValue(memory, entry.address, WORD_SIZE, entry.value)
         /\ phase' = IF Succeeds(entry.address, WORD_SIZE)
                     THEN "prepare" ELSE "aborted"
  /\ next' = next + 1
  /\ UNCHANGED <<image, program, last>>

(* The stream turns false only by a read past the last word: the loop has  *)
(* one more round, which stores the zeros it has initialized addr and      *)
(* curVal with.                                                            *)
PrepareEnd ==
  /\ phase = "prepare" /\ image # NoFile
  /\ next > Len(image)
  /\ memory' = SetValue(memory, 0, WORD_SIZE, 0)
  /\ phase' = IF Succeeds(0, WORD_SIZE) THEN "load" ELSE "aborted"
  /\ next' = 0
  /\ UNCHANGED <<image, program, last>>

(* Without an image nothing is done.                                       *)
PrepareNothing ==
  /\ phase = "prepare" /\ image = NoFile
  /\ phase' = "load"
  /\ next' = 0
  /\ UNCHANGED <<memory, image, program, last>>

(* Mutant: the program is placed where memArr starts to count from one.    *)
LoadByteShifted ==
  /\ phase = "load" /\ program # NoFile
  /\ next < Len(program)
  /\ memory' = SetValue(memory, next + 1, BYTE_SIZE, program[next + 1] % WordSpace)
  /\ next' = next + 1
  /\ UNCHANGED <<image, program, phase, last>>

(* The result of setMemValue is ignored: bytes that do not fit are lost.   *)
LoadByte ==
  /\ phase = "load" /\ program # NoFile
  /\ next < Len(program)
  /\ memory' = SetValue(memory, next, BYTE_SIZE, program[next + 1] % WordSpace)
  /\ next' = next + 1
  /\ UNCHANGED <<image, program, phase, last>>

LoadEnd ==
  /\ phase = "load" /\ program # NoFile
  /\ next = Len(program)
  /\ phase' = "ready"
  /\ UNCHANGED <<memory, image, program, next, last>>

(* The error is returned to a constructor that ignores it.                 *)
LoadNothing ==
  /\ phase = "load" /\ program = NoFile
  /\ phase' = "ready"
  /\ UNCHANGED <<memory, image, program, next, last>>

Get(address, size) ==
  /\ phase = "ready"
  /\ last' = [op |-> "get", address |-> address, size |-> size,
              value |-> GetValue(memory, address, size)]
  /\ UNCHANGED <<memory, image, program, phase, next>>

Set(address, size, value) ==
  /\ phase = "ready"
  /\ memory' = SetValue(memory, address, size, value)
  /\ last' = [op |-> "set", address |-> address, size |-> size, value |-> value]
  /\ UNCHANGED <<image, program, phase, next>>

(* Everything up to the dump.                                              *)
Running ==
  \/ PrepareWord \/ PrepareEnd \/ PrepareNothing
  \/ LoadByte \/ LoadEnd \/ LoadNothing
  \/ \E address \in Accesses, size \in Sizes : Get(address, size)
  \/ \E address \in Accesses, size \in Sizes, value \in Stored :
        Set(address, size, value)

(* The simulation has halted: the memory is only dumped from now on.       *)
Finish ==
  /\ phase = "ready"
  /\ phase' = "finished"
  /\ last' = NoAccess
  /\ UNCHANGED <<memory, image, program, next>>

Next == Running \/ Finish

Spec == Init /\ [][Next]_vars
-----------------------------------------------------------------------------
(* The array keeps its size and every cell a byte, whatever the addresses, *)
(* values and signed characters written (MemoryStore.h:22-23).             *)
TypeOK ==
  /\ memory \in Memories
  /\ phase \in {"prepare", "aborted", "load", "ready", "finished"}
  /\ next \in Nat
  /\ last \in Access \union {NoAccess}

(* What a byte should be when the constructor returns: that of the program *)
(* where it reaches, else that of the last word of the image that covers   *)
(* it, else zero.                                                          *)
Covering(c) ==
  IF image = NoFile THEN {}
  ELSE {k \in 1 .. Len(image) :
          c \in {Cell(image[k].address, i) : i \in 0 .. WORD_SIZE - 1}}

Given(c) ==
  LET address == (c + startAddr) % WordSpace
  IN  IF program # NoFile /\ address < Len(program)
      THEN program[address + 1] % Radix
      ELSE IF Covering(c) # {}
      THEN LET k == CHOOSE k \in Covering(c) : \A j \in Covering(c) : j <= k
           IN  Digit(image[k].value, WORD_SIZE,
                     (c - Cell(image[k].address, 0)) % WordSpace)
      ELSE 0

Loaded == phase = "ready" /\ last.op = "none"

(* A simulator starts with the program in place and, beyond the program,   *)
(* the image; an image is loaded as a whole or there is no memory at all   *)
(* (MemoryStore.cpp:12-57, 100-125).  An image of the word at address 0 is *)
(* the exception that ImageLoaded is about.                                *)
LoadedAsGiven ==
  Loaded => \A c \in Cells :
               \/ memory[c] = Given(c)
               \/ memory[c] = 0 /\ Covering(c) # {}
                  /\ c \in {Cell(0, i) : i \in 0 .. WORD_SIZE - 1}

(* "If we can't initialise memory appropriately, don't return a            *)
(* MemoryStore at all" (MemoryStore.cpp:18-19): the memory that is         *)
(* returned holds every word of the image that the program leaves alone.   *)
(* The round of the loop behind the last word breaks it for address 0.     *)
ImageLoaded == Loaded => \A c \in Cells : memory[c] = Given(c)

(* Reads of different sizes agree: a word is its two halves and a half its *)
(* two bytes, the more significant at the lower address, up to the end of  *)
(* memArr and across it (MemoryStore.cpp:72-79).                           *)
SizesAgree ==
  \A a \in Accesses :
    LET read(address, size) == GetValue(memory, address % WordSpace, size)
    IN  /\ Reached(a, 1) # {} =>
             read(a, HALF_SIZE) = Radix * read(a, BYTE_SIZE)
                                  + read(a + 1, BYTE_SIZE)
        /\ Reached(a, 1) # {} =>
             read(a, WORD_SIZE) = Power[2] * read(a, HALF_SIZE)
               + (IF Succeeds(a, HALF_SIZE)
                  THEN read(a + 2, HALF_SIZE) ELSE 0)

(* A write and a read of the same size at the same address agree, although *)
(* each shifts for itself: what was written, cut to the size, comes back,  *)
(* and of a write that fails the bytes up to the end of memArr             *)
(* (MemoryStore.cpp:73-87).                                                *)
StoreReadsBack ==
  last.op = "set" =>
    LET size  == last.size
        done  == {i \in 0 .. size - 1 : i \in Reached(last.address, size)}
        cut   == last.value % Power[size]
        lost  == {i \in 1 .. size : done = 0 .. size - 1 - i}
    IN  GetValue(memory, last.address, size)
          = IF Succeeds(last.address, size) THEN cut
            ELSE IF done = {} THEN 0
            ELSE LET l == CHOOSE l \in lost : TRUE
                 IN  (cut \div Power[l]) * Power[l]

(* No write, failed or not, changes a byte outside the range it names, and *)
(* a read changes none (MemoryStore.cpp:59-90).                            *)
StoreIsLocal ==
  [][phase = "ready" =>
       \A c \in Cells :
         memory'[c] # memory[c] =>
           /\ last'.op = "set"
           /\ c \in {Cell(last'.address, i) : i \in 0 .. last'.size - 1}]_vars
=============================================================================
