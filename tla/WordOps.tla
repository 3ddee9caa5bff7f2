------------------------------ MODULE WordOps ------------------------------
(***************************************************************************)
(* Machine words as numbers below WordSpace, read as unsigned or as two's  *)
(* complement, and what the instructions of emulator.cpp compute of them.  *)
(***************************************************************************)
EXTENDS MemoryOps, Opcodes

CONSTANT WordBits          \* 2 ^ WordBits is WordSpace (32)

ASSUME WordAssumption == WordBits \in Nat /\ 2 ^ WordBits = WordSpace

HalfSpace == Power[2]
Immediates == 0 .. HalfSpace - 1

(* uint32_t arithmetic wraps around.                                       *)
Wrap(n) == n % WordSpace

(* The cast to int32_t.                                                    *)
Signed(v) == IF 2 * v >= WordSpace THEN v - WordSpace ELSE v

signExt(imm) == IF 2 * imm >= HalfSpace THEN imm + WordSpace - HalfSpace ELSE imm

Positions == 0 .. WordBits - 1
Bits(v) == {k \in Positions : (v \div 2 ^ k) % 2 = 1}

(* The word whose bits are S.                                              *)
OfBits(S) == LET words == {v \in Values : Bits(v) = S}
             IN  CHOOSE v \in Values : words # {} => v \in words

Indicator(b) == IF b THEN 1 ELSE 0

(* The value an operation writes, for the value a of rs, the value b of rt *)
(* or the immediate as the instruction extends it, and shamt.              *)
Result(op, a, b, shamt) ==
  CASE op \in {"add", "addu", "addi", "addiu"} -> Wrap(a + b)
    [] op \in {"sub", "subu"}                  -> Wrap(a - b)
    [] op \in {"and", "andi"}                  -> OfBits(Bits(a) \intersect Bits(b))
    [] op \in {"or", "ori"}                    -> OfBits(Bits(a) \union Bits(b))
    [] op = "nor"    -> OfBits(Positions \ (Bits(a) \union Bits(b)))
    [] op \in {"slt", "slti"}                  -> Indicator(Signed(a) < Signed(b))
    [] op \in {"sltu", "sltiu"}                -> Indicator(a < b)
    [] op = "sll"    -> OfBits({k \in Positions : k - shamt \in Bits(b)})
    [] op = "srl"    -> OfBits({k \in Positions : k + shamt \in Bits(b)})
    [] op = "lui"    -> b * HalfSpace
-----------------------------------------------------------------------------
SizeOf(op) == CASE op \in {"lbu", "sb"} -> BYTE_SIZE
                [] op \in {"lhu", "sh"} -> HALF_SIZE
                [] op \in {"lw", "sw"}  -> WORD_SIZE
=============================================================================
