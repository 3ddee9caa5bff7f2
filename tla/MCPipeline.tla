----------------------------- MODULE MCPipeline -----------------------------
(***************************************************************************)
(* Instances of the pipeline.  The instruction mixes hold, for every row   *)
(* of the stall table, a pair that depends on each other.                  *)
(***************************************************************************)
EXTENDS PipelineProperties

Word(op, rs, rt, rd) == [op |-> op, rs |-> rs, rt |-> rt, rd |-> rd]

Info(word, address) ==
  [instruction |-> word, pc |-> 0, address |-> address,
   isOverflow |-> FALSE, isValid |-> TRUE, isHalt |-> FALSE]

(* lw $1, A; sw $1, B; lbu $2 with address 0xFFFFFFFF; lw $2, ($1);        *)
(* add $3, $2, $1; beq $3, $1; addi $1, $3; a jump; 0xfeedfeed.            *)
Load     == Info(Word("lw", 4, 1, 0), 0)
Store    == Info(Word("sw", 4, 1, 0), 1)
TopLoad  == Info(Word("lbu", 4, 2, 0), NoAddress)
PointerLoad == Info(Word("lw", 1, 2, 0), 1)
Add      == Info(Word("add", 2, 1, 3), 0)
Branch   == Info(Word("beq", 3, 1, 0), 0)
AddImm   == Info(Word("addi", 3, 1, 0), 0)
Jump     == Info(Word("j", 0, 0, 0), 0)
Halt     == [Info(Word("halt", 31, 13, 31), 0) EXCEPT !.isHalt = TRUE]
Overflow == [Add EXCEPT !.isOverflow = TRUE]
Illegal  == [Info(Word("illegal opcode", 0, 0, 0), 0) EXCEPT !.isValid = FALSE]

(* Each of them at either of two addresses: a fetch may hit or miss.       *)
Anywhere(infos) == {[info EXCEPT !.pc = pc] : info \in infos, pc \in {0, 1}}

AllInfos ==
  {Store, TopLoad, Overflow, Illegal, Halt} \union Anywhere({Load, Add, Branch})
StraightInfos ==
  {Store, TopLoad, Jump, Halt} \union Anywhere({Load, Add, Branch, AddImm})
PointerInfos == Anywhere({Load, PointerLoad, Jump, Halt})

(* One set of one way, blocks of one byte: two addresses evict each other. *)
OneBlock(latency) ==
  [cacheSize |-> 1, blockSize |-> 1, ways |-> 1, missLatency |-> latency]
NoLatency == OneBlock(0)
Latency2 == OneBlock(2)
Latency3 == OneBlock(3)
=============================================================================
