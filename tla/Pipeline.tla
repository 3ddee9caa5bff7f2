------------------------------ MODULE Pipeline ------------------------------
(***************************************************************************)
(* The five-stage pipeline of the cycle simulator: the body of the loop of *)
(* runCycles in cycle.cpp, which advances pipeState by one cycle (one line *)
(* of the pipe-state file).                                                *)
(*                                                                         *)
(* The simulator executes an instruction in program order when it is       *)
(* fetched (Emulator::executeInstruction) and then pushes its word through *)
(* the stages, adding the cycles a real pipeline would lose.  The emulator *)
(* is the environment here: a fetch takes any member of Infos, the         *)
(* InstructionInfo records executeInstruction may return.                  *)
(*                                                                         *)
(* The stages are numbered in the order of memAddresses: pipe[F] is        *)
(* pipeState.ifInstr, ..., pipe[W] is pipeState.wbInstr.                   *)
(***************************************************************************)
EXTENDS CacheOps, Hazards

CONSTANTS Infos,           \* the results of executeInstruction
          ICacheConfig, DCacheConfig

F == 0
D == 1
X == 2
M == 3
W == 4
Stages == F .. W

(* memAddresses is an array of int, and -1 in it stands for no address;    *)
(* the address 0xFFFFFFFF becomes -1 too when it is stored there.          *)
NoAddress == -1

(* What the pipeline reads of an InstructionInfo.  The address is          *)
(* loadAddress of a load and storeAddress of a store, as an int.           *)
InfoType == [instruction : Words, pc : Nat, address : Nat \union {NoAddress},
             isOverflow : BOOLEAN, isValid : BOOLEAN, isHalt : BOOLEAN]

ASSUME InfosAssumption == Infos \subseteq InfoType
ASSUME CachesAssumption == Geometry(ICacheConfig) /\ Geometry(DCacheConfig)

VARIABLES pipe,            \* the word in each stage
          memAddresses,    \* the data address of the word in each stage
          iMiss, dMiss,    \* cycles left of an instruction or data miss
          dStall, xStall,  \* bubbles left to insert at D or at X
          except,          \* fetches left to squash after an exception
          iCache, dCache,
          flushes,         \* rounds left of the flush after the halt
          halted           \* runCycles has returned HALT

stalls == <<iMiss, dMiss, dStall, xStall>>
vars == <<pipe, memAddresses, stalls, except, iCache, dCache, flushes, halted>>

Init ==
  /\ pipe = [s \in Stages |-> NOP]
  /\ memAddresses = [s \in Stages |-> 0]
  /\ iMiss = 0 /\ dMiss = 0 /\ dStall = 0 /\ xStall = 0
  /\ except = 0
  /\ iCache = EmptyCache(ICacheConfig)
  /\ dCache = EmptyCache(DCacheConfig)
  /\ flushes = 0
  /\ halted = FALSE
-----------------------------------------------------------------------------
(* Mutant: x is written before the word in s has moved on.                 *)
InsertAtTooEarly(stages, s, x) ==
  [t \in Stages |-> IF t < s THEN stages[t]
                    ELSE IF t \in {s, s + 1} THEN x ELSE stages[t - 1]]

(* The stages from s on take over from the one before them, and s takes x: *)
(* ingestPipeline and ingestBuffer for s = F, a bubble for s = D or X.     *)
InsertAt(stages, s, x) ==
  [t \in Stages |-> IF t < s THEN stages[t]
                    ELSE IF t = s THEN x ELSE stages[t - 1]]

Ingest(word, address) ==
  /\ pipe' = InsertAt(pipe, F, word)
  /\ memAddresses' = InsertAt(memAddresses, F, address)

(* Mutant: the addresses are not moved with the words of a bubble.         *)
BubbleWithoutAddresses(s) ==
  /\ pipe' = InsertAt(pipe, s, NOP)
  /\ memAddresses' = memAddresses

BubbleAt(s) ==
  /\ pipe' = InsertAt(pipe, s, NOP)
  /\ memAddresses' = InsertAt(memAddresses, s, NoAddress)

(* Mutant: a miss does not bring the block in.                             *)
LookUpDataWithoutFill(pending) ==
  /\ dCache' = dCache
  /\ dMiss' = IF /\ UsesMemory(pipe'[M]) /\ memAddresses'[M] # NoAddress
                 /\ ~Hit(DCacheConfig, dCache, memAddresses'[M])
              THEN pending + DCacheConfig.missLatency ELSE pending

(* The word that is in M after the step looks its address up in the data   *)
(* cache; a miss adds its latency to the cycles pending.                   *)
LookUpData(pending) ==
  IF UsesMemory(pipe'[M]) /\ memAddresses'[M] # NoAddress
  THEN /\ dCache' = AfterAccess(DCacheConfig, dCache, memAddresses'[M])
       /\ dMiss' = pending + (IF Hit(DCacheConfig, dCache, memAddresses'[M])
                              THEN 0 ELSE DCacheConfig.missLatency)
  ELSE dCache' = dCache /\ dMiss' = pending

(* Mutant: only loads are looked for ahead of D.                           *)
XStallForLoadsOnly(words) == load_op(words[D], words[X])

XStallFor(words) == op_branch(words[D], words[X]) + load_op(words[D], words[X])

(* Mutants: the load two words ahead of the branch is forgotten; it adds   *)
(* to the one right ahead.                                                 *)
DStallForNeighbourOnly(words) ==
  IF load_branch(words[F], words[D]) = 2 THEN 2 ELSE dStall
DStallAdds(words) ==
  load_branch(words[F], words[D]) + (load_branch(words[F], words[X]) \div 2)

DStallFor(words) ==
  IF load_branch(words[F], words[D]) = 2 THEN 2
  ELSE IF load_branch(words[F], words[X]) = 2 THEN 1 ELSE dStall
-----------------------------------------------------------------------------
Running == ~halted /\ flushes = 0

Stalled == iMiss > 0 \/ dMiss > 0 \/ dStall > 0 \/ xStall > 0

(* A fetch squashed by an exception: nothing is fetched and no cache is    *)
(* looked up.                                                              *)
Squash ==
  /\ Running
  /\ except > 0
  /\ except' = except - 1
  /\ Ingest(NOP, NoAddress)
  /\ UNCHANGED <<stalls, iCache, dCache, flushes, halted>>

LessOne(n) == IF n > 0 THEN n - 1 ELSE 0

(* Mutant: a data miss does not run down.                                  *)
CountDownWithoutDMiss ==
  /\ iMiss' = LessOne(iMiss)
  /\ dStall' = LessOne(dStall)
  /\ xStall' = LessOne(xStall)
  /\ IF iMiss' > 0 \/ dStall' > 0 \/ xStall' > 0
     THEN LookUpData(dMiss)
     ELSE dCache' = dCache /\ dMiss' = dMiss
  /\ UNCHANGED <<except, iCache, flushes, halted>>

(* Mutant: the data cache is not looked up while the pipeline stalls.      *)
CountDownWithoutLookUp ==
  /\ iMiss' = LessOne(iMiss)
  /\ dStall' = LessOne(dStall)
  /\ xStall' = LessOne(xStall)
  /\ dMiss' = LessOne(dMiss)
  /\ UNCHANGED <<except, iCache, dCache, flushes, halted>>

(* All counters run down together.  If one of them other than dMiss has    *)
(* cycles left, the word now in M looks the data cache up (line 142: "we   *)
(* check data here as well ?").                                            *)
CountDown ==
  /\ iMiss' = LessOne(iMiss)
  /\ dStall' = LessOne(dStall)
  /\ xStall' = LessOne(xStall)
  /\ IF iMiss' > 0 \/ dStall' > 0 \/ xStall' > 0
     THEN LookUpData(LessOne(dMiss))
     ELSE dCache' = dCache /\ dMiss' = LessOne(dMiss)
  /\ UNCHANGED <<except, iCache, flushes, halted>>

(* A data miss freezes the pipeline, except that W retires.                *)
Freeze ==
  /\ Running /\ except = 0
  /\ dMiss > 0
  /\ pipe' = [pipe EXCEPT ![W] = NOP]
  /\ memAddresses' = memAddresses
  /\ CountDown

StallAtX ==
  /\ Running /\ except = 0
  /\ dMiss = 0 /\ xStall > 0
  /\ BubbleAt(X)
  /\ CountDown

StallAtD ==
  /\ Running /\ except = 0
  /\ dMiss = 0 /\ xStall = 0 /\ (dStall > 0 \/ iMiss > 0)
  /\ BubbleAt(D)
  /\ CountDown

(* Mutant: the exception does not wait for the stalls to end.              *)
TrapDuringStall(info) ==
  /\ Running /\ except = 0
  /\ info.isOverflow \/ ~info.isValid
  /\ except' = IF info.isOverflow THEN 2 ELSE 1
  /\ Ingest(NOP, NoAddress)
  /\ UNCHANGED <<stalls, iCache, dCache, flushes, halted>>

(* The instruction fetched raises an exception: it becomes a bubble, and   *)
(* so do the next fetches, two after an overflow and one after an illegal  *)
(* instruction.  Neither cache is looked up and no hazard is detected.     *)
Trap(info) ==
  /\ Running /\ except = 0 /\ ~Stalled
  /\ info.isOverflow \/ ~info.isValid
  /\ except' = IF info.isOverflow THEN 2 ELSE 1
  /\ Ingest(NOP, NoAddress)
  /\ UNCHANGED <<stalls, iCache, dCache, flushes, halted>>

Fetch(info) ==
  /\ Running /\ except = 0 /\ ~Stalled
  /\ ~info.isOverflow /\ info.isValid
  /\ Ingest(info.instruction,
            IF UsesMemory(info.instruction) THEN info.address ELSE NoAddress)
  /\ iCache' = AfterAccess(ICacheConfig, iCache, info.pc)
  /\ iMiss' = IF Hit(ICacheConfig, iCache, info.pc)
              THEN 0 ELSE ICacheConfig.missLatency
  /\ LookUpData(dMiss)
  /\ xStall' = XStallFor(pipe')
  /\ dStall' = DStallFor(pipe')
  /\ flushes' = IF info.isHalt THEN 4 ELSE 0
  /\ UNCHANGED <<except, halted>>

(* After the halt, four bubbles push it to W, whatever stall is pending.   *)
Flush ==
  /\ flushes > 0
  /\ Ingest(NOP, NoAddress)
  /\ flushes' = flushes - 1
  /\ halted' = (flushes = 1)
  /\ UNCHANGED <<stalls, except, iCache, dCache>>

Next ==
  \/ Squash
  \/ Freeze
  \/ StallAtX
  \/ StallAtD
  \/ \E info \in Infos : Trap(info)
  \/ \E info \in Infos : Fetch(info)
  \/ Flush

Spec == Init /\ [][Next]_vars

(* runTillHalt calls runCycles until it returns HALT: a cycle that can be  *)
(* simulated is simulated.                                                 *)
FairSpec == Spec /\ WF_vars(Next)
=============================================================================
