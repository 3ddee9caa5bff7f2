------------------------------- MODULE Driver -------------------------------
(***************************************************************************)
(* runCycles and runTillHalt around the pipeline: how many cycles a call   *)
(* simulates, how they are counted, and which of them get a line in the    *)
(* pipe-state file.                                                        *)
(***************************************************************************)
EXTENDS Pipeline

CONSTANTS Requests,        \* what calls of runCycles ask for; runTillHalt: 1
          CycleSpace       \* values of cycleCount (2 ^ 32)

ASSUME DriverAssumption ==
  /\ Requests \subseteq Nat /\ CycleSpace \in Nat \ {0}
  /\ \A info \in Infos : info.isHalt => info.instruction # NOP

VARIABLES cycles,          \* the argument of the call of runCycles
          count,           \* loop bodies that the call has been through
          status,          \* what the last call returned
          cycleCount,
          cycle,           \* pipeState.cycle
          moves,           \* history: states that pipeState has been in
          output           \* the line written last

simVars == <<vars, cycles, count, status, cycleCount, cycle, moves, output>>

Succ(n) == (n + 1) % CycleSpace

(* A line of the file: the number in it, and the state of the stages, for  *)
(* which moves stands.                                                     *)
Line == [number |-> cycle, stages |-> moves]

SimInit ==
  /\ Init
  /\ cycles \in Requests
  /\ count = 0
  /\ status = "SUCCESS"
  /\ cycleCount = 0
  /\ cycle = 0
  /\ moves = CycleSpace - 1
  /\ output = [number |-> CycleSpace - 1, stages |-> CycleSpace - 1]

(* dump and cycleCount++.                                                  *)
Dump == output' = Line /\ cycleCount' = Succ(cycleCount)

(* The loop body, up to the flush: any action of the pipeline.             *)
Iterate ==
  /\ Running /\ (cycles = 0 \/ count < cycles)
  /\ Next
  /\ count' = IF cycles = 0 THEN 0 ELSE count + 1
  /\ cycle' = cycleCount
  /\ moves' = Succ(moves)
  /\ UNCHANGED <<cycles, status, cycleCount, output>>

(* Mutant: the stages move before they are dumped.                         *)
ShuffleFirst ==
  /\ Flush
  /\ cycleCount' = Succ(cycleCount)
  /\ cycle' = cycleCount'
  /\ moves' = Succ(moves)
  /\ output' = [number |-> cycle', stages |-> moves']
  /\ UNCHANGED <<cycles, count, status>>

(* A round of the flush.                                                   *)
Shuffle ==
  /\ Flush
  /\ Dump
  /\ cycle' = cycleCount'
  /\ moves' = Succ(moves)
  /\ UNCHANGED <<cycles, count, status>>

(* Mutant: nothing is left to dump after a flush.                          *)
ReturnAfterFlush ==
  /\ status # "HALT"
  /\ halted \/ (Running /\ count > 0 /\ count = cycles)
  /\ IF halted THEN UNCHANGED <<output, cycleCount>> ELSE Dump
  /\ status' = IF halted THEN "HALT" ELSE "SUCCESS"
  /\ count' = 0
  /\ cycles' \in Requests
  /\ UNCHANGED <<vars, cycle, moves>>

(* The end of a call, and the next call unless the simulator has halted.   *)
Return ==
  /\ status # "HALT"
  /\ halted \/ (Running /\ count > 0 /\ count = cycles)
  /\ Dump
  /\ status' = IF halted THEN "HALT" ELSE "SUCCESS"
  /\ count' = 0
  /\ cycles' \in Requests
  /\ UNCHANGED <<vars, cycle, moves>>

SimNext == Iterate \/ Shuffle \/ Return

SimSpec == SimInit /\ [][SimNext]_simVars
-----------------------------------------------------------------------------
(* With runTillHalt, every state of the stages gets a line of its own      *)
(* before the next one replaces it, under consecutive numbers, whether a   *)
(* fetch, a stall, a squash or the flush, which dumps at other places,     *)
(* ends it (cycle.cpp:91, 261-289).  A call that asks for two cycles       *)
(* writes one line of them.                                                *)
EveryCyclePrinted ==
  [][/\ moves' # moves => output' = [number |-> moves, stages |-> moves]
     /\ output' # output => output'.number = Succ(output.number)]_simVars

(* When runTillHalt ends, the last line shows the halt in W behind four    *)
(* bubbles, and the total in the statistics, cycleCount, is the number of  *)
(* lines (cycle.cpp:261-289, 403-410).                                     *)
TotalIsLines ==
  status = "HALT" =>
    /\ output = [number |-> moves, stages |-> moves]
    /\ cycleCount = Succ(output.number)
    /\ \A s \in Stages : pipe[s] # NOP <=> s = W
    /\ \E info \in Infos : info.isHalt /\ pipe[W] = info.instruction
=============================================================================
