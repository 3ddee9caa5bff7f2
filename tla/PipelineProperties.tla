------------------------- MODULE PipelineProperties -------------------------
(* What the pipeline of the cycle simulator promises.                      *)
EXTENDS Pipeline, Sequences

(* The counters stay in their ranges: a miss never waits longer than its   *)
(* latency (dMiss is only ever added to), and at most one of the two       *)
(* detections that sum up in xStall applies.                               *)
TypeOK ==
  /\ pipe \in [Stages -> Words]
  /\ memAddresses \in [Stages -> Nat \union {NoAddress}]
  /\ iMiss \in 0 .. ICacheConfig.missLatency
  /\ dMiss \in 0 .. DCacheConfig.missLatency
  /\ dStall \in 0 .. 2
  /\ xStall \in 0 .. 1
  /\ except \in 0 .. 2
  /\ iCache \in CacheType(ICacheConfig)
  /\ dCache \in CacheType(DCacheConfig)
  /\ flushes \in 0 .. 4
  /\ halted \in BOOLEAN

(* memAddresses is shifted apart from pipeState, by other statements; yet  *)
(* a load or store and its own address are in the same stage, through any  *)
(* mixture of fetches, bubbles at D and X, freezes, squashes and flushes.  *)
AddressTracksStage ==
  \A s \in Stages :
    UsesMemory(pipe[s]) => \E info \in Infos : /\ info.instruction = pipe[s]
                                               /\ info.address = memAddresses[s]

(* Only a pipeline without stalls fetches, so an exception never meets a   *)
(* pending miss or bubble: the squash of an exception, which the loop puts *)
(* before the stalls, never lets the word in M run away from its miss.     *)
ExceptionsMeetNoStall == except > 0 => ~Stalled

(* The word in M has been looked up: its block is in the data cache.       *)
LookedUp ==
  UsesMemory(pipe[M]) /\ memAddresses[M] # NoAddress
    => Hit(DCacheConfig, dCache, memAddresses[M])

(* While the pipeline stalls for any reason, the load or store in M has    *)
(* been looked up: a miss of it overlaps with the stall, and looking it up *)
(* again in the next cycle of the stall hits.                              *)
StalledMeansLookedUp == Running /\ Stalled => LookedUp

(* A data miss is waited for, once and to its end: dMiss runs down by one  *)
(* each cycle, although the loop looks the same word up in every cycle of  *)
(* an overlapping stall and adds to dMiss, and the word stays in M.        *)
MissWaitedForOnce ==
  [][Running /\ dMiss > 0 => dMiss' = dMiss - 1 /\ pipe'[M] = pipe[M]]_vars

(* The separation of a use from the load or operation it depends on, which *)
(* the stall table of cycle.cpp (lines 232 to 237) is there to enforce: a  *)
(* use does not enter X right behind the load; a branch does not leave D   *)
(* right behind the operation, and does not enter D before the load has    *)
(* left M.  (A branch or an operation on registers needs both of its       *)
(* operands; of a load or store, the address register counts.)             *)
Operands(word) == IF isImm(word) \/ UsesMemory(word)
                  THEN {word.rs} ELSE {word.rs, word.rt}
Needs(use, dep) == (IF isRop(dep) THEN dep.rd ELSE dep.rt) \in Operands(use)

LoadOpSeparated ==
  Running => ~(isOp(pipe[X]) /\ isLoad(pipe[M]) /\ Needs(pipe[X], pipe[M]))
OpBranchSeparated ==
  Running => ~(isBranch(pipe[X]) /\ isOp(pipe[M]) /\ Needs(pipe[X], pipe[M]))
LoadBranchSeparated ==
  Running => \A s \in {X, M} :
    ~(isBranch(pipe[D]) /\ isLoad(pipe[s]) /\ Needs(pipe[D], pipe[s]))

(* Without data misses and exceptions, the counters dStall and xStall,     *)
(* which are set at a fetch and run down while bubbles of all kinds and    *)
(* instruction misses overlap, give the very timing of a pipeline that     *)
(* looks at its stages anew in each cycle: no bubble is missing and none   *)
(* is inserted in vain (cycle.cpp:107-140, 244-259).                       *)
Interlocks == INSTANCE Interlocked WITH
                Fetched     <- {info.instruction : info \in Infos},
                MissLatency <- ICacheConfig.missLatency,
                stage       <- pipe,
                wait        <- iMiss,
                draining    <- ~Running
ImplementsInterlocks == Interlocks!Spec

(* The words in flight are a queue: fetched in program order, they leave   *)
(* in that order, none lost, repeated or overtaken by the ways in which    *)
(* the loop moves the stages, and none enters while the pipeline stalls.   *)
Occupant(word) == IF word = NOP THEN <<>> ELSE <<word>>
InFlight == Occupant(pipe[W]) \o Occupant(pipe[M]) \o Occupant(pipe[X])
              \o Occupant(pipe[D]) \o Occupant(pipe[F])
Queue == INSTANCE InOrder WITH
           Instructions <- {info.instruction : info \in Infos} \ {NOP},
           Depth        <- 5,
           inFlight     <- InFlight,
           accepting    <- Running /\ except = 0 /\ ~Stalled
ImplementsInOrder == Queue!Spec

(* Every word fetched gets to W: misses, bubbles and squashes, also        *)
(* overlapping ones, come to an end, and the flush drains the pipeline.    *)
FetchedReachesW ==
  \A info \in Infos :
    info.instruction # NOP
      => (pipe[F] = info.instruction ~> pipe[W] = info.instruction)
-----------------------------------------------------------------------------
(* What the reference traces in test/ and the comments of cycle.cpp say of *)
(* the pipeline, and the code does not do.                                 *)

(* Every load and store looks the data cache up when it gets to M, as in   *)
(* stall_cycle_pipe_state_true.out, where a load that a bubble at X moved  *)
(* to M waits for its miss from the next cycle on (lines 22 to 30).  The   *)
(* code does not look up in the last cycle of a stall.                     *)
MemoryWordsLookedUp == Running => LookedUp

(* A data miss holds the word in M also when the halt has been fetched, as *)
(* in stall_cycle_pipe_state_true.out, lines 73 to 81 and 84 to 92.  The   *)
(* code flushes at once.                                                   *)
FlushWaitsForMiss == [][dMiss > 0 => pipe'[M] = pipe[M]]_vars

(* A load or store whose address depends on a load does not enter X right  *)
(* behind it, as in stall_cycle_pipe_state_true.out, lines 22 and 82       *)
(* (stall.asm, lines 5 and 22: "should stall").  load_op looks at          *)
(* operations only.                                                        *)
AddressSeparated ==
  Running => ~(UsesMemory(pipe[X]) /\ isLoad(pipe[M]) /\ Needs(pipe[X], pipe[M]))
=============================================================================
