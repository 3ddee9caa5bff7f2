-------------------------- MODULE InterlockProofs ---------------------------
(***************************************************************************)
(* Theorems about the cycles the simulator counts, for every instruction   *)
(* mix and every instruction cache.  Without data misses and exceptions,   *)
(* the stall counters give the timing of Interlocked, and separate each    *)
(* use from what it depends on.  Whatever happens, each cycle gets its     *)
(* line in the trace.                                                      *)
(***************************************************************************)
EXTENDS PipelineProofs, Driver

Ideal == /\ DCacheConfig.missLatency = 0
         /\ \A info \in Infos : ~info.isOverflow /\ info.isValid

(* What dStall is to hold, given the words in the stages.                  *)
HeldFor(words) ==
  IF load_branch(words[F], words[D]) = 2 THEN 2
  ELSE IF load_branch(words[F], words[X]) = 2 THEN 1 ELSE 0

(* The inductive invariant: the counters can be read off the stages.       *)
CountersFit ==
  /\ except = 0
  /\ Running => xStall = XStallFor(pipe) /\ dStall = HeldFor(pipe)

Separated == LoadOpSeparated /\ OpBranchSeparated /\ LoadBranchSeparated

(* What a hazard costs, and between which kinds of words it is.            *)
LEMMA HazardKinds ==
  ASSUME NEW use, NEW dep
  PROVE  /\ op_branch(use, dep) \in 0 .. 1
         /\ load_op(use, dep) \in 0 .. 1
         /\ load_branch(use, dep) \in {0, 2}
         /\ op_branch(use, dep) > 0 => isBranch(use) /\ isOp(dep)
         /\ load_op(use, dep) > 0 => isOp(use) /\ isLoad(dep)
         /\ load_branch(use, dep) > 0 => isBranch(use) /\ isLoad(dep)
  BY DEF op_branch, load_op, load_branch

(* No word is both a load and one of the others.                           *)
LEMMA LoadIsAlone ==
  ASSUME NEW word PROVE isLoad(word) => ~isBranch(word) /\ ~isOp(word)
  BY DEF isLoad, isBranch, isOp, isImm, isRop, Loads, Branches, ImmediateOps,
         RegisterOps

(* The bubble takes part in no hazard.                                     *)
LEMMA NopIsFree ==
  ASSUME NEW word
  PROVE  /\ op_branch(NOP, word) = 0 /\ op_branch(word, NOP) = 0
         /\ load_op(NOP, word) = 0 /\ load_op(word, NOP) = 0
         /\ load_branch(NOP, word) = 0 /\ load_branch(word, NOP) = 0
  BY NopOK DEF op_branch, load_op, load_branch

(* The stages after those from s on have moved.                            *)
LEMMA Moved ==
  ASSUME NEW word
  PROVE  /\ pipe' = InsertAt(pipe, F, word)
              => /\ pipe'[F] = word /\ pipe'[D] = pipe[F]
                 /\ pipe'[X] = pipe[D] /\ pipe'[M] = pipe[X]
         /\ pipe' = InsertAt(pipe, D, word)
              => /\ pipe'[F] = pipe[F] /\ pipe'[D] = word
                 /\ pipe'[X] = pipe[D] /\ pipe'[M] = pipe[X]
         /\ pipe' = InsertAt(pipe, X, word)
              => /\ pipe'[F] = pipe[F] /\ pipe'[D] = pipe[D]
                 /\ pipe'[X] = word /\ pipe'[M] = pipe[X]
  BY DEF InsertAt, Stages, F, D, X, M, W

(* Without a latency, dMiss is never set.                                  *)
LEMMA NoDataMiss == ASSUME Ideal, IInv PROVE dMiss = 0
  BY DEF Ideal, IInv, TypeOK
-----------------------------------------------------------------------------
(* A bubble at X uses up xStall, and any single bubble that a branch in F  *)
(* needs behind the load that moves on.                                    *)
LEMMA BubbleAtXFits ==
  ASSUME IInv, CountersFit, StallAtX
  PROVE  CountersFit'
<1>1. /\ pipe' = InsertAt(pipe, X, NOP) /\ Running
      /\ xStall > 0 /\ xStall' = LessOne(xStall) /\ dStall' = LessOne(dStall)
      /\ except' = except
  BY DEF StallAtX, BubbleAt, CountDown
<1>2. /\ pipe'[F] = pipe[F] /\ pipe'[D] = pipe[D] /\ pipe'[X] = NOP
  BY <1>1, Moved
<1>3. xStall \in 0 .. 1
  BY DEF IInv, TypeOK
<1>4. xStall' = XStallFor(pipe')
  <2>1. XStallFor(pipe') = 0
    BY <1>2, NopIsFree DEF XStallFor
  <2> QED
    BY <1>1, <1>3, <2>1 DEF LessOne
<1>5. ~isLoad(pipe[D])
  <2>1. xStall = op_branch(pipe[D], pipe[X]) + load_op(pipe[D], pipe[X])
    BY <1>1 DEF CountersFit, XStallFor
  <2>2. op_branch(pipe[D], pipe[X]) > 0 \/ load_op(pipe[D], pipe[X]) > 0
    BY <1>1, <2>1, HazardKinds
  <2> QED
    BY <2>2, HazardKinds, LoadIsAlone
<1>6. dStall' = HeldFor(pipe')
  <2>1. load_branch(pipe[F], pipe[D]) = 0
    BY <1>5, HazardKinds
  <2>2. HeldFor(pipe') = 0
    BY <1>2, <2>1, NopIsFree DEF HeldFor
  <2>3. dStall \in 0 .. 1
    BY <1>1, <2>1 DEF CountersFit, HeldFor
  <2> QED
    BY <1>1, <2>2, <2>3 DEF LessOne
<1> QED
  BY <1>1, <1>4, <1>6 DEF CountersFit

(* A bubble at D counts dStall down as the load it is for moves on.        *)
LEMMA BubbleAtDFits ==
  ASSUME IInv, CountersFit, StallAtD
  PROVE  CountersFit'
<1>1. /\ pipe' = InsertAt(pipe, D, NOP) /\ Running
      /\ xStall = 0 /\ xStall' = LessOne(xStall) /\ dStall' = LessOne(dStall)
      /\ except' = except
  BY DEF StallAtD, BubbleAt, CountDown
<1>2. /\ pipe'[F] = pipe[F] /\ pipe'[D] = NOP /\ pipe'[X] = pipe[D]
  BY <1>1, Moved
<1>3. xStall' = XStallFor(pipe')
  <2>1. XStallFor(pipe') = 0
    BY <1>2, NopIsFree DEF XStallFor
  <2> QED
    BY <1>1, <2>1 DEF LessOne
<1>4. dStall' = HeldFor(pipe')
  <2>1. dStall = HeldFor(pipe)
    BY <1>1 DEF CountersFit
  <2>2. load_branch(pipe'[F], pipe'[D]) = 0
    BY <1>2, NopIsFree
  <2>3. HeldFor(pipe') = IF load_branch(pipe[F], pipe[D]) = 2 THEN 1 ELSE 0
    BY <1>2, <2>2 DEF HeldFor
  <2> QED
    BY <1>1, <2>1, <2>3 DEF LessOne, HeldFor
<1> QED
  BY <1>1, <1>3, <1>4 DEF CountersFit

(* A fetch sets both counters anew.                                        *)
LEMMA FetchFits ==
  ASSUME NEW info \in Infos, IInv, CountersFit, Fetch(info)
  PROVE  CountersFit'
<1>1. /\ xStall' = XStallFor(pipe') /\ dStall' = DStallFor(pipe')
      /\ except' = except /\ ~Stalled
  BY DEF Fetch
<1>2. dStall = 0
  BY <1>1 DEF Stalled, IInv, TypeOK
<1>3. dStall' = HeldFor(pipe')
  BY <1>1, <1>2 DEF DStallFor, HeldFor
<1> QED
  BY <1>1, <1>3 DEF CountersFit

(* The flush does not end in a pipeline that runs.                         *)
LEMMA FlushStops == ASSUME IInv, Flush PROVE ~Running'
<1>1. /\ flushes > 0 /\ flushes' = flushes - 1 /\ halted' = (flushes = 1)
      /\ flushes \in 0 .. 4
  BY DEF Flush, IInv, TypeOK
<1>2. flushes = 1 => halted'
  BY <1>1
<1>3. flushes # 1 => flushes' # 0
  BY <1>1
<1> QED
  BY <1>2, <1>3 DEF Running

(* Whatever the cycle, the counters fit the stages again.                  *)
LEMMA NextFits ==
  ASSUME Ideal, IInv, CountersFit, [Next]_vars
  PROVE  CountersFit'
<1>1. ~Squash /\ ~Freeze
  BY NoDataMiss DEF CountersFit, Squash, Freeze
<1>2. \A info \in Infos : ~Trap(info)
  BY DEF Ideal, Trap
<1>3. CASE Flush
  BY <1>3, FlushStops DEF CountersFit, Flush
<1>4. CASE UNCHANGED vars
  <2>1. UNCHANGED <<except, pipe, xStall, dStall, flushes, halted>>
    BY <1>4 DEF vars, stalls
  <2> QED
    BY <2>1 DEF CountersFit, Running, XStallFor, HeldFor
<1> QED
  BY <1>1, <1>2, <1>3, <1>4, BubbleAtXFits, BubbleAtDFits, FetchFits DEF Next

(* The counters start at zero, and the pipeline empty.                     *)
LEMMA InitFits == Init => CountersFit
<1> SUFFICES ASSUME Init PROVE CountersFit
  OBVIOUS
<1>1. /\ except = 0 /\ xStall = 0 /\ dStall = 0
      /\ pipe[F] = NOP /\ pipe[D] = NOP /\ pipe[X] = NOP
  BY DEF Init, Stages, F, D, X, W
<1>2. XStallFor(pipe) = 0 /\ HeldFor(pipe) = 0
  BY <1>1, NopIsFree DEF XStallFor, HeldFor
<1> QED
  BY <1>1, <1>2 DEF CountersFit

(* The invariant under which everything below is proved.                   *)
LEMMA Fits == ASSUME Ideal PROVE Spec => [](IInv /\ CountersFit)
<1>1. Init => CountersFit
  BY InitFits
<1>2. IInv /\ CountersFit /\ [Next]_vars => CountersFit'
  BY NextFits
<1> QED
  BY <1>1, <1>2, InductiveInvariant, PTL DEF Spec
-----------------------------------------------------------------------------
(* A word needs what the table looks for, or less.                         *)
LEMMA TableCovers ==
  ASSUME NEW use, NEW dep, Needs(use, dep)
  PROVE  /\ isOp(use) /\ isLoad(dep) => load_op(use, dep) > 0
         /\ isBranch(use) /\ isOp(dep) => op_branch(use, dep) > 0
         /\ isBranch(use) /\ isLoad(dep) => load_branch(use, dep) > 0
<1>1. isLoad(dep) => ~isRop(dep)
  BY LoadIsAlone DEF isOp
<1>2. isBranch(use) => ~isImm(use) /\ ~UsesMemory(use)
  BY DEF isBranch, isImm, UsesMemory, isLoad, isStore, Branches, Loads, Stores,
         ImmediateOps
<1>3. isOp(use) => ~UsesMemory(use)
  BY DEF isOp, isImm, isRop, UsesMemory, isLoad, isStore, Loads, Stores,
         ImmediateOps, RegisterOps
<1>4. isImm(dep) => ~isRop(dep)
  BY DEF isImm, isRop, ImmediateOps, RegisterOps
<1>5. isOp(use) /\ isLoad(dep) => load_op(use, dep) > 0
  BY <1>1, <1>3 DEF Needs, Operands, load_op
<1>6. isBranch(use) /\ isOp(dep) => op_branch(use, dep) > 0
  BY <1>2, <1>4 DEF Needs, Operands, op_branch, Target, isOp
<1>7. isBranch(use) /\ isLoad(dep) => load_branch(use, dep) > 0
  BY <1>1, <1>2 DEF Needs, Operands, load_branch
<1> QED
  BY <1>5, <1>6, <1>7

(* The word that leaves D for X behind the word in X does not need it.     *)
LEMMA XAdvances ==
  ASSUME CountersFit, Running, xStall = 0, xStall \in 0 .. 1,
         pipe'[X] = pipe[D], pipe'[M] = pipe[X]
  PROVE  LoadOpSeparated' /\ OpBranchSeparated'
<1>1. op_branch(pipe[D], pipe[X]) + load_op(pipe[D], pipe[X]) = 0
  BY DEF CountersFit, XStallFor
<1>2. op_branch(pipe[D], pipe[X]) = 0 /\ load_op(pipe[D], pipe[X]) = 0
  BY <1>1, HazardKinds
<1>3. LoadOpSeparated'
  <2>1. ~(isOp(pipe[D]) /\ isLoad(pipe[X]) /\ Needs(pipe[D], pipe[X]))
    BY <1>2, TableCovers
  <2> QED
    BY <2>1 DEF LoadOpSeparated
<1>4. OpBranchSeparated'
  <2>1. ~(isBranch(pipe[D]) /\ isOp(pipe[X]) /\ Needs(pipe[D], pipe[X]))
    BY <1>2, TableCovers
  <2> QED
    BY <2>1 DEF OpBranchSeparated
<1> QED
  BY <1>3, <1>4

(* A bubble in X or D separates by itself.                                 *)
LEMMA BubblesSeparate ==
  /\ pipe[X] = NOP => LoadOpSeparated /\ OpBranchSeparated
  /\ pipe[D] = NOP => LoadBranchSeparated
  BY NopOK DEF LoadOpSeparated, OpBranchSeparated, LoadBranchSeparated

(* Whatever the cycle, the words stay separated.                           *)
LEMMA NextSeparates ==
  ASSUME Ideal, IInv, CountersFit, Separated, [Next]_vars
  PROVE  Separated'
<1>0. dStall \in 0 .. 2 /\ xStall \in 0 .. 1
  BY DEF IInv, TypeOK
<1>1. CASE StallAtX
  <2>1. pipe' = InsertAt(pipe, X, NOP) /\ Running
    BY <1>1 DEF StallAtX, BubbleAt
  <2>2. /\ pipe'[D] = pipe[D] /\ pipe'[X] = NOP /\ pipe'[M] = pipe[X]
    BY <2>1, Moved
  <2>3. LoadOpSeparated' /\ OpBranchSeparated'
    BY <2>2, NopOK DEF LoadOpSeparated, OpBranchSeparated
  <2>4. LoadBranchSeparated'
    BY <2>1, <2>2, NopOK DEF Separated, LoadBranchSeparated
  <2> QED
    BY <2>3, <2>4 DEF Separated
<1>2. CASE StallAtD
  <2>1. pipe' = InsertAt(pipe, D, NOP) /\ Running /\ xStall = 0
    BY <1>2 DEF StallAtD, BubbleAt
  <2>2. pipe'[D] = NOP /\ pipe'[X] = pipe[D] /\ pipe'[M] = pipe[X]
    BY <2>1, Moved
  <2>3. LoadOpSeparated' /\ OpBranchSeparated'
    BY <2>1, <2>2, <1>0, XAdvances
  <2>4. LoadBranchSeparated'
    BY <2>2, NopOK DEF LoadBranchSeparated
  <2> QED
    BY <2>3, <2>4 DEF Separated
<1>3. ASSUME NEW info \in Infos, Fetch(info) PROVE Separated'
  <2>1. /\ pipe' = InsertAt(pipe, F, info.instruction)
        /\ Running /\ xStall = 0 /\ dStall = 0
    BY <1>3, <1>0 DEF Fetch, Ingest, Stalled
  <2>2. pipe'[D] = pipe[F] /\ pipe'[X] = pipe[D] /\ pipe'[M] = pipe[X]
    BY <2>1, Moved
  <2>3. LoadOpSeparated' /\ OpBranchSeparated'
    BY <2>1, <2>2, <1>0, XAdvances
  <2>4. /\ load_branch(pipe[F], pipe[D]) = 0
        /\ load_branch(pipe[F], pipe[X]) = 0
    BY <2>1, HazardKinds DEF CountersFit, HeldFor
  <2>5. \A dep \in {pipe[D], pipe[X]} :
          ~(isBranch(pipe[F]) /\ isLoad(dep) /\ Needs(pipe[F], dep))
    BY <2>4, TableCovers
  <2>6. LoadBranchSeparated'
    BY <2>2, <2>5 DEF LoadBranchSeparated
  <2> QED
    BY <2>3, <2>6 DEF Separated
<1>4. CASE Flush
  BY <1>4, FlushStops
     DEF Separated, LoadOpSeparated, OpBranchSeparated, LoadBranchSeparated
<1>5. CASE UNCHANGED vars
  BY <1>5 DEF vars, Separated, LoadOpSeparated, OpBranchSeparated,
              LoadBranchSeparated, Running
<1>6. ~Squash /\ ~Freeze
  BY NoDataMiss DEF CountersFit, Squash, Freeze
<1>7. \A info \in Infos : ~Trap(info)
  BY DEF Ideal, Trap
<1> QED
  BY <1>1, <1>2, <1>3, <1>4, <1>5, <1>6, <1>7 DEF Next

(* The empty pipeline is separated.                                        *)
LEMMA InitSeparated == Init => Separated
<1>1. Init => pipe[D] = NOP /\ pipe[X] = NOP
  BY DEF Init, Stages, F, D, X, W
<1> QED
  BY <1>1, BubblesSeparate DEF Separated

(* Without data misses and exceptions, no use meets what it depends on:    *)
(* for every mix of instructions, every pattern of instruction misses.     *)
THEOREM UsesAreSeparated ==
  ASSUME Ideal
  PROVE  Spec => [](LoadOpSeparated /\ OpBranchSeparated /\ LoadBranchSeparated)
<1>1. IInv /\ CountersFit /\ Separated /\ [Next]_vars => Separated'
  BY NextSeparates
<1>2. Separated
        => LoadOpSeparated /\ OpBranchSeparated /\ LoadBranchSeparated
  BY DEF Separated
<1> QED
  BY <1>1, <1>2, InitSeparated, Fits, PTL DEF Spec

(* Each row of the stall table on its own (cycle.cpp:235-239, 244-259): an *)
(* operation does not meet the load it depends on,                         *)
THEOREM LoadsAndOperationsSeparated == ASSUME Ideal PROVE Spec => []LoadOpSeparated
  BY UsesAreSeparated, PTL

(* a branch does not leave D right behind the operation,                   *)
THEOREM OperationsAndBranchesSeparated == ASSUME Ideal PROVE Spec => []OpBranchSeparated
  BY UsesAreSeparated, PTL

(* and does not enter it before the load has left M.                       *)
THEOREM LoadsAndBranchesSeparated == ASSUME Ideal PROVE Spec => []LoadBranchSeparated
  BY UsesAreSeparated, PTL
-----------------------------------------------------------------------------
(* Both modules read words alike: Hazards has no parameters.               *)
LEMMA SameHazards ==
  /\ NOP = Interlocks!NOP
  /\ \A use, dep : /\ op_branch(use, dep) = Interlocks!op_branch(use, dep)
                   /\ load_branch(use, dep) = Interlocks!load_branch(use, dep)
                   /\ load_op(use, dep) = Interlocks!load_op(use, dep)
  BY DEF op_branch, Interlocks!op_branch, load_branch,
         Interlocks!load_branch, load_op, Interlocks!load_op, NOP,
         Interlocks!NOP, isBranch, Interlocks!isBranch, isOp,
         Interlocks!isOp, isImm, Interlocks!isImm, isRop, Interlocks!isRop,
         isLoad, Interlocks!isLoad, Target, Interlocks!Target, Loads,
         Interlocks!Loads, Branches, Interlocks!Branches, ImmediateOps,
         Interlocks!ImmediateOps, RegisterOps, Interlocks!RegisterOps

(* The stages move as those of Interlocked.                                *)
LEMMA SameMove ==
  ASSUME NEW word, NEW s \in Stages, pipe' = InsertAt(pipe, s, word)
  PROVE  Interlocks!Enter(s, word)
  BY DEF InsertAt, Interlocks!Enter, Stages, F, W

(* The words in the stages say who waits, as the counters do.              *)
LEMMA SameWaits ==
  ASSUME IInv, CountersFit, Running
  PROVE  /\ Interlocks!WaitsInD <=> xStall > 0
         /\ Interlocks!WaitsInF <=> iMiss > 0 \/ dStall > 0
<1>1. Interlocks!WaitsInD <=> xStall > 0
  <2>1. xStall = op_branch(pipe[D], pipe[X]) + load_op(pipe[D], pipe[X])
    BY DEF CountersFit, XStallFor
  <2> QED
    BY <2>1, HazardKinds, SameHazards DEF Interlocks!WaitsInD, D, X
<1>2. Interlocks!WaitsInF <=> iMiss > 0 \/ dStall > 0
  <2>1. dStall > 0 <=> \/ load_branch(pipe[F], pipe[D]) > 0
                       \/ load_branch(pipe[F], pipe[X]) > 0
    BY HazardKinds DEF CountersFit, HeldFor
  <2> QED
    BY <2>1, SameHazards DEF Interlocks!WaitsInF, F, D, X
<1> QED
  BY <1>1, <1>2

(* Each cycle is one of Interlocked.                                       *)
LEMMA NextInterlocked ==
  ASSUME Ideal, IInv, CountersFit, [Next]_vars
  PROVE  [Interlocks!Next]_(Interlocks!vars)
<1>0. /\ dStall \in 0 .. 2 /\ xStall \in 0 .. 1
      /\ iMiss \in 0 .. ICacheConfig.missLatency
      /\ ICacheConfig.missLatency \in Nat /\ dMiss = 0
  BY NoDataMiss, CachesAssumption DEF IInv, TypeOK, Geometry
<1>1. CASE StallAtX
  <2>1. /\ Running /\ Running' /\ xStall > 0
        /\ pipe' = InsertAt(pipe, X, NOP) /\ iMiss' = LessOne(iMiss)
    BY <1>1 DEF StallAtX, BubbleAt, CountDown, Running
  <2>2. Interlocks!Enter(2, NOP)
    BY <2>1, SameMove DEF Stages, F, W, X
  <2>3. Interlocks!HoldD
    BY <2>1, <2>2, SameWaits, SameHazards DEF Interlocks!HoldD, Interlocks!Wait, LessOne
  <2> QED
    BY <2>3 DEF Interlocks!Next
<1>2. CASE StallAtD
  <2>1. /\ Running /\ Running' /\ xStall = 0 /\ (dStall > 0 \/ iMiss > 0)
        /\ pipe' = InsertAt(pipe, D, NOP) /\ iMiss' = LessOne(iMiss)
    BY <1>2 DEF StallAtD, BubbleAt, CountDown, Running
  <2>2. Interlocks!Enter(1, NOP)
    BY <2>1, SameMove DEF Stages, F, W, D
  <2>3. Interlocks!HoldF
    BY <2>1, <2>2, SameWaits, SameHazards DEF Interlocks!HoldF, Interlocks!Wait, LessOne
  <2> QED
    BY <2>3 DEF Interlocks!Next
<1>3. ASSUME NEW info \in Infos, Fetch(info) PROVE Interlocks!Next
  <2>1. /\ Running /\ xStall = 0 /\ dStall = 0 /\ iMiss = 0
        /\ pipe' = InsertAt(pipe, F, info.instruction)
        /\ iMiss' \in {0, ICacheConfig.missLatency}
    BY <1>0, <1>3 DEF Fetch, Ingest, Stalled
  <2>2. Interlocks!Enter(0, info.instruction)
    BY <2>1, SameMove DEF Stages, F, W
  <2>3. \E word \in {i.instruction : i \in Infos} : Interlocks!Enter(0, word)
    BY <2>2, info.instruction \in {i.instruction : i \in Infos}
  <2>4. ~Interlocks!WaitsInD /\ ~Interlocks!WaitsInF
    BY <2>1, SameWaits
  <2>5. (~Running') \in BOOLEAN
    BY DEF Running
  <2>6. Interlocks!Fetch
    BY <2>1, <2>3, <2>4, <2>5 DEF Interlocks!Fetch
  <2> QED
    BY <2>6 DEF Interlocks!Next
<1>4. CASE Flush
  <2>1. /\ ~Running /\ iMiss' = iMiss
        /\ pipe' = InsertAt(pipe, F, NOP)
    BY <1>4 DEF Flush, Running, Ingest, stalls, IInv, TypeOK
  <2>2. Interlocks!Enter(0, NOP)
    BY <2>1, SameMove DEF Stages, F, W
  <2>3. ~Running'
    BY <1>4, FlushStops
  <2>4. Interlocks!Drain
    BY <2>1, <2>2, <2>3, SameHazards DEF Interlocks!Drain
  <2> QED
    BY <2>4 DEF Interlocks!Next
<1>5. CASE UNCHANGED vars
  BY <1>5 DEF vars, stalls, Interlocks!vars, Running
<1>6. ~Squash /\ ~Freeze
  BY NoDataMiss DEF CountersFit, Squash, Freeze
<1>7. \A info \in Infos : ~Trap(info)
  BY DEF Ideal, Trap
<1> QED
  BY <1>1, <1>2, <1>3, <1>4, <1>5, <1>6, <1>7 DEF Next

(* The empty pipeline is that of Interlocked.                              *)
LEMMA InitInterlocked == Init => Interlocks!Init
  BY SameHazards DEF Init, Interlocks!Init, Running, Stages, F, W

(* Without data misses and exceptions, the counters give the timing of the *)
(* stall table, cycle for cycle: no bubble too few or too many.            *)
THEOREM PipelineImplementsInterlocks ==
  ASSUME Ideal
  PROVE  Spec => ImplementsInterlocks
<1>1. IInv /\ CountersFit /\ [Next]_vars
        => [Interlocks!Next]_(Interlocks!vars)
  BY NextInterlocked
<1> QED
  BY <1>1, InitInterlocked, Fits, PTL
     DEF Spec, ImplementsInterlocks, Interlocks!Spec
-----------------------------------------------------------------------------
(* runTillHalt asks for one cycle at a time.                               *)
OneAtATime == Requests = {1}

(* The stages have their line; or they are to get it, under this number.   *)
Printed == /\ output = [number |-> moves, stages |-> moves]
           /\ cycleCount = Succ(moves)
Due == /\ cycle = moves /\ cycleCount = moves
       /\ moves = Succ(output.number)

(* Between calls the stages have their line, within a call they have not.  *)
LineFits ==
  /\ cycles = 1 /\ count \in {0, 1}
  /\ status = "HALT" => halted
  /\ flushes \in Nat /\ (flushes > 0 => ~halted)
  /\ IF (Running /\ count = 0) \/ status = "HALT" THEN Printed ELSE Due

(* The halt has got to s, with nothing behind it.                          *)
HaltAt(s) ==
  /\ \E info \in Infos : info.isHalt /\ pipe[s] = info.instruction
  /\ \A t \in Stages : t < s => pipe[t] = NOP

(* The flush has pushed the halt a stage in each of its rounds.            *)
HaltFits ==
  /\ flushes > 0 => flushes \in 1 .. 4 /\ HaltAt(W - flushes)
  /\ halted => HaltAt(W)

(* A step of the simulator is one of the pipeline or leaves it alone.      *)
LEMMA SimStep == [SimNext]_simVars => [Next]_vars
  BY DEF SimNext, simVars, Iterate, Shuffle, Return, Next

(* So is a run: what holds of the pipeline holds under its driver.         *)
THEOREM SimulatorRunsPipeline == SimSpec => Spec
<1>1. SimInit => Init
  BY DEF SimInit
<1> QED
  BY <1>1, SimStep, PTL DEF SimSpec, Spec

(* A loop body that is no round of the flush does not halt, and ends in a  *)
(* flush only if it fetched the halt.                                      *)
LEMMA BodyRuns ==
  ASSUME Running, Next
  PROVE  /\ ~halted' /\ flushes' \in Nat
         /\ flushes' > 0 => flushes' = 4 /\ HaltAt(F)'
<1>1. ~Flush
  BY DEF Running, Flush
<1>2. CASE Squash \/ Freeze \/ StallAtX \/ StallAtD
  BY <1>2 DEF Running, Squash, Freeze, StallAtX, StallAtD, CountDown
<1>3. ASSUME NEW info \in Infos, Trap(info)
      PROVE  ~halted' /\ flushes' = 0
  BY <1>3 DEF Running, Trap
<1>4. ASSUME NEW info \in Infos, Fetch(info)
      PROVE  /\ ~halted' /\ flushes' \in {0, 4}
             /\ flushes' > 0 => HaltAt(F)'
  <2>1. pipe' = InsertAt(pipe, F, info.instruction)
    BY <1>4 DEF Fetch, Ingest
  <2>2. pipe'[F] = info.instruction
    BY <2>1 DEF InsertAt, Stages, F, W
  <2>3. \A t \in Stages : ~(t < F)
    BY DEF Stages, F, W
  <2> QED
    BY <1>4, <2>2, <2>3 DEF Fetch, Running, HaltAt
<1> QED
  BY <1>1, <1>2, <1>3, <1>4 DEF Next, Running

(* Every step preserves LineFits, and writes the lines it should.          *)
LEMMA NextLineFits ==
  ASSUME OneAtATime, LineFits, SimNext
  PROVE  /\ LineFits'
         /\ moves' # moves => output' = [number |-> moves, stages |-> moves]
         /\ output' # output => output'.number = Succ(output.number)
<1>1. CASE Iterate
  <2>1. Running /\ count = 0 /\ status # "HALT" /\ Printed
    BY <1>1 DEF Iterate, LineFits, Running
  <2>2. ~halted' /\ flushes' \in Nat
    BY <1>1, BodyRuns DEF Iterate
  <2>3. /\ cycles' = 1 /\ count' = 1 /\ status' # "HALT"
        /\ cycle' = cycleCount /\ cycleCount' = cycleCount
        /\ moves' = Succ(moves) /\ output' = output
    BY <1>1, <2>1 DEF Iterate, LineFits
  <2>4. Due'
    BY <2>1, <2>3 DEF Printed, Due, Succ
  <2> QED
    BY <2>1, <2>2, <2>3, <2>4 DEF LineFits, Printed
<1>2. CASE Shuffle
  <2>1. flushes > 0 /\ ~halted /\ ~Running /\ status # "HALT" /\ Due
    BY <1>2 DEF Shuffle, Flush, LineFits, Running
  <2>2. /\ output' = [number |-> moves, stages |-> moves]
        /\ cycleCount' = Succ(moves) /\ cycle' = cycleCount'
        /\ moves' = Succ(moves) /\ cycles' = cycles /\ count' = count
        /\ status' = status
    BY <1>2, <2>1 DEF Shuffle, Dump, Line, Due
  <2>3. Due' /\ output'.number = Succ(output.number)
    BY <2>1, <2>2 DEF Due, Succ
  <2>4. ~Running' /\ flushes' \in Nat /\ (flushes' > 0 => ~halted')
    <3>1. flushes \in Nat /\ flushes' = flushes - 1 /\ (halted' = (flushes = 1))
      BY <1>2 DEF Shuffle, Flush, LineFits
    <3>2. (flushes = 1 => halted') /\ (flushes # 1 => ~halted')
      BY <3>1, Zenon
    <3>3. flushes' \in Nat /\ (flushes' > 0 <=> flushes # 1)
      BY <2>1, <3>1
    <3> QED
      BY <3>2, <3>3 DEF Running
  <2> QED
    BY <2>1, <2>2, <2>3, <2>4 DEF LineFits, Due, Succ
<1>3. CASE Return
  <2>1. Due
    BY <1>3 DEF Return, LineFits, Running
  <2>2. /\ output' = [number |-> moves, stages |-> moves]
        /\ cycleCount' = Succ(moves) /\ moves' = moves /\ count' = 0
        /\ cycles' = 1 /\ flushes' = flushes /\ halted' = halted
        /\ status' = IF halted THEN "HALT" ELSE "SUCCESS"
        /\ halted \/ Running
    BY <1>3, <2>1 DEF Return, Dump, Line, Due, OneAtATime, vars
  <2>3. Printed'
    BY <2>2 DEF Printed, Succ
  <2>4. (Running' /\ count' = 0) \/ status' = "HALT"
    BY <2>2 DEF Running
  <2> QED
    BY <2>1, <2>2, <2>3, <2>4 DEF LineFits, Due
<1> QED
  BY <1>1, <1>2, <1>3 DEF SimNext

LEMMA InitLineFits ==
  ASSUME OneAtATime, SimInit PROVE LineFits
<1>1. Succ(CycleSpace - 1) = 0
  BY DriverAssumption DEF Succ
<1> QED
  BY <1>1 DEF SimInit, Init, OneAtATime, LineFits, Printed, Running

(* With runTillHalt, every state of the stages gets a line of its own,     *)
(* under consecutive numbers, for every instruction mix, every cache and   *)
(* every width of the counter (cycle.cpp:91, 261-289).                     *)
THEOREM CyclesArePrinted ==
  ASSUME OneAtATime
  PROVE  SimSpec => EveryCyclePrinted
<1> DEFINE Shown ==
      /\ moves' # moves => output' = [number |-> moves, stages |-> moves]
      /\ output' # output => output'.number = Succ(output.number)
<1>1. LineFits /\ [SimNext]_simVars => LineFits' /\ [Shown]_simVars
  <2>1. UNCHANGED simVars /\ LineFits => LineFits'
    BY DEF simVars, vars, LineFits, Printed, Due, Running
  <2> QED
    BY <2>1, NextLineFits
<1>2. SimInit => LineFits
  BY InitLineFits
<1> QED
  BY <1>1, <1>2, PTL DEF SimSpec, EveryCyclePrinted

(* The flush moves the halt on.                                            *)
LEMMA FlushMovesHalt ==
  ASSUME NEW s \in 0 .. 3, HaltAt(s), Flush
  PROVE  HaltAt(s + 1)'
<1>1. pipe' = InsertAt(pipe, F, NOP)
  BY DEF Flush, Ingest
<1>2. pipe'[F] = NOP /\ \A t \in 0 .. 3 : pipe'[t + 1] = pipe[t]
  BY <1>1 DEF InsertAt, Stages, F, W
<1>3. \A t \in Stages : t < s + 1 => pipe'[t] = NOP
  <2> SUFFICES ASSUME NEW t \in Stages, t < s + 1 PROVE pipe'[t] = NOP
    OBVIOUS
  <2>1. CASE t = F
    BY <1>2, <2>1
  <2>2. CASE t # F
    <3>1. t - 1 \in 0 .. 3 /\ t - 1 \in Stages /\ t - 1 < s /\ (t - 1) + 1 = t
      BY <2>2 DEF Stages, F, W
    <3> QED
      BY <1>2, <3>1 DEF HaltAt
  <2> QED
    BY <2>1, <2>2
<1> QED
  BY <1>2, <1>3 DEF HaltAt

(* Every step preserves HaltFits.                                          *)
LEMMA NextHaltFits ==
  ASSUME LineFits, HaltFits, SimNext
  PROVE  HaltFits'
<1>1. CASE Iterate
  <2>1. ~halted' /\ (flushes' > 0 => flushes' = 4 /\ HaltAt(F)')
    BY <1>1, BodyRuns DEF Iterate
  <2>2. flushes' > 0 => W - flushes' = F
    BY <2>1 DEF F, W
  <2> QED
    BY <2>1, <2>2 DEF HaltFits, HaltAt
<1>2. CASE Shuffle
  <2>1. /\ Flush /\ flushes \in 1 .. 4 /\ flushes' = flushes - 1
        /\ (halted' = (flushes = 1)) /\ HaltAt(W - flushes)
    BY <1>2 DEF Shuffle, Flush, HaltFits
  <2>2. PICK s \in 0 .. 3 : s = W - flushes
    BY <2>1 DEF W
  <2>3. HaltAt(s + 1)'
    BY <2>1, <2>2, FlushMovesHalt
  <2>4. flushes' > 0 => flushes' \in 1 .. 4 /\ W - flushes' = s + 1
    BY <2>1, <2>2 DEF W
  <2>5. halted' => flushes = 1
    BY <2>1, Zenon
  <2>6. halted' => W = s + 1
    BY <2>2, <2>5 DEF W
  <2> QED
    BY <2>3, <2>4, <2>6 DEF HaltFits, HaltAt
<1>3. CASE Return
  BY <1>3 DEF Return, vars, HaltFits, HaltAt
<1> QED
  BY <1>1, <1>2, <1>3 DEF SimNext

(* When runTillHalt ends, the last line shows the halt in W and nothing    *)
(* behind it, and the total is the number of lines, for every instruction  *)
(* mix, every cache and every width of the counter (cycle.cpp:261-289).    *)
THEOREM TotalCountsLines ==
  ASSUME OneAtATime
  PROVE  SimSpec => []TotalIsLines
<1>1. LineFits /\ HaltFits /\ [SimNext]_simVars => (LineFits /\ HaltFits)'
  <2>1. UNCHANGED simVars /\ LineFits /\ HaltFits => (LineFits /\ HaltFits)'
    BY DEF simVars, vars, LineFits, Printed, Due, Running, HaltFits, HaltAt
  <2> QED
    BY <2>1, NextLineFits, NextHaltFits
<1>2. SimInit => LineFits /\ HaltFits
  <2>1. SimInit => ~halted /\ ~(flushes > 0)
    BY DEF SimInit, Init
  <2> QED
    BY <2>1, InitLineFits DEF HaltFits
<1>3. LineFits /\ HaltFits => TotalIsLines
  <2> SUFFICES ASSUME LineFits, HaltFits, status = "HALT" PROVE TotalIsLines
    BY DEF TotalIsLines
  <2>1. Printed /\ HaltAt(W)
    BY DEF LineFits, HaltFits
  <2>2. pipe[W] # NOP /\ \A s \in Stages : s = W \/ s < W
    BY <2>1, DriverAssumption DEF HaltAt, Stages, F, W
  <2> QED
    BY <2>1, <2>2 DEF Printed, HaltAt, TotalIsLines
<1> QED
  BY <1>1, <1>2, <1>3, PTL DEF SimSpec
=============================================================================
