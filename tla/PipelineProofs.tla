--------------------------- MODULE PipelineProofs ---------------------------
(***************************************************************************)
(* Theorems about the pipeline, for every set of instruction records and   *)
(* every pair of cache configurations with a sound geometry.               *)
(***************************************************************************)
EXTENDS PipelineProperties, CacheOpsProofs, SequenceTheorems

RowsOK(c, cache) == \A s \in 0 .. NumSets(c) - 1 : RowOK(c, cache[s])

(* The inductive invariant.  That a miss never waits longer than its       *)
(* latency needs that the word in M hits while it waits, hence that it was *)
(* looked up when the stall began; that in turn needs that no exception    *)
(* moves the stages while a counter runs; and that a look-up leaves its    *)
(* block in the cache needs well-formed rows.                              *)
IInv ==
  /\ TypeOK
  /\ RowsOK(ICacheConfig, iCache)
  /\ RowsOK(DCacheConfig, dCache)
  /\ AddressTracksStage
  /\ ExceptionsMeetNoStall
  /\ StalledMeansLookedUp

(* The bubble is a word of no kind.                                        *)
LEMMA NopOK == /\ NOP \in Words
               /\ ~isLoad(NOP) /\ ~isStore(NOP) /\ ~UsesMemory(NOP)
               /\ ~isBranch(NOP) /\ ~isOp(NOP)
  BY DEF NOP, Words, UsesMemory, isLoad, isStore, isBranch, isOp, isImm, isRop,
         Loads, Stores, Branches, ImmediateOps, RegisterOps

(* No word is both a branch and an operation.                              *)
LEMMA BranchIsNoOp == ASSUME NEW word PROVE ~(isBranch(word) /\ isOp(word))
  BY DEF isBranch, isOp, isImm, isRop, Branches, ImmediateOps, RegisterOps

(* What a stage holds after the stages from s on have moved.               *)
LEMMA InsertAtValue ==
  ASSUME NEW stages, NEW s \in Stages, NEW x, NEW t \in Stages
  PROVE  /\ t < s => InsertAt(stages, s, x)[t] = stages[t]
         /\ t = s => InsertAt(stages, s, x)[t] = x
         /\ ~(t < s) /\ t # s => InsertAt(stages, s, x)[t] = stages[t - 1]
  BY DEF InsertAt, Stages, F, W

(* Inserting a value keeps a function on the stages one.                   *)
LEMMA InsertAtType ==
  ASSUME NEW S, NEW stages \in [Stages -> S], NEW s \in Stages, NEW x \in S
  PROVE  InsertAt(stages, s, x) \in [Stages -> S]
<1>1. \A t \in Stages : ~(t < s) /\ t # s => t - 1 \in Stages
  BY DEF Stages, F, W
<1> QED
  BY <1>1 DEF InsertAt

(* Moving words and addresses together, with a pair at s that belongs      *)
(* together, keeps every address beside its word.                          *)
LEMMA InsertAtTracks ==
  ASSUME AddressTracksStage, NEW s \in Stages, NEW word, NEW address,
         UsesMemory(word) => \E info \in Infos : /\ info.instruction = word
                                                 /\ info.address = address,
         pipe' = InsertAt(pipe, s, word),
         memAddresses' = InsertAt(memAddresses, s, address)
  PROVE  AddressTracksStage'
<1> SUFFICES ASSUME NEW t \in Stages, UsesMemory(pipe'[t])
             PROVE  \E info \in Infos : /\ info.instruction = pipe'[t]
                                        /\ info.address = memAddresses'[t]
  BY DEF AddressTracksStage
<1>1. CASE t < s
  <2>1. pipe'[t] = pipe[t] /\ memAddresses'[t] = memAddresses[t]
    BY <1>1, InsertAtValue
  <2> QED
    BY <2>1 DEF AddressTracksStage
<1>2. CASE t = s
  <2>1. pipe'[t] = word /\ memAddresses'[t] = address
    <3>1. /\ InsertAt(pipe, s, word)[s] = word
          /\ InsertAt(memAddresses, s, address)[s] = address
      BY DEF InsertAt, Stages, F, W
    <3> QED
      BY <3>1, <1>2
  <2> QED
    BY <2>1
<1>3. CASE ~(t < s) /\ t # s
  <2>1. t - 1 \in Stages
    BY <1>3 DEF Stages, F, W
  <2>2. pipe'[t] = pipe[t - 1] /\ memAddresses'[t] = memAddresses[t - 1]
    BY <1>3, InsertAtValue
  <2> QED
    BY <2>1, <2>2 DEF AddressTracksStage
<1> QED
  BY <1>1, <1>2, <1>3

(* Words and addresses that move together stay together.                   *)
LEMMA ShiftOK ==
  ASSUME TypeOK, AddressTracksStage, NEW s \in Stages,
         NEW word \in Words, NEW address \in Nat \union {NoAddress},
         UsesMemory(word) => \E info \in Infos : /\ info.instruction = word
                                                 /\ info.address = address,
         pipe' = InsertAt(pipe, s, word),
         memAddresses' = InsertAt(memAddresses, s, address)
  PROVE  /\ pipe' \in [Stages -> Words]
         /\ memAddresses' \in [Stages -> Nat \union {NoAddress}]
         /\ AddressTracksStage'
<1>1. pipe' \in [Stages -> Words]
  BY InsertAtType DEF TypeOK
<1>2. memAddresses' \in [Stages -> Nat \union {NoAddress}]
  BY InsertAtType DEF TypeOK
<1> QED
  BY <1>1, <1>2, InsertAtTracks

(* A bubble is a word without an address.                                  *)
LEMMA BubbleOK ==
  ASSUME TypeOK, AddressTracksStage, NEW s \in Stages,
         pipe' = InsertAt(pipe, s, NOP),
         memAddresses' = InsertAt(memAddresses, s, NoAddress)
  PROVE  /\ pipe' \in [Stages -> Words]
         /\ memAddresses' \in [Stages -> Nat \union {NoAddress}]
         /\ AddressTracksStage'
<1>1. NOP \in Words /\ ~UsesMemory(NOP)
  BY NopOK
<1> QED
  BY <1>1, ShiftOK

(* A look-up leaves the word in M looked up.  It charges a miss only when  *)
(* the block is absent, so that dMiss stays within the latency as long as  *)
(* a pending miss is of that block.                                        *)
LEMMA LookUpOK ==
  ASSUME dCache \in CacheType(DCacheConfig), RowsOK(DCacheConfig, dCache),
         memAddresses'[M] \in Nat \union {NoAddress},
         NEW pending \in 0 .. DCacheConfig.missLatency,
         \/ pending = 0
         \/ UsesMemory(pipe'[M]) /\ memAddresses'[M] # NoAddress
              => Hit(DCacheConfig, dCache, memAddresses'[M]),
         LookUpData(pending)
  PROVE  /\ dCache' \in CacheType(DCacheConfig)
         /\ RowsOK(DCacheConfig, dCache')
         /\ dMiss' \in 0 .. DCacheConfig.missLatency
         /\ LookedUp'
         /\ pending > 0 => dMiss' = pending
<1> DEFINE a == memAddresses'[M]
<1>0. DCacheConfig.missLatency \in Nat
  BY CachesAssumption DEF Geometry
<1>1. CASE UsesMemory(pipe'[M]) /\ a # NoAddress
  <2>1. a \in Nat
    BY <1>1
  <2>2. dCache' = AfterAccess(DCacheConfig, dCache, a)
    BY <1>1 DEF LookUpData
  <2>3. /\ dCache' \in CacheType(DCacheConfig)
        /\ RowsOK(DCacheConfig, dCache')
        /\ Hit(DCacheConfig, dCache', a)
    BY <2>1, <2>2, CachesAssumption, AccessOK DEF RowsOK
  <2>4. dMiss' = pending + (IF Hit(DCacheConfig, dCache, a)
                            THEN 0 ELSE DCacheConfig.missLatency)
    BY <1>1 DEF LookUpData
  <2>5. CASE Hit(DCacheConfig, dCache, a)
    BY <2>3, <2>4, <2>5, <1>0 DEF LookedUp
  <2>6. CASE ~Hit(DCacheConfig, dCache, a)
    BY <2>3, <2>4, <2>6, <1>0, <1>1 DEF LookedUp
  <2> QED
    BY <2>5, <2>6
<1>2. CASE ~(UsesMemory(pipe'[M]) /\ a # NoAddress)
  BY <1>2 DEF LookUpData, LookedUp
<1> QED
  BY <1>1, <1>2

(* The invariant holds of the empty pipeline.                              *)
LEMMA InitIInv == Init => IInv
<1> SUFFICES ASSUME Init PROVE IInv
  OBVIOUS
<1>1. /\ iCache \in CacheType(ICacheConfig) /\ RowsOK(ICacheConfig, iCache)
      /\ dCache \in CacheType(DCacheConfig) /\ RowsOK(DCacheConfig, dCache)
  BY CachesAssumption, EmptyCacheOK DEF Init, RowsOK
<1>2. \A s \in Stages : ~UsesMemory(pipe[s])
  BY NopOK DEF Init
<1>3. /\ pipe \in [Stages -> Words]
      /\ memAddresses \in [Stages -> Nat \union {NoAddress}]
  BY DEF Init, Words
<1>4. ~Stalled /\ except = 0
  BY DEF Init, Stalled
<1>5. ICacheConfig.missLatency \in Nat /\ DCacheConfig.missLatency \in Nat
  BY CachesAssumption DEF Geometry
<1>6. /\ iMiss = 0 /\ dMiss = 0 /\ dStall = 0 /\ xStall = 0 /\ except = 0
      /\ flushes = 0 /\ halted = FALSE
  BY DEF Init
<1>7. TypeOK
  <2>1. /\ iMiss \in 0 .. ICacheConfig.missLatency
        /\ dMiss \in 0 .. DCacheConfig.missLatency
        /\ dStall \in 0 .. 2 /\ xStall \in 0 .. 1 /\ except \in 0 .. 2
        /\ flushes \in 0 .. 4
    BY <1>5, <1>6
  <2>2. halted \in BOOLEAN
    BY <1>6
  <2> QED
    BY <1>1, <1>3, <2>1, <2>2 DEF TypeOK
<1> QED
  BY <1>1, <1>2, <1>4, <1>7
     DEF IInv, AddressTracksStage, ExceptionsMeetNoStall, StalledMeansLookedUp

(* One cycle of a stall: whatever moves the stages, as long as a pending   *)
(* data miss holds M.                                                      *)
LEMMA CountDownOK ==
  ASSUME IInv, Running, except = 0, Stalled, CountDown,
         pipe' \in [Stages -> Words],
         memAddresses' \in [Stages -> Nat \union {NoAddress}],
         AddressTracksStage',
         dMiss > 0 => pipe'[M] = pipe[M] /\ memAddresses'[M] = memAddresses[M]
  PROVE  IInv' /\ (dMiss > 0 => dMiss' = dMiss - 1)
<1> DEFINE pending == LessOne(dMiss)
           others == iMiss' > 0 \/ dStall' > 0 \/ xStall' > 0
<1>1. /\ dCache \in CacheType(DCacheConfig) /\ RowsOK(DCacheConfig, dCache)
      /\ iCache \in CacheType(ICacheConfig) /\ RowsOK(ICacheConfig, iCache)
  BY DEF IInv, TypeOK
<1>2. /\ iMiss \in 0 .. ICacheConfig.missLatency
      /\ dMiss \in 0 .. DCacheConfig.missLatency
      /\ dStall \in 0 .. 2 /\ xStall \in 0 .. 1
      /\ flushes \in 0 .. 4 /\ halted \in BOOLEAN
  BY DEF IInv, TypeOK
<1>3. ICacheConfig.missLatency \in Nat /\ DCacheConfig.missLatency \in Nat
  BY CachesAssumption DEF Geometry
<1>4. /\ pending \in 0 .. DCacheConfig.missLatency
      /\ dMiss = 0 => pending = 0
      /\ dMiss > 0 => pending = dMiss - 1
      /\ pending > 0 => dMiss > 0
  BY <1>2, <1>3 DEF LessOne
<1>5. /\ iMiss' \in 0 .. ICacheConfig.missLatency
      /\ dStall' \in 0 .. 2 /\ xStall' \in 0 .. 1
  BY <1>2, <1>3 DEF CountDown, LessOne
<1>6. /\ except' = 0 /\ flushes' = flushes /\ halted' = halted
      /\ iCache' = iCache
  BY DEF CountDown
<1>7. LookedUp
  BY DEF IInv, StalledMeansLookedUp
<1>8. \/ pending = 0 /\ dMiss = 0
      \/ UsesMemory(pipe'[M]) /\ memAddresses'[M] # NoAddress
           => Hit(DCacheConfig, dCache, memAddresses'[M])
  BY <1>2, <1>4, <1>7 DEF LookedUp
<1>9. memAddresses'[M] \in Nat \union {NoAddress}
  BY DEF Stages, F, M, W
<1> HIDE DEF pending
<1>10. /\ dCache' \in CacheType(DCacheConfig)
       /\ RowsOK(DCacheConfig, dCache')
       /\ dMiss' \in 0 .. DCacheConfig.missLatency
       /\ Stalled' => LookedUp'
       /\ dMiss > 0 => dMiss' = pending
  <2>1. CASE others
    <3>1. LookUpData(pending)
      BY <2>1 DEF CountDown, pending
    <3>2. /\ dCache' \in CacheType(DCacheConfig)
          /\ RowsOK(DCacheConfig, dCache')
          /\ dMiss' \in 0 .. DCacheConfig.missLatency
          /\ LookedUp'
          /\ pending > 0 => dMiss' = pending
      BY <3>1, <1>1, <1>4, <1>8, <1>9, LookUpOK
    <3>3. ASSUME dMiss > 0 PROVE dMiss' = pending
      <4>1. UsesMemory(pipe'[M]) /\ memAddresses'[M] # NoAddress
              => Hit(DCacheConfig, dCache, memAddresses'[M])
        BY <3>3, <1>8
      <4> QED
        BY <3>1, <4>1, <1>4 DEF LookUpData
    <3> QED
      BY <3>2, <3>3
  <2>2. CASE ~others
    <3>1. dCache' = dCache /\ dMiss' = pending
      BY <2>2 DEF CountDown, pending
    <3>2. ASSUME Stalled' PROVE LookedUp'
      <4>1. dMiss' > 0
        BY <3>2, <2>2 DEF Stalled
      <4>2. dMiss > 0
        BY <4>1, <3>1, <1>4
      <4> QED
        BY <4>2, <3>1, <1>7 DEF LookedUp
    <3> QED
      BY <3>1, <3>2, <1>1, <1>4
  <2> QED
    BY <2>1, <2>2
<1>11. TypeOK'
  BY <1>1, <1>2, <1>5, <1>6, <1>10 DEF TypeOK
<1>12. ExceptionsMeetNoStall'
  BY <1>6 DEF ExceptionsMeetNoStall
<1> QED
  BY <1>1, <1>4, <1>6, <1>10, <1>11, <1>12
     DEF IInv, StalledMeansLookedUp

(* The conjuncts that a step which leaves the counters and caches alone    *)
(* can disturb, when it only moves the stages.                             *)
LEMMA QuietStepOK ==
  ASSUME IInv, ~Stalled, UNCHANGED <<stalls, iCache, dCache>>,
         pipe' \in [Stages -> Words],
         memAddresses' \in [Stages -> Nat \union {NoAddress}],
         AddressTracksStage',
         except' \in 0 .. 2, flushes' \in 0 .. 4, halted' \in BOOLEAN
  PROVE  IInv'
<1>1. ~Stalled'
  BY DEF Stalled, stalls
<1>2. TypeOK'
  BY DEF IInv, TypeOK, stalls
<1> QED
  BY <1>1, <1>2 DEF IInv, ExceptionsMeetNoStall, StalledMeansLookedUp

(* A squashed fetch preserves it.                                          *)
LEMMA SquashOK == IInv /\ Squash => IInv'
<1> SUFFICES ASSUME IInv, Squash PROVE IInv'
  OBVIOUS
<1>1. ~Stalled
  BY DEF IInv, ExceptionsMeetNoStall, Squash
<1>2. /\ pipe' \in [Stages -> Words]
      /\ memAddresses' \in [Stages -> Nat \union {NoAddress}]
      /\ AddressTracksStage'
  <2>1. F \in Stages
    BY DEF Stages, F, W
  <2> QED
    BY <2>1, BubbleOK DEF IInv, Squash, Ingest
<1>3. /\ except' \in 0 .. 2 /\ flushes' \in 0 .. 4 /\ halted' \in BOOLEAN
      /\ UNCHANGED <<stalls, iCache, dCache>>
  BY DEF IInv, TypeOK, Squash
<1> QED
  BY <1>1, <1>2, <1>3, QuietStepOK

(* An exception preserves it: it finds no stall.                           *)
LEMMA TrapOK == ASSUME NEW info, IInv, Trap(info) PROVE IInv'
<1>1. /\ pipe' \in [Stages -> Words]
      /\ memAddresses' \in [Stages -> Nat \union {NoAddress}]
      /\ AddressTracksStage'
  <2>1. F \in Stages
    BY DEF Stages, F, W
  <2> QED
    BY <2>1, BubbleOK DEF IInv, Trap, Ingest
<1>2. /\ except' \in 0 .. 2 /\ flushes' \in 0 .. 4 /\ halted' \in BOOLEAN
      /\ ~Stalled /\ UNCHANGED <<stalls, iCache, dCache>>
  BY DEF IInv, TypeOK, Trap
<1> QED
  BY <1>1, <1>2, QuietStepOK

(* A frozen cycle preserves it and takes one cycle off the miss.           *)
LEMMA FreezeOK == IInv /\ Freeze => IInv' /\ dMiss' = dMiss - 1
<1> SUFFICES ASSUME IInv, Freeze PROVE IInv' /\ dMiss' = dMiss - 1
  OBVIOUS
<1>1. /\ pipe' = [pipe EXCEPT ![W] = NOP] /\ memAddresses' = memAddresses
      /\ dMiss > 0 /\ Running /\ except = 0 /\ Stalled /\ CountDown
  BY DEF Freeze, Stalled
<1>2. NOP \in Words /\ ~UsesMemory(NOP)
  BY NopOK
<1>3. /\ pipe \in [Stages -> Words]
      /\ memAddresses \in [Stages -> Nat \union {NoAddress}]
  BY DEF IInv, TypeOK
<1>4. pipe' \in [Stages -> Words]
  BY <1>1, <1>2, <1>3
<1>5. /\ pipe'[W] = NOP
      /\ \A s \in Stages : s # W => pipe'[s] = pipe[s]
  BY <1>1, <1>3 DEF Stages, F, W
<1>6. AddressTracksStage'
  BY <1>1, <1>2, <1>5 DEF IInv, AddressTracksStage
<1>7. pipe'[M] = pipe[M]
  BY <1>5 DEF Stages, F, M, W
<1> QED
  BY <1>1, <1>3, <1>4, <1>6, <1>7, CountDownOK

(* What the two bubbles have in common.                                    *)
LEMMA BubbleStepOK ==
  ASSUME NEW s \in Stages, IInv, Running, except = 0, Stalled, dMiss = 0,
         BubbleAt(s), CountDown
  PROVE  IInv'
<1>1. /\ pipe' \in [Stages -> Words]
      /\ memAddresses' \in [Stages -> Nat \union {NoAddress}]
      /\ AddressTracksStage'
  BY BubbleOK DEF IInv, BubbleAt
<1> QED
  BY <1>1, CountDownOK

(* A bubble at X preserves it.                                             *)
LEMMA StallAtXOK == IInv /\ StallAtX => IInv'
<1>1. X \in Stages
  BY DEF Stages, F, X, W
<1> QED
  BY <1>1, BubbleStepOK DEF StallAtX, Stalled

(* A bubble at D preserves it.                                             *)
LEMMA StallAtDOK == IInv /\ StallAtD => IInv'
<1>1. D \in Stages
  BY DEF Stages, F, D, W
<1> QED
  BY <1>1, BubbleStepOK DEF StallAtD, Stalled

(* A fetch, with its look-ups and the stalls it detects, preserves it.     *)
LEMMA FetchOK == ASSUME NEW info \in Infos, IInv, Fetch(info) PROVE IInv'
<1> DEFINE address == IF UsesMemory(info.instruction) THEN info.address
                                                      ELSE NoAddress
<1>1. /\ info.instruction \in Words
      /\ info.pc \in Nat
      /\ address \in Nat \union {NoAddress}
      /\ UsesMemory(info.instruction) => address = info.address
  BY InfosAssumption DEF InfoType
<1>2. /\ pipe' = InsertAt(pipe, F, info.instruction)
      /\ memAddresses' = InsertAt(memAddresses, F, address)
      /\ ~Stalled /\ except = 0
      /\ except' = except /\ halted' = halted /\ flushes' \in {0, 4}
  BY DEF Fetch, Ingest
<1>3. F \in Stages
  BY DEF Stages, F, W
<1> HIDE DEF address
<1>4. /\ pipe' \in [Stages -> Words]
      /\ memAddresses' \in [Stages -> Nat \union {NoAddress}]
      /\ AddressTracksStage'
  BY <1>1, <1>2, <1>3, ShiftOK DEF IInv
<1>5. /\ dMiss = 0 /\ dStall = 0
      /\ ICacheConfig.missLatency \in Nat /\ DCacheConfig.missLatency \in Nat
  BY <1>2, CachesAssumption DEF IInv, TypeOK, Stalled, Geometry
<1>6. /\ iCache' \in CacheType(ICacheConfig)
      /\ RowsOK(ICacheConfig, iCache')
      /\ iMiss' \in 0 .. ICacheConfig.missLatency
  <2>1. iCache' = AfterAccess(ICacheConfig, iCache, info.pc)
    BY DEF Fetch
  <2>2. iMiss' \in {0, ICacheConfig.missLatency}
    BY DEF Fetch
  <2> QED
    BY <2>1, <2>2, <1>1, <1>5, CachesAssumption, AccessOK
       DEF IInv, TypeOK, RowsOK
<1>7. /\ dCache' \in CacheType(DCacheConfig)
      /\ RowsOK(DCacheConfig, dCache')
      /\ dMiss' \in 0 .. DCacheConfig.missLatency
      /\ LookedUp'
  <2>1. dMiss \in 0 .. DCacheConfig.missLatency
    BY <1>5
  <2>2. memAddresses'[M] \in Nat \union {NoAddress}
    BY <1>4 DEF Stages, F, M, W
  <2>3. LookUpData(dMiss)
    BY DEF Fetch
  <2> QED
    BY <2>1, <2>2, <2>3, <1>5, LookUpOK DEF IInv, TypeOK
<1>8. xStall' \in 0 .. 1
  <2>1. xStall' = op_branch(pipe'[D], pipe'[X]) + load_op(pipe'[D], pipe'[X])
    BY DEF Fetch, XStallFor
  <2>2. \/ op_branch(pipe'[D], pipe'[X]) = 0
        \/ op_branch(pipe'[D], pipe'[X]) = 1 /\ isBranch(pipe'[D])
    BY DEF op_branch
  <2>3. \/ load_op(pipe'[D], pipe'[X]) = 0
        \/ load_op(pipe'[D], pipe'[X]) = 1 /\ isOp(pipe'[D])
    BY DEF load_op
  <2>4. ~(isBranch(pipe'[D]) /\ isOp(pipe'[D]))
    BY BranchIsNoOp
  <2> QED
    BY <2>1, <2>2, <2>3, <2>4
<1>9. dStall' \in 0 .. 2
  <2>1. dStall' = DStallFor(pipe')
    BY DEF Fetch
  <2> QED
    BY <2>1, <1>5 DEF DStallFor
<1>10. TypeOK'
  <2>1. except' \in 0 .. 2 /\ flushes' \in 0 .. 4 /\ halted' \in BOOLEAN
    BY <1>2 DEF IInv, TypeOK
  <2> QED
    BY <2>1, <1>4, <1>6, <1>7, <1>8, <1>9 DEF TypeOK
<1>11. ExceptionsMeetNoStall' /\ StalledMeansLookedUp'
  BY <1>2, <1>7 DEF ExceptionsMeetNoStall, StalledMeansLookedUp
<1> QED
  BY <1>4, <1>6, <1>7, <1>10, <1>11 DEF IInv

(* The flush moves the stages away from a pending miss, which is why       *)
(* StalledMeansLookedUp says nothing of it: no fetch follows.              *)
LEMMA FlushOK == IInv /\ Flush => IInv'
<1> SUFFICES ASSUME IInv, Flush PROVE IInv'
  OBVIOUS
<1>1. /\ flushes > 0 /\ flushes' = flushes - 1 /\ halted' = (flushes = 1)
      /\ except' = except
      /\ iMiss' = iMiss /\ dMiss' = dMiss /\ dStall' = dStall
      /\ xStall' = xStall /\ iCache' = iCache /\ dCache' = dCache
  BY DEF Flush, stalls
<1>2. F \in Stages
  BY DEF Stages, F, W
<1>3. /\ pipe' \in [Stages -> Words]
      /\ memAddresses' \in [Stages -> Nat \union {NoAddress}]
      /\ AddressTracksStage'
  BY <1>2, BubbleOK DEF IInv, Flush, Ingest
<1>4. flushes \in 0 .. 4
  BY DEF IInv, TypeOK
<1>5. flushes' \in 0 .. 4 /\ halted' \in BOOLEAN
  BY <1>1, <1>4
<1>6. ~Running'
  <2>1. CASE flushes = 1
    BY <2>1, <1>1 DEF Running
  <2>2. CASE flushes # 1
    <3>1. flushes' # 0
      BY <2>2, <1>1, <1>4
    <3> QED
      BY <3>1 DEF Running
  <2> QED
    BY <2>1, <2>2
<1>7. TypeOK'
  BY <1>1, <1>3, <1>5 DEF IInv, TypeOK
<1>8. Stalled' <=> Stalled
  BY <1>1 DEF Stalled
<1> QED
  BY <1>1, <1>3, <1>6, <1>7, <1>8
     DEF IInv, ExceptionsMeetNoStall, StalledMeansLookedUp

(* So does a step that changes nothing.                                    *)
LEMMA StutterOK == IInv /\ UNCHANGED vars => IInv'
  BY DEF IInv, vars, stalls, TypeOK, AddressTracksStage, ExceptionsMeetNoStall,
         StalledMeansLookedUp, LookedUp, Stalled, Running, RowsOK

(* Every step preserves it.                                                *)
LEMMA NextIInv == IInv /\ [Next]_vars => IInv'
<1> SUFFICES ASSUME IInv, [Next]_vars PROVE IInv'
  OBVIOUS
<1>1. CASE Squash
  BY <1>1, SquashOK
<1>2. CASE Freeze
  BY <1>2, FreezeOK
<1>3. CASE StallAtX
  BY <1>3, StallAtXOK
<1>4. CASE StallAtD
  BY <1>4, StallAtDOK
<1>5. ASSUME NEW info \in Infos, Trap(info) PROVE IInv'
  BY <1>5, TrapOK
<1>6. ASSUME NEW info \in Infos, Fetch(info) PROVE IInv'
  BY <1>6, FetchOK
<1>7. CASE Flush
  BY <1>7, FlushOK
<1>8. CASE UNCHANGED vars
  BY <1>8, StutterOK
<1> QED
  BY <1>1, <1>2, <1>3, <1>4, <1>5, <1>6, <1>7, <1>8 DEF Next

(* The invariant holds in every cycle, whatever is fetched and however     *)
(* misses, stalls, exceptions and the halt overlap (cycle.cpp:80-305).     *)
THEOREM InductiveInvariant == Spec => []IInv
  BY InitIInv, NextIInv, PTL DEF Spec

(* The counters of the pipeline stay in their ranges; in particular dMiss, *)
(* which the loop only adds to, never exceeds the miss latency.            *)
THEOREM PipelineTypeCorrect == Spec => []TypeOK
<1>1. IInv => TypeOK
  BY DEF IInv
<1> QED
  BY <1>1, InductiveInvariant, PTL

(* memAddresses stays aligned with pipeState.                              *)
THEOREM AddressesTrackStages == Spec => []AddressTracksStage
<1>1. IInv => AddressTracksStage
  BY DEF IInv
<1> QED
  BY <1>1, InductiveInvariant, PTL

(* An exception never squashes while a miss or a bubble is pending.        *)
THEOREM ExceptionsAlone == Spec => []ExceptionsMeetNoStall
<1>1. IInv => ExceptionsMeetNoStall
  BY DEF IInv
<1> QED
  BY <1>1, InductiveInvariant, PTL

(* The word in M has been looked up whenever the pipeline stalls.          *)
THEOREM StallsLookUp == Spec => []StalledMeansLookedUp
<1>1. IInv => StalledMeansLookedUp
  BY DEF IInv
<1> QED
  BY <1>1, InductiveInvariant, PTL

(* A data miss costs its latency and no more, whatever the latency, the    *)
(* geometry of the cache and the stalls that overlap it.                   *)
THEOREM MissesAreWaitedForOnce == Spec => MissWaitedForOnce
<1>1. ASSUME IInv, [Next]_vars, Running, dMiss > 0
      PROVE  UNCHANGED vars \/ (dMiss' = dMiss - 1 /\ pipe'[M] = pipe[M])
  <2>1. CASE Freeze
    <3>1. dMiss' = dMiss - 1
      BY <2>1, <1>1, FreezeOK
    <3>2. pipe'[M] = pipe[M]
      <4>1. pipe \in [Stages -> Words] /\ pipe' = [pipe EXCEPT ![W] = NOP]
        BY <2>1, <1>1 DEF IInv, TypeOK, Freeze
      <4> QED
        BY <4>1 DEF Stages, F, M, W
    <3> QED
      BY <3>1, <3>2
  <2>2. ~Squash /\ ~Flush /\ ~StallAtX /\ ~StallAtD
    BY <1>1 DEF IInv, TypeOK, ExceptionsMeetNoStall, Stalled, Squash, Flush,
                Running, StallAtX, StallAtD
  <2>3. \A info \in Infos : ~Trap(info) /\ ~Fetch(info)
    BY <1>1 DEF Trap, Fetch, Stalled
  <2> QED
    BY <1>1, <2>1, <2>2, <2>3 DEF Next
<1>2. IInv /\ [Next]_vars
        => [Running /\ dMiss > 0 => dMiss' = dMiss - 1 /\ pipe'[M] = pipe[M]]_vars
  BY <1>1
<1> QED
  BY <1>2, InductiveInvariant, PTL DEF Spec, MissWaitedForOnce
-----------------------------------------------------------------------------
(* The words behind the one in W, oldest first.                            *)
Behind == Occupant(pipe[M]) \o Occupant(pipe[X]) \o Occupant(pipe[D])
            \o Occupant(pipe[F])

(* A stage adds one word to the queue, or none.                            *)
LEMMA OccupantOK ==
  ASSUME NEW word \in Words
  PROVE  /\ Occupant(word) \in Seq(Words)
         /\ Len(Occupant(word)) \in 0 .. 1
         /\ word = NOP => Occupant(word) = <<>>
         /\ word # NOP => Occupant(word) = <<word>>
  BY DEF Occupant

(* Five stages hold five words at most.                                    *)
LEMMA FiveWords ==
  ASSUME NEW p \in [Stages -> Words]
  PROVE  /\ Occupant(p[M]) \o Occupant(p[X]) \o Occupant(p[D]) \o Occupant(p[F])
              \in Seq(Words)
         /\ Len(Occupant(p[W]) \o Occupant(p[M]) \o Occupant(p[X])
                  \o Occupant(p[D]) \o Occupant(p[F])) <= 5
<1>1. \A s \in Stages : /\ Occupant(p[s]) \in Seq(Words)
                        /\ Len(Occupant(p[s])) \in 0 .. 1
  BY OccupantOK
<1>2. F \in Stages /\ D \in Stages /\ X \in Stages /\ M \in Stages /\ W \in Stages
  BY DEF Stages, F, D, X, M, W
<1>3. ASSUME NEW a \in Seq(Words), NEW b \in Seq(Words), NEW c \in Seq(Words),
             NEW d \in Seq(Words)
      PROVE  /\ a \o b \o c \o d \in Seq(Words)
             /\ Len(a \o b \o c \o d) = Len(a) + Len(b) + Len(c) + Len(d)
  <2>1. a \o b \in Seq(Words) /\ Len(a \o b) = Len(a) + Len(b)
    BY ConcatProperties
  <2>2. a \o b \o c \in Seq(Words) /\ Len(a \o b \o c) = Len(a \o b) + Len(c)
    BY <2>1, ConcatProperties
  <2> QED
    BY <2>1, <2>2, ConcatProperties
<1>4. ASSUME NEW a \in Seq(Words), NEW b \in Seq(Words), NEW c \in Seq(Words),
             NEW d \in Seq(Words), NEW e \in Seq(Words)
      PROVE  Len(a \o b \o c \o d \o e) = Len(a) + Len(b) + Len(c) + Len(d) + Len(e)
  BY <1>3, ConcatProperties
<1>5. Len(Occupant(p[W]) \o Occupant(p[M]) \o Occupant(p[X])
            \o Occupant(p[D]) \o Occupant(p[F]))
        = Len(Occupant(p[W])) + Len(Occupant(p[M])) + Len(Occupant(p[X]))
            + Len(Occupant(p[D])) + Len(Occupant(p[F]))
  BY <1>1, <1>2, <1>4
<1>6. \A i, j, k, l, m \in 0 .. 1 : i + j + k + l + m <= 5
  OBVIOUS
<1>7. Occupant(p[M]) \o Occupant(p[X]) \o Occupant(p[D]) \o Occupant(p[F])
        \in Seq(Words)
  BY <1>1, <1>2, <1>3
<1>8. Len(Occupant(p[W])) + Len(Occupant(p[M])) + Len(Occupant(p[X]))
        + Len(Occupant(p[D])) + Len(Occupant(p[F])) <= 5
  BY <1>1, <1>2, <1>6
<1> QED
  BY <1>5, <1>7, <1>8

(* Retiring the word in W, if there is one, leaves those behind it.        *)
LEMMA BehindIsRest ==
  ASSUME pipe \in [Stages -> Words]
  PROVE  Behind \in Queue!AfterRetire
<1> DEFINE w == Occupant(pipe[W])
           m == Occupant(pipe[M])
           x == Occupant(pipe[X])
           d == Occupant(pipe[D])
           f == Occupant(pipe[F])
<1>1. /\ w \in Seq(Words) /\ m \in Seq(Words) /\ x \in Seq(Words)
      /\ d \in Seq(Words) /\ f \in Seq(Words)
  BY OccupantOK DEF Stages, F, D, X, M, W
<1>2. InFlight = w \o m \o x \o d \o f /\ Behind = m \o x \o d \o f
  BY DEF InFlight, Behind
<1>3. pipe[W] \in Words
  BY DEF Stages, F, W
<1>4. CASE pipe[W] = NOP
  <2>1. w = <<>>
    BY <1>4 DEF Occupant
  <2> HIDE DEF w, m, x, d, f
  <2>2. InFlight = Behind
    BY <1>1, <1>2, <2>1, ConcatEmptySeq
  <2>3. InFlight = <<>> => Behind = <<>>
    BY <2>2
  <2> QED
    BY <2>2, <2>3 DEF Queue!AfterRetire
<1>5. CASE pipe[W] # NOP
  <2>1. w = <<pipe[W]>>
    BY <1>5 DEF Occupant
  <2> HIDE DEF w, m, x, d, f
  <2>2. InFlight = <<pipe[W]>> \o Behind
    <3>1. w \o m \o x \o d \o f = w \o (m \o x \o d \o f)
      BY <1>1, SMTT(60)
    <3> QED
      BY <1>2, <2>1, <3>1
  <2>3. Behind \in Seq(Words)
    BY FiveWords DEF Behind
  <2>4. InFlight # <<>> /\ Tail(InFlight) = Behind
    BY <1>3, <2>2, <2>3
  <2> QED
    BY <2>4 DEF Queue!AfterRetire
<1> QED
  BY <1>4, <1>5

(* Whatever moves the stages leaves the words behind W in their order; a   *)
(* word put into F is the last.                                            *)
LEMMA StagesKeepOrder ==
  ASSUME pipe \in [Stages -> Words], NEW word \in Words
  PROVE  /\ pipe' = InsertAt(pipe, F, word) => InFlight' = Behind \o Occupant(word)
         /\ pipe' = InsertAt(pipe, D, NOP) => InFlight' = Behind
         /\ pipe' = InsertAt(pipe, X, NOP) => InFlight' = Behind
         /\ pipe' = [pipe EXCEPT ![W] = NOP] => InFlight' = Behind
<1> DEFINE m == Occupant(pipe[M])
           x == Occupant(pipe[X])
           d == Occupant(pipe[D])
           f == Occupant(pipe[F])
<1>1. /\ m \in Seq(Words) /\ x \in Seq(Words)
      /\ d \in Seq(Words) /\ f \in Seq(Words)
      /\ Occupant(word) \in Seq(Words)
  BY OccupantOK DEF Stages, F, D, X, M, W
<1>2. /\ Behind = m \o x \o d \o f
      /\ InFlight' = Occupant(pipe'[W]) \o Occupant(pipe'[M]) \o Occupant(pipe'[X])
                       \o Occupant(pipe'[D]) \o Occupant(pipe'[F])
      /\ Occupant(NOP) = <<>>
  BY DEF InFlight, Behind, Occupant
<1>3. ASSUME pipe' = InsertAt(pipe, F, word)
      PROVE  InFlight' = Behind \o Occupant(word)
  <2>1. /\ pipe'[W] = pipe[M] /\ pipe'[M] = pipe[X] /\ pipe'[X] = pipe[D]
        /\ pipe'[D] = pipe[F] /\ pipe'[F] = word
    BY <1>3 DEF InsertAt, Stages, F, D, X, M, W
  <2> QED
    BY <1>2, <2>1
<1>4. ASSUME pipe' = InsertAt(pipe, D, NOP) PROVE InFlight' = Behind
  <2>1. /\ pipe'[W] = pipe[M] /\ pipe'[M] = pipe[X] /\ pipe'[X] = pipe[D]
        /\ pipe'[D] = NOP /\ pipe'[F] = pipe[F]
    BY <1>4 DEF InsertAt, Stages, F, D, X, M, W
  <2>2. InFlight' = m \o x \o d \o <<>> \o f
    BY <1>2, <2>1
  <2> HIDE DEF m, x, d, f
  <2>3. m \o x \o d \in Seq(Words)
    BY <1>1, ConcatProperties
  <2> QED
    BY <1>2, <2>2, <2>3, ConcatEmptySeq
<1>5. ASSUME pipe' = InsertAt(pipe, X, NOP) PROVE InFlight' = Behind
  <2>1. /\ pipe'[W] = pipe[M] /\ pipe'[M] = pipe[X] /\ pipe'[X] = NOP
        /\ pipe'[D] = pipe[D] /\ pipe'[F] = pipe[F]
    BY <1>5 DEF InsertAt, Stages, F, D, X, M, W
  <2>2. InFlight' = m \o x \o <<>> \o d \o f
    BY <1>2, <2>1
  <2> HIDE DEF m, x, d, f
  <2>3. m \o x \in Seq(Words)
    BY <1>1, ConcatProperties
  <2> QED
    BY <1>2, <2>2, <2>3, ConcatEmptySeq
<1>6. ASSUME pipe' = [pipe EXCEPT ![W] = NOP] PROVE InFlight' = Behind
  <2>1. /\ pipe'[W] = NOP /\ pipe'[M] = pipe[M] /\ pipe'[X] = pipe[X]
        /\ pipe'[D] = pipe[D] /\ pipe'[F] = pipe[F]
    BY <1>6 DEF Stages, F, D, X, M, W
  <2>2. InFlight' = <<>> \o m \o x \o d \o f
    BY <1>2, <2>1
  <2> HIDE DEF m, x, d, f
  <2> QED
    BY <1>1, <1>2, <2>2, ConcatEmptySeq
<1> QED
  BY <1>3, <1>4, <1>5, <1>6

(* A cycle retires the word in W and lets in the word it fetches, if any.  *)
LEMMA NextImplementsInOrder ==
  ASSUME IInv, Next
  PROVE  Queue!Next
<1>1. pipe \in [Stages -> Words] /\ pipe' \in [Stages -> Words]
  <2>1. IInv'
    BY NextIInv
  <2> QED
    BY <2>1 DEF IInv, TypeOK
<1>2. Behind \in Queue!AfterRetire
  BY <1>1, BehindIsRest
<1>3. Len(InFlight') <= 5 /\ Behind \in Seq(Words)
  BY <1>1, FiveWords DEF InFlight, Behind
<1>4. (Running /\ except = 0 /\ ~Stalled)' \in BOOLEAN
  BY DEF Running, Stalled
<1>5. NOP \in Words
  BY NopOK
<1>6. InFlight' = Behind
      \/ /\ Running /\ except = 0 /\ ~Stalled
         /\ \E i \in {info.instruction : info \in Infos} \ {NOP} :
              InFlight' = Append(Behind, i)
  <2>1. CASE Squash \/ Flush \/ \E info \in Infos : Trap(info)
    <3>1. pipe' = InsertAt(pipe, F, NOP)
      BY <2>1 DEF Squash, Flush, Trap, Ingest
    <3>2. InFlight' = Behind \o Occupant(NOP)
      BY <1>1, <1>5, <3>1, StagesKeepOrder
    <3>3. Occupant(NOP) = <<>>
      BY DEF Occupant
    <3> QED
      BY <1>3, <3>2, <3>3, ConcatEmptySeq
  <2>2. CASE Freeze \/ StallAtX \/ StallAtD
    BY <1>1, <1>5, <2>2, StagesKeepOrder DEF Freeze, StallAtX, StallAtD, BubbleAt
  <2>3. ASSUME NEW info \in Infos, Fetch(info)
        PROVE  InFlight' = Behind
               \/ /\ Running /\ except = 0 /\ ~Stalled
                  /\ \E i \in {given.instruction : given \in Infos} \ {NOP} :
                       InFlight' = Append(Behind, i)
    <3> DEFINE word == info.instruction
    <3>1. word \in Words
      BY InfosAssumption DEF InfoType
    <3>2. pipe' = InsertAt(pipe, F, word) /\ Running /\ except = 0 /\ ~Stalled
      BY <2>3 DEF Fetch, Ingest
    <3>3. word \in {i.instruction : i \in Infos}
      OBVIOUS
    <3> HIDE DEF word
    <3>4. InFlight' = Behind \o Occupant(word)
      BY <1>1, <3>1, <3>2, StagesKeepOrder
    <3>5. CASE word = NOP
      BY <1>3, <3>4, <3>5, ConcatEmptySeq DEF Occupant
    <3>6. CASE word # NOP
      <4>1. Behind \o <<word>> = Append(Behind, word)
        BY <1>3, <3>1, AppendIsConcat
      <4> QED
        BY <3>2, <3>3, <3>4, <3>6, <4>1 DEF Occupant
    <3> QED
      BY <3>5, <3>6
  <2> QED
    BY <2>1, <2>2, <2>3 DEF Next
<1> QED
  BY <1>2, <1>3, <1>4, <1>6 DEF Queue!Next, Queue!Issue

(* The words in flight are a queue of at most five, whatever is fetched    *)
(* and however misses, bubbles, exceptions and the flush overlap.          *)
THEOREM PipelineImplementsInOrder == Spec => ImplementsInOrder
<1>1. Init => Queue!Init
  <2> SUFFICES ASSUME Init PROVE Queue!Init
    OBVIOUS
  <2>1. \A s \in Stages : Occupant(pipe[s]) = <<>>
    BY DEF Init, Occupant
  <2>2. F \in Stages /\ D \in Stages /\ X \in Stages /\ M \in Stages /\ W \in Stages
    BY DEF Stages, F, D, X, M, W
  <2>3. InFlight = <<>> \o <<>> \o <<>> \o <<>> \o <<>>
    BY <2>1, <2>2 DEF InFlight
  <2>4. <<>> \o <<>> = <<>>
    BY ConcatEmptySeq, EmptySeq
  <2>5. InFlight = <<>>
    BY <2>3, <2>4
  <2>6. (Running /\ except = 0 /\ ~Stalled) \in BOOLEAN
    BY DEF Running, Stalled
  <2> QED
    BY <2>5, <2>6 DEF Queue!Init
<1>2. IInv /\ [Next]_vars => [Queue!Next]_(Queue!vars)
  <2>1. CASE Next
    BY <2>1, NextImplementsInOrder
  <2>2. CASE UNCHANGED vars
    BY <2>2 DEF vars, stalls, Queue!vars, InFlight, Running, Stalled
  <2> QED
    BY <2>1, <2>2
<1> QED
  BY <1>1, <1>2, InductiveInvariant, PTL DEF Spec, ImplementsInOrder, Queue!Spec
=============================================================================
