# A verification of the pipeline simulator

The repository simulates a MIPS-like processor twice: `sim_funct` executes one
instruction after the other, `sim_cycle` also counts the cycles that a five-stage
pipeline with an instruction and a data cache would take. This directory holds TLA+
modules of its parts, configurations to model-check them with TLC, and theorems about
them with proofs that TLAPS checks.

All paths to code below are relative to `src/`.

## Inventory

| Component | State | Operations | What makes it correct |
|---|---|---|---|
| Cache (`cache.cpp`) | per row: tags, rank of recency, valid bit of each way; hits, misses | construct, `access` | ranks of valid ways are a permutation, no block twice, replacement is LRU per set |
| Memory (`MemoryStore.cpp`) | byte array | construct (zero, `init_mem_image`, program file), `getMemValue`, `setMemValue` in three sizes, `printMemArray` | starts as the files say; big-endian reads of all sizes agree; a failed access damages nothing else; a dump shows what reads return |
| Emulator (`emulator.cpp`) | 32 registers, PC, `encounteredBranch`, `savedBranch`, `din`, the memory | `executeInstruction` | delay slots, exceptions, `$0`, wrap-around and overflow are those of the instruction set |
| Pipeline (`cycle.cpp`) | words in five stages, `memAddresses` beside them, counters `iMiss`, `dMiss`, `dStall`, `xStall`, `except`, both caches | `runCycles`, once per cycle | in-order, nothing lost; every use separated from what it depends on; a miss charged once; all fetched words get out |
| Driver (`cycle.cpp`) | `cycleCount`, `pipeState.cycle`, the argument and count of a call | `runTillHalt`, `runCycles(n)`, `dump` | each cycle gets one line in the trace, and the total is their number |
| Functional driver (`funct.cpp`) | the emulator | `runTillHalt` | stops at the halt and only there |
| Utilities (`Utilities.cpp`, `RegisterInfo.h`) | none | decodes words for the trace, dumps | the trace names what was executed, with the registers it reads and writes |
| Command lines | none | parsing, construction | not modelled |

How they interact: everything runs in one thread, by calls. `sim_cycle` builds a
`MemoryStore` and two `Cache`s and calls `runTillHalt`, which calls `runCycles(1)` until it
returns HALT. In a cycle in which the pipeline does not stall, `runCycles` calls
`executeInstruction` (which reads and writes the memory at once), then `access` of the
instruction cache, pushes the word into IF, calls `access` of the data cache for the word
that is now in MEM, and detects hazards. The functional simulation is thus *ahead* of the
timing: the pipeline holds words that have been executed already, and only decides when
they move.

What is hard in it:

- Four counters and an exception counter overlap. They all run down in the same cycle
  while only one of them decides how the stages move.
- `memAddresses` is shifted by other statements than the words it belongs to.
- The data cache is looked up by what *is in* MEM, not by what *enters* it, so a word may
  be looked up several times, or never.
- The halt flushes the pipeline in the call that fetches it.
- The emulator defers branches by one instruction and resets `$0` one instruction late;
  exceptions cut across both.
- Overflow is tested with arithmetic that overflows.
- The stall table decides by register fields what the emulator decides by executing, and
  the trace decodes words once more with tables of its own: three readings of one word.
- The flush prints before it moves the stages, every other cycle after.
- Reads and writes of the memory fail in the middle; the two loaders treat that differently.

There are no threads, messages or persistent state, so there are no hazards of
concurrency, crashes or lost messages here. `PROJECT.json` lists the hazards by line.

## Modules

| Module | What it is |
|---|---|
| `Opcodes`, `Hazards` | the instructions; the predicates of `cycle.cpp` on words and its stall table |
| `CacheOps` | a row and an access to it, as operators on a configuration record |
| `Cache` | a cache as a state machine: `Access` |
| `LRU` | what a cache promises: per set, the most recent blocks, newest first |
| `Pipeline` | the loop body of `runCycles` |
| `InOrder` | what the pipeline promises of the words in flight: a queue of at most five |
| `Interlocked` | what the stall table promises: a pipeline that looks at its stages anew in each cycle |
| `PipelineProperties` | the properties of the pipeline |
| `Driver` | `runTillHalt` and `runCycles` around the loop body: calls, counting, dumps |
| `MemoryOps` | `getOrSetValue`: reads and writes of 1, 2 and 4 bytes |
| `MemoryStore` | construction and use of the memory |
| `MemoryDump` | `printMemArray`, after the simulation: the loops over rows and entries |
| `WordOps` | words as numbers, and what the arithmetic instructions compute |
| `Emulator` | `executeInstruction` under `runTillHalt` of `funct.cpp` |
| `MIPS` | the instruction set as a programmer reads it |
| `Dependences` | the emulator against the stall table: what an instruction does to the next one |
| `Trace` | `printInstr`: what the trace shows of an instruction, against what the emulator does with it |
| `MC...` | the instances for TLC |
| `CacheOpsProofs`, `CacheProofs`, `PipelineProofs`, `InterlockProofs`, `MemoryOpsProofs`, `MemoryProofs`, `EmulatorProofs`, `DependenceProofs` | the theorems |

`Pipeline` uses `CacheOps` directly for its two caches, `Emulator` uses `MemoryOps` for
its memory. So what is proved of a row or of a write serves both. `Dependences` is where
emulator and pipeline meet: it extends `Emulator` and the `Hazards` of `Pipeline`.

### Cache

A configuration is the record of `CacheConfig`. `countBitsForPowerOfTwo` rounds block size
and number of rows *down* to powers of two (`CountBits`), while the rows are allocated with
the number given; the model keeps both (`IndexRange`, `NumSets`), so a cache of three rows
has one that is never used. `Hit` and `AfterAccess` are the result and effect of `access`;
`Promote`, `Fill` and `Evict` its three ways of updating a row. The cache allocates on reads and
writes alike and never writes back. The assumption `Geometry` says that sizes are positive
and the cache holds at least one row; without it the constructor makes no rows and an
access would leave the vectors. Counters wrap modulo `CounterModulus` (2^32).

### Pipeline

One step of `Pipeline` is one line of the pipe-state file: one round of the loop of
`runCycles`, or one round of the flush. Stages are numbered as in
`memAddresses`. The cases of the loop are actions of their own:

| Action | Code |
|---|---|
| `Squash` | an exception is pending (`except > 0`) |
| `Freeze` | a data miss is pending: WB retires, nothing else moves |
| `StallAtX`, `StallAtD` | a bubble is inserted at EX, or at ID (also for an instruction miss) |
| `Trap` | the instruction fetched is invalid or overflows |
| `Fetch` | any other fetch: caches, stages, hazards, and the flush started by the halt |
| `Flush` | one of the four bubbles behind the halt |

The emulator is the environment: a fetch takes any member of the constant `Infos`. What
the pipeline reads of a word is which predicate (`isLoad`, ...) holds of it and its register
fields. `memAddresses` is an array of `int` with -1 for "no address", so the address
`0xFFFFFFFF` *is* no address; `MCPipeline` has an instruction that uses it.

`Interlocked` has the same stages and no counters but the one of the fetch in progress: what
moves is decided, in each cycle, by the words that are in the stages then. That `Pipeline`
implements it says that setting counters at a fetch and running them down later is as good.

`Driver` puts the loop body into calls. `Iterate` is a loop body in a call of
`runCycles(cycles)`, `Shuffle` a round of the flush, `Return` the end of a call (and the next
call). `moves` is a history variable that numbers the states of the stages and stands for
their contents in a line of the trace.

### Memory

The array has `NumEntries` bytes from `startAddr` on; a byte has `Radix` (256) values. As in
the code, an access goes byte by byte and stops at the first one out of range;
`Reached` is the set of bytes it gets to, and what it did stays done. The phases of the constructor
are actions: words of `init_mem_image`, the round of the loop behind the last word, the bytes of the program,
and the paths on which a file does not exist or a write fails. An image is a sequence of pairs of
address and word; one that ends in the middle of a pair, or in text that is no number, is not
modelled. Afterwards, `Get` and `Set`
are called with any address and size, until `Finish`. `MemoryDump` continues from there with
`printMemArray` for any range and entry size (`DumpSpec`): `PrintEntry` is a round of the
inner loop, also the one in which `memArr.at` throws and leaves the entry cut, `NextRow` the end of a row,
`Return` the two places where the range is at its end. `relStart`, `curAddr` and `column` are the
variables of the loops; `printed` is what is on the paper, each entry with the address in front of
its row and its place in it.

### Emulator

An instruction is the record of the fields that `executeInstruction` extracts. The word at
PC is any member of `Instructions`: a program may be anything and may overwrite itself, so
what is checked holds of every program, and the fetch needs no encoding of instructions. For the
same reason the initial contents of the memory do not matter to control, and are zero.
`Bits` and `OfBits` give the logical operations and shifts on
numbers.

Signed overflow is undefined in C++, and the tests for it in `executeInstruction` compute
the sum they test. The makefile builds with `-O3`; a compiler may then take the test for
false, and g++ does (`$t3` becomes `0xfffffffe` in `test/overflow.asm`). Without
optimisation the sum wraps and the test works. The variable `optimised` is this choice: it
is chosen once, as a build is, and where it is true an overflow may be raised or not.

`MIPS` states the same instructions without the deferral: two program counters `pc` and
`npc`, integer arithmetic, `$0` never written. The refinement mapping reads `npc` as
`Advanced`, the PC that the next `executeInstruction` would move to, and the registers as `Zeroed`,
with the pending reset of `$0` done. `MIPS` leaves a branch in a delay slot UNPREDICTABLE,
as the architecture does. Which operations trap is a constant of `MIPS`; the code's are
`add`, `addi` and `subu`. `lenient` lets an overflow go by where the build may.

`Dependences` compares the state before and after an instruction: it *affects* the next one if
executing it changes what that one reads (`Inputs`). The stall table, which only sees
register fields (`WordOf`), must hold a branch, and an operation behind a load, whenever it is
affected. `Trace` has the numbers of `emulator.h` (`OP_IDS`, `FUNCT_IDS`) and those of
`Utilities.cpp` (`PrintedOps`, `PrintedFuncts`), goes from the one to the other by the code in
the word, and lists the registers of the line.

## Runs

Runs expected to pass:

| Run | Bounds, and why they are enough | Shows |
|---|---|---|
| `cache_lru` | 3 ways, 3 rows of which 2 are reached, two-byte blocks; 4 blocks compete for one row, next to 2 of the other | one block more than ways makes every rank, fill and eviction happen. Refinement of `LRU`, consistency of rows |
| `pipeline` | 11 instruction records: loads and stores at two addresses that evict each other from caches of one block, at two PCs that do the same; exceptions, halt; latencies 3 and 2 | latencies longer than a bubble and unequal let every counter outlive every other. Order, addresses, miss charged once, and liveness |
| `pipeline_hazards` | 12 records with all pairs of use and dependence, no data-miss latency, no exceptions; calls for one cycle; a counter of three values | separation of uses and exact timing (refinement of `Interlocked`), under any instruction misses; a line for each cycle, also across the wrap of the counter |
| `memory` | six one-bit bytes in a space of 16 addresses; images and programs missing, empty, short, too long | words and halves across the end of memory and across the end of the address space; dumps of ranges that are whole rows, cut, backwards, across the end, with two entries in a row |
| `emulator` | words of four bits, four addresses, three registers, four instructions of a program | each pair of a branch, its slot and what follows, with every operand that wraps. Refinement of `MIPS`; each pair of an instruction and any next one, for dependences and trace |

`pipeline_hazards` leaves the latency of data misses out because the separation does *not*
hold with it; `miss_hides_bubble` is that run. It leaves exceptions out because a `Trap`
returns before the hazards are detected, so a branch that is in ID then is not held
behind an operation in EX. Nothing in the repository shows that case, so no run states it.

Runs expected to be violated. Each quotes what the repository says elsewhere:

| Run | What the code does |
|---|---|
| `miss_hides_bubble` | a data miss uses up the bubble of a load-op stall that overlaps it |
| `last_stall_lookup` | a load or store that the last stall cycle moves into MEM never looks the data cache up |
| `flush_skips_miss` | the flush behind the halt does not wait for a data miss |
| `address_of_load` | a load or store whose address was just loaded is not stalled |
| `image_loses_word` | the loop over `init_mem_image` has a round too many and zeroes the word at address 0 |
| `overflow_unseen` | with `-O3`, additions that overflow need not trap |
| `subtraction_wraps` | `subu` traps, `sub` does not |

The first four disagree with `test/stall_cycle_pipe_state_true.out`, the trace that
`stall_cycle_pipe_state.out` is meant to match. (A branch behind an operation is held in ID by
the code, by the table in its comment (`cycle.cpp:234`) and in `fib_cycle_pipe_state_true.out`;
`brst_cycle_pipe_state_true.out` alone holds it in IF, for the same number of cycles.
`Interlocked` follows the code.)

Deadlock is not checked where the system stops: after the flush, and
after the halt of the emulator or an aborted construction. It is checked for the cache.

### Fairness

Only `FetchedReachesW` needs fairness: `WF_vars(Next)`, nothing finer. `runTillHalt` calls
`runCycles` until it returns HALT, so a cycle that can be simulated is simulated. Nothing is
assumed of the choice of instruction. In particular the fairness does not say that a
program halts; the property holds because later fetches push a word on as well as stalls
run out.

## Theorems

TLC checks the instances above; these hold for all values of the constants that satisfy
the named assumptions.

**Cache** (any geometry). `CacheTypeCorrect`, `CacheRowsCorrect`. `TypeOK /\ RowsOK` is
inductive: `RowOK` says that valid ways come first, their ranks are the numbers from 1 to
how many there are, each once, and no tag is held twice. None of the three survives without the others: the
victim is the way whose rank is the number of ways, which exists, once, only because ranks are a
permutation, and `Promote` keeps them one only because the hit way is unique. The lemma `AccessOK` states
this for an access and is used again for both caches of the pipeline.
`CacheImplementsLRU` is the refinement: in a row that is `RowOK`, the valid ways in the
order of their ranks are a sequence without repetitions (`Ranking`, `RowRanks`), a block
hits exactly if it is in that sequence, and an access moves or puts it in front and drops
the last if the row was full (`TouchByRanks`, `AccessTouches`). Tag and index together tell
blocks apart (`BlockTellsTag`), so that rows of other indices keep their sequences.

**Pipeline** (any `Infos`, both caches of any geometry, any latencies).
`InductiveInvariant` proves `IInv`, from which follow `PipelineTypeCorrect`,
`AddressesTrackStages`, `ExceptionsAlone`, `StallsLookUp`; the action property is
`MissesAreWaitedForOnce`. Why the strengthening is needed: that `dMiss` never exceeds one
latency needs that while it runs down the word in MEM hits, hence that it has been looked
up when the stall began (`StalledMeansLookedUp`); this needs that no exception moves
the stages while a counter runs (`ExceptionsMeetNoStall`), and that a look-up leaves its
block in the cache (rows stay consistent, `AccessOK`).

`PipelineImplementsInOrder` is the refinement of the queue. The words in flight are the
concatenation of what is in the five stages, each giving one word or, for a bubble, none
(`Occupant`). Whatever moves the stages (`StagesKeepOrder` goes through fetch, bubble, freeze,
squash and flush) puts at most one word in at one end and takes at most one out at the other.
Of `IInv` the proof uses that the stages hold words and bubbles; what a squash, a freeze and
the flush push is a bubble, which adds no word.

**Separation and timing** (`InterlockProofs`; any `Infos` without exceptions, no data-miss
latency, any latency of instruction misses and any instruction cache: the assumption
`Ideal`). The invariant is `CountersFit`: `xStall` and `dStall`, which the code sets when it
fetches and then only counts down, are at any time what the stall table would give for the
words that are in the stages now. The separation properties follow from it
(`LoadsAndOperationsSeparated`, `OperationsAndBranchesSeparated`,
`LoadsAndBranchesSeparated`), because a bubble is inserted exactly while a counter is
positive, and so does `PipelineImplementsInterlocks`: bubbles are neither too few nor too
many. Data misses are excluded by necessity, not for convenience: with them `CountersFit` is
false, which is the finding of `miss_hides_bubble`.

**Driver** (any `Infos`, caches and latencies, calls for one cycle each: the assumption
`OneAtATime`). `SimulatorRunsPipeline` says that the driver only runs the pipeline, so that
all that is proved of `Pipeline` holds under it. `CyclesArePrinted` and `TotalCountsLines`
rest on `LineFits`, which says which line is due (`moves` is the number of the current
state, and it is either printed or the next to be), and `HaltFits`, which follows the halt
from F to W through the flush. The assumption is needed: a call for two cycles
writes one line of them.

**Memory** (any radix from 2, any size and start address). `MemoryTypeCorrect`;
`StoresAreLocal`: no access changes a byte outside the range it names; `ReadsAgree`: a word
reads as its two halves and a half as its two bytes, also across the end of `memArr`;
`StoresReadBack`: a read finds what a write of the same size put there, cut to the size, and
of a write that failed the bytes that got in. They rest on lemmas about `SetValue` and `GetValue` (`SetOK`, `GetOK`, `SetIsLocal`), on
remainders being in range (`Remainder`, `DigitOK`), on reads being sums of weighted bytes
(`GetByBytes`) at cells that follow each other (`CellShift`, `ByteShift`), and on every word
being spelled by four bytes of which shifts and masks return the right ones (`WordSpelled`,
`Cuts`, `ReadBack`). The invariant of `StoresReadBack` adds that nothing is read or written
before the memory is ready.

`MemoryLoadedAsGiven`: for every image and program, the constructor leaves what they give.
Its invariant `LoadInv` says how far the constructor has come: each cell holds the byte of
the last of the entries *read so far* that covers it (`FromLast`), then the bytes of the
program *copied so far* are in place and the others still those of the image, but for
the word at address 0. `FilesAssumption` says that the file of the program is no longer than
the address space, which its length being an `int` in `loadFromFile` implies; a longer one would wrap around
and overwrite itself.

`DumpsShowMemory`: for every range, entry size and row length, the dump is the memory.
`DumpInv` is the invariant of the loops. Its part `InStep` says that `relStart` is the start plus
the bytes printed, *as integers*: the addition in `uint32_t` never wraps, because a whole entry lies in
`memArr`, which is shorter than the address space (`NoWrap`); and that `curAddr` is ahead by
the rows that are full. With `CellAfter`, which moves an offset into and out of a relative
address, this gives the address of each entry. `DumpIsOfMemory` says that what is
proved of `Spec` holds up to and during a dump.

**Emulator** (any width, memory, registers, and set of instructions).
`EmulatorTypeCorrect`, `HaltLeavesZero`, and `EmulatorImplementsMIPS`: the initial state
maps to an initial state, and each action to the step of `MIPS` of the same instruction.
The proof goes by action; for each operation, the tests on signs are shown to say that the
integer result does not fit.

**Dependences** (the same generality). `DependentBranchesHeld` and
`DependentOperationsHeld`: the stall table misses no dependence of a branch on the
operation or load before it, nor of an operation on the load before it. The argument: what
changes is at most the register an instruction writes (or `$0`, whose reset is pending and
already read as zero), an input changes only if it reads that register, and then the fields
of the two words agree. `lui`, which the code does not count among operations, is excluded.

**Trace** (the same generality). `TraceShowsWhatIsWritten` and `TraceShowsWhatIsRead`: the
name in a line is that of the instruction executed, the register it changes stands in front,
and every register by which it depends on the one before stands in the line among those
that are read (`Sources`: behind the one that an operation or a load writes). `SameNumbers`
compares the two pairs of tables, which have no number twice, so that a number leads
back to its name (`NameOfValid`); `PrintedRegisters`, `ReadsByKind` and `WritesOne` go
through the kinds of instructions.

What stays with TLC: `FetchedReachesW`, which is liveness under fairness and out of the
prover's reach; every other property of a run that is expected to pass is a theorem.
`CountBits` and the powers of two are recursive functions, whose values for every argument
the prover cannot reach. `Geometry` therefore states what the proofs use of them, that block
size and index range are positive and that the index range is at most the number of rows;
TLC evaluates it for the configurations of the runs. The properties that the code violates
have no theorems, of course; that they are violated is shown by the traces of TLC.

## Not modelled

- The layout of the files: column widths, hexadecimal, headings. What the trace says of an
  instruction, which cycles it has lines for, and what a memory dump contains are modelled.
- The dump of the registers (`RegisterInfo.h`). It has a mistake: `t[10]` comes before
  `s[8]` in the struct that lies over the register array, so that 16 to 25, which the trace
  calls `$s0` to `$s7`, `$t8`, `$t9` (`Utilities.cpp:60-64`), are dumped as `$t8`, `$t9`, `$s0` to `$s7`. It is a
  table of constants, seen by reading; there is no behaviour to check.
- The statistics besides `cycleCount` and the number of instructions: `finalizeSimulator`
  leaves them zero, under a TODO, although the caches count hits and misses.
- `sim_cycle.cpp`, `sim_funct.cpp`: arguments, the file with the cache configuration,
  construction.
- The encoding of instructions: pipeline and emulator each see an instruction as the fields
  they use. `Dependences` and `Trace` compare what they make of the same fields.
- Programs through emulator and pipeline at once: each is checked with every behaviour of
  the other, which is more than any program has. What an illegal funct should cost is then
  not expressed: the pipeline squashes the fetch behind it, the emulator does not vector
  (`emulator.cpp:179-182`), and nothing in the repository says which is meant.
- The pipeline under exceptions is checked for order, addresses and misses, not for the
  separation of uses, see above.

## Plan

In the order of what matters most to the simulator. Done: the pipeline with its caches, its
stall table and its driver; cache, memory with its dumps, emulator; the trace; the
dependences between emulator and stall table. Left:

1. What the theorems on separation leave out: which words the stall table keeps apart when
   exceptions are raised, and a bound on the cycles from the fetch of a word to its end, the safety
   half of `FetchedReachesW`, as an invariant with a measure over the counters.
2. A module that runs the instructions of `Emulator` through `Pipeline`, should the repository
   say how many cycles an exception is to cost.
