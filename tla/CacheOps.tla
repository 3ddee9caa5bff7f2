------------------------------ MODULE CacheOps ------------------------------
(***************************************************************************)
(* The set-associative cache of cache.cpp as operators on a value: what    *)
(* Cache::access reads and writes, apart from its hit and miss counters.   *)
(* The cache simulator proper (module Cache) and the pipeline (module      *)
(* Pipeline), which owns an instruction and a data cache, are both built   *)
(* from them.                                                              *)
(*                                                                         *)
(* A configuration c is a record [cacheSize, blockSize, ways, missLatency] *)
(* (struct CacheConfig).  A cache is a function from set numbers to rows;  *)
(* a row holds, for each way, its tag, its rank in the recency order (1 is *)
(* the most recent) and whether it is valid, as the vectors `tags',        *)
(* `order' and `valid' of the class do.                                    *)
(***************************************************************************)
EXTENDS Integers

Ways(c) == 0 .. c.ways - 1

NumSets(c) == (c.cacheSize \div c.ways) \div c.blockSize

(* The position of the highest bit of n: for a number that is not a power  *)
(* of two it rounds down, as the loop in the code does.                    *)
CountBits[n \in Nat] == IF n > 1 THEN 1 + CountBits[n \div 2] ELSE 0

(* The shifts and the mask of an access, as the numbers they divide by.    *)
BlockBytes(c) == 2 ^ CountBits[c.blockSize]
IndexRange(c) == 2 ^ CountBits[NumSets(c)]

Block(c, address) == address \div BlockBytes(c)

IndexOf(c, address) == Block(c, address) % IndexRange(c)
TagOf(c, address) == Block(c, address) \div IndexRange(c)

EmptyRow(c) ==
  [tags  |-> [w \in Ways(c) |-> 0],
   order |-> [w \in Ways(c) |-> 0],
   valid |-> [w \in Ways(c) |-> FALSE]]

EmptyCache(c) == [s \in 0 .. NumSets(c) - 1 |-> EmptyRow(c)]

Holds(row, w, tag) == row.valid[w] /\ row.tags[w] = tag

RowHit(c, row, tag) == \E w \in Ways(c) : Holds(row, w, tag)

RowFull(c, row) == \A w \in Ways(c) : row.valid[w]

(* Mutant: a hit leaves the order alone (first in, first out).             *)
PromoteNothing(c, row, w) == row

(* The hit way becomes the most recent; the ways that were more recent age *)
(* by one.  The loop of the code has no `break', but a tag is never held   *)
(* twice in a row (invariant RowsOK of Cache), so w is unique.             *)
Promote(c, row, w) ==
  [row EXCEPT !.order =
     [v \in Ways(c) |->
        IF v = w THEN 1
        ELSE IF row.valid[v] /\ row.order[v] < row.order[w]
             THEN row.order[v] + 1
             ELSE row.order[v]]]

FirstInvalid(c, row) ==
  CHOOSE w \in Ways(c) : ~row.valid[w] /\ \A v \in 0 .. w - 1 : row.valid[v]

(* Mutant: the filled way becomes the most recent but nothing ages.        *)
FillWithoutAging(c, row, tag) ==
  LET w == FirstInvalid(c, row)
  IN [tags  |-> [row.tags EXCEPT ![w] = tag],
      order |-> [row.order EXCEPT ![w] = 1],
      valid |-> [row.valid EXCEPT ![w] = TRUE]]

(* A miss in a row with room: the first invalid way takes the block.       *)
Fill(c, row, tag) ==
  LET w == FirstInvalid(c, row)
  IN [tags  |-> [row.tags EXCEPT ![w] = tag],
      order |-> [v \in Ways(c) |-> IF v = w THEN 1
                                   ELSE IF row.valid[v] THEN row.order[v] + 1
                                   ELSE row.order[v]],
      valid |-> [row.valid EXCEPT ![w] = TRUE]]

(* Mutant: the ranks grow without wrapping.                                *)
EvictWithoutWrap(c, row, tag) ==
  [tags  |-> [v \in Ways(c) |-> IF row.order[v] = c.ways THEN tag
                                                         ELSE row.tags[v]],
   order |-> [v \in Ways(c) |-> row.order[v] + 1],
   valid |-> row.valid]

(* A miss in a full row: the least recent way takes the block, and every   *)
(* rank moves on by one, the last to the first.                            *)
Evict(c, row, tag) ==
  [tags  |-> [v \in Ways(c) |-> IF row.order[v] = c.ways THEN tag
                                                         ELSE row.tags[v]],
   order |-> [v \in Ways(c) |-> (row.order[v] % c.ways) + 1],
   valid |-> row.valid]

RowAccess(c, row, tag) ==
  IF RowHit(c, row, tag)
  THEN Promote(c, row, CHOOSE w \in Ways(c) : Holds(row, w, tag))
  ELSE IF RowFull(c, row) THEN Evict(c, row, tag) ELSE Fill(c, row, tag)

(* Cache::access: what it returns and what it leaves in the cache.  A read *)
(* and a write do the same: the code never looks at readWrite.             *)
Hit(c, cache, address) ==
  RowHit(c, cache[IndexOf(c, address)], TagOf(c, address))

AfterAccess(c, cache, address) ==
  [cache EXCEPT ![IndexOf(c, address)] = RowAccess(c, @, TagOf(c, address))]

-----------------------------------------------------------------------------
(* What a configuration must satisfy for an access to stay in the bounds   *)
(* of the vectors: at least one way, a block of at least one byte and a    *)
(* cache that has room for at least one set.                               *)
Geometry(c) ==
  /\ c.ways \in Nat \ {0}
  /\ c.missLatency \in Nat
  /\ NumSets(c) \in Nat \ {0}
  /\ BlockBytes(c) \in Nat \ {0}
  /\ IndexRange(c) \in 1 .. NumSets(c)

RowType(c) ==
  [tags  : [Ways(c) -> Nat],
   order : [Ways(c) -> 0 .. c.ways],
   valid : [Ways(c) -> BOOLEAN]]

CacheType(c) == [0 .. NumSets(c) - 1 -> RowType(c)]

(* The ways of a row fill from the first on.                               *)
ValidPrefix(c, row) ==
  \A v, w \in Ways(c) : row.valid[w] /\ v < w => row.valid[v]

(* The ranks of the valid ways are distinct, and are exactly 1, 2, ... up  *)
(* to their number: as the ways fill from the first on, rank k is given to *)
(* some way when way k - 1 is valid.                                       *)
Ranked(c, row) ==
  /\ \A w \in Ways(c) : row.valid[w] => row.order[w] \in 1 .. c.ways
  /\ \A v, w \in Ways(c) :
       row.valid[v] /\ row.valid[w] /\ row.order[v] = row.order[w] => v = w
  /\ \A k \in 1 .. c.ways :
       row.valid[k - 1] <=> \E v \in Ways(c) : row.valid[v] /\ row.order[v] = k

(* No two ways of a row hold the same block.                               *)
DistinctTags(c, row) ==
  \A v, w \in Ways(c) :
    row.valid[v] /\ row.valid[w] /\ row.tags[v] = row.tags[w] => v = w

RowOK(c, row) == ValidPrefix(c, row) /\ Ranked(c, row) /\ DistinctTags(c, row)
=============================================================================
