--------------------------- MODULE CacheOpsProofs ---------------------------
(***************************************************************************)
(* Facts about the cache operators, for every configuration with a sound   *)
(* geometry and every content: an access stays in the bounds of the        *)
(* vectors, keeps a row well-formed, and leaves its block in the cache.    *)
(***************************************************************************)
EXTENDS CacheOps, TLAPS, WellFoundedInduction, NaturalsInduction

(* The index of an address names a set of the cache: no access of          *)
(* Cache::access is out of the bounds of its vectors.                      *)
LEMMA IndexInRange ==
  ASSUME NEW c, Geometry(c), NEW address \in Nat
  PROVE  /\ Block(c, address) \in Nat
         /\ IndexOf(c, address) \in 0 .. IndexRange(c) - 1
         /\ IndexOf(c, address) \in 0 .. NumSets(c) - 1
         /\ TagOf(c, address) \in Nat
<1>1. /\ BlockBytes(c) \in Nat \ {0} /\ IndexRange(c) \in Nat \ {0}
      /\ IndexRange(c) <= NumSets(c) /\ NumSets(c) \in Nat
  BY DEF Geometry
<1>2. Block(c, address) \in Nat
  BY <1>1 DEF Block
<1>3. IndexOf(c, address) \in 0 .. IndexRange(c) - 1
  BY <1>1, <1>2 DEF IndexOf
<1>4. TagOf(c, address) \in Nat
  BY <1>1, <1>2 DEF TagOf
<1> QED
  BY <1>1, <1>2, <1>3, <1>4

(* A hit keeps the row well-formed and does not change its blocks.         *)
LEMMA PromoteOK ==
  ASSUME NEW c, c.ways \in Nat \ {0}, NEW row \in RowType(c), RowOK(c, row),
         NEW w \in Ways(c), row.valid[w]
  PROVE  /\ Promote(c, row, w) \in RowType(c)
         /\ RowOK(c, Promote(c, row, w))
         /\ Promote(c, row, w).tags = row.tags
         /\ Promote(c, row, w).valid = row.valid
<1> DEFINE new == Promote(c, row, w)
<1>1. /\ row.tags \in [Ways(c) -> Nat]
      /\ row.order \in [Ways(c) -> 0 .. c.ways]
      /\ row.valid \in [Ways(c) -> BOOLEAN]
  BY DEF RowType
<1>2. /\ new.tags = row.tags
      /\ new.valid = row.valid
      /\ new.order = [v \in Ways(c) |-> new.order[v]]
      /\ new = [tags |-> row.tags, order |-> new.order, valid |-> row.valid]
  BY <1>1 DEF Promote, RowType
<1>20. /\ new.order[w] = 1
       /\ \A v \in Ways(c) : v # w /\ row.valid[v] /\ row.order[v] < row.order[w]
            => new.order[v] = row.order[v] + 1
       /\ \A v \in Ways(c) : v # w /\ ~(row.valid[v] /\ row.order[v] < row.order[w])
            => new.order[v] = row.order[v]
  BY <1>1 DEF Promote, RowType
<1> HIDE DEF new
<1>3. ValidPrefix(c, new)
  BY <1>2 DEF RowOK, ValidPrefix
<1>4. DistinctTags(c, new)
  BY <1>2 DEF RowOK, DistinctTags
<1>5. /\ row.order[w] \in 1 .. c.ways
      /\ \A v \in Ways(c) : row.order[v] \in 0 .. c.ways
      /\ \A v \in Ways(c) : row.valid[v] => row.order[v] \in 1 .. c.ways
      /\ \A v \in Ways(c) : v \in Int /\ 0 <= v /\ v < c.ways
      /\ \A k \in 1 .. c.ways : k - 1 \in Ways(c)
      /\ \A v \in Ways(c) : v + 1 \in 1 .. c.ways
  BY <1>1 DEF RowOK, Ranked, Ways
<1>6. new.order \in [Ways(c) -> 0 .. c.ways]
  <2>1. ASSUME NEW v \in Ways(c) PROVE new.order[v] \in 0 .. c.ways
    <3>1. CASE v = w
      BY <3>1, <1>20
    <3>2. CASE v # w /\ row.order[v] < row.order[w]
      <4>1. new.order[v] = row.order[v] + 1 \/ new.order[v] = row.order[v]
        BY <3>2, <1>20
      <4> QED
        BY <4>1, <3>2, <1>5
    <3>3. CASE v # w /\ ~(row.order[v] < row.order[w])
      BY <3>3, <1>20, <1>5
    <3> QED
      BY <3>1, <3>2, <3>3
  <2>2. new.order = [v \in Ways(c) |-> new.order[v]]
    BY <1>2
  <2> QED
    BY <2>1, <2>2
<1>7. \A v \in Ways(c) : row.valid[v] => new.order[v] \in 1 .. c.ways
  BY <1>20, <1>5
<1>8. \A u, v \in Ways(c) :
        row.valid[u] /\ row.valid[v] /\ new.order[u] = new.order[v] => u = v
  <2> SUFFICES ASSUME NEW u \in Ways(c), NEW v \in Ways(c),
                      row.valid[u], row.valid[v], new.order[u] = new.order[v]
               PROVE  u = v
    OBVIOUS
  <2>1. \A x, y \in Ways(c) :
          row.valid[x] /\ row.valid[y] /\ row.order[x] = row.order[y] => x = y
    BY DEF RowOK, Ranked
  <2>2. /\ row.order[u] \in Int /\ 1 <= row.order[u]
        /\ row.order[v] \in Int /\ 1 <= row.order[v]
        /\ row.order[w] \in Int /\ 1 <= row.order[w]
    BY <1>5
  <2>3. /\ row.order[u] = row.order[v] => u = v
        /\ row.order[u] = row.order[w] => u = w
        /\ row.order[v] = row.order[w] => v = w
    BY <2>1
  <2>4. \/ u = w /\ new.order[u] = 1
        \/ u # w /\ row.order[u] < row.order[w] /\ new.order[u] = row.order[u] + 1
        \/ u # w /\ ~(row.order[u] < row.order[w]) /\ new.order[u] = row.order[u]
    BY <1>20
  <2>5. \/ v = w /\ new.order[v] = 1
        \/ v # w /\ row.order[v] < row.order[w] /\ new.order[v] = row.order[v] + 1
        \/ v # w /\ ~(row.order[v] < row.order[w]) /\ new.order[v] = row.order[v]
    BY <1>20
  <2> QED
    BY <2>2, <2>3, <2>4, <2>5
<1>9. \A k \in 1 .. c.ways :
        row.valid[k - 1] <=> \E v \in Ways(c) : row.valid[v] /\ new.order[v] = k
  <2> SUFFICES ASSUME NEW k \in 1 .. c.ways
               PROVE  row.valid[k - 1]
                      <=> \E v \in Ways(c) : row.valid[v] /\ new.order[v] = k
    OBVIOUS
  <2>1. \A j \in 1 .. c.ways :
          row.valid[j - 1] <=> \E v \in Ways(c) : row.valid[v] /\ row.order[v] = j
    BY DEF RowOK, Ranked
  <2>2. \A u, v \in Ways(c) : row.valid[v] /\ u < v => row.valid[u]
    BY DEF RowOK, ValidPrefix
  <2>3. ASSUME row.valid[k - 1]
        PROVE  \E v \in Ways(c) : row.valid[v] /\ new.order[v] = k
    <3>1. CASE k = 1
      BY <3>1, <1>20
    <3>2. CASE k # 1 /\ k <= row.order[w]
      <4>1. k - 1 \in 1 .. c.ways /\ (k - 1) - 1 \in Ways(c) /\ k - 1 \in Ways(c)
        BY <3>2, <1>5
      <4>2. row.valid[(k - 1) - 1]
        BY <4>1, <2>2, <2>3
      <4>3. PICK v \in Ways(c) : row.valid[v] /\ row.order[v] = k - 1
        BY <4>1, <4>2, <2>1
      <4> QED
        BY <4>3, <3>2, <1>20, <1>5
    <3>3. CASE k > row.order[w]
      <4>1. PICK v \in Ways(c) : row.valid[v] /\ row.order[v] = k
        BY <2>1, <2>3
      <4> QED
        BY <4>1, <3>3, <1>20, <1>5
    <3> QED
      BY <3>1, <3>2, <3>3, <1>5
  <2>4. ASSUME NEW v \in Ways(c), row.valid[v], new.order[v] = k
        PROVE  row.valid[k - 1]
    <3>1. row.valid[row.order[w] - 1] /\ row.valid[row.order[v] - 1]
      BY <2>1, <2>4, <1>5
    <3>2. k = row.order[v] \/ k = row.order[w] \/ k < row.order[w]
      <4>1. /\ row.order[v] \in Int /\ row.order[w] \in Int /\ 1 <= row.order[w]
        BY <1>5
      <4>2. \/ k = 1
            \/ row.order[v] < row.order[w] /\ k = row.order[v] + 1
            \/ k = row.order[v]
        BY <2>4, <1>20
      <4> QED
        BY <4>1, <4>2
    <3>3. k - 1 \in Ways(c) /\ row.order[w] - 1 \in Ways(c)
      BY <1>5
    <3> QED
      BY <3>1, <3>2, <3>3, <2>2, <1>5
  <2> QED
    BY <2>3, <2>4
<1>10. new \in RowType(c)
  BY <1>1, <1>2, <1>6 DEF RowType
<1>11. RowOK(c, new)
  BY <1>2, <1>3, <1>4, <1>7, <1>8, <1>9 DEF RowOK, Ranked
<1> QED
  BY <1>2, <1>10, <1>11 DEF new

(* A row that is not full has a first invalid way, and its valid ways are  *)
(* exactly the ones below it.                                              *)
LEMMA FirstInvalidOK ==
  ASSUME NEW c, c.ways \in Nat \ {0}, NEW row, ValidPrefix(c, row),
         ~RowFull(c, row)
  PROVE  /\ FirstInvalid(c, row) \in Ways(c)
         /\ \A v \in Ways(c) : row.valid[v] <=> v < FirstInvalid(c, row)
<1> DEFINE Invalid == {v \in Ways(c) : ~row.valid[v]}
<1>1. Invalid # {} /\ Invalid \subseteq Nat
  BY DEF RowFull, Ways
<1>2. PICK w \in Invalid : \A v \in Invalid : <<v, w>> \notin OpToRel(<, Nat)
  BY <1>1, WFMin, NatLessThanWellFounded, Zenon
<1>3. \A v \in Invalid : ~(v < w)
  BY <1>1, <1>2, Zenon DEF OpToRel
<1>4. \A v \in 0 .. w - 1 : row.valid[v]
  BY <1>3 DEF Ways
<1>5. /\ FirstInvalid(c, row) \in Ways(c)
      /\ ~row.valid[FirstInvalid(c, row)]
      /\ \A v \in 0 .. FirstInvalid(c, row) - 1 : row.valid[v]
  BY <1>4 DEF FirstInvalid
<1> HIDE DEF Invalid
<1> QED
  BY <1>5 DEF ValidPrefix, Ways

(* A fill keeps the row well-formed and puts its block in the first        *)
(* invalid way.                                                            *)
LEMMA FillOK ==
  ASSUME NEW c, c.ways \in Nat \ {0}, NEW row \in RowType(c), RowOK(c, row),
         ~RowFull(c, row), NEW tag \in Nat, ~RowHit(c, row, tag)
  PROVE  /\ Fill(c, row, tag) \in RowType(c)
         /\ RowOK(c, Fill(c, row, tag))
         /\ Holds(Fill(c, row, tag), FirstInvalid(c, row), tag)
<1> DEFINE new == Fill(c, row, tag)
           w   == FirstInvalid(c, row)
<1>1. w \in Ways(c) /\ \A v \in Ways(c) : row.valid[v] <=> v < w
  BY FirstInvalidOK DEF RowOK
<1> HIDE DEF w
<1>2. /\ row.tags \in [Ways(c) -> Nat]
      /\ row.order \in [Ways(c) -> 0 .. c.ways]
      /\ row.valid \in [Ways(c) -> BOOLEAN]
  BY DEF RowType
<1>3. /\ new.tags = [row.tags EXCEPT ![w] = tag]
      /\ new.valid = [row.valid EXCEPT ![w] = TRUE]
      /\ new.order = [v \in Ways(c) |-> new.order[v]]
      /\ new = [tags |-> new.tags, order |-> new.order, valid |-> new.valid]
  BY DEF Fill, w
<1>4. /\ new.order[w] = 1
      /\ \A v \in Ways(c) : v < w => new.order[v] = row.order[v] + 1
      /\ \A v \in Ways(c) : w < v => new.order[v] = row.order[v]
  BY <1>1 DEF Fill, Ways, w
<1> HIDE DEF new
<1>5. /\ \A v \in Ways(c) : v \in Int /\ 0 <= v /\ v < c.ways
      /\ \A k \in 1 .. c.ways : k - 1 \in Ways(c) /\ k \in Int /\ 1 <= k
      /\ \A v \in Ways(c) : v < w => row.order[v] \in 1 .. c.ways
      /\ \A v \in Ways(c) : row.order[v] \in 0 .. c.ways
  <2>1. \A v \in Ways(c) : v < w => row.order[v] \in 1 .. c.ways
    BY <1>1 DEF RowOK, Ranked
  <2>2. \A v \in Ways(c) : row.order[v] \in 0 .. c.ways
    BY <1>2
  <2>3. /\ \A v \in Ways(c) : v \in Int /\ 0 <= v /\ v < c.ways
        /\ \A k \in 1 .. c.ways : k - 1 \in Ways(c) /\ k \in Int /\ 1 <= k
    BY DEF Ways
  <2> QED
    BY <2>1, <2>2, <2>3
<1>6. \A k \in 1 .. c.ways :
        k - 1 < w <=> \E v \in Ways(c) : v < w /\ row.order[v] = k
  BY <1>1, <1>5 DEF RowOK, Ranked
<1>7. \A v \in Ways(c) : v < w => row.order[v] <= w
  <2>1. ASSUME NEW v \in Ways(c), v < w PROVE row.order[v] <= w
    <3>1. row.order[v] \in 1 .. c.ways
      BY <1>5, <2>1
    <3>2. row.order[v] - 1 < w
      BY <1>6, <2>1, <3>1
    <3> QED
      BY <1>1, <1>5, <3>1, <3>2
  <2> QED
    BY <2>1
<1>8. \A v \in Ways(c) : new.valid[v] <=> v <= w
  <2>1. new.valid[w]
    BY <1>1, <1>2, <1>3, Zenon
  <2>2. \A v \in Ways(c) : v # w => (new.valid[v] <=> row.valid[v])
    BY <1>1, <1>2, <1>3, Zenon
  <2>3. \A v \in Ways(c) : v <= w <=> (v = w \/ v < w)
    <3>1. \A x, y \in Int : x <= y <=> (x = y \/ x < y)
      OBVIOUS
    <3>2. w \in Int /\ \A v \in Ways(c) : v \in Int
      BY <1>1, <1>5
    <3> QED
      BY <3>1, <3>2, Zenon
  <2> QED
    BY <1>1, <2>1, <2>2, <2>3, Zenon
<1>9. \A v \in Ways(c) : v <= w => new.order[v] \in 1 .. c.ways
  BY <1>1, <1>4, <1>5, <1>7
<1>10. new.order \in [Ways(c) -> 0 .. c.ways]
  <2>1. ASSUME NEW v \in Ways(c) PROVE new.order[v] \in 0 .. c.ways
    <3>1. CASE v <= w
      BY <1>9, <3>1
    <3>2. CASE w < v
      BY <1>4, <1>5, <3>2
    <3> QED
      BY <3>1, <3>2, <1>1, <1>5
  <2> QED
    BY <2>1, <1>3
<1>11. ValidPrefix(c, new)
  BY <1>1, <1>5, <1>8 DEF ValidPrefix
<1>12. \A u, v \in Ways(c) :
         u <= w /\ v <= w /\ new.order[u] = new.order[v] => u = v
  <2> SUFFICES ASSUME NEW u \in Ways(c), NEW v \in Ways(c), u <= w, v <= w,
                      new.order[u] = new.order[v]
               PROVE  u = v
    OBVIOUS
  <2>1. u < w /\ v < w /\ row.order[u] = row.order[v] => u = v
    BY <1>1 DEF RowOK, Ranked
  <2>2. \/ u = w /\ new.order[u] = 1
        \/ u < w /\ new.order[u] = row.order[u] + 1 /\ row.order[u] \in 1 .. c.ways
    BY <1>1, <1>4, <1>5
  <2>3. \/ v = w /\ new.order[v] = 1
        \/ v < w /\ new.order[v] = row.order[v] + 1 /\ row.order[v] \in 1 .. c.ways
    BY <1>1, <1>4, <1>5
  <2> QED
    BY <2>1, <2>2, <2>3
<1>13. \A k \in 1 .. c.ways :
         k - 1 <= w <=> \E v \in Ways(c) : v <= w /\ new.order[v] = k
  <2> SUFFICES ASSUME NEW k \in 1 .. c.ways
               PROVE  k - 1 <= w <=> \E v \in Ways(c) : v <= w /\ new.order[v] = k
    OBVIOUS
  <2>1. ASSUME k - 1 <= w
        PROVE  \E v \in Ways(c) : v <= w /\ new.order[v] = k
    <3>1. CASE k = 1
      BY <3>1, <1>1, <1>4, <1>5
    <3>2. CASE k # 1
      <4>1. k - 1 \in 1 .. c.ways /\ (k - 1) - 1 < w
        BY <3>2, <2>1, <1>1, <1>5
      <4>2. PICK v \in Ways(c) : v < w /\ row.order[v] = k - 1
        BY <4>1, <1>6
      <4>3. new.order[v] = k
        BY <4>2, <1>4, <1>5
      <4> QED
        BY <4>2, <4>3, <1>1, <1>5
    <3> QED
      BY <3>1, <3>2
  <2>2. ASSUME NEW v \in Ways(c), v <= w, new.order[v] = k PROVE k - 1 <= w
    <3>1. CASE v = w
      BY <3>1, <2>2, <1>1, <1>4, <1>5
    <3>2. CASE v < w
      <4>1. k = row.order[v] + 1 /\ row.order[v] \in 1 .. c.ways
        BY <3>2, <2>2, <1>4, <1>5
      <4> QED
        BY <4>1, <3>2, <1>7, <1>1, <1>5
    <3> QED
      BY <3>1, <3>2, <2>2, <1>1, <1>5
  <2> QED
    BY <2>1, <2>2
<1>14. Ranked(c, new)
  <2>1. \A k \in 1 .. c.ways : new.valid[k - 1] <=> k - 1 <= w
    BY <1>5, <1>8
  <2> QED
    BY <1>8, <1>9, <1>12, <1>13, <2>1 DEF Ranked
<1>15. DistinctTags(c, new)
  <2>1. \A v \in Ways(c) : v < w => row.tags[v] # tag
    BY <1>1 DEF RowHit, Holds
  <2>2. \A v \in Ways(c) : v < w => new.tags[v] = row.tags[v]
    BY <1>1, <1>2, <1>3, <1>5
  <2>3. new.tags[w] = tag
    BY <1>1, <1>2, <1>3
  <2>4. \A u, v \in Ways(c) : u < w /\ v < w /\ row.tags[u] = row.tags[v] => u = v
    BY <1>1 DEF RowOK, DistinctTags
  <2> QED
    BY <1>1, <1>5, <1>8, <2>1, <2>2, <2>3, <2>4 DEF DistinctTags
<1>16. new \in RowType(c)
  <2>1. new.tags \in [Ways(c) -> Nat] /\ new.valid \in [Ways(c) -> BOOLEAN]
    BY <1>1, <1>2, <1>3
  <2> QED
    BY <2>1, <1>3, <1>10 DEF RowType
<1>17. Holds(new, w, tag)
  BY <1>1, <1>2, <1>3 DEF Holds
<1> QED
  BY <1>11, <1>14, <1>15, <1>16, <1>17 DEF RowOK, new, w

(* An eviction keeps the row well-formed and puts its block in the way     *)
(* that was the least recent.                                              *)
LEMMA EvictOK ==
  ASSUME NEW c, c.ways \in Nat \ {0}, NEW row \in RowType(c), RowOK(c, row),
         RowFull(c, row), NEW tag \in Nat, ~RowHit(c, row, tag)
  PROVE  /\ Evict(c, row, tag) \in RowType(c)
         /\ RowOK(c, Evict(c, row, tag))
         /\ \E w \in Ways(c) : row.order[w] = c.ways
         /\ \A w \in Ways(c) : row.order[w] = c.ways
                               => Holds(Evict(c, row, tag), w, tag)
<1> DEFINE new == Evict(c, row, tag)
<1>1. /\ row.tags \in [Ways(c) -> Nat]
      /\ row.order \in [Ways(c) -> 0 .. c.ways]
      /\ row.valid \in [Ways(c) -> BOOLEAN]
  BY DEF RowType
<1>2. /\ new.valid = row.valid
      /\ new.tags = [v \in Ways(c) |-> new.tags[v]]
      /\ new.order = [v \in Ways(c) |-> new.order[v]]
      /\ new = [tags |-> new.tags, order |-> new.order, valid |-> row.valid]
  BY DEF Evict
<1>3. \A v \in Ways(c) : new.tags[v] = IF row.order[v] = c.ways THEN tag
                                                                ELSE row.tags[v]
  BY <1>1 DEF Evict, RowType
<1>4. \A v \in Ways(c) : new.order[v] = (row.order[v] % c.ways) + 1
  BY <1>1 DEF Evict, RowType
<1> HIDE DEF new
<1>5. /\ \A v \in Ways(c) : v \in Int /\ 0 <= v /\ v < c.ways
      /\ \A k \in 1 .. c.ways : k - 1 \in Ways(c)
  BY DEF Ways
<1>6. /\ \A v \in Ways(c) : row.order[v] \in 1 .. c.ways
      /\ \A u, v \in Ways(c) : row.order[u] = row.order[v] => u = v
      /\ \A k \in 1 .. c.ways : \E v \in Ways(c) : row.order[v] = k
  BY <1>5 DEF RowOK, Ranked, RowFull
<1>7. \A k \in 1 .. c.ways : (k % c.ways) + 1 = IF k = c.ways THEN 1 ELSE k + 1
  OBVIOUS
<1>8. \A v \in Ways(c) : new.order[v] = IF row.order[v] = c.ways
                                        THEN 1 ELSE row.order[v] + 1
  BY <1>4, <1>6, <1>7
<1>9. \A v \in Ways(c) : new.order[v] \in 1 .. c.ways
  <2>1. ASSUME NEW v \in Ways(c) PROVE new.order[v] \in 1 .. c.ways
    BY <1>6, <1>8
  <2> QED
    BY <2>1
<1>10. \A u, v \in Ways(c) : new.order[u] = new.order[v] => u = v
  <2> SUFFICES ASSUME NEW u \in Ways(c), NEW v \in Ways(c),
                      new.order[u] = new.order[v]
               PROVE  u = v
    OBVIOUS
  <2>1. row.order[u] \in 1 .. c.ways /\ row.order[v] \in 1 .. c.ways
    BY <1>6
  <2>2. row.order[u] = row.order[v]
    BY <2>1, <1>8
  <2> QED
    BY <2>2, <1>6
<1>11. \A k \in 1 .. c.ways : \E v \in Ways(c) : new.order[v] = k
  <2> SUFFICES ASSUME NEW k \in 1 .. c.ways
               PROVE  \E v \in Ways(c) : new.order[v] = k
    OBVIOUS
  <2>1. PICK v \in Ways(c) : row.order[v] = IF k = 1 THEN c.ways ELSE k - 1
    BY <1>6
  <2> QED
    BY <2>1, <1>8
<1>12. Ranked(c, new)
  BY <1>2, <1>5, <1>9, <1>10, <1>11 DEF Ranked, RowFull
<1>13. ValidPrefix(c, new)
  BY <1>2 DEF RowOK, ValidPrefix
<1>14. DistinctTags(c, new)
  <2>1. \A v \in Ways(c) : row.tags[v] # tag
    BY DEF RowHit, Holds, RowFull
  <2>2. \A u, v \in Ways(c) : row.tags[u] = row.tags[v] => u = v
    BY DEF RowOK, DistinctTags, RowFull
  <2>3. \A u, v \in Ways(c) : new.tags[u] = new.tags[v] => u = v
    BY <2>1, <2>2, <1>3, <1>6
  <2> QED
    BY <2>3 DEF DistinctTags
<1>15. new \in RowType(c)
  <2>1. new.tags \in [Ways(c) -> Nat]
    BY <1>1, <1>2, <1>3
  <2>2. new.order \in [Ways(c) -> 0 .. c.ways]
    BY <1>2, <1>9
  <2> QED
    BY <2>1, <2>2, <1>1, <1>2 DEF RowType
<1>16. \A w \in Ways(c) : row.order[w] = c.ways => Holds(new, w, tag)
  BY <1>2, <1>3 DEF Holds, RowFull
<1> QED
  BY <1>6, <1>12, <1>13, <1>14, <1>15, <1>16 DEF RowOK, new

(* Whatever the loops do, an access keeps the row well-formed and leaves   *)
(* its block in it.                                                        *)
LEMMA RowAccessOK ==
  ASSUME NEW c, c.ways \in Nat \ {0}, NEW row \in RowType(c), RowOK(c, row),
         NEW tag \in Nat
  PROVE  /\ RowAccess(c, row, tag) \in RowType(c)
         /\ RowOK(c, RowAccess(c, row, tag))
         /\ RowHit(c, RowAccess(c, row, tag), tag)
<1>1. CASE RowHit(c, row, tag)
  <2> DEFINE w == CHOOSE w \in Ways(c) : Holds(row, w, tag)
  <2>1. w \in Ways(c) /\ row.valid[w] /\ row.tags[w] = tag
    BY <1>1 DEF RowHit, Holds
  <2>2. RowAccess(c, row, tag) = Promote(c, row, w)
    BY <1>1 DEF RowAccess
  <2> HIDE DEF w
  <2> QED
    BY <2>1, <2>2, PromoteOK DEF RowHit, Holds
<1>2. CASE ~RowHit(c, row, tag) /\ RowFull(c, row)
  <2>1. RowAccess(c, row, tag) = Evict(c, row, tag)
    BY <1>2 DEF RowAccess
  <2> QED
    BY <1>2, <2>1, EvictOK DEF RowHit
<1>3. CASE ~RowHit(c, row, tag) /\ ~RowFull(c, row)
  <2>1. RowAccess(c, row, tag) = Fill(c, row, tag)
    BY <1>3 DEF RowAccess
  <2>2. FirstInvalid(c, row) \in Ways(c)
    BY <1>3, FirstInvalidOK DEF RowOK
  <2> QED
    BY <1>3, <2>1, <2>2, FillOK DEF RowHit
<1> QED
  BY <1>1, <1>2, <1>3

(* The rows of a cache, as the vectors of the class hold them.             *)
LEMMA EmptyCacheOK ==
  ASSUME NEW c, Geometry(c)
  PROVE  /\ EmptyCache(c) \in CacheType(c)
         /\ \A s \in 0 .. NumSets(c) - 1 : RowOK(c, EmptyCache(c)[s])
<1>1. EmptyRow(c) \in RowType(c)
  BY DEF EmptyRow, RowType, Geometry
<1>2. RowOK(c, EmptyRow(c))
  BY DEF EmptyRow, RowOK, ValidPrefix, Ranked, DistinctTags, Ways, Geometry
<1> QED
  BY <1>1, <1>2 DEF EmptyCache, CacheType

(* An access keeps every row well-formed, and hits if it is repeated.      *)
LEMMA AccessOK ==
  ASSUME NEW c, Geometry(c), NEW cache \in CacheType(c),
         \A s \in 0 .. NumSets(c) - 1 : RowOK(c, cache[s]),
         NEW address \in Nat
  PROVE  /\ AfterAccess(c, cache, address) \in CacheType(c)
         /\ \A s \in 0 .. NumSets(c) - 1 :
              RowOK(c, AfterAccess(c, cache, address)[s])
         /\ Hit(c, AfterAccess(c, cache, address), address)
<1> DEFINE i   == IndexOf(c, address)
           row == RowAccess(c, cache[i], TagOf(c, address))
<1>1. i \in 0 .. NumSets(c) - 1 /\ TagOf(c, address) \in Nat
  BY IndexInRange
<1>2. c.ways \in Nat \ {0} /\ cache[i] \in RowType(c) /\ RowOK(c, cache[i])
  BY <1>1 DEF Geometry, CacheType
<1>3. /\ row \in RowType(c) /\ RowOK(c, row)
      /\ RowHit(c, row, TagOf(c, address))
  BY <1>1, <1>2, RowAccessOK
<1>4. AfterAccess(c, cache, address) = [cache EXCEPT ![i] = row]
  BY DEF AfterAccess
<1> HIDE DEF row
<1>5. /\ AfterAccess(c, cache, address) \in CacheType(c)
      /\ AfterAccess(c, cache, address)[i] = row
      /\ \A s \in 0 .. NumSets(c) - 1 :
           s # i => AfterAccess(c, cache, address)[s] = cache[s]
  BY <1>1, <1>3, <1>4 DEF CacheType
<1> QED
  BY <1>1, <1>3, <1>5 DEF Hit
=============================================================================
