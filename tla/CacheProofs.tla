---------------------------- MODULE CacheProofs ----------------------------
(***************************************************************************)
(* Theorems about the cache simulator, for every configuration with a      *)
(* sound geometry, every set of addresses and every counter width.         *)
(***************************************************************************)
EXTENDS Cache, CacheOpsProofs, FiniteSetTheorems, SequenceTheorems

(* The two invariants are inductive together: the ranks stay in the range  *)
(* of their type because they are a permutation.                           *)
Inv == TypeOK /\ RowsOK

(* The invariant holds of the empty cache.                                 *)
LEMMA InitInv == Init => Inv
<1> SUFFICES ASSUME Init PROVE Inv
  OBVIOUS
<1>1. /\ cache \in CacheType(Config)
      /\ \A s \in 0 .. NumSets(Config) - 1 : RowOK(Config, cache[s])
  BY ConfigAssumption, EmptyCacheOK DEF Init
<1>2. DOMAIN cache = 0 .. NumSets(Config) - 1
  BY <1>1 DEF CacheType
<1>3. hits \in 0 .. CounterModulus - 1 /\ misses \in 0 .. CounterModulus - 1
  BY CounterAssumption DEF Init
<1>4. last = <<>>
  BY DEF Init
<1> QED
  BY <1>1, <1>2, <1>3, <1>4 DEF Inv, TypeOK, RowsOK

(* Every access preserves it.                                              *)
LEMMA NextInv == Inv /\ [Next]_vars => Inv'
<1> SUFFICES ASSUME Inv, [Next]_vars PROVE Inv'
  OBVIOUS
<1>1. ASSUME NEW address \in Addresses, Access(address) PROVE Inv'
  <2>1. /\ cache \in CacheType(Config)
        /\ \A s \in 0 .. NumSets(Config) - 1 : RowOK(Config, cache[s])
    BY DEF Inv, TypeOK, RowsOK, CacheType
  <2>2. /\ cache' \in CacheType(Config)
        /\ \A s \in 0 .. NumSets(Config) - 1 : RowOK(Config, cache'[s])
    BY <1>1, <2>1, ConfigAssumption, AddressesAssumption, AccessOK DEF Access
  <2>3. DOMAIN cache' = 0 .. NumSets(Config) - 1
    BY <2>2 DEF CacheType
  <2>4. /\ hits' \in 0 .. CounterModulus - 1
        /\ misses' \in 0 .. CounterModulus - 1
    <3>1. \A n \in 0 .. CounterModulus - 1 :
            (n + 1) % CounterModulus \in 0 .. CounterModulus - 1
      BY CounterAssumption
    <3> QED
      BY <1>1, <3>1 DEF Access, Inv, TypeOK
  <2>5. last' \in Addresses \X BOOLEAN
    BY <1>1 DEF Access, Hit, RowHit
  <2> QED
    BY <2>2, <2>3, <2>4, <2>5 DEF Inv, TypeOK, RowsOK
<1>2. CASE UNCHANGED vars
  BY <1>2 DEF vars, Inv, TypeOK, RowsOK
<1> QED
  BY <1>1, <1>2 DEF Next

(* The vectors and counters of a cache keep their types: in particular an  *)
(* access never leaves the bounds of the vectors and no rank exceeds the   *)
(* number of ways.                                                         *)
THEOREM CacheTypeCorrect == Spec => []TypeOK
<1>1. Inv => TypeOK
  BY DEF Inv
<1> QED
  BY <1>1, InitInv, NextInv, PTL DEF Spec

(* Tags, ranks and valid bits of every set stay consistent: the eviction   *)
(* loop of Cache::access always has one victim and only one, and the hit   *)
(* loop at most one match.                                                 *)
THEOREM CacheRowsCorrect == Spec => []RowsOK
<1>1. Inv => RowsOK
  BY DEF Inv
<1> QED
  BY <1>1, InitInv, NextInv, PTL DEF Spec
-----------------------------------------------------------------------------
(* The blocks of a row of set s by rank, so that RecencyOf(s) is the order *)
(* of cache[s].                                                            *)
Ranking(row, s) ==
  [k \in 1 .. Cardinality(Valid(row)) |->
     LET w == CHOOSE w \in Valid(row) : row.order[w] = k
     IN row.tags[w] * IndexRange(Config) + s]

(* In a well-formed row of n valid ways, these are the first n, and their  *)
(* ranks are 1 to n, each once.                                            *)
LEMMA RowRanks ==
  ASSUME NEW row \in RowType(Config), RowOK(Config, row)
  PROVE  \E n \in 0 .. Config.ways :
           /\ Cardinality(Valid(row)) = n
           /\ RowFull(Config, row) <=> n = Config.ways
           /\ ~RowFull(Config, row) => n = FirstInvalid(Config, row)
           /\ \A w \in Ways(Config) : row.valid[w] <=> w < n
           /\ \A w \in Ways(Config) : row.valid[w] => row.order[w] \in 1 .. n
           /\ \A k \in 1 .. n : \E w \in Ways(Config) : row.valid[w] /\ row.order[w] = k
           /\ \A v, w \in Ways(Config) :
                row.valid[v] /\ row.valid[w] /\ row.order[v] = row.order[w] => v = w
<1>1. Config.ways \in Nat \ {0}
  BY ConfigAssumption DEF Geometry
<1>2. PICK n \in 0 .. Config.ways :
        /\ \A w \in Ways(Config) : row.valid[w] <=> w < n
        /\ RowFull(Config, row) <=> n = Config.ways
        /\ ~RowFull(Config, row) => n = FirstInvalid(Config, row)
  <2>1. CASE RowFull(Config, row)
    <3>1. \A w \in Ways(Config) : row.valid[w] <=> w < Config.ways
      BY <1>1, <2>1 DEF RowFull, Ways
    <3> QED
      BY <1>1, <2>1, <3>1
  <2>2. CASE ~RowFull(Config, row)
    <3> DEFINE n == FirstInvalid(Config, row)
    <3>1. n \in Ways(Config) /\ \A w \in Ways(Config) : row.valid[w] <=> w < n
      BY <1>1, <2>2, FirstInvalidOK DEF RowOK
    <3> HIDE DEF n
    <3>2. n \in 0 .. Config.ways /\ n # Config.ways
      BY <1>1, <3>1 DEF Ways
    <3> QED
      BY <2>2, <3>1, <3>2 DEF n
  <2> QED
    BY <2>1, <2>2
<1>3. Cardinality(Valid(row)) = n
  <2>1. Valid(row) = 0 .. n - 1
    BY <1>1, <1>2 DEF Valid, Ways
  <2> QED
    BY <1>1, <2>1, FS_Interval
<1>4. /\ \A w \in Ways(Config) : row.valid[w] => row.order[w] \in 1 .. Config.ways
      /\ \A v, w \in Ways(Config) :
           row.valid[v] /\ row.valid[w] /\ row.order[v] = row.order[w] => v = w
      /\ \A k \in 1 .. Config.ways :
           row.valid[k - 1] <=> \E v \in Ways(Config) : row.valid[v] /\ row.order[v] = k
  BY DEF RowOK, Ranked
<1>5. \A k \in 1 .. Config.ways : k - 1 \in Ways(Config) /\ (k - 1 < n <=> k \in 1 .. n)
  BY <1>1 DEF Ways
<1>6. \A w \in Ways(Config) : row.valid[w] => row.order[w] \in 1 .. n
  <2> SUFFICES ASSUME NEW w \in Ways(Config), row.valid[w]
               PROVE  row.order[w] \in 1 .. n
    OBVIOUS
  <2> DEFINE k == row.order[w]
  <2>1. k \in 1 .. Config.ways
    BY <1>4
  <2>2. row.valid[k - 1]
    BY <1>4, <2>1
  <2> QED
    BY <1>2, <1>5, <2>1, <2>2
<1>7. \A k \in 1 .. n : \E w \in Ways(Config) : row.valid[w] /\ row.order[w] = k
  <2>1. \A k \in 1 .. n : k \in 1 .. Config.ways
    BY <1>1
  <2> QED
    BY <1>2, <1>4, <1>5, <2>1
<1> QED
  BY <1>2, <1>3, <1>4, <1>6, <1>7

(* The sequence has the tag of the way of rank k in place k.               *)
LEMMA RankingOf ==
  ASSUME NEW row \in RowType(Config), RowOK(Config, row), NEW s \in Nat
  PROVE  /\ Ranking(row, s) \in Seq(Nat)
         /\ Len(Ranking(row, s)) = Cardinality(Valid(row))
         /\ Cardinality(Valid(row)) \in Nat
         /\ DOMAIN Ranking(row, s) = 1 .. Cardinality(Valid(row))
         /\ \A w \in Ways(Config) :
              row.valid[w] =>
                Ranking(row, s)[row.order[w]] = row.tags[w] * IndexRange(Config) + s
<1>1. PICK n \in 0 .. Config.ways :
        /\ Cardinality(Valid(row)) = n
        /\ \A w \in Ways(Config) : row.valid[w] => row.order[w] \in 1 .. n
        /\ \A k \in 1 .. n : \E w \in Ways(Config) : row.valid[w] /\ row.order[w] = k
        /\ \A v, w \in Ways(Config) :
             row.valid[v] /\ row.valid[w] /\ row.order[v] = row.order[w] => v = w
  BY RowRanks
<1>2. n \in Nat
  BY ConfigAssumption DEF Geometry
<1> DEFINE way(k) == CHOOSE w \in Valid(row) : row.order[w] = k
<1>3. \A k \in 1 .. n : way(k) \in Ways(Config) /\ row.valid[way(k)]
  BY <1>1 DEF Valid
<1>4. \A w \in Ways(Config) : row.valid[w] => way(row.order[w]) = w
  <2> SUFFICES ASSUME NEW w \in Ways(Config), row.valid[w]
               PROVE  way(row.order[w]) = w
    OBVIOUS
  <2>1. w \in Valid(row)
    BY DEF Valid
  <2>2. \A v \in Valid(row) : row.order[v] = row.order[w] => v = w
    BY <1>1 DEF Valid
  <2> QED
    BY <2>1, <2>2
<1>5. Ranking(row, s) = [k \in 1 .. n |-> row.tags[way(k)] * IndexRange(Config) + s]
  BY <1>1 DEF Ranking
<1> HIDE DEF way
<1>6. \A w \in Ways(Config) : row.tags[w] * IndexRange(Config) + s \in Nat
  <2>1. IndexRange(Config) \in Nat /\ \A w \in Ways(Config) : row.tags[w] \in Nat
    BY ConfigAssumption DEF Geometry, RowType
  <2>2. \A x, y \in Nat : x * y + s \in Nat
    OBVIOUS
  <2> QED
    BY <2>1, <2>2
<1>7. Ranking(row, s) \in [1 .. n -> Nat]
  BY <1>3, <1>5, <1>6
<1>8. Ranking(row, s) \in Seq(Nat) /\ Len(Ranking(row, s)) = n
  <2>1. Ranking(row, s) \in Seq(Nat)
    BY <1>2, <1>7, SeqDef
  <2>2. /\ Len(Ranking(row, s)) \in Nat
        /\ DOMAIN Ranking(row, s) = 1 .. Len(Ranking(row, s))
    BY <2>1, LenProperties
  <2>3. DOMAIN Ranking(row, s) = 1 .. n
    BY <1>7
  <2>4. \A i, j \in Nat : 1 .. i = 1 .. j => i = j
    <3> SUFFICES ASSUME NEW i \in Nat, NEW j \in Nat, i < j PROVE 1 .. i # 1 .. j
      OBVIOUS
    <3>1. j \in 1 .. j /\ j \notin 1 .. i
      OBVIOUS
    <3> QED
      BY <3>1
  <2> QED
    BY <1>2, <2>1, <2>2, <2>3, <2>4
<1> QED
  BY <1>1, <1>2, <1>4, <1>5, <1>7, <1>8

(* The block of a tag in set s tells the tag.                              *)
LEMMA BlockTellsTag ==
  ASSUME NEW t \in Nat, NEW u \in Nat, NEW s \in Nat
  PROVE  t * IndexRange(Config) + s = u * IndexRange(Config) + s <=> t = u
<1>1. IndexRange(Config) \in Nat \ {0}
  BY ConfigAssumption DEF Geometry
<1>2. ASSUME NEW n \in Nat \ {0}, NEW x \in Nat, NEW y \in Nat, x < y
      PROVE  x * n + s < y * n + s
  <2>1. x * n \in Nat /\ y * n \in Nat /\ y - x - 1 \in Nat
    BY <1>2
  <2>2. y * n = x * n + n + (y - x - 1) * n
    BY <1>2
  <2>3. \A i, j \in Nat : i * j \in Nat
    OBVIOUS
  <2>4. (y - x - 1) * n \in Nat
    BY <2>1, <2>3
  <2> DEFINE p == x * n
             q == y * n
             r == (y - x - 1) * n
  <2>5. p \in Nat /\ q \in Nat /\ r \in Nat /\ q = p + n + r
    BY <2>1, <2>2, <2>4
  <2> HIDE DEF p, q, r
  <2>6. p + s < q + s
    BY <2>5
  <2> QED
    BY <2>6 DEF p, q
<1>3. \A n \in Nat \ {0} : t * n + s = u * n + s => t = u
  <2> SUFFICES ASSUME NEW n \in Nat \ {0}, t # u PROVE t * n + s # u * n + s
    OBVIOUS
  <2>1. \A i, j \in Nat : i * j + s \in Nat
    OBVIOUS
  <2>2. t * n + s \in Nat /\ u * n + s \in Nat
    BY <2>1
  <2>3. CASE t < u
    <3>1. t * n + s < u * n + s
      BY <1>2, <2>3
    <3> QED
      BY <2>2, <3>1
  <2>4. CASE u < t
    <3>1. u * n + s < t * n + s
      BY <1>2, <2>4
    <3> QED
      BY <2>2, <3>1
  <2> QED
    BY <2>3, <2>4
<1> QED
  BY <1>1, <1>3

(* A block is among those of a row when some valid way has its tag.        *)
LEMMA ResidentIsHit ==
  ASSUME NEW row \in RowType(Config), RowOK(Config, row),
         NEW s \in Nat, NEW tag \in Nat
  PROVE  Abstract!Resident(Ranking(row, s), tag * IndexRange(Config) + s)
           <=> RowHit(Config, row, tag)
<1> DEFINE q == Ranking(row, s)
           b == tag * IndexRange(Config) + s
<1>1. PICK n \in 0 .. Config.ways :
        /\ Cardinality(Valid(row)) = n
        /\ \A w \in Ways(Config) : row.valid[w] => row.order[w] \in 1 .. n
        /\ \A k \in 1 .. n : \E w \in Ways(Config) : row.valid[w] /\ row.order[w] = k
  BY RowRanks
<1>2. /\ Len(q) = n
      /\ \A w \in Ways(Config) :
           row.valid[w] => q[row.order[w]] = row.tags[w] * IndexRange(Config) + s
  BY <1>1, RankingOf
<1>3. \A w \in Ways(Config) :
        row.tags[w] * IndexRange(Config) + s = b <=> row.tags[w] = tag
  BY BlockTellsTag DEF RowType
<1> HIDE DEF q, b
<1>4. (\E k \in 1 .. n : q[k] = b)
        <=> \E w \in Ways(Config) : row.valid[w] /\ row.tags[w] = tag
  BY <1>1, <1>2, <1>3
<1> QED
  BY <1>2, <1>4 DEF q, b, Abstract!Resident, RowHit, Holds

(* What a new row must be to be the old one touched by block b: b is in    *)
(* front, a block that was in front of b has moved back by one, and one    *)
(* that was behind it stays.                                               *)
LEMMA TouchByRanks ==
  ASSUME NEW row \in RowType(Config), RowOK(Config, row),
         NEW new \in RowType(Config), RowOK(Config, new),
         NEW s \in Nat, NEW b,
         LET q == Ranking(row, s)
             n == Cardinality(Valid(row))
         IN Cardinality(Valid(new)) =
              IF Abstract!Resident(q, b) THEN n
              ELSE IF n < Config.ways THEN n + 1 ELSE Config.ways,
         \A w \in Ways(Config) : new.valid[w] =>
           \/ new.order[w] = 1 /\ new.tags[w] * IndexRange(Config) + s = b
           \/ /\ row.valid[w]
              /\ new.tags[w] = row.tags[w]
              /\ new.order[w] = row.order[w] + 1
              /\ \A u \in Ways(Config) :
                   row.valid[u] /\ row.order[u] <= row.order[w]
                     => row.tags[u] * IndexRange(Config) + s # b
           \/ /\ row.valid[w]
              /\ new.tags[w] = row.tags[w]
              /\ new.order[w] = row.order[w]
              /\ \E u \in Ways(Config) :
                   /\ row.valid[u] /\ row.order[u] < row.order[w]
                   /\ row.tags[u] * IndexRange(Config) + s = b
  PROVE  Ranking(new, s) = Abstract!Touch(Ranking(row, s), b)
<1> DEFINE q       == Ranking(row, s)
           p       == Ranking(new, s)
           n       == Cardinality(Valid(row))
           m       == Cardinality(Valid(new))
           old(w)  == row.tags[w] * IndexRange(Config) + s
           behind(k) == \E j \in 1 .. k - 1 : q[j] = b
           place(k) == IF k = 1 THEN b ELSE IF behind(k) THEN q[k] ELSE q[k - 1]
<1>1. /\ n \in Nat /\ Len(q) = n
      /\ \A w \in Ways(Config) : row.valid[w] => q[row.order[w]] = old(w)
  BY RankingOf
<1>2. /\ m \in Nat /\ p \in Seq(Nat) /\ DOMAIN p = 1 .. m /\ Len(p) = m
      /\ \A w \in Ways(Config) :
           new.valid[w] => p[new.order[w]] = new.tags[w] * IndexRange(Config) + s
  BY RankingOf
<1>3. /\ \A w \in Ways(Config) : row.valid[w] => row.order[w] \in 1 .. n
      /\ \A k \in 1 .. n : \E w \in Ways(Config) : row.valid[w] /\ row.order[w] = k
  BY RowRanks
<1>4. /\ \A w \in Ways(Config) : new.valid[w] => new.order[w] \in 1 .. m
      /\ \A k \in 1 .. m : \E w \in Ways(Config) : new.valid[w] /\ new.order[w] = k
  BY RowRanks
<1>5. Abstract!Touch(q, b) = [k \in 1 .. m |-> place(k)]
  <2>1. m = IF Abstract!Resident(q, b) THEN Len(q)
            ELSE IF Len(q) < Config.ways THEN Len(q) + 1 ELSE Config.ways
    BY <1>1
  <2> HIDE DEF m, q
  <2> QED
    BY <2>1 DEF Abstract!Touch
<1>6. p = [k \in 1 .. m |-> p[k]]
  <2>1. p = [k \in 1 .. Len(p) |-> p[k]]
    BY <1>2
  <2> QED
    BY <1>2, <2>1
<1>7. ASSUME NEW k \in 1 .. m PROVE p[k] = place(k)
  <2>1. PICK w \in Ways(Config) : new.valid[w] /\ new.order[w] = k
    BY <1>4, <1>7
  <2>2. p[k] = new.tags[w] * IndexRange(Config) + s
    BY <1>2, <2>1
  <2>3. CASE new.order[w] = 1 /\ new.tags[w] * IndexRange(Config) + s = b
    BY <2>1, <2>2, <2>3
  <2>4. CASE /\ row.valid[w]
             /\ new.tags[w] = row.tags[w]
             /\ new.order[w] = row.order[w] + 1
             /\ \A u \in Ways(Config) :
                  row.valid[u] /\ row.order[u] <= row.order[w] => old(u) # b
    <3>1. row.order[w] \in 1 .. n /\ k - 1 = row.order[w] /\ k # 1
      BY <1>1, <1>3, <2>1, <2>4
    <3>2. p[k] = old(w)
      BY <2>2, <2>4
    <3> HIDE DEF old, q, p, n
    <3>3. ~behind(k)
      <4> SUFFICES ASSUME NEW j \in 1 .. k - 1, q[j] = b PROVE FALSE
        OBVIOUS
      <4>1. j \in 1 .. n /\ j <= row.order[w]
        BY <1>1, <3>1
      <4>2. PICK u \in Ways(Config) : row.valid[u] /\ row.order[u] = j
        BY <1>3, <4>1
      <4> QED
        BY <1>1, <2>4, <4>1, <4>2
    <3>4. q[k - 1] = old(w)
      BY <1>1, <2>4, <3>1
    <3> QED
      BY <3>1, <3>2, <3>3, <3>4
  <2>5. CASE /\ row.valid[w]
             /\ new.tags[w] = row.tags[w]
             /\ new.order[w] = row.order[w]
             /\ \E u \in Ways(Config) :
                  /\ row.valid[u] /\ row.order[u] < row.order[w]
                  /\ old(u) = b
    <3>1. PICK u \in Ways(Config) :
            row.valid[u] /\ row.order[u] < row.order[w] /\ old(u) = b
      BY <2>5
    <3>2. row.order[w] \in 1 .. n /\ row.order[u] \in 1 .. n /\ k = row.order[w]
      BY <1>3, <2>1, <2>5, <3>1
    <3>3. p[k] = old(w)
      BY <2>2, <2>5
    <3> HIDE DEF old, q, p, n
    <3>4. q[row.order[u]] = b /\ q[k] = old(w)
      BY <1>1, <2>5, <3>1, <3>2
    <3>5. row.order[u] \in 1 .. k - 1 /\ k # 1
      BY <1>1, <3>1, <3>2
    <3> QED
      BY <3>3, <3>4, <3>5
  <2> QED
    BY <2>1, <2>3, <2>4, <2>5
<1> HIDE DEF p, q, m, n, old, place
<1>8. [k \in 1 .. m |-> p[k]] = [k \in 1 .. m |-> place(k)]
  BY <1>7
<1> QED
  BY <1>5, <1>6, <1>8 DEF p, q

(* The three outcomes of an access move the blocks of the row as an access *)
(* to the block with this tag should.                                      *)
LEMMA AccessTouches ==
  ASSUME NEW row \in RowType(Config), RowOK(Config, row),
         NEW s \in Nat, NEW tag \in Nat
  PROVE  Ranking(RowAccess(Config, row, tag), s)
           = Abstract!Touch(Ranking(row, s), tag * IndexRange(Config) + s)
<1> DEFINE new   == RowAccess(Config, row, tag)
           b     == tag * IndexRange(Config) + s
           blk(t) == t * IndexRange(Config) + s
<1>1. Config.ways \in Nat \ {0}
  BY ConfigAssumption DEF Geometry
<1>2. new \in RowType(Config) /\ RowOK(Config, new)
  BY <1>1, RowAccessOK
<1>3. /\ row.tags \in [Ways(Config) -> Nat]
      /\ row.order \in [Ways(Config) -> 0 .. Config.ways]
      /\ row.valid \in [Ways(Config) -> BOOLEAN]
  BY DEF RowType
<1>4. PICK n \in 0 .. Config.ways :
        /\ Cardinality(Valid(row)) = n
        /\ RowFull(Config, row) <=> n = Config.ways
        /\ ~RowFull(Config, row) => n = FirstInvalid(Config, row)
        /\ \A w \in Ways(Config) : row.valid[w] <=> w < n
        /\ \A w \in Ways(Config) : row.valid[w] => row.order[w] \in 1 .. n
        /\ \A v, w \in Ways(Config) :
             row.valid[v] /\ row.valid[w] /\ row.order[v] = row.order[w] => v = w
  BY RowRanks
<1>5. /\ Abstract!Resident(Ranking(row, s), b) <=> RowHit(Config, row, tag)
      /\ \A w \in Ways(Config) : blk(row.tags[w]) = b <=> row.tags[w] = tag
  BY <1>3, ResidentIsHit, BlockTellsTag
<1>6. CASE RowHit(Config, row, tag)
  <2> DEFINE x == CHOOSE w \in Ways(Config) : Holds(row, w, tag)
  <2>1. x \in Ways(Config) /\ row.valid[x] /\ row.tags[x] = tag
    BY <1>6 DEF RowHit, Holds
  <2>2. new = Promote(Config, row, x)
    BY <1>6 DEF RowAccess
  <2> HIDE DEF x, new
  <2>3. new.tags = row.tags /\ new.valid = row.valid
    BY <1>1, <2>1, <2>2, PromoteOK
  <2>4. Valid(new) = Valid(row)
    BY <2>3 DEF Valid
  <2>5. \A u \in Ways(Config) : row.valid[u] /\ row.tags[u] = tag => u = x
    BY <2>1 DEF RowOK, DistinctTags
  <2>6. \A w \in Ways(Config) :
          new.order[w] = IF w = x THEN 1
                         ELSE IF row.valid[w] /\ row.order[w] < row.order[x]
                              THEN row.order[w] + 1
                              ELSE row.order[w]
    BY <1>3, <2>2 DEF Promote
  <2> HIDE DEF blk, b
  <2>7. ASSUME NEW w \in Ways(Config), new.valid[w]
        PROVE  \/ new.order[w] = 1 /\ blk(new.tags[w]) = b
               \/ /\ row.valid[w]
                  /\ new.tags[w] = row.tags[w]
                  /\ new.order[w] = row.order[w] + 1
                  /\ \A u \in Ways(Config) :
                       row.valid[u] /\ row.order[u] <= row.order[w]
                         => blk(row.tags[u]) # b
               \/ /\ row.valid[w]
                  /\ new.tags[w] = row.tags[w]
                  /\ new.order[w] = row.order[w]
                  /\ \E u \in Ways(Config) :
                       /\ row.valid[u] /\ row.order[u] < row.order[w]
                       /\ blk(row.tags[u]) = b
    <3>1. row.valid[w] /\ new.tags[w] = row.tags[w]
      BY <2>3, <2>7
    <3>2. CASE w = x
      BY <1>5, <2>1, <2>6, <3>1, <3>2
    <3>3. CASE w # x /\ row.order[w] < row.order[x]
      <4>1. \A u \in Ways(Config) :
              row.valid[u] /\ row.order[u] <= row.order[w] => blk(row.tags[u]) # b
        <5> SUFFICES ASSUME NEW u \in Ways(Config), row.valid[u],
                            row.order[u] <= row.order[w], blk(row.tags[u]) = b
                     PROVE  FALSE
          OBVIOUS
        <5>1. u = x
          BY <1>5, <2>5
        <5>2. row.order[w] \in Int /\ row.order[x] \in Int
          BY <1>3, <2>1, <1>1
        <5> QED
          BY <3>3, <5>1, <5>2
      <4> QED
        BY <2>6, <3>1, <3>3, <4>1
    <3>4. CASE w # x /\ ~(row.order[w] < row.order[x])
      <4>1. row.order[w] \in 1 .. n /\ row.order[x] \in 1 .. n
        BY <1>4, <2>1, <3>1
      <4>2. row.order[w] # row.order[x]
        BY <1>4, <2>1, <3>1, <3>4
      <4>3. row.order[x] < row.order[w]
        BY <3>4, <4>1, <4>2
      <4> QED
        BY <1>5, <2>1, <2>6, <3>1, <3>4, <4>3
    <3> QED
      BY <3>2, <3>3, <3>4
  <2> QED
    BY <1>2, <1>4, <1>5, <1>6, <2>4, <2>7, TouchByRanks DEF blk, b, new
<1>7. CASE ~RowHit(Config, row, tag) /\ ~RowFull(Config, row)
  <2> DEFINE x == FirstInvalid(Config, row)
  <2>1. x \in Ways(Config) /\ ~row.valid[x] /\ x = n
    BY <1>1, <1>4, <1>7, FirstInvalidOK DEF RowOK
  <2>2. new = Fill(Config, row, tag)
    BY <1>7 DEF RowAccess
  <2>3. /\ new.tags = [row.tags EXCEPT ![x] = tag]
        /\ new.valid = [row.valid EXCEPT ![x] = TRUE]
        /\ new.order = [v \in Ways(Config) |->
                          IF v = x THEN 1
                          ELSE IF row.valid[v] THEN row.order[v] + 1
                          ELSE row.order[v]]
    BY <2>2 DEF Fill
  <2> HIDE DEF x, new
  <2>4. Cardinality(Valid(new)) = n + 1
    <3>1. Valid(new) = 0 .. n
      BY <1>1, <1>3, <1>4, <2>1, <2>3 DEF Valid, Ways
    <3> QED
      BY <1>1, <3>1, FS_Interval
  <2>5. n < Config.ways
    BY <1>1, <2>1 DEF Ways
  <2>6. \A u \in Ways(Config) : row.valid[u] => row.tags[u] # tag
    BY <1>7 DEF RowHit, Holds
  <2> HIDE DEF blk, b
  <2>7. ASSUME NEW w \in Ways(Config), new.valid[w]
        PROVE  \/ new.order[w] = 1 /\ blk(new.tags[w]) = b
               \/ /\ row.valid[w]
                  /\ new.tags[w] = row.tags[w]
                  /\ new.order[w] = row.order[w] + 1
                  /\ \A u \in Ways(Config) :
                       row.valid[u] /\ row.order[u] <= row.order[w]
                         => blk(row.tags[u]) # b
    <3>1. CASE w = x
      <4>1. new.order[w] = 1 /\ new.tags[w] = tag
        BY <1>3, <2>1, <2>3, <3>1
      <4> QED
        BY <4>1 DEF blk, b
    <3>2. CASE w # x
      BY <1>3, <1>5, <2>3, <2>6, <2>7, <3>2
    <3> QED
      BY <3>1, <3>2
  <2> QED
    BY <1>2, <1>4, <1>5, <1>7, <2>4, <2>5, <2>7, TouchByRanks DEF blk, b, new
<1>8. CASE ~RowHit(Config, row, tag) /\ RowFull(Config, row)
  <2>1. new = Evict(Config, row, tag)
    BY <1>8 DEF RowAccess
  <2>2. /\ new.tags = [v \in Ways(Config) |->
                         IF row.order[v] = Config.ways THEN tag ELSE row.tags[v]]
        /\ new.order = [v \in Ways(Config) |-> (row.order[v] % Config.ways) + 1]
        /\ new.valid = row.valid
    BY <2>1 DEF Evict
  <2> HIDE DEF new
  <2>3. Valid(new) = Valid(row) /\ n = Config.ways
    BY <1>4, <1>8, <2>2 DEF Valid
  <2>4. \A u \in Ways(Config) : row.valid[u] /\ row.tags[u] # tag
    BY <1>8 DEF RowHit, RowFull, Holds
  <2> HIDE DEF blk, b
  <2>5. ASSUME NEW w \in Ways(Config), new.valid[w]
        PROVE  \/ new.order[w] = 1 /\ blk(new.tags[w]) = b
               \/ /\ row.valid[w]
                  /\ new.tags[w] = row.tags[w]
                  /\ new.order[w] = row.order[w] + 1
                  /\ \A u \in Ways(Config) :
                       row.valid[u] /\ row.order[u] <= row.order[w]
                         => blk(row.tags[u]) # b
    <3>1. row.order[w] \in 1 .. Config.ways
      BY <1>4, <2>3, <2>4
    <3>2. CASE row.order[w] = Config.ways
      <4>1. Config.ways % Config.ways = 0
        BY <1>1
      <4>2. new.order[w] = 1 /\ new.tags[w] = tag
        BY <2>2, <3>2, <4>1
      <4> QED
        BY <4>2 DEF blk, b
    <3>3. CASE row.order[w] # Config.ways
      <4>1. row.order[w] % Config.ways = row.order[w]
        BY <1>1, <3>1, <3>3
      <4>2. new.order[w] = row.order[w] + 1 /\ new.tags[w] = row.tags[w]
        BY <2>2, <3>3, <4>1
      <4> QED
        BY <1>5, <2>4, <4>2
    <3> QED
      BY <3>2, <3>3
  <2> QED
    BY <1>2, <1>4, <1>5, <1>8, <2>3, <2>5, TouchByRanks DEF blk, b, new
<1> QED
  BY <1>6, <1>7, <1>8

(* The rows as the abstract cache sees them.                               *)
Recency == [s \in 0 .. IndexRange(Config) - 1 |-> RecencyOf(s)]

(* A block number is put together from its tag and its index.              *)
LEMMA BlockOfTagAndIndex ==
  ASSUME NEW address \in Nat
  PROVE  /\ Block(Config, address) \in Nat
         /\ Block(Config, address)
              = TagOf(Config, address) * IndexRange(Config) + IndexOf(Config, address)
         /\ Block(Config, address) % IndexRange(Config) = IndexOf(Config, address)
<1>1. Block(Config, address) \in Nat /\ IndexRange(Config) \in Nat \ {0}
  BY ConfigAssumption, IndexInRange DEF Geometry
<1>2. \A b \in Nat, n \in Nat \ {0} : b = (b \div n) * n + (b % n)
  OBVIOUS
<1> QED
  BY <1>1, <1>2 DEF TagOf, IndexOf

(* An access is an access to its block.                                    *)
LEMMA AccessImplementsAccess ==
  ASSUME Inv, NEW address \in Addresses, Access(address)
  PROVE  Abstract!Access(Block(Config, address))
<1> DEFINE i   == IndexOf(Config, address)
           tag == TagOf(Config, address)
           b   == Block(Config, address)
           I   == 0 .. IndexRange(Config) - 1
<1>1. /\ address \in Nat /\ i \in I /\ i \in 0 .. NumSets(Config) - 1
      /\ i \in Nat /\ tag \in Nat
  BY ConfigAssumption, AddressesAssumption, IndexInRange DEF Geometry
<1>2. b = tag * IndexRange(Config) + i /\ b % IndexRange(Config) = i
  BY <1>1, BlockOfTagAndIndex
<1>3. /\ cache \in CacheType(Config)
      /\ cache[i] \in RowType(Config) /\ RowOK(Config, cache[i])
  BY <1>1 DEF Inv, TypeOK, RowsOK, CacheType
<1>4. cache' = [cache EXCEPT ![i] = RowAccess(Config, cache[i], tag)]
  BY DEF Access, AfterAccess
<1>5. DOMAIN cache = 0 .. NumSets(Config) - 1
  BY <1>3 DEF CacheType
<1>6. \A s : RecencyOf(s) = Ranking(cache[s], s)
  BY DEF RecencyOf, Ranking
<1>7. \A s : RecencyOf(s)' = Ranking(cache'[s], s)
  BY DEF RecencyOf, Ranking, Valid
<1>8. Hit(Config, cache, address) <=> Abstract!Resident(Recency[i], b)
  <2>1. Recency[i] = Ranking(cache[i], i)
    BY <1>1, <1>6 DEF Recency
  <2> QED
    BY <1>1, <1>2, <1>3, <2>1, ResidentIsHit DEF Hit
<1>9. Recency' = [Recency EXCEPT ![i] = Abstract!Touch(Recency[i], b)]
  <2>1. Recency' = [s \in I |-> RecencyOf(s)']
    BY DEF Recency
  <2>2. RecencyOf(i)' = Abstract!Touch(Recency[i], b)
    <3>1. cache'[i] = RowAccess(Config, cache[i], tag)
      BY <1>1, <1>4, <1>5
    <3>2. Recency[i] = Ranking(cache[i], i)
      BY <1>1, <1>6 DEF Recency
    <3> QED
      BY <1>1, <1>2, <1>3, <1>7, <3>1, <3>2, AccessTouches
  <2>3. ASSUME NEW s \in I, s # i PROVE RecencyOf(s)' = Recency[s]
    <3>1. cache'[s] = cache[s]
      BY <1>1, <1>4, <1>5, <2>3, ConfigAssumption DEF Geometry
    <3> QED
      BY <1>6, <1>7, <3>1 DEF Recency
  <2>4. [Recency EXCEPT ![i] = Abstract!Touch(Recency[i], b)]
          = [s \in I |-> IF s = i THEN Abstract!Touch(Recency[i], b) ELSE Recency[s]]
    BY DEF Recency
  <2> QED
    BY <2>1, <2>2, <2>3, <2>4
<1>10. /\ last' = <<address, Hit(Config, cache, address)>>
       /\ last' # <<>>
       /\ last'[1] = address /\ last'[2] = Hit(Config, cache, address)
  BY DEF Access
<1>11. Hit(Config, cache, address) \in BOOLEAN
  BY DEF Hit, RowHit
<1>12. (IF last = <<>> THEN <<>> ELSE <<Block(Config, last[1]), last[2]>>)'
         = <<b, Abstract!Resident(Recency[i], b)>>
  <2>1. Abstract!Resident(Recency[i], b) \in BOOLEAN
    BY DEF Abstract!Resident
  <2>2. Hit(Config, cache, address) = Abstract!Resident(Recency[i], b)
    BY <1>8, <1>11, <2>1
  <2> QED
    BY <1>10, <2>2
<1>13. IF Abstract!Resident(Recency[i], b)
       THEN hits' = (hits + 1) % CounterModulus /\ UNCHANGED misses
       ELSE misses' = (misses + 1) % CounterModulus /\ UNCHANGED hits
  BY <1>8 DEF Access
<1> HIDE DEF i, b
<1>14. Abstract!Access(b)
  BY <1>2, <1>9, <1>12, <1>13 DEF Abstract!Access, Recency
<1> QED
  BY <1>14 DEF b

(* The cache of three vectors per set, aged by the loops of Cache::access, *)
(* returns for every address what least-recently-used replacement of the   *)
(* blocks of its set would, and counts it.                                 *)
THEOREM CacheImplementsLRU == Spec => ImplementsLRU
<1>1. Init => Abstract!Init
  <2> SUFFICES ASSUME Init PROVE Abstract!Init
    OBVIOUS
  <2>1. ASSUME NEW s \in 0 .. IndexRange(Config) - 1 PROVE RecencyOf(s) = <<>>
    <3>1. s \in 0 .. NumSets(Config) - 1
      BY ConfigAssumption DEF Geometry
    <3>2. Valid(cache[s]) = {}
      BY <3>1 DEF Init, EmptyCache, EmptyRow, Valid
    <3>3. Cardinality(Valid(cache[s])) = 0
      BY <3>2, FS_EmptySet
    <3>4. 1 .. 0 = {}
      OBVIOUS
    <3>5. RecencyOf(s)
            = [k \in {} |-> LET w == CHOOSE w \in Valid(cache[s]) : cache[s].order[w] = k
                            IN cache[s].tags[w] * IndexRange(Config) + s]
      BY <3>3, <3>4 DEF RecencyOf
    <3> QED
      BY <3>5
  <2> QED
    BY <2>1 DEF Init, Abstract!Init
<1>2. Inv /\ [Next]_vars => [Abstract!Next]_(Abstract!vars)
  <2> SUFFICES ASSUME Inv, [Next]_vars PROVE [Abstract!Next]_(Abstract!vars)
    OBVIOUS
  <2>1. ASSUME NEW address \in Addresses, Access(address) PROVE Abstract!Next
    <3>1. Block(Config, address) \in {Block(Config, a) : a \in Addresses}
      OBVIOUS
    <3> QED
      BY <2>1, <3>1, AccessImplementsAccess DEF Abstract!Next
  <2>2. CASE UNCHANGED vars
    BY <2>2 DEF vars, Abstract!vars, RecencyOf, Valid
  <2> QED
    BY <2>1, <2>2 DEF Next
<1> QED
  BY <1>1, <1>2, InitInv, NextInv, PTL DEF Spec, ImplementsLRU, Abstract!Spec
=============================================================================
