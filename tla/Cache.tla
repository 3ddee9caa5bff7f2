------------------------------- MODULE Cache -------------------------------
(***************************************************************************)
(* The cache simulator, class Cache of cache.cpp, driven by an arbitrary   *)
(* sequence of addresses (what cache_test_suite.cpp and the pipeline do).  *)
(* The rows and the operation on them are the operators of CacheOps; this  *)
(* module adds the two counters of the class.                              *)
(***************************************************************************)
EXTENDS CacheOps, FiniteSets, Sequences

CONSTANTS Config,          \* struct CacheConfig
          Addresses,       \* the addresses that are accessed
          CounterModulus   \* hits and misses wrap here (2^32 in the code)

ASSUME ConfigAssumption == Geometry(Config)
ASSUME AddressesAssumption == Addresses \subseteq Nat
ASSUME CounterAssumption == CounterModulus \in Nat \ {0}

VARIABLES cache, hits, misses,
          last               \* the last call: its address and what it returned

vars == <<cache, hits, misses, last>>

Init == /\ cache = EmptyCache(Config)
        /\ hits = 0
        /\ misses = 0
        /\ last = <<>>

Access(address) ==
  /\ cache' = AfterAccess(Config, cache, address)
  /\ last' = <<address, Hit(Config, cache, address)>>
  /\ IF Hit(Config, cache, address)
     THEN hits' = (hits + 1) % CounterModulus /\ UNCHANGED misses
     ELSE misses' = (misses + 1) % CounterModulus /\ UNCHANGED hits

Next == \E address \in Addresses : Access(address)

Spec == Init /\ [][Next]_vars
-----------------------------------------------------------------------------
TypeOK == /\ cache \in CacheType(Config)
          /\ hits \in 0 .. CounterModulus - 1
          /\ misses \in 0 .. CounterModulus - 1
          /\ last \in {<<>>} \union (Addresses \X BOOLEAN)

(* The vectors of every set stay consistent with each other: the valid     *)
(* ways are the first ones, their ranks are a permutation of 1, 2, ..., and *)
(* no block is held twice.  The three loops of Cache::access rely on it:   *)
(* the eviction loop replaces every way of rank `ways' (there must be one, *)
(* and only one), and the hit loop goes on after its first match.          *)
RowsOK == \A s \in DOMAIN cache : RowOK(Config, cache[s])

(* The recency order of a set, read off its ranks, with block numbers put  *)
(* together again from tag and index.                                      *)
Valid(row) == {w \in Ways(Config) : row.valid[w]}

RecencyOf(s) ==
  [k \in 1 .. Cardinality(Valid(cache[s])) |->
     LET w == CHOOSE w \in Valid(cache[s]) : cache[s].order[w] = k
     IN cache[s].tags[w] * IndexRange(Config) + s]

Abstract == INSTANCE LRU WITH
              Blocks  <- {Block(Config, address) : address \in Addresses},
              Sets    <- IndexRange(Config),
              Assoc   <- Config.ways,
              recency <- [s \in 0 .. IndexRange(Config) - 1 |-> RecencyOf(s)],
              last    <- IF last = <<>> THEN <<>>
                         ELSE <<Block(Config, last[1]), last[2]>>

(* The vectors of tags, ranks and valid bits, updated by the three loops   *)
(* of Cache::access, implement least-recently-used replacement with no     *)
(* interference between sets: each call returns what it must return for    *)
(* its block, and the counters count the hits and the misses.              *)
ImplementsLRU == Abstract!Spec
=============================================================================
