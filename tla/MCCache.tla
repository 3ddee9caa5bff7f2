------------------------------ MODULE MCCache ------------------------------
(* A cache of three sets of three ways, of which the index reaches two     *)
(* because the number of sets is rounded down to a power of two; blocks of *)
(* two bytes.  Four blocks of the first set compete for its three ways, so *)
(* that hits at every rank, fills and evictions all happen, next to two    *)
(* blocks of the second set; the counters wrap at 2.                       *)
EXTENDS Cache

MCConfig == [cacheSize |-> 18, blockSize |-> 2, ways |-> 3, missLatency |-> 1]
MCAddresses == {0, 2, 4, 7, 8, 13}
=============================================================================
