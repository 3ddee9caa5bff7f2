-------------------------------- MODULE LRU --------------------------------
(***************************************************************************)
(* What a set-associative cache with least-recently-used replacement       *)
(* promises (cache.h: "the order of most recent to least recent"): each    *)
(* set holds the Assoc blocks of it that were accessed last, in the order  *)
(* of their last access, and an access hits when its block is among them.  *)
(* A block is a number, the address without its offset; block b belongs to *)
(* set b % Sets and to no other.                                           *)
(***************************************************************************)
EXTENDS Integers, Sequences

CONSTANTS Blocks,          \* the blocks that are accessed
          Sets,            \* the number of sets
          Assoc,           \* the number of blocks a set holds
          CounterModulus   \* the counters wrap at this number

VARIABLES recency,         \* for each set, its blocks, most recent first
          hits, misses,
          last               \* the last access: its block, and whether it hit

vars == <<recency, hits, misses, last>>

Init == /\ recency = [s \in 0 .. Sets - 1 |-> <<>>]
        /\ hits = 0
        /\ misses = 0
        /\ last = <<>>

Resident(order, b) == \E k \in 1 .. Len(order) : order[k] = b

(* The block moves to the front.  The blocks that were in front of it, or  *)
(* all of them if it was not there, move back by one; the last of a full   *)
(* set falls off the end.                                                  *)
Touch(order, b) ==
  LET room == IF Len(order) < Assoc THEN Len(order) + 1 ELSE Assoc
      behind(k) == \E j \in 1 .. k - 1 : order[j] = b
  IN [k \in 1 .. (IF Resident(order, b) THEN Len(order) ELSE room) |->
        IF k = 1 THEN b ELSE IF behind(k) THEN order[k] ELSE order[k - 1]]

Access(b) ==
  LET s == b % Sets
  IN /\ recency' = [recency EXCEPT ![s] = Touch(@, b)]
     /\ last' = <<b, Resident(recency[s], b)>>
     /\ IF Resident(recency[s], b)
        THEN hits' = (hits + 1) % CounterModulus /\ UNCHANGED misses
        ELSE misses' = (misses + 1) % CounterModulus /\ UNCHANGED hits

Next == \E b \in Blocks : Access(b)

Spec == Init /\ [][Next]_vars
=============================================================================
