------------------------------ MODULE BlockPools ------------------------------
(***************************************************************************)
(* What xmalloc and xfree promise, with no free list, no mutex and no word *)
(* in the blocks: for each block size a set of blocks that are free, out   *)
(* of which a request is served if it can be. A request gets a block of    *)
(* the smallest size that has room for it and a header, a new one only     *)
(* when none of that size is free and the limit of the pool, if any, is    *)
(* not reached; a block has one owner at a time, never changes its size,   *)
(* and is free again only after its owner let go of it. XAllocator         *)
(* implements it (XAllocatorPools).                                        *)
(*                                                                         *)
(* The sum of a request and a header is a number here, not a size_t. Where *)
(* it is too large for a size_t the code makes no promise that can be      *)
(* kept: Misserve says so, and promises only that the caller gets a block  *)
(* that nobody else has.                                                   *)
(***************************************************************************)
EXTENDS Integers, FiniteSets

CONSTANTS Address, Allocators, HEADER, SIZE_MAX, Request, MaxObjects

VARIABLES free,    \* each block size |-> the free blocks of that size
          used,    \* each block that is not free |-> its size
          asked,   \* each block with an owner |-> the bytes it asked for
          limit,   \* the most blocks of one size, 0 if there is no limit
          exiting

vars == <<free, used, asked, limit, exiting>>

Init == /\ free = [s \in Allocators |-> {}]
        /\ used = [b \in {} |-> 0]
        /\ asked = [b \in {} |-> 0]
        /\ limit \in MaxObjects
        /\ exiting = FALSE

Room(s, n) == s >= n + HEADER

IsFit(s, n) == Room(s, n) /\ \A r \in Allocators : Room(r, n) => s <= r

Known(b) == b \in DOMAIN used \/ \E s \in Allocators : b \in free[s]

(* All the blocks of size s, when none is free, are fewer than the limit.  *)
MayGrow(s) ==
  limit > 0 => Cardinality({b \in DOMAIN used : used[b] = s}) < limit

(* A free block of size s gets an owner, or if there is none a new one.    *)
Give(s, b, n) ==
  /\ ~ exiting
  /\ b \in free[s] \/ (free[s] = {} /\ ~ Known(b) /\ MayGrow(s))
  /\ free' = [free EXCEPT ![s] = @ \ {b}]
  /\ used' = [c \in DOMAIN used \cup {b} |-> IF c = b THEN s ELSE used[c]]
  /\ asked' = [c \in DOMAIN asked \cup {b} |-> IF c = b THEN n ELSE asked[c]]
  /\ UNCHANGED <<limit, exiting>>

(* A request for n bytes gets a block of the smallest size that will do.   *)
Take(s, b, n) == IsFit(s, n) /\ Give(s, b, n)

(* A request that no size_t can hold with its header gets a block of some  *)
(* size, which is too small: it is not served.                             *)
Misserve(s, b, n) == n + HEADER > SIZE_MAX /\ Give(s, b, n)

(* The owner of a block frees it ...                                       *)
LetGo(b) ==
  /\ ~ exiting
  /\ asked' = [c \in DOMAIN asked \ {b} |-> asked[c]]
  /\ UNCHANGED <<free, used, limit, exiting>>

(* ... and it comes back to its size.                                      *)
GiveBack(b) ==
  /\ ~ exiting
  /\ b \notin DOMAIN asked
  /\ free' = [free EXCEPT ![used[b]] = @ \cup {b}]
  /\ used' = [c \in DOMAIN used \ {b} |-> used[c]]
  /\ UNCHANGED <<asked, limit, exiting>>

Exit == ~ exiting /\ exiting' = TRUE /\ UNCHANGED <<free, used, asked, limit>>

(* Only then are blocks deleted, and only free ones.                       *)
Delete(s, b) ==
  /\ exiting
  /\ b \in free[s]
  /\ free' = [free EXCEPT ![s] = @ \ {b}]
  /\ UNCHANGED <<used, asked, limit, exiting>>

Next == \/ \E s \in Allocators, b \in Address :
             \/ Delete(s, b)
             \/ \E n \in Request : Take(s, b, n) \/ Misserve(s, b, n)
        \/ \E b \in DOMAIN used : GiveBack(b)
        \/ \E b \in DOMAIN asked : LetGo(b)
        \/ Exit

Spec == Init /\ [][Next]_vars
=============================================================================
