--------------------------- MODULE XAllocatorPools ---------------------------
(* XAllocator implements BlockPools. A call takes effect with the step     *)
(* that takes a block off the free list, makes one, or pushes one, and     *)
(* with the one that ends the caller's ownership; every other step is a    *)
(* stutter.                                                                *)
EXTENDS XAllocator

(* The blocks with an owner, who may still be inside of xmalloc, and what  *)
(* was asked for.                                                          *)
Owned == DOMAIN held \cup Handing

Asked(b) == IF b \in DOMAIN held THEN held[b]
            ELSE size[CHOOSE t \in Thread : blk[t] = b /\ pc[t] # "pop"]

P == INSTANCE BlockPools WITH
       free <- [s \in Allocators |-> Free(s)],
       used <- [b \in Used |-> blocks[b]],
       asked <- [b \in Owned |-> Asked(b)],
       limit <- m_maxObjects

(* Whatever calls of xmalloc, xfree and xrealloc overlap, a block is given *)
(* to one caller at a time, out of the blocks of the smallest size that    *)
(* has room for what it asks, comes back to those after the caller freed   *)
(* it, and a new one is made only when none of them is free and the limit  *)
(* of a pool is not reached; no block that is in use is deleted at the     *)
(* exit. Only of a request that wraps nothing is said about the size.      *)
ImplementsPools == P!Spec
=============================================================================
