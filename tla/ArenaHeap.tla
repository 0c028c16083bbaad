------------------------------ MODULE ArenaHeap ------------------------------
(* Arena implements Heap. The extents are those of the blocks that are not *)
(* free; a call takes effect with the step that takes a block, gives up,   *)
(* or marks a block free, and every other step of the list is a stutter.   *)
EXTENDS Arena

H == INSTANCE Heap WITH
       extent <- [h \in {g \in Header : ~blocks[g].free} |->
                    BLOCK_SIZE + blocks[h].size],
       call   <- [t \in Thread |->
                    CASE pc[t] = "search"   -> "new"
                      [] pc[t] = "coalesce" -> "freed"
                      [] OTHER              -> pc[t]]

(* Every behaviour of the list, the mutex and the two loops is one of the  *)
(* abstract heap: first fit over the list is lowest fit over the gaps, and *)
(* bad_alloc is thrown only when no gap of the arena would do, so neither  *)
(* fragmentation that the coalescing pass missed nor a call of another     *)
(* thread ever makes a request fail.                                       *)
ImplementsHeap == H!Spec
=============================================================================
