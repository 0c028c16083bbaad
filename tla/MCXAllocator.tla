---------------------------- MODULE MCXAllocator ----------------------------
(* Two threads and two block sizes, of 8 and 16 bytes behind a header of   *)
(* 8: the requests fit the first exactly, need the second, are too large,  *)
(* and wrap. size_t has six bits. Allocators are off the heap, or pools of *)
(* two blocks.                                                             *)
EXTENDS XAllocatorPools, TLC

MCAllocators == {16, 24}
MCRequest == {8, 9, 17, 60}
Symmetric == Permutations(Thread) \cup Permutations(Address)
=============================================================================
