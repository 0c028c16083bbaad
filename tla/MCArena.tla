------------------------------- MODULE MCArena -------------------------------
(* The instance of Arena, with its refinement, for TLC. The granule, the   *)
(* header size and the split threshold are the code's; the arena is scaled *)
(* down to three blocks of one granule each, and size_t to ten bits.       *)
EXTENDS ArenaHeap, TLC

(* 0 is a legal request, 1 rounds to one granule, 40 to three, which leaves *)
(* rests on both sides of the split threshold, 112 takes the whole arena,  *)
(* 160 never fits, and 1020 wraps to zero when it is rounded up.           *)
MCRequest == {0, 1, 40, 112, 160, 1020}
=============================================================================
