-------------------------- MODULE ThreadConstants --------------------------
(***************************************************************************)
(* What the two halves of the SDK's thread sample, Counter and CondBuffer, *)
(* share: the number of rounds of a thread's loop, from user_types.h, and  *)
(* a name for the owner of a mutex that nobody holds. The first half is    *)
(* over when the second begins, so they share no state. The names of       *)
(* Counter all differ from those of CondBuffer: one module can reason      *)
(* about both.                                                             *)
(***************************************************************************)
EXTENDS Integers, FiniteSets

CONSTANTS LOOPS_PER_THREAD,  \* additions of one adder, items of one consumer
          NOBODY             \* the owner of an unlocked mutex

ASSUME LoopsAssumption == LOOPS_PER_THREAD \in Nat \ {0}
=============================================================================
