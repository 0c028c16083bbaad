---------------------------- MODULE StageMetrics ----------------------------
(***************************************************************************)
(* The allocation benchmark (stages-microbenchmarks): a preloaded hook.c   *)
(* wraps malloc and free, and alloc_measurements.cpp runs the program's    *)
(* stages and prints, per stage, the number of allocations, the net and    *)
(* the peak growth of the heap. The two share the array stages and the     *)
(* index current_stage, -1 while nothing is to be recorded.                *)
(*                                                                         *)
(* What the hook does not see moves the heap as well: free shrinks it,     *)
(* calloc, realloc and the like grow it (Unhooked), and a large request is *)
(* mapped outside of it (Mapped). mallinfo2().uordblks is a size_t that    *)
(* the hook keeps in an int. The benchmark runs with one thread            *)
(* (OMP_NUM_THREADS=1), so that its calls are steps of one process.        *)
(***************************************************************************)
EXTENDS Integers

CONSTANTS STAGE_COUNT,  \* stages of the benchmark
          INT_MAX,      \* the largest int; size_t is not exceeded
          Size,         \* what a call adds to or takes from uordblks
          Start,        \* what the heap may hold when main starts
          MaxCalls      \* bound: calls of the allocator in one run

ASSUME StageMetricsAssumption ==
  /\ STAGE_COUNT \in 1..9
  /\ INT_MAX \in Nat
  /\ Size \subseteq Nat \ {0}
  /\ Start \subseteq Nat /\ Start # {}
  /\ MaxCalls \in Nat

VARIABLES current_stage,  \* the index of the running stage, or -1
          stages,         \* what is recorded of each, the sentinel last
          uordblks,       \* bytes allocated from the heap
          calls,          \* calls of the allocator so far
          done,           \* main is past reset_stage
          truth           \* what really happened in each stage

vars == <<current_stage, stages, uordblks, calls, done, truth>>

Stage == 0..(STAGE_COUNT - 1)
SENTINEL_STAGE == STAGE_COUNT

Larger(m, n) == IF m > n THEN m ELSE n

(* Conversion of a size_t to int.                                          *)
ToInt(n) == ((n + INT_MAX + 1) % (2 * (INT_MAX + 1))) - (INT_MAX + 1)

Init ==
  /\ current_stage = -1
  /\ stages = [s \in 0..STAGE_COUNT |->
                 [alloc_count |-> 0, heap_size |-> 0, peak_heap_size |-> 0]]
  /\ uordblks \in Start
  /\ calls = 0
  /\ done = FALSE
  /\ truth = [s \in 0..STAGE_COUNT |->
                [mallocs |-> 0, start |-> 0, peak |-> 0, seen |-> TRUE]]

-----------------------------------------------------------------------------
(* What really happened: the heap is now h, by a call the hook sees or not *)
Happens(h, mallocs, seen) ==
  /\ uordblks' = h
  /\ calls' = calls + 1
  /\ calls < MaxCalls
  /\ truth' = [truth EXCEPT
       ![current_stage].mallocs = truth[current_stage].mallocs + mallocs,
       ![current_stage].peak = Larger(truth[current_stage].peak, h),
       ![current_stage].seen = truth[current_stage].seen /\ seen]

(* Variant: the heap is looked at before the allocation.                   *)
Record_Before ==
  stages' = [stages EXCEPT
    ![current_stage].peak_heap_size =
      Larger(stages[current_stage].peak_heap_size, ToInt(uordblks)),
    ![current_stage].alloc_count = stages[current_stage].alloc_count + 1]

(* The hook's record, made after the real malloc.                          *)
Record ==
  stages' = [stages EXCEPT
    ![current_stage].peak_heap_size =
      Larger(stages[current_stage].peak_heap_size, ToInt(uordblks')),
    ![current_stage].alloc_count = stages[current_stage].alloc_count + 1]

Running == current_stage \in Stage

(* malloc, for n bytes of the heap.                                        *)
malloc(n) ==
  /\ Running
  /\ Happens(uordblks + n, 1, TRUE)
  /\ Record
  /\ UNCHANGED <<current_stage, done>>

(* malloc of a block that is mapped: the heap itself does not change.      *)
Mapped ==
  /\ Running
  /\ Happens(uordblks, 1, TRUE)
  /\ Record
  /\ UNCHANGED <<current_stage, done>>

(* free, of a block of n bytes.                                            *)
free(n) ==
  /\ Running
  /\ uordblks >= n
  /\ Happens(uordblks - n, 0, TRUE)
  /\ UNCHANGED <<current_stage, stages, done>>

(* calloc, realloc, aligned_alloc: not hooked.                             *)
Unhooked(n) ==
  /\ Running
  /\ Happens(uordblks + n, 0, FALSE)
  /\ UNCHANGED <<current_stage, stages, done>>

(* Variant: the heap's size is filed under the stage that ends.            *)
Enter_FiledBefore(s) ==
  /\ stages' = [stages EXCEPT ![IF s = 0 THEN 0 ELSE s - 1].heap_size =
                                ToInt(uordblks)]
  /\ truth' = [truth EXCEPT ![s].start = uordblks, ![s].peak = uordblks]

(* The body of set_stage once current_stage is s: the heap's size is filed *)
(* with logging off.                                                       *)
Enter(s) ==
  /\ stages' = [stages EXCEPT ![s].heap_size = ToInt(uordblks)]
  /\ truth' = [truth EXCEPT ![s].start = uordblks, ![s].peak = uordblks]

(* set_stage, for the next of the benchmark's stages.                      *)
set_stage ==
  /\ ~ done /\ current_stage + 1 \in Stage
  /\ current_stage' = current_stage + 1
  /\ Enter(current_stage + 1)
  /\ UNCHANGED <<uordblks, calls, done>>

(* reset_stage, after the last stage: the sentinel takes the final size.   *)
reset_stage ==
  /\ current_stage + 1 = SENTINEL_STAGE
  /\ current_stage' = -1
  /\ done' = TRUE
  /\ Enter(SENTINEL_STAGE)
  /\ UNCHANGED <<uordblks, calls>>

(* stage_metrics prints, and main returns.                                 *)
Finished == done /\ UNCHANGED vars

Next ==
  \/ set_stage \/ reset_stage \/ Finished \/ Mapped
  \/ \E n \in Size : malloc(n) \/ free(n) \/ Unhooked(n)

Spec == Init /\ [][Next]_vars

-----------------------------------------------------------------------------
(* Variant: the previous stage's size is subtracted.                       *)
HeapSizeChange_Previous(s) ==
  ToInt(stages[s].heap_size - stages[IF s = 0 THEN 0 ELSE s - 1].heap_size)

(* What stage_metrics prints of stage s. The differences are of ints.      *)
HeapSizeChange(s) == ToInt(stages[s + 1].heap_size - stages[s].heap_size)

(* Variant: growth is counted from the first stage.                        *)
PeakGrowth_FromStart(s) ==
  ToInt(stages[s].peak_heap_size - stages[0].heap_size)

PeakGrowth(s) == ToInt(stages[s].peak_heap_size - stages[s].heap_size)

-----------------------------------------------------------------------------
Int32 == (-(INT_MAX + 1))..INT_MAX

TypeOK ==
  /\ current_stage \in Stage \cup {-1}
  /\ stages \in [0..STAGE_COUNT ->
                   [alloc_count : 0..MaxCalls, heap_size : Int32,
                    peak_heap_size : 0..INT_MAX]]
  /\ uordblks \in Nat
  /\ calls \in 0..MaxCalls
  /\ done \in BOOLEAN

(* Every malloc is counted, in the stage that made it, and nothing else.   *)
Counted ==
  \A s \in 0..STAGE_COUNT : stages[s].alloc_count = truth[s].mallocs

(* The net growth printed of a stage is the growth of the heap from its    *)
(* start to the start of the next, as far as an int can hold it, whatever  *)
(* happened in between and though the hook sees no free.                   *)
NetGrowthIsTrue ==
  done => \A s \in Stage :
            HeapSizeChange(s) = ToInt(truth[s + 1].start - truth[s].start)

Fits == \A s \in 0..STAGE_COUNT : truth[s].peak <= INT_MAX

(* The peak is looked at only when malloc returns, yet nothing is missed:  *)
(* of the recorded peak and the size at the start, the larger is the       *)
(* stage's true peak, as long as only malloc made the heap grow and an int *)
(* can hold its size.                                                      *)
PeakIsTrue ==
  Fits => \A s \in Stage :
            truth[s].seen =>
              Larger(stages[s].heap_size, stages[s].peak_heap_size)
                = truth[s].peak

(* While the heap's sizes fit an int and only malloc makes it grow, the    *)
(* peak growth printed is at least the net growth, of a stage that called  *)
(* malloc; a stage that did not has no peak and prints minus its heap      *)
(* size, which is recorded here as what the code does.                     *)
PeakCoversNet ==
  done /\ Fits =>
    \A s \in Stage :
      truth[s].seen =>
        IF stages[s].alloc_count > 0
        THEN PeakGrowth(s) >= HeapSizeChange(s)
        ELSE PeakGrowth(s) = -stages[s].heap_size
-----------------------------------------------------------------------------
(* What makes these true.                                                  *)

TruthOK ==
  truth \in [0..STAGE_COUNT ->
               [mallocs : Nat, start : Nat, peak : Nat, seen : BOOLEAN]]

(* The stages are entered in order, the sentinel last. One that has been   *)
(* has the heap's size at its start on file, and one that has not is clear.*)
Entered(s) == done \/ s <= current_stage

Filed ==
  /\ done => current_stage = -1
  /\ \A s \in 0..STAGE_COUNT :
       IF Entered(s)
       THEN stages[s].heap_size = ToInt(truth[s].start)
       ELSE /\ stages[s].heap_size = 0 /\ stages[s].peak_heap_size = 0
            /\ stages[s].alloc_count = 0
            /\ truth[s].mallocs = 0 /\ truth[s].peak = 0 /\ truth[s].seen

(* Of each stage by itself, while it runs as well: no peak is missed.      *)
PeakKept(s) ==
  truth[s].seen /\ truth[s].peak <= INT_MAX =>
    Larger(stages[s].heap_size, stages[s].peak_heap_size) = truth[s].peak

(* Where the heap was last in stage s: now, or when the next one began.    *)
LastSize(s) == IF s = current_stage THEN uordblks ELSE truth[s + 1].start

(* It is no larger than the recorded peak, once there is one: only malloc  *)
(* makes the heap grow, and records it.                                    *)
GrowthSeen(s) ==
  IF stages[s].alloc_count = 0 THEN stages[s].peak_heap_size = 0
  ELSE truth[s].seen /\ truth[s].peak <= INT_MAX /\ Entered(s)
         => LastSize(s) <= stages[s].peak_heap_size

Followed ==
  /\ \A s \in 0..STAGE_COUNT :
       /\ PeakKept(s)
       /\ truth[s].start <= truth[s].peak
       /\ stages[s].alloc_count <= calls
  /\ \A s \in Stage : GrowthSeen(s)
  /\ Running => uordblks <= truth[current_stage].peak

(* The inductive invariant.                                                *)
Inv == TypeOK /\ TruthOK /\ Counted /\ Filed /\ Followed
=============================================================================
