------------------------- MODULE StageMetricsProofs -------------------------
(***************************************************************************)
(* What the allocation benchmark prints is true, for every number of       *)
(* stages, every width of an int and every sequence of allocator calls.    *)
(***************************************************************************)
EXTENDS StageMetrics, TLAPS

-----------------------------------------------------------------------------
(* Arithmetic of the narrowing.                                            *)

LEMMA Remainder ==
  ASSUME NEW m \in Nat \ {0}, NEW n \in Int
  PROVE  n % m \in 0..(m - 1) /\ \E k \in Int : n = (n % m) + k * m
<1>1. n % m \in 0..(m - 1)
  BY Z3
<1>2. n = (n % m) + (n \div m) * m /\ n \div m \in Int
  BY Z3
<1> QED
  BY <1>1, <1>2

LEMMA RemainderIs ==
  ASSUME NEW m \in Nat \ {0}, NEW r \in 0..(m - 1), NEW k \in Int
  PROVE  (r + k * m) % m = r
BY Z3

(* An int is an int, and differs from the size_t by a multiple of 2^w.     *)
LEMMA ToIntType ==
  ASSUME NEW n \in Int
  PROVE  /\ ToInt(n) \in Int32
         /\ \E k \in Int : ToInt(n) = n + k * (2 * (INT_MAX + 1))
<1> DEFINE H == INT_MAX + 1
           m == 2 * H
<1>1. H \in Nat \ {0} /\ m \in Nat \ {0} /\ n + H \in Int
  BY StageMetricsAssumption
<1>2. ToInt(n) = ((n + H) % m) - H
  BY StageMetricsAssumption DEF ToInt
<1>3. Int32 = (-H)..(H - 1)
  BY StageMetricsAssumption DEF Int32
<1> HIDE DEF H
<1>4. PICK k \in Int : n + H = ((n + H) % m) + k * m
  BY <1>1, Remainder
<1>5. (n + H) % m \in 0..(m - 1)
  BY <1>1, Remainder
<1> DEFINE r == (n + H) % m
<1>6. r \in 0..(m - 1) /\ n + H = r + k * m /\ ToInt(n) = r - H
  BY <1>2, <1>4, <1>5
<1> HIDE DEF r
<1>7. ToInt(n) \in Int32
  BY <1>1, <1>3, <1>6
<1>8. -k \in Int /\ ToInt(n) = n + (-k) * m
  BY <1>1, <1>6
<1> QED
  BY <1>7, <1>8 DEF H

(* The narrowing forgets multiples of 2^w, and nothing of an int.          *)
LEMMA ToIntOf ==
  ASSUME NEW n \in Int32, NEW k \in Int
  PROVE  ToInt(n + k * (2 * (INT_MAX + 1))) = n
<1> DEFINE H == INT_MAX + 1
           m == 2 * H
<1>1. H \in Nat \ {0} /\ m \in Nat \ {0} /\ n \in (-H)..(H - 1)
  BY StageMetricsAssumption DEF Int32
<1>2. ASSUME NEW x \in Int PROVE ToInt(x) = ((x + H) % m) - H
  BY <1>2, StageMetricsAssumption DEF ToInt
<1> HIDE DEF H
<1> DEFINE r == n + H
<1>3. r \in 0..(m - 1) /\ n + k * m + H = r + k * m /\ n = r - H /\ r \in Int
  BY <1>1
<1> HIDE DEF r
<1>4. (r + k * m) % m = r
  BY <1>1, <1>3, RemainderIs
<1>5. ((n + k * m + H) % m) - H = n
  BY <1>3, <1>4
<1>6. n + k * m \in Int
  BY <1>1
<1>7. ToInt(n + k * m) = n
  BY <1>2, <1>5, <1>6
<1> QED
  BY <1>7 DEF H

LEMMA ToIntSame ==
  ASSUME NEW n \in Int32
  PROVE  ToInt(n) = n
<1>1. n + 0 * (2 * (INT_MAX + 1)) = n
  BY StageMetricsAssumption DEF Int32
<1> QED
  BY <1>1, ToIntOf

(* The difference of two narrowed sizes is the narrowed difference.        *)
LEMMA ToIntOfDifference ==
  ASSUME NEW a \in Int, NEW b \in Int
  PROVE  ToInt(ToInt(a) - ToInt(b)) = ToInt(a - b)
<1> DEFINE m == 2 * (INT_MAX + 1)
<1>0. m \in Int
  BY StageMetricsAssumption
<1>1. PICK j \in Int : ToInt(a) = a + j * m
  BY ToIntType
<1>2. PICK k \in Int : ToInt(b) = b + k * m
  BY ToIntType
<1>3. a - b \in Int
  OBVIOUS
<1>4. PICK i \in Int : ToInt(a - b) = a - b + i * m
  BY <1>3, ToIntType
<1>5. ToInt(a - b) \in Int32 /\ ToInt(a - b) \in Int
  BY <1>3, ToIntType, StageMetricsAssumption DEF Int32
<1> DEFINE d == ToInt(a - b)
           q == j - k - i
<1>6. ToInt(d + q * m) = d
  BY <1>5, ToIntOf
<1>7. d + q * m = ToInt(a) - ToInt(b)
  <2> HIDE DEF m
  <2> QED
    BY <1>0, <1>1, <1>2, <1>4
<1> QED
  BY <1>6, <1>7

-----------------------------------------------------------------------------
(* The invariant.                                                          *)

LEMMA InitInv == Init => Inv
<1> SUFFICES ASSUME Init PROVE Inv
  OBVIOUS
<1> USE StageMetricsAssumption
<1>1. /\ current_stage = -1 /\ done = FALSE /\ calls = 0 /\ uordblks \in Nat
      /\ \A s \in 0..STAGE_COUNT :
           /\ stages[s] = [alloc_count |-> 0, heap_size |-> 0,
                           peak_heap_size |-> 0]
           /\ truth[s] = [mallocs |-> 0, start |-> 0, peak |-> 0,
                          seen |-> TRUE]
  BY DEF Init
<1>2. TypeOK
  <2>1. 0 \in 0..MaxCalls /\ 0 \in Int32 /\ 0 \in 0..INT_MAX
    BY DEF Int32
  <2> QED
    BY <2>1, <1>1 DEF Init, TypeOK
<1>3. TruthOK
  BY DEF Init, TruthOK
<1>4. Counted
  BY <1>1 DEF Counted
<1>5. Filed
  BY <1>1 DEF Filed, Entered
<1>6. Followed
  BY <1>1 DEF Followed, PeakKept, GrowthSeen, LastSize, Running, Stage, Larger
<1> QED
  BY <1>2, <1>3, <1>4, <1>5, <1>6 DEF Inv

(* What a call of the allocator does to the running stage: h is the heap   *)
(* after it, and only a call the hook sees, which then is recorded, or     *)
(* that it will never answer for, may make the heap grow.                  *)
Called(h, mallocs, seen) ==
  /\ Running
  /\ Happens(h, mallocs, seen)
  /\ \/ mallocs = 1 /\ Record
     \/ mallocs = 0 /\ stages' = stages /\ (seen => h <= uordblks)
  /\ UNCHANGED <<current_stage, done>>

LEMMA CallKeepsInv ==
  ASSUME Inv, NEW h \in Nat, NEW n, NEW seen \in BOOLEAN, Called(h, n, seen)
  PROVE  Inv'
<1> USE StageMetricsAssumption
<1>0. SUFFICES ASSUME NEW c, c = current_stage PROVE Inv'
  OBVIOUS
<1> DEFINE u == ToInt(h)
           p == stages[c].peak_heap_size
           old == truth[c].peak
<1>1. /\ c \in Stage /\ c \in 0..STAGE_COUNT /\ ~ done /\ Entered(c)
      /\ uordblks' = h /\ calls' = calls + 1 /\ calls < MaxCalls
      /\ current_stage' = c /\ done' = done
  BY <1>0 DEF Called, Running, Happens, Inv, Filed, Stage, Entered
<1>2. /\ calls \in Nat /\ uordblks \in Nat
      /\ stages[c].alloc_count \in 0..MaxCalls
      /\ stages[c].heap_size \in Int32 /\ p \in 0..INT_MAX /\ old \in Nat
      /\ truth[c].mallocs \in Nat /\ truth[c].start \in Nat
      /\ DOMAIN stages = 0..STAGE_COUNT /\ DOMAIN truth = 0..STAGE_COUNT
  <2>1. /\ stages \in [0..STAGE_COUNT -> [alloc_count : 0..MaxCalls,
                         heap_size : Int32, peak_heap_size : 0..INT_MAX]]
        /\ truth \in [0..STAGE_COUNT -> [mallocs : Nat, start : Nat,
                                         peak : Nat, seen : BOOLEAN]]
        /\ calls \in 0..MaxCalls /\ uordblks \in Nat
    BY DEF Inv, TypeOK, TruthOK
  <2>2. /\ stages[c] \in [alloc_count : 0..MaxCalls, heap_size : Int32,
                          peak_heap_size : 0..INT_MAX]
        /\ truth[c] \in [mallocs : Nat, start : Nat, peak : Nat,
                         seen : BOOLEAN]
    BY <1>0, <1>1, <2>1
  <2>3. /\ stages[c].alloc_count \in 0..MaxCalls
        /\ stages[c].heap_size \in Int32
        /\ stages[c].peak_heap_size \in 0..INT_MAX
    BY <2>2
  <2>4. /\ truth[c].mallocs \in Nat /\ truth[c].start \in Nat
        /\ truth[c].peak \in Nat
    BY <2>2
  <2>6. DOMAIN stages = 0..STAGE_COUNT /\ DOMAIN truth = 0..STAGE_COUNT
    BY <2>1
  <2>7. calls \in Nat /\ uordblks \in Nat
    BY <2>1
  <2> QED
    BY <2>3, <2>4, <2>6, <2>7, Zenon
<1>3. u \in Int32 /\ (h <= INT_MAX => u = h)
  BY ToIntType, ToIntSame DEF Int32
<1>4. /\ \A s \in 0..STAGE_COUNT : s # c => truth'[s] = truth[s]
      /\ truth'[c].mallocs = truth[c].mallocs + n
      /\ truth'[c].peak = Larger(old, h)
      /\ truth'[c].seen => truth[c].seen /\ seen
      /\ truth'[c].start = truth[c].start
      /\ DOMAIN truth' = 0..STAGE_COUNT
  <2>1. truth' = [truth EXCEPT ![c].mallocs = truth[c].mallocs + n,
                               ![c].peak = Larger(old, h),
                               ![c].seen = truth[c].seen /\ seen]
    BY <1>0, <1>1 DEF Called, Happens
  <2>2. c \in 0..STAGE_COUNT
        /\ truth \in [0..STAGE_COUNT -> [mallocs : Nat, start : Nat,
                                         peak : Nat, seen : BOOLEAN]]
    BY <1>1 DEF Inv, TruthOK
  <2> HIDE DEF old
  <2> QED
    BY <2>1, <2>2
<1>5. /\ \A s \in 0..STAGE_COUNT : s # c => stages'[s] = stages[s]
      /\ stages'[c].heap_size = stages[c].heap_size
      /\ \/ /\ n = 1
            /\ stages'[c].peak_heap_size = Larger(p, u)
            /\ stages'[c].alloc_count = stages[c].alloc_count + 1
         \/ /\ n = 0
            /\ stages'[c].peak_heap_size = p
            /\ stages'[c].alloc_count = stages[c].alloc_count
            /\ seen => h <= uordblks
  <2>1. CASE n = 1 /\ Record
    <3>1. stages' = [stages EXCEPT ![c].peak_heap_size = Larger(p, u),
                        ![c].alloc_count = stages[c].alloc_count + 1]
      BY <2>1, <1>0, <1>1 DEF Record
    <3> QED
      BY <3>1, <2>1, <1>1, <1>2
  <2>2. CASE n = 0 /\ stages' = stages /\ (seen => h <= uordblks)
    BY <2>2, <1>1, <1>2, Zenon
  <2> QED
    BY <2>1, <2>2 DEF Called
<1>6. /\ stages[c].alloc_count <= calls /\ PeakKept(c) /\ GrowthSeen(c)
      /\ uordblks <= old /\ truth[c].start <= old
      /\ stages[c].alloc_count = truth[c].mallocs
      /\ stages[c].heap_size = ToInt(truth[c].start)
  BY <1>0, <1>1 DEF Inv, Followed, Counted, Filed, Called
<1> HIDE DEF u, p, old
<1>7. TypeOK'
  <2>1. stages' \in [0..STAGE_COUNT -> [alloc_count : 0..MaxCalls,
                       heap_size : Int32, peak_heap_size : 0..INT_MAX]]
    <3>1. CASE Record
      <4>1. stages' = [stages EXCEPT ![c].peak_heap_size = Larger(p, u),
                          ![c].alloc_count = stages[c].alloc_count + 1]
        BY <3>1, <1>0, <1>1 DEF Record, u, p
      <4>2. /\ Larger(p, u) \in 0..INT_MAX
            /\ stages[c].alloc_count + 1 \in 0..MaxCalls
        <5>1. Larger(p, u) \in 0..INT_MAX
          BY <1>2, <1>3 DEF Larger, Int32
        <5>2. stages[c].alloc_count + 1 \in 0..MaxCalls
          BY <1>0, <1>1, <1>2, <1>6
        <5> QED
          BY <5>1, <5>2
      <4> QED
        BY <4>1, <4>2, <1>1, <1>2 DEF Inv, TypeOK
    <3>2. CASE stages' = stages
      BY <3>2 DEF Inv, TypeOK
    <3> QED
      BY <3>1, <3>2 DEF Called
  <2>2. current_stage' \in Stage \cup {-1} /\ uordblks' \in Nat
        /\ calls' \in 0..MaxCalls
    BY <1>1, <1>2
  <2>3. done' \in BOOLEAN
    BY <1>1, Zenon DEF Inv, TypeOK
  <2> QED
    BY <2>1, <2>2, <2>3, Zenon DEF TypeOK
<1>8. TruthOK'
  <2>1. truth' = [truth EXCEPT ![c].mallocs = truth[c].mallocs + n,
                               ![c].peak = Larger(old, h),
                               ![c].seen = truth[c].seen /\ seen]
    BY <1>0 DEF Called, Happens, old
  <2>2. truth[c].mallocs + n \in Nat /\ Larger(old, h) \in Nat
    BY <1>2, <1>5 DEF Larger
  <2>3. (truth[c].seen /\ seen) \in BOOLEAN
    OBVIOUS
  <2> DEFINE b == truth[c].seen /\ seen
  <2> DEFINE r == [truth[c] EXCEPT !.mallocs = truth[c].mallocs + n,
                                 !.peak = Larger(old, h), !.seen = b]
  <2>4. truth' = [truth EXCEPT ![c] = r]
    <3>1. truth' = [truth EXCEPT ![c].mallocs = truth[c].mallocs + n,
                                 ![c].peak = Larger(old, h), ![c].seen = b]
      BY <2>1, Zenon
    <3> HIDE DEF b
    <3> QED
      BY <3>1, <1>1 DEF Inv, TruthOK
  <2>5. b \in BOOLEAN
    BY <2>3, Zenon
  <2> HIDE DEF b
  <2>6. r \in [mallocs : Nat, start : Nat, peak : Nat, seen : BOOLEAN]
    <3>1. truth[c] \in [mallocs : Nat, start : Nat, peak : Nat,
                        seen : BOOLEAN]
      BY <1>1 DEF Inv, TruthOK
    <3> QED
      BY <3>1, <2>2, <2>5
  <2> HIDE DEF r
  <2> QED
    BY <2>4, <2>6, <1>1 DEF Inv, TruthOK
<1>9. Counted'
  <2>1. ASSUME NEW s \in 0..STAGE_COUNT
        PROVE  stages'[s].alloc_count = truth'[s].mallocs
    <3>1. stages[s].alloc_count = truth[s].mallocs
      BY DEF Inv, Counted
    <3>2. CASE s = c
      BY <3>2, <1>2, <1>4, <1>5, <1>6
    <3>3. CASE s # c
      BY <3>1, <3>3, <1>4, <1>5
    <3> QED
      BY <3>2, <3>3
  <2> QED
    BY <2>1 DEF Counted
<1>10. Filed'
  <2>1. \A s \in 0..STAGE_COUNT : Entered(s)' <=> Entered(s)
    BY <1>0, <1>1 DEF Entered
  <2>2. ASSUME NEW s \in 0..STAGE_COUNT, s # c
        PROVE  stages'[s] = stages[s] /\ truth'[s] = truth[s]
    BY <2>2, <1>4, <1>5
  <2>3. stages'[c].heap_size = ToInt(truth'[c].start)
    BY <1>4, <1>5, <1>6
  <2>4. done' => current_stage' = -1
    BY <1>0, <1>1
  <2>5. Entered(c)'
    BY <2>1, <1>1
  <2>6. ASSUME NEW s \in 0..STAGE_COUNT
        PROVE  IF Entered(s)'
               THEN stages'[s].heap_size = ToInt(truth'[s].start)
               ELSE /\ stages'[s].heap_size = 0
                    /\ stages'[s].peak_heap_size = 0
                    /\ stages'[s].alloc_count = 0
                    /\ truth'[s].mallocs = 0 /\ truth'[s].peak = 0
                    /\ truth'[s].seen
    <3>1. CASE s = c
      BY <3>1, <2>3, <2>5
    <3>2. CASE s # c
      <4>1. stages'[s] = stages[s] /\ truth'[s] = truth[s]
        BY <3>2, <2>2
      <4> QED
        BY <4>1, <2>1 DEF Inv, Filed
    <3> QED
      BY <3>1, <3>2
  <2> QED
    BY <2>4, <2>6, Zenon DEF Filed
<1>11. Followed'
  <2>1. PeakKept(c)'
    <3>1. SUFFICES ASSUME truth'[c].seen, truth'[c].peak <= INT_MAX
                   PROVE  Larger(stages'[c].heap_size,
                                 stages'[c].peak_heap_size) = truth'[c].peak
      BY <1>0, <1>1 DEF PeakKept
    <3>2. truth[c].seen /\ seen
      BY <3>1, <1>4
    <3>3. h <= INT_MAX /\ old <= INT_MAX /\ u = h
      BY <3>1, <1>2, <1>3, <1>4 DEF Larger
    <3>4. Larger(stages[c].heap_size, p) = old
      BY <3>2, <3>3, <1>6 DEF PeakKept, p, old
    <3> DEFINE hs == stages[c].heap_size
    <3>5. hs \in Int /\ p \in Int /\ old \in Int /\ h \in Int
          /\ uordblks \in Int
      BY <1>2 DEF Int32
    <3>6. \/ stages'[c].peak_heap_size = Larger(p, h)
          \/ stages'[c].peak_heap_size = p /\ h <= uordblks
      BY <3>2, <3>3, <1>5
    <3>7. stages'[c].heap_size = hs /\ truth'[c].peak = Larger(old, h)
          /\ uordblks <= old
      BY <1>4, <1>5, <1>6
    <3> HIDE DEF hs
    <3> QED
      BY <3>4, <3>5, <3>6, <3>7 DEF Larger, hs
  <2>2. GrowthSeen(c)'
    <3>1. LastSize(c)' = h /\ LastSize(c) = uordblks
      BY <1>0, <1>1 DEF LastSize
    <3>2. CASE stages'[c].alloc_count = 0
      <4>1. stages'[c].peak_heap_size = p /\ stages[c].alloc_count = 0
        BY <3>2, <1>2, <1>5
      <4> QED
        BY <3>2, <4>1, <1>6 DEF GrowthSeen, p
    <3>3. CASE stages'[c].alloc_count # 0
      <4>1. SUFFICES ASSUME truth'[c].seen, truth'[c].peak <= INT_MAX
                     PROVE  h <= stages'[c].peak_heap_size
        BY <3>1, <3>3 DEF GrowthSeen
      <4>2. truth[c].seen /\ seen
        BY <4>1, <1>4
      <4>3. h <= INT_MAX /\ old <= INT_MAX /\ u = h
        BY <4>1, <1>2, <1>3, <1>4 DEF Larger
      <4>4. CASE n = 1
        BY <4>3, <4>4, <1>2, <1>5 DEF Larger
      <4>5. CASE n = 0
        <5>1. /\ stages'[c].peak_heap_size = p /\ h <= uordblks
              /\ stages[c].alloc_count # 0
          BY <4>2, <4>5, <3>3, <1>5
        <5>2. uordblks <= p
          BY <5>1, <4>2, <4>3, <3>1, <1>1, <1>6 DEF GrowthSeen, p, old
        <5> QED
          BY <5>1, <5>2, <1>2
      <4> QED
        BY <4>4, <4>5, <1>5
    <3> QED
      BY <3>2, <3>3
  <2>3. \A s \in 0..STAGE_COUNT : s # c => PeakKept(s)'
    BY <1>4, <1>5 DEF Inv, Followed, PeakKept
  <2>4. ASSUME NEW s \in Stage, s # c PROVE GrowthSeen(s)'
    <3>1. s \in 0..STAGE_COUNT /\ s + 1 \in 0..STAGE_COUNT
      BY DEF Stage
    <3>2. stages'[s] = stages[s] /\ truth'[s] = truth[s]
      BY <2>4, <3>1, <1>4, <1>5
    <3>3. Entered(s)' <=> Entered(s)
      BY <1>0, <1>1 DEF Entered
    <3>4. truth'[s + 1].start = truth[s + 1].start
      BY <3>1, <1>4
    <3>5. LastSize(s)' = LastSize(s)
      BY <2>4, <3>4, <1>0, <1>1 DEF LastSize
    <3>6. GrowthSeen(s)
      BY DEF Inv, Followed
    <3>7. CASE stages[s].alloc_count = 0
      BY <3>2, <3>6, <3>7 DEF GrowthSeen
    <3>8. CASE stages[s].alloc_count # 0
      <4>1. truth[s].seen /\ truth[s].peak <= INT_MAX /\ Entered(s)
              => LastSize(s) <= stages[s].peak_heap_size
        BY <3>6, <3>8 DEF GrowthSeen
      <4>2. truth'[s].seen /\ truth'[s].peak <= INT_MAX /\ Entered(s)'
              => LastSize(s)' <= stages'[s].peak_heap_size
        BY <4>1, <3>2, <3>3, <3>5
      <4> QED
        BY <4>2, <3>2, <3>8 DEF GrowthSeen
    <3> QED
      BY <3>7, <3>8
  <2>5. \A s \in 0..STAGE_COUNT : truth'[s].start <= truth'[s].peak
                                  /\ stages'[s].alloc_count <= calls'
    <3>1. truth'[c].start <= truth'[c].peak /\ stages'[c].alloc_count <= calls'
      <4>1. truth'[c].start <= truth'[c].peak
        BY <1>2, <1>4, <1>6 DEF Larger
      <4>2. stages'[c].alloc_count <= calls'
        <5>1. \/ stages'[c].alloc_count = stages[c].alloc_count + 1
              \/ stages'[c].alloc_count = stages[c].alloc_count
          BY <1>5, Zenon
        <5>2. calls' = calls + 1 /\ stages[c].alloc_count <= calls
          BY <1>1, <1>6, Zenon
        <5> QED
          BY <5>1, <5>2, <1>1, <1>2
      <4> QED
        BY <4>1, <4>2
    <3>2. ASSUME NEW s \in 0..STAGE_COUNT, s # c
          PROVE  truth'[s].start <= truth'[s].peak
                 /\ stages'[s].alloc_count <= calls'
      <4>1. stages[s] \in [alloc_count : 0..MaxCalls, heap_size : Int32,
                           peak_heap_size : 0..INT_MAX]
        BY DEF Inv, TypeOK
      <4>2. stages[s].alloc_count \in Nat
        BY <4>1
      <4>3. truth[s].start <= truth[s].peak /\ stages[s].alloc_count <= calls
        BY DEF Inv, Followed
      <4>4. stages'[s] = stages[s] /\ truth'[s] = truth[s]
        BY <3>2, <1>4, <1>5
      <4> QED
        BY <4>2, <4>3, <4>4, <1>1, <1>2
    <3> QED
      BY <3>1, <3>2
  <2>6. uordblks' <= truth'[current_stage'].peak
    BY <1>0, <1>1, <1>2, <1>4 DEF Larger
  <2> QED
    BY <2>1, <2>2, <2>3, <2>4, <2>5, <2>6 DEF Followed
<1> QED
  BY <1>7, <1>8, <1>9, <1>10, <1>11 DEF Inv

(* What set_stage and reset_stage do: stage e begins.                      *)
Begins(e) ==
  /\ ~ done /\ e = current_stage + 1 /\ e \in 0..STAGE_COUNT
  /\ Enter(e)
  /\ UNCHANGED <<uordblks, calls>>
  /\ \/ e \in Stage /\ current_stage' = e /\ done' = done
     \/ e = STAGE_COUNT /\ current_stage' = -1 /\ done' = TRUE

LEMMA EnterKeepsInv ==
  ASSUME Inv, NEW e, Begins(e)
  PROVE  Inv'
<1> USE StageMetricsAssumption
<1>0. SUFFICES ASSUME NEW c, c = current_stage, NEW u, u = uordblks
               PROVE  Inv'
  OBVIOUS
<1>1. /\ e \in 0..STAGE_COUNT /\ c \in Stage \cup {-1} /\ e = c + 1
      /\ uordblks' = u /\ calls' = calls /\ u \in Nat
      /\ calls \in 0..MaxCalls
      /\ \/ e \in Stage /\ current_stage' = e
         \/ e = STAGE_COUNT /\ current_stage' = -1
  BY <1>0 DEF Begins, Inv, TypeOK
<1>2. \A s \in 0..STAGE_COUNT :
        (Entered(s) <=> s <= c) /\ (Entered(s)' <=> s <= e)
  BY <1>0, <1>1 DEF Begins, Entered, Stage
<1>3. stages \in [0..STAGE_COUNT -> [alloc_count : 0..MaxCalls,
                    heap_size : Int32, peak_heap_size : 0..INT_MAX]]
  BY DEF Inv, TypeOK
<1>4. truth \in [0..STAGE_COUNT -> [mallocs : Nat, start : Nat, peak : Nat,
                                    seen : BOOLEAN]]
  BY DEF Inv, TruthOK
<1>5. /\ stages' = [stages EXCEPT ![e].heap_size = ToInt(u)]
      /\ truth' = [truth EXCEPT ![e].start = u, ![e].peak = u]
  BY <1>0 DEF Begins, Enter
<1>6. ToInt(u) \in Int32 /\ (u <= INT_MAX => ToInt(u) = u)
  BY <1>1, ToIntType, ToIntSame DEF Int32
<1>7. /\ \A s \in 0..STAGE_COUNT : s # e => stages'[s] = stages[s]
      /\ stages'[e].heap_size = ToInt(u)
      /\ stages'[e].peak_heap_size = stages[e].peak_heap_size
      /\ stages'[e].alloc_count = stages[e].alloc_count
  BY <1>1, <1>3, <1>5
<1>8. /\ \A s \in 0..STAGE_COUNT : s # e => truth'[s] = truth[s]
      /\ truth'[e].start = u /\ truth'[e].peak = u
      /\ truth'[e].mallocs = truth[e].mallocs
  BY <1>1, <1>4, <1>5
<1>9. \A s \in 0..STAGE_COUNT : s > c =>
        /\ stages[s].peak_heap_size = 0 /\ stages[s].alloc_count = 0
        /\ truth[s].mallocs = 0
  BY <1>1, <1>2 DEF Inv, Filed, Stage
<1>10. /\ stages[e].peak_heap_size = 0 /\ stages[e].alloc_count = 0
       /\ truth[e].mallocs = 0
  BY <1>1, <1>9 DEF Stage
<1>11. TypeOK'
  <2>1. stages' \in [0..STAGE_COUNT -> [alloc_count : 0..MaxCalls,
                       heap_size : Int32, peak_heap_size : 0..INT_MAX]]
    BY <1>1, <1>3, <1>5, <1>6
  <2>2. current_stage' \in Stage \cup {-1} /\ uordblks' \in Nat
        /\ calls' \in 0..MaxCalls
    BY <1>1
  <2>3. done' \in BOOLEAN
    BY Zenon DEF Begins, Inv, TypeOK
  <2> QED
    BY <2>1, <2>2, <2>3, Zenon DEF TypeOK
<1>12. TruthOK'
  <2> DEFINE r == [truth[e] EXCEPT !.start = u, !.peak = u]
  <2>1. r \in [mallocs : Nat, start : Nat, peak : Nat, seen : BOOLEAN]
    <3>1. truth[e] \in [mallocs : Nat, start : Nat, peak : Nat,
                        seen : BOOLEAN]
      BY <1>1, <1>4
    <3> QED
      BY <3>1, <1>1
  <2>2. truth' = [truth EXCEPT ![e] = r]
    BY <1>5, <1>4, <1>1
  <2> HIDE DEF r
  <2> QED
    BY <2>1, <2>2, <1>1, <1>4 DEF TruthOK
<1>13. Counted'
  <2>1. ASSUME NEW s \in 0..STAGE_COUNT
        PROVE  stages'[s].alloc_count = truth'[s].mallocs
    <3>1. CASE s = e
      BY <3>1, <1>7, <1>8, <1>10
    <3>2. CASE s # e
      BY <3>2, <1>7, <1>8 DEF Inv, Counted
    <3> QED
      BY <3>1, <3>2
  <2> QED
    BY <2>1 DEF Counted
<1>14. Filed'
  <2>1. done' => current_stage' = -1
    BY DEF Begins
  <2>2. ASSUME NEW s \in 0..STAGE_COUNT, s <= e
        PROVE  stages'[s].heap_size = ToInt(truth'[s].start)
    <3>1. CASE s = e
      BY <3>1, <1>7, <1>8
    <3>2. CASE s # e
      <4>1. s <= c
        BY <2>2, <3>2, <1>1 DEF Stage
      <4> QED
        BY <4>1, <3>2, <1>2, <1>7, <1>8 DEF Inv, Filed
    <3> QED
      BY <3>1, <3>2
  <2>3. ASSUME NEW s \in 0..STAGE_COUNT, ~ (s <= e)
        PROVE  s # e /\ ~ (s <= c)
    BY <2>3, <1>1 DEF Stage
  <2>4. ASSUME NEW s \in 0..STAGE_COUNT, ~ (s <= e)
        PROVE  ~ Entered(s) /\ stages'[s] = stages[s] /\ truth'[s] = truth[s]
    BY <2>3, <2>4, <1>2, <1>7, <1>8
  <2>5. ASSUME NEW s \in 0..STAGE_COUNT
        PROVE  IF Entered(s)'
               THEN stages'[s].heap_size = ToInt(truth'[s].start)
               ELSE /\ stages'[s].heap_size = 0
                    /\ stages'[s].peak_heap_size = 0
                    /\ stages'[s].alloc_count = 0
                    /\ truth'[s].mallocs = 0 /\ truth'[s].peak = 0
                    /\ truth'[s].seen
    <3>1. CASE s <= e
      BY <3>1, <2>2, <1>2
    <3>2. CASE ~ (s <= e)
      <4>1. ~ Entered(s)' /\ ~ Entered(s)
            /\ stages'[s] = stages[s] /\ truth'[s] = truth[s]
        BY <3>2, <2>4, <1>2
      <4> QED
        BY <4>1 DEF Inv, Filed
    <3> QED
      BY <3>1, <3>2
  <2> QED
    BY <2>1, <2>5, Zenon DEF Filed
<1>15. Followed'
  <2>1. ASSUME NEW s \in 0..STAGE_COUNT
        PROVE  /\ PeakKept(s)'
               /\ truth'[s].start <= truth'[s].peak
               /\ stages'[s].alloc_count <= calls'
    <3>1. CASE s = e
      <4>1. PeakKept(e)'
        BY <1>1, <1>6, <1>7, <1>8, <1>10 DEF PeakKept, Larger, Int32
      <4>2. u <= u /\ 0 <= calls
        BY <1>1
      <4> QED
        BY <3>1, <4>1, <4>2, <1>1, <1>7, <1>8, <1>10
    <3>2. CASE s # e
      BY <3>2, <1>1, <1>7, <1>8 DEF Inv, Followed, PeakKept
    <3> QED
      BY <3>1, <3>2
  <2>2. ASSUME NEW s \in Stage
        PROVE  GrowthSeen(s)'
    <3>0. s \in 0..STAGE_COUNT /\ s + 1 \in 0..STAGE_COUNT /\ s \in Int
          /\ s # -1
      BY DEF Stage
    <3>1. CASE s > c
      <4>1. stages'[s].peak_heap_size = 0 /\ stages'[s].alloc_count = 0
        BY <3>0, <3>1, <1>7, <1>9, <1>10
      <4> QED
        BY <4>1 DEF GrowthSeen
    <3>2. CASE s <= c
      <4>1. s # e /\ current_stage' # s /\ Entered(s) /\ Entered(s)'
        BY <3>0, <3>2, <1>1, <1>2 DEF Stage
      <4>2. stages'[s] = stages[s] /\ truth'[s] = truth[s]
        BY <4>1, <3>0, <1>7, <1>8
      <4>3. LastSize(s)' = LastSize(s)
        <5>1. LastSize(s)' = truth'[s + 1].start
          BY <4>1 DEF LastSize
        <5>2. CASE s = c
          BY <5>1, <5>2, <1>0, <1>1, <1>8 DEF LastSize
        <5>3. CASE s # c
          <6>1. s + 1 # e
            BY <5>3, <3>0, <1>1 DEF Stage
          <6> QED
            BY <5>1, <5>3, <6>1, <3>0, <1>0, <1>8 DEF LastSize
        <5> QED
          BY <5>2, <5>3
      <4>4. GrowthSeen(s)
        BY DEF Inv, Followed
      <4> QED
        BY <4>1, <4>2, <4>3, <4>4 DEF GrowthSeen
    <3> QED
      BY <3>0, <3>1, <3>2, <1>1 DEF Stage
  <2>3. Running' => uordblks' <= truth'[current_stage'].peak
    <3>1. Running' => current_stage' = e
      BY <1>1 DEF Running, Stage
    <3>2. u <= u
      BY <1>1
    <3> QED
      BY <3>1, <3>2, <1>1, <1>8
  <2> QED
    BY <2>1, <2>2, <2>3 DEF Followed
<1> QED
  BY <1>11, <1>12, <1>13, <1>14, <1>15 DEF Inv

(* Every step of the next-state relation is one or the other.               *)
LEMMA NextInv == Inv /\ [Next]_vars => Inv'
<1> SUFFICES ASSUME Inv, [Next]_vars PROVE Inv'
  OBVIOUS
<1> USE StageMetricsAssumption
<1>0. uordblks \in Nat
  BY DEF Inv, TypeOK
<1>1. CASE set_stage
  <2>1. Begins(current_stage + 1)
    BY <1>1 DEF set_stage, Begins, Stage
  <2> QED
    BY <2>1, EnterKeepsInv
<1>2. CASE reset_stage
  <2>1. ~ done
    BY <1>2 DEF reset_stage, SENTINEL_STAGE, Inv, Filed
  <2>2. current_stage + 1 = STAGE_COUNT /\ STAGE_COUNT \in 0..STAGE_COUNT
    BY <1>2 DEF reset_stage, SENTINEL_STAGE
  <2>3. /\ current_stage' = -1 /\ done' = TRUE /\ Enter(STAGE_COUNT)
        /\ UNCHANGED <<uordblks, calls>>
    BY <1>2 DEF reset_stage, SENTINEL_STAGE
  <2>4. Begins(current_stage + 1)
    BY <2>1, <2>2, <2>3, Zenon DEF Begins
  <2> QED
    BY <2>4, EnterKeepsInv
<1>3. ASSUME NEW n \in Size, malloc(n) PROVE Inv'
  <2>1. uordblks + n \in Nat
    BY <1>0
  <2>2. Called(uordblks + n, 1, TRUE)
    BY <1>3, Zenon DEF malloc, Called
  <2> QED
    BY <2>1, <2>2, CallKeepsInv
<1>4. CASE Mapped
  <2>1. Called(uordblks, 1, TRUE)
    BY <1>4 DEF Mapped, Called
  <2> QED
    BY <2>1, <1>0, CallKeepsInv
<1>5. ASSUME NEW n \in Size, free(n) PROVE Inv'
  <2>1. uordblks - n \in Nat /\ uordblks - n <= uordblks
    BY <1>0, <1>5 DEF free
  <2>2. Called(uordblks - n, 0, TRUE)
    BY <1>5, <2>1 DEF free, Called
  <2> QED
    BY <2>1, <2>2, CallKeepsInv
<1>6. ASSUME NEW n \in Size, Unhooked(n) PROVE Inv'
  <2>1. uordblks + n \in Nat
    BY <1>0
  <2>2. Called(uordblks + n, 0, FALSE)
    BY <1>6 DEF Unhooked, Called
  <2> QED
    BY <2>1, <2>2, CallKeepsInv
<1>7. CASE UNCHANGED vars
  BY <1>7 DEF vars, Inv, TypeOK, TruthOK, Counted, Filed, Followed, Entered,
              PeakKept, GrowthSeen, LastSize, Running
<1> QED
  BY <1>1, <1>2, <1>3, <1>4, <1>5, <1>6, <1>7 DEF Next, Finished

(* The inductive invariant holds in every reachable state.                 *)
THEOREM Invariance == Spec => []Inv
BY InitInv, NextInv, PTL DEF Spec

-----------------------------------------------------------------------------
(* The theorems.                                                           *)

(* Every malloc is counted once, in the stage that made it.                *)
THEOREM CountedHolds == Spec => []Counted
<1>1. Inv => Counted
  BY DEF Inv
<1> QED
  BY <1>1, Invariance, PTL

(* The recorded peak and the size at the start bound what the stage really *)
(* held, as long as only malloc made it grow.                              *)
THEOREM PeakHolds == Spec => []PeakIsTrue
<1>1. Inv => PeakIsTrue
  <2> SUFFICES ASSUME Inv, Fits, NEW s \in Stage, truth[s].seen
               PROVE  Larger(stages[s].heap_size, stages[s].peak_heap_size)
                        = truth[s].peak
    BY DEF PeakIsTrue
  <2>1. s \in 0..STAGE_COUNT
    BY StageMetricsAssumption DEF Stage
  <2> QED
    BY <2>1 DEF Inv, Followed, PeakKept, Fits
<1> QED
  BY <1>1, Invariance, PTL

(* The growth printed of a stage is that of the heap, modulo the width of  *)
(* an int.                                                                 *)
THEOREM NetGrowthHolds == Spec => []NetGrowthIsTrue
<1>1. Inv => NetGrowthIsTrue
  <2> SUFFICES ASSUME Inv, done, NEW s \in Stage
               PROVE  HeapSizeChange(s)
                        = ToInt(truth[s + 1].start - truth[s].start)
    BY DEF NetGrowthIsTrue
  <2>1. s \in 0..STAGE_COUNT /\ s + 1 \in 0..STAGE_COUNT
    BY StageMetricsAssumption DEF Stage
  <2>2. /\ stages[s].heap_size = ToInt(truth[s].start)
        /\ stages[s + 1].heap_size = ToInt(truth[s + 1].start)
    BY <2>1 DEF Inv, Filed, Entered
  <2>3. truth[s].start \in Int /\ truth[s + 1].start \in Int
    BY <2>1 DEF Inv, TruthOK
  <2> QED
    BY <2>2, <2>3, ToIntOfDifference DEF HeapSizeChange
<1> QED
  BY <1>1, Invariance, PTL

(* While sizes fit an int and only malloc makes the heap grow, the peak    *)
(* printed is at least the net growth, of a stage with a malloc; without   *)
(* one it is minus the size of the heap.                                   *)
THEOREM PeakCoversNetHolds == Spec => []PeakCoversNet
<1>1. Inv => PeakCoversNet
  <2> USE StageMetricsAssumption
  <2> SUFFICES ASSUME Inv, done, Fits, NEW s \in Stage, truth[s].seen
               PROVE  IF stages[s].alloc_count > 0
                      THEN PeakGrowth(s) >= HeapSizeChange(s)
                      ELSE PeakGrowth(s) = -stages[s].heap_size
    BY DEF PeakCoversNet
  <2>1. /\ s \in 0..STAGE_COUNT /\ s + 1 \in 0..STAGE_COUNT
        /\ s # current_stage /\ Entered(s)
    BY DEF Stage, Inv, Filed, Entered
  <2>2. ASSUME NEW k \in 0..STAGE_COUNT
        PROVE  /\ stages[k].heap_size = truth[k].start
               /\ stages[k].heap_size \in 0..INT_MAX
    <3>1. /\ truth[k].start \in Nat /\ truth[k].peak \in Nat
      BY DEF Inv, TruthOK
    <3>2. truth[k].start <= truth[k].peak /\ truth[k].peak <= INT_MAX
      BY DEF Inv, Followed, Fits
    <3>3. truth[k].start \in 0..INT_MAX /\ truth[k].start \in Int32
      BY <3>1, <3>2 DEF Int32
    <3>4. stages[k].heap_size = ToInt(truth[k].start)
      BY DEF Inv, Filed, Entered
    <3> QED
      BY <3>3, <3>4, ToIntSame
  <2> DEFINE a == stages[s].heap_size
             b == stages[s + 1].heap_size
             p == stages[s].peak_heap_size
  <2>3. a \in 0..INT_MAX /\ b \in 0..INT_MAX /\ b = truth[s + 1].start
    BY <2>1, <2>2
  <2>4. /\ stages[s] \in [alloc_count : 0..MaxCalls, heap_size : Int32,
                          peak_heap_size : 0..INT_MAX]
    BY <2>1 DEF Inv, TypeOK
  <2>5. p \in 0..INT_MAX /\ stages[s].alloc_count \in Nat
    BY <2>4
  <2>6. GrowthSeen(s) /\ truth[s].peak <= INT_MAX /\ LastSize(s) = b
    BY <2>1, <2>3 DEF Inv, Followed, Fits, LastSize
  <2>7. IF stages[s].alloc_count = 0 THEN p = 0 ELSE b <= p
    BY <2>1, <2>6 DEF GrowthSeen
  <2>8. PeakGrowth(s) = ToInt(p - a) /\ HeapSizeChange(s) = ToInt(b - a)
    BY DEF PeakGrowth, HeapSizeChange
  <2>9. p - a \in Int32 /\ b - a \in Int32
    BY <2>3, <2>5 DEF Int32
  <2>10. PeakGrowth(s) = p - a /\ HeapSizeChange(s) = b - a
    BY <2>8, <2>9, ToIntSame
  <2> QED
    BY <2>3, <2>5, <2>7, <2>10
<1> QED
  BY <1>1, Invariance, PTL
=============================================================================
