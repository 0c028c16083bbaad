---------------------------- MODULE ThreadProofs ----------------------------
(***************************************************************************)
(* What the two halves of the SDK's thread sample promise. CondBuffer, for *)
(* every number of consumers and of loops and every size of the ring: the  *)
(* ring stays a queue, every item is taken once, and no wake-up is lost.   *)
(* Counter, for every number of adders and of loops: the counter loses no  *)
(* addition, one adder at most has the total to report, and the assertion  *)
(* of the main thread holds.                                               *)
(***************************************************************************)
EXTENDS ThreadFunctions, FiniteSetTheorems, TLAPS

-----------------------------------------------------------------------------
(* Arithmetic of the ring.                                                 *)

(* The next slot, without the remainder.                                   *)
LEMMA SuccessorOf ==
  ASSUME NEW k \in Slot
  PROVE  Successor(k) = IF k + 1 = BUFFER_SIZE THEN 0 ELSE k + 1
BY CondBufferAssumption, Z3 DEF Slot, Successor

(* A number below twice the size of the ring wraps once at most.           *)
LEMMA Wrapped ==
  ASSUME NEW n \in 0..(2 * BUFFER_SIZE - 1)
  PROVE  n % BUFFER_SIZE = IF n < BUFFER_SIZE THEN n ELSE n - BUFFER_SIZE
<1> DEFINE N == BUFFER_SIZE
<1> N \in Nat \ {0}
  BY CondBufferAssumption
<1> HIDE DEF N
<1>1. ASSUME NEW k \in 0..(N - 1) PROVE k % N = k /\ (k + N) % N = k
  BY <1>1, Z3
<1>2. n \in 0..(2 * N - 1)
  BY DEF N
<1>3. CASE n < N
  BY <1>1, <1>2, <1>3 DEF N
<1>4. CASE ~ (n < N)
  <2>1. n - N \in 0..(N - 1) /\ (n - N) + N = n
    BY <1>2, <1>4
  <2> QED
    BY <2>1, <1>1, <1>4 DEF N
<1> QED
  BY <1>3, <1>4

(* Whether a slot holds an item, without the remainder.                    *)
Within(k, out, n) ==
  (IF k < out THEN k - out + BUFFER_SIZE ELSE k - out) < n

(* Where the slot after the items is, without the remainder.               *)
After(out, n) ==
  IF out + n < BUFFER_SIZE THEN out + n ELSE out + n - BUFFER_SIZE

(* So the slot after the items is where After says.                        *)
LEMMA AfterIs ==
  ASSUME NEW out \in Slot, NEW n \in 0..BUFFER_SIZE
  PROVE  (out + n) % BUFFER_SIZE = After(out, n)
<1>1. \A m \in 0..(2 * BUFFER_SIZE - 1) :
        m % BUFFER_SIZE = IF m < BUFFER_SIZE THEN m ELSE m - BUFFER_SIZE
  BY Wrapped
<1> DEFINE d == out + n
<1>2. /\ d \in 0..(2 * BUFFER_SIZE - 1)
      /\ After(out, n) = IF d < BUFFER_SIZE THEN d ELSE d - BUFFER_SIZE
  BY CondBufferAssumption DEF Slot, After
<1> HIDE DEF d
<1>3. d % BUFFER_SIZE = After(out, n)
  BY <1>1, <1>2, Zenon
<1> QED
  BY <1>3, Zenon DEF d

(* And a slot holds an item just when Within says so.                      *)
LEMMA HoldsIsWithin ==
  ASSUME NEW k \in Slot, NEW out \in Slot, NEW n \in 0..BUFFER_SIZE
  PROVE  (k - out + BUFFER_SIZE) % BUFFER_SIZE < n <=> Within(k, out, n)
<1>1. \A m \in 0..(2 * BUFFER_SIZE - 1) :
        m % BUFFER_SIZE = IF m < BUFFER_SIZE THEN m ELSE m - BUFFER_SIZE
  BY Wrapped
<1> DEFINE d == k - out + BUFFER_SIZE
<1>2. /\ d \in 0..(2 * BUFFER_SIZE - 1)
      /\ (IF d < BUFFER_SIZE THEN d ELSE d - BUFFER_SIZE) =
           IF k < out THEN k - out + BUFFER_SIZE ELSE k - out
  BY CondBufferAssumption DEF Slot
<1> HIDE DEF d
<1>3. d % BUFFER_SIZE = IF k < out THEN k - out + BUFFER_SIZE ELSE k - out
  BY <1>1, <1>2, Zenon
<1>4. d % BUFFER_SIZE < n <=> Within(k, out, n)
  BY <1>3, Zenon DEF Within
<1> QED
  BY <1>4, Zenon DEF d

(* The invariant Ring in these terms, now and after a step.                *)
PlainRing ==
  /\ nextin = After(nextout, occupied)
  /\ \A k \in Slot : buf[k] = IF Within(k, nextout, occupied) THEN k ELSE 0

(* The shape of the ring can be told without remainders, in this state,    *)
LEMMA RingIsPlain ==
  ASSUME nextout \in Slot, occupied \in 0..BUFFER_SIZE
  PROVE  Ring <=> PlainRing
<1>1. (nextout + occupied) % BUFFER_SIZE = After(nextout, occupied)
  BY AfterIs, Zenon
<1>2. \A k \in Slot : Holds(k) <=> Within(k, nextout, occupied)
  BY HoldsIsWithin, Zenon DEF Holds
<1> QED
  BY <1>1, <1>2, Zenon DEF Ring, PlainRing

(* and in the next one.                                                    *)
LEMMA RingIsPlainNext ==
  ASSUME nextout' \in Slot, occupied' \in 0..BUFFER_SIZE
  PROVE  Ring' <=> PlainRing'
<1>1. (nextout' + occupied') % BUFFER_SIZE = After(nextout', occupied')
  BY AfterIs, Zenon
<1>2. \A k \in Slot : Holds(k)' <=> Within(k, nextout', occupied')
  BY HoldsIsWithin, Zenon DEF Holds
<1>3. Ring' <=>
        /\ nextin' = (nextout' + occupied') % BUFFER_SIZE
        /\ \A k \in Slot : buf'[k] = IF Holds(k)' THEN k ELSE 0
  BY DEF Ring, Slot, Holds
<1>4. PlainRing' <=>
        /\ nextin' = After(nextout', occupied')
        /\ \A k \in Slot :
             buf'[k] = IF Within(k, nextout', occupied') THEN k ELSE 0
  BY DEF PlainRing, After, Within, Slot
<1> QED
  BY <1>1, <1>2, <1>3, <1>4, Zenon

-----------------------------------------------------------------------------
(* What there is to take.                                                  *)

Taking == Consumer \X (0..(LOOPS_PER_THREAD - 1))

(* The items to take are as many as the producer makes.                    *)
LEMMA TakingCount ==
  /\ IsFiniteSet(Taking)
  /\ Cardinality(Taking) = Quota(producer)
  /\ Quota(producer) \in Nat
  /\ LOOPS_PER_THREAD \in Nat
  /\ \A t \in Worker : Quota(t) \in Nat
<1>1. /\ IsFiniteSet(0..(LOOPS_PER_THREAD - 1))
      /\ Cardinality(0..(LOOPS_PER_THREAD - 1)) = LOOPS_PER_THREAD
  BY FS_Interval, CondBufferAssumption, LoopsAssumption
<1>2. /\ IsFiniteSet(Consumer \X (0..(LOOPS_PER_THREAD - 1)))
      /\ Cardinality(Consumer \X (0..(LOOPS_PER_THREAD - 1))) =
           Cardinality(Consumer) * LOOPS_PER_THREAD
  BY <1>1, FS_Product, CondBufferAssumption, LoopsAssumption
<1>3. IsFiniteSet(Taking) /\ Cardinality(Taking) = Quota(producer)
  BY <1>2 DEF Taking, Quota
<1>4. Quota(producer) \in Nat
  BY <1>3, FS_CardinalityType
<1> QED
  BY <1>3, <1>4, CondBufferAssumption, LoopsAssumption DEF Quota, Worker

(* The items taken so far are some of them.                                *)
LEMMA TakingsCount ==
  /\ IsFiniteSet(Takings)
  /\ Cardinality(Takings) \in Nat
  /\ Cardinality(Takings) <= Quota(producer)
<1>1. Takings \in SUBSET Taking
  BY DEF Takings, Taking
<1> QED
  BY <1>1, TakingCount, FS_Subset, FS_CardinalityType

(* A step that leaves every thread's count alone leaves the takings alone. *)
LEMMA SameTakings ==
  ASSUME \A c \in Consumer : Acts(c)' = Acts(c)
  PROVE  Takings' = Takings
BY DEF Takings

(* The consumers on their way are finitely many, one more or one fewer     *)
(* when one sets out or arrives.                                           *)
LEMMA ComingCount ==
  /\ IsFiniteSet(Coming)
  /\ Cardinality(Coming) \in Nat
  /\ \A c : /\ c \notin Coming =>
                 Cardinality(Coming \cup {c}) = Cardinality(Coming) + 1
            /\ c \in Coming =>
                 Cardinality(Coming \ {c}) = Cardinality(Coming) - 1
<1>1. Coming \in SUBSET Consumer
  BY DEF Coming
<1>2. IsFiniteSet(Coming) /\ Cardinality(Coming) \in Nat
  BY <1>1, CondBufferAssumption, LoopsAssumption, FS_Subset, FS_CardinalityType
<1> QED
  BY <1>2, FS_AddElement, FS_RemoveElement

-----------------------------------------------------------------------------
(* The inductive invariant.                                                *)

(* The inductive invariant holds before any thread runs.                   *)
LEMMA InitInv == Init => Inv
<1> SUFFICES ASSUME Init PROVE Inv
  OBVIOUS
<1> USE CondBufferAssumption, LoopsAssumption, TakingCount
<1>1. TypeOK
  BY DEF Init, TypeOK, Slot
<1>2. PlainRing
  BY DEF Init, PlainRing, Within, After, Slot
<1>3. Ring
  BY <1>1, <1>2, RingIsPlain DEF TypeOK
<1>4. Takings = {} /\ Acts(producer) = 0
  BY DEF Init, Takings, Acts, Worker
<1>5. Balanced
  BY <1>4, FS_EmptySet DEF Init, Balanced
<1>6. NoLostWakeup /\ Exclusive
  BY DEF Init, NoLostWakeup, Exclusive, Worker
<1> QED
  BY <1>1, <1>3, <1>5, <1>6 DEF Inv

(* A step that leaves the ring and every count alone keeps the parts of    *)
(* the invariant that speak of nothing else.                               *)
LEMMA Quiet ==
  ASSUME Inv, UNCHANGED ring, \A t \in Worker : Acts(t)' = Acts(t)
  PROVE  Ring' /\ Balanced'
<1>1. Ring'
  BY DEF Inv, Ring, Holds, ring
<1>2. Takings' = Takings
  BY SameTakings DEF Worker
<1> QED
  BY <1>1, <1>2 DEF Inv, Balanced, ring, Worker

(* Taking the mutex: from the head of a round or out of a wait.            *)
LEMMA AcquireInv ==
  ASSUME Inv, NEW t \in Worker, Lock(t) \/ Relock(t)
  PROVE  Inv'
<1> USE CondBufferAssumption, LoopsAssumption
<1> TypeOK /\ NoLostWakeup /\ Exclusive
  BY DEF Inv
<1>1. /\ pc[t] \in {"loop", "woken"}
      /\ pc' = [pc EXCEPT ![t] = "test"]
      /\ mutex = NOBODY /\ mutex' = t
      /\ UNCHANGED <<ring, more, less, i>>
      /\ i[t] < Quota(t)
  BY DEF Lock, Relock, Acquire, At, Exclusive
<1>2. UNCHANGED <<buf, occupied, nextin, nextout>>
  BY <1>1 DEF ring
<1>3. TypeOK'
  BY <1>1, <1>2 DEF TypeOK, Quota
<1>4. \A u \in Worker : Acts(u)' = Acts(u)
  BY <1>1 DEF Acts, TypeOK
<1>5. Ring' /\ Balanced'
  BY <1>1, <1>4, Quiet
<1>6. Exclusive'
  BY <1>1, <1>2 DEF Exclusive, TypeOK, MustWait, Quota, Worker
<1>7. Cardinality(Coming') >= Cardinality(Coming)
  <2>1. \/ Coming' = Coming
          \/ (t \notin Coming /\ Coming' = Coming \cup {t})
    BY <1>1 DEF Coming, TypeOK, Worker
  <2> QED
    BY <2>1, ComingCount
<1>8. Cardinality(Coming') \in Nat
  <2>1. Coming' \in SUBSET Consumer
    BY DEF Coming
  <2> QED
    BY <2>1, FS_Subset, FS_CardinalityType
<1>9. \A u \in Worker : pc'[u] = "signal" <=> pc[u] = "signal"
  BY <1>1 DEF TypeOK
<1>10. NoLostWakeup'
  BY <1>1, <1>2, <1>7, <1>8, <1>9, ComingCount
     DEF NoLostWakeup, Worker, TypeOK
<1> QED
  BY <1>3, <1>5, <1>6, <1>10 DEF Inv

(* A thread finds room, or an item, and leaves its while loop.             *)
LEMMA PassInv ==
  ASSUME Inv, NEW t \in Worker, Pass(t)
  PROVE  Inv'
<1> USE CondBufferAssumption, LoopsAssumption
<1> TypeOK /\ NoLostWakeup /\ Exclusive
  BY DEF Inv
<1>1. /\ pc[t] = "test" /\ pc' = [pc EXCEPT ![t] = "act"]
      /\ ~ MustWait(t)
      /\ UNCHANGED <<ring, mutex, more, less, i>>
      /\ UNCHANGED <<buf, occupied, nextin, nextout>>
  BY DEF Pass, At, ring
<1>2. TypeOK'
  BY <1>1 DEF TypeOK, Quota
<1>3. \A u \in Worker : Acts(u)' = Acts(u)
  BY <1>1 DEF Acts, TypeOK
<1>4. Ring' /\ Balanced'
  BY <1>1, <1>3, Quiet
<1>5. Exclusive'
  BY <1>1 DEF Exclusive, TypeOK, MustWait, Quota, Worker
<1>6. Coming' = Coming
  BY <1>1 DEF Coming, TypeOK, Worker
<1>7. \A u \in Worker : pc'[u] = "signal" <=> pc[u] = "signal"
  BY <1>1 DEF TypeOK
<1>8. NoLostWakeup'
  BY <1>1, <1>6, <1>7 DEF NoLostWakeup, Worker
<1> QED
  BY <1>2, <1>4, <1>5, <1>8 DEF Inv

(* A thread goes to wait on a condition that holds: the ring is empty for  *)
(* a consumer, full for the producer.                                      *)
LEMMA WaitInv ==
  ASSUME Inv, NEW t \in Worker, Wait(t)
  PROVE  Inv'
<1> USE CondBufferAssumption, LoopsAssumption
<1> TypeOK /\ NoLostWakeup /\ Exclusive
  BY DEF Inv
<1>1. /\ pc[t] = "test" /\ pc' = [pc EXCEPT ![t] = "wait"]
      /\ MustWait(t) /\ mutex' = NOBODY
      /\ more' = IF t = producer THEN more ELSE more \cup {t}
      /\ less' = IF t = producer THEN less \cup {t} ELSE less
      /\ UNCHANGED ring /\ i' = i
      /\ UNCHANGED <<buf, occupied, nextin, nextout>>
  BY DEF Wait, At, ring
<1>2. mutex = t /\ \A u \in Worker \ {t} :
                     pc[u] \notin {"test", "act", "signal", "unlock"}
  BY <1>1 DEF Exclusive
<1>3. TypeOK'
  BY <1>1 DEF TypeOK, Quota, Worker
<1>4. \A u \in Worker : Acts(u)' = Acts(u)
  BY <1>1 DEF Acts, TypeOK
<1>5. Ring' /\ Balanced'
  BY <1>1, <1>4, Quiet
<1>6. Exclusive'
  <2>1. \A u \in Worker : pc'[u] = IF u = t THEN "wait" ELSE pc[u]
    BY <1>1 DEF TypeOK
  <2>2. more' = {c \in Consumer : pc'[c] = "wait"}
    BY <1>1, <2>1 DEF Exclusive, Worker
  <2>3. less' = {u \in {producer} : pc'[u] = "wait"}
    BY <1>1, <2>1 DEF Exclusive, Worker
  <2> QED
    BY <1>1, <1>2, <2>1, <2>2, <2>3 DEF Exclusive, Quota
<1>7. Cardinality(Coming') \in Nat
  <2>1. Coming' \in SUBSET Consumer
    BY DEF Coming
  <2> QED
    BY <2>1, FS_Subset, FS_CardinalityType
<1>8. CASE t = producer
  <2>1. occupied = BUFFER_SIZE
    BY <1>1, <1>8 DEF MustWait, TypeOK
  <2>2. Coming' = Coming
    BY <1>1, <1>8 DEF Coming, TypeOK, Worker
  <2>3. pc'[producer] # "signal" /\ pc[producer] # "signal"
    BY <1>1, <1>8 DEF TypeOK
  <2> QED
    BY <1>1, <1>3, <1>5, <1>6, <1>8, <2>1, <2>2, <2>3
       DEF Inv, NoLostWakeup
<1>9. CASE t # producer
  <2>1. occupied' = 0
    BY <1>1, <1>9 DEF MustWait, TypeOK
  <2>2. less # {} => occupied = BUFFER_SIZE
    BY <1>2, <1>1 DEF NoLostWakeup, Worker
  <2>3. NoLostWakeup'
    BY <1>1, <1>7, <1>9, <2>1, <2>2 DEF NoLostWakeup
  <2> QED
    BY <1>3, <1>5, <1>6, <2>3 DEF Inv
<1> QED
  BY <1>8, <1>9

(* The producer fills slot nextin, which holds nothing.                    *)
LEMMA PutInv ==
  ASSUME Inv, NEW t \in Worker, Put(t)
  PROVE  Inv'
<1> USE CondBufferAssumption, LoopsAssumption
<1> TypeOK /\ NoLostWakeup /\ Exclusive
  BY DEF Inv
<1>1. /\ t = producer
      /\ pc[t] = "act" /\ pc' = [pc EXCEPT ![t] = "signal"]
      /\ buf' = [buf EXCEPT ![nextin] = nextin]
      /\ nextin' = Successor(nextin)
      /\ occupied' = occupied + 1
      /\ UNCHANGED <<nextout, mutex, more, less, i>>
  BY DEF Put, At
<1>2. /\ mutex = t
      /\ \A u \in Worker \ {t} :
           pc[u] \notin {"test", "act", "signal", "unlock"}
      /\ occupied \in 0..(BUFFER_SIZE - 1)
      /\ i[t] < Quota(t)
  BY <1>1 DEF Exclusive, MustWait, TypeOK
<1>3. nextin' = IF nextin + 1 = BUFFER_SIZE THEN 0 ELSE nextin + 1
  BY <1>1, SuccessorOf DEF TypeOK
<1>4. TypeOK'
  <2>1. buf' \in [Slot -> Slot]
    BY <1>1 DEF TypeOK
  <2>2. occupied' \in 0..BUFFER_SIZE
    BY <1>1, <1>2
  <2>3. nextin' \in Slot
    BY <1>3 DEF TypeOK, Slot
  <2>4. pc' \in [Worker -> {"loop", "test", "wait", "woken", "act",
                            "signal", "unlock", "done"}]
    BY <1>1 DEF TypeOK
  <2> QED
    BY <1>1, <2>1, <2>2, <2>3, <2>4 DEF TypeOK, Quota
<1>5. PlainRing'
  <2>1. PlainRing
    BY RingIsPlain DEF Inv, TypeOK
  <2>2. nextin' = After(nextout', occupied')
    <3>1. nextin = After(nextout, occupied) /\ nextout \in 0..(BUFFER_SIZE - 1)
      BY <2>1 DEF PlainRing, TypeOK, Slot
    <3>2. nextin' = After(nextout, occupied + 1)
      BY <1>2, <1>3, <3>1 DEF After
    <3> QED
      BY <1>1, <3>2
  <2>3. ASSUME NEW k \in Slot
        PROVE  buf'[k] = IF Within(k, nextout', occupied') THEN k ELSE 0
    <3>1. buf'[k] = IF k = nextin THEN k ELSE buf[k]
      BY <1>1 DEF TypeOK
    <3>2. Within(k, nextout, occupied + 1)
            <=> Within(k, nextout, occupied) \/ k = nextin
      BY <1>2, <2>1 DEF PlainRing, Within, After, TypeOK, Slot
    <3> QED
      BY <1>1, <2>1, <3>1, <3>2 DEF PlainRing
  <2> QED
    BY <2>2, <2>3 DEF PlainRing, After, Within, Slot
<1>6. Ring'
  <2>1. nextout' \in Slot /\ occupied' \in 0..BUFFER_SIZE
    BY <1>4 DEF TypeOK, Slot
  <2> QED
    BY <1>5, <2>1, RingIsPlainNext
<1>7. Balanced'
  <2>1. /\ Acts(producer)' = Acts(producer) + 1
        /\ \A c \in Consumer : Acts(c)' = Acts(c)
    BY <1>1 DEF Acts, TypeOK, Worker
  <2>2. Takings' = Takings
    BY <2>1, SameTakings
  <2>3. Acts(producer) = Cardinality(Takings) + occupied
    BY DEF Inv, Balanced
  <2> QED
    BY <1>1, <1>2, <2>1, <2>2, <2>3, TakingsCount DEF Balanced
<1>8. Exclusive'
  BY <1>1, <1>2 DEF Exclusive, TypeOK, MustWait, Quota, Worker
<1>9. NoLostWakeup'
  <2>1. Coming' = Coming
    BY <1>1 DEF Coming, TypeOK
  <2>2. pc'[producer] = "signal" /\ pc[producer] # "signal"
    BY <1>1 DEF TypeOK
  <2>3. less' = {}
    BY <1>1 DEF Exclusive
  <2> QED
    BY <1>1, <1>2, <2>1, <2>2, <2>3, ComingCount DEF NoLostWakeup
<1> QED
  BY <1>4, <1>6, <1>7, <1>8, <1>9 DEF Inv

(* A consumer clears slot nextout, which holds the oldest item.            *)
LEMMA GetInv ==
  ASSUME Inv, NEW t \in Worker, Get(t)
  PROVE  Inv'
<1> USE CondBufferAssumption, LoopsAssumption
<1> TypeOK /\ NoLostWakeup /\ Exclusive
  BY DEF Inv
<1>1. /\ t \in Consumer /\ t # producer
      /\ pc[t] = "act" /\ pc' = [pc EXCEPT ![t] = "signal"]
      /\ buf' = [buf EXCEPT ![nextout] = 0]
      /\ nextout' = Successor(nextout)
      /\ occupied' = occupied - 1
      /\ UNCHANGED <<nextin, mutex, more, less, i>>
  BY DEF Get, At
<1>2. /\ mutex = t
      /\ \A u \in Worker \ {t} :
           pc[u] \notin {"test", "act", "signal", "unlock"}
      /\ occupied \in 1..BUFFER_SIZE
      /\ i[t] \in 0..(LOOPS_PER_THREAD - 1)
  BY <1>1 DEF Exclusive, MustWait, TypeOK, Quota
<1>3. nextout' = IF nextout + 1 = BUFFER_SIZE THEN 0 ELSE nextout + 1
  BY <1>1, SuccessorOf DEF TypeOK
<1>4. TypeOK'
  <2>1. buf' \in [Slot -> Slot]
    BY <1>1 DEF TypeOK, Slot
  <2>2. occupied' \in 0..BUFFER_SIZE
    BY <1>1, <1>2
  <2>3. nextout' \in Slot
    BY <1>3 DEF TypeOK, Slot
  <2>4. pc' \in [Worker -> {"loop", "test", "wait", "woken", "act",
                            "signal", "unlock", "done"}]
    BY <1>1 DEF TypeOK
  <2> QED
    BY <1>1, <2>1, <2>2, <2>3, <2>4 DEF TypeOK, Quota
<1>5. PlainRing'
  <2>1. PlainRing
    BY RingIsPlain DEF Inv, TypeOK
  <2>2. nextin' = After(nextout', occupied')
    <3>1. nextin = After(nextout, occupied) /\ nextout \in 0..(BUFFER_SIZE - 1)
      BY <2>1 DEF PlainRing, TypeOK, Slot
    <3>2. nextin = After(nextout', occupied - 1)
      BY <1>2, <1>3, <3>1 DEF After
    <3> QED
      BY <1>1, <3>2
  <2>3. ASSUME NEW k \in Slot
        PROVE  buf'[k] = IF Within(k, nextout', occupied') THEN k ELSE 0
    <3>1. buf'[k] = IF k = nextout THEN 0 ELSE buf[k]
      BY <1>1 DEF TypeOK
    <3>2. CASE k = nextout
      <4>1. ~ Within(k, nextout', occupied - 1)
        BY <1>2, <1>3, <3>2 DEF Within, TypeOK, Slot
      <4> QED
        BY <1>1, <3>1, <3>2, <4>1
    <3>3. CASE k # nextout
      <4>1. Within(k, nextout', occupied - 1) <=> Within(k, nextout, occupied)
        BY <1>2, <1>3, <3>3 DEF Within, TypeOK, Slot
      <4> QED
        BY <1>1, <2>1, <3>1, <3>3, <4>1 DEF PlainRing
    <3> QED
      BY <3>2, <3>3
  <2> QED
    BY <2>2, <2>3 DEF PlainRing, After, Within, Slot
<1>6. Ring'
  <2>1. nextout' \in Slot /\ occupied' \in 0..BUFFER_SIZE
    BY <1>4 DEF TypeOK, Slot
  <2> QED
    BY <1>5, <2>1, RingIsPlainNext
<1>7. Balanced'
  <2>1. /\ Acts(t) = i[t]
        /\ Acts(t)' = i[t] + 1
        /\ \A u \in Worker \ {t} : Acts(u)' = Acts(u)
    BY <1>1, <1>2 DEF Acts, TypeOK
  <2>2. Takings' = Takings \cup {<<t, i[t]>>}
    <3>1. ASSUME NEW ck \in Taking
          PROVE  ck \in Takings' <=> ck \in Takings \/ ck = <<t, i[t]>>
      <4>1. CASE ck[1] = t
        BY <4>1, <1>2, <2>1 DEF Takings, Taking
      <4>2. CASE ck[1] # t
        BY <4>2, <2>1 DEF Takings, Taking, Worker
      <4> QED
        BY <4>1, <4>2
    <3>2. <<t, i[t]>> \in Taking
      BY <1>1, <1>2 DEF Taking
    <3> QED
      BY <3>1, <3>2 DEF Takings, Taking
  <2>3. <<t, i[t]>> \notin Takings
    BY <1>2, <2>1 DEF Takings
  <2>4. Cardinality(Takings') = Cardinality(Takings) + 1
    BY <2>2, <2>3, TakingsCount, FS_AddElement
  <2>5. Acts(producer)' = Acts(producer)
    BY <1>1, <2>1 DEF Worker
  <2>6. Acts(producer) = Cardinality(Takings) + occupied
    BY DEF Inv, Balanced
  <2> QED
    BY <1>1, <1>2, <2>4, <2>5, <2>6, TakingsCount DEF Balanced
<1>8. Exclusive'
  BY <1>1, <1>2 DEF Exclusive, TypeOK, MustWait, Quota, Worker
<1>9. NoLostWakeup'
  <2>1. t \in Coming /\ Coming' = Coming \ {t}
    BY <1>1 DEF Coming, TypeOK, Worker
  <2>2. Cardinality(Coming') = Cardinality(Coming) - 1
    BY <2>1, ComingCount
  <2>3. /\ pc'[t] = "signal"
        /\ pc'[producer] # "signal" /\ pc[producer] # "signal"
    BY <1>1, <1>2 DEF TypeOK, Worker
  <2> QED
    BY <1>1, <1>2, <2>2, <2>3, ComingCount DEF NoLostWakeup
<1> QED
  BY <1>4, <1>6, <1>7, <1>8, <1>9 DEF Inv

(* Either signal: the waiter that is woken, if there is one, changes from  *)
(* waiting to being on its way.                                            *)
LEMMA SignalInv ==
  ASSUME Inv, NEW t \in Worker, SignalMore(t) \/ SignalLess(t)
  PROVE  Inv'
<1> USE CondBufferAssumption, LoopsAssumption
<1> TypeOK /\ NoLostWakeup /\ Exclusive
  BY DEF Inv
<1> DEFINE waiting == IF t = producer THEN more ELSE less
<1>1. /\ pc[t] = "signal"
      /\ UNCHANGED <<ring, mutex, i>>
      /\ UNCHANGED <<buf, occupied, nextin, nextout>>
      /\ \/ /\ waiting = {}
            /\ pc' = [pc EXCEPT ![t] = "unlock"]
            /\ UNCHANGED <<more, less>>
         \/ \E w \in waiting :
              /\ pc' = [pc EXCEPT ![t] = "unlock", ![w] = "woken"]
              /\ more' = more \ {w} /\ less' = less \ {w}
  BY DEF SignalMore, SignalLess, Wake, ring
<1>2. /\ mutex = t
      /\ \A u \in Worker \ {t} :
           pc[u] \notin {"test", "act", "signal", "unlock"}
      /\ i[t] < Quota(t)
  BY <1>1 DEF Exclusive
<1>3. CASE waiting = {}
  <2>1. pc' = [pc EXCEPT ![t] = "unlock"] /\ UNCHANGED <<more, less>>
    BY <1>1, <1>3
  <2>2. TypeOK'
    BY <1>1, <2>1 DEF TypeOK, Quota
  <2>3. \A u \in Worker : Acts(u)' = Acts(u)
    BY <1>1, <2>1 DEF Acts, TypeOK
  <2>4. Ring' /\ Balanced'
    BY <1>1, <2>3, Quiet
  <2>5. Exclusive'
    BY <1>1, <1>2, <2>1 DEF Exclusive, TypeOK, MustWait, Quota, Worker
  <2>6. NoLostWakeup'
    <3>1. Coming' = Coming
      BY <1>1, <2>1 DEF Coming, TypeOK, Worker
    <3>2. CASE t = producer
      BY <1>1, <1>2, <1>3, <2>1, <3>1, <3>2 DEF NoLostWakeup, Worker
    <3>3. CASE t # producer
      <4>1. pc'[producer] # "signal" /\ pc[producer] # "signal"
        BY <1>2, <2>1, <3>3 DEF TypeOK, Worker
      <4> QED
        BY <1>1, <1>3, <2>1, <3>1, <3>3, <4>1 DEF NoLostWakeup
    <3> QED
      BY <3>2, <3>3
  <2> QED
    BY <2>2, <2>4, <2>5, <2>6 DEF Inv
<1>4. CASE waiting # {}
  <2>1. PICK w \in waiting :
          /\ pc' = [pc EXCEPT ![t] = "unlock", ![w] = "woken"]
          /\ more' = more \ {w} /\ less' = less \ {w}
    BY <1>1, <1>4
  <2>2. w \in Worker /\ pc[w] = "wait" /\ w # t
    BY <1>1, <2>1 DEF Exclusive, Worker
  <2>3. \A u \in Worker : pc'[u] = IF u = t THEN "unlock"
                                   ELSE IF u = w THEN "woken" ELSE pc[u]
    BY <2>1, <2>2 DEF TypeOK
  <2>4. TypeOK'
    BY <1>1, <2>1, <2>2 DEF TypeOK, Quota
  <2>5. \A u \in Worker : Acts(u)' = Acts(u)
    BY <1>1, <2>2, <2>3 DEF Acts, TypeOK
  <2>6. Ring' /\ Balanced'
    BY <1>1, <2>5, Quiet
  <2>7. Exclusive'
    <3>0. \A u \in Worker : pc'[u] = "wait" <=> pc[u] = "wait" /\ u # w
      BY <1>1, <2>2, <2>3
    <3>1. more' = {c \in Consumer : pc'[c] = "wait"}
      <4>1. more' = {c \in Consumer : pc[c] = "wait"} \ {w}
        BY <2>1 DEF Exclusive
      <4>2. \A c \in Consumer : pc'[c] = "wait" <=> pc[c] = "wait" /\ c # w
        BY <3>0 DEF Worker
      <4> QED
        BY <4>1, <4>2
    <3>2. less' = {u \in {producer} : pc'[u] = "wait"}
      <4>1. less' = {u \in {producer} : pc[u] = "wait"} \ {w}
        BY <2>1 DEF Exclusive
      <4>2. pc'[producer] = "wait" <=> pc[producer] = "wait" /\ producer # w
        BY <3>0 DEF Worker
      <4> QED
        BY <4>1, <4>2
    <3> QED
      BY <1>1, <1>2, <2>2, <2>3, <3>1, <3>2
         DEF Exclusive, MustWait, Quota
  <2>8. NoLostWakeup'
    <3>1. CASE t = producer
      <4>1. w \in Consumer /\ w \notin Coming /\ Coming' = Coming \cup {w}
        BY <2>1, <2>2, <2>3, <3>1 DEF Coming, Worker, TypeOK
      <4>2. Cardinality(Coming') = Cardinality(Coming) + 1
        BY <4>1, ComingCount
      <4>3. less' = {} /\ more # {}
        BY <1>1, <2>1, <3>1 DEF Exclusive
      <4>4. pc'[producer] # "signal"
        BY <2>3, <3>1
      <4> QED
        BY <1>1, <3>1, <4>2, <4>3, <4>4, ComingCount DEF NoLostWakeup, TypeOK
    <3>2. CASE t # producer
      <4>1. w = producer /\ less' = {} /\ more' = more
        BY <2>1, <3>2 DEF TypeOK
      <4>2. Coming' = Coming
        BY <1>1, <2>3, <3>2, <4>1 DEF Coming, Worker
      <4>3. pc'[producer] # "signal" /\ pc[producer] # "signal"
        BY <2>2, <2>3, <4>1
      <4> QED
        BY <1>1, <4>1, <4>2, <4>3 DEF NoLostWakeup
    <3> QED
      BY <3>1, <3>2
  <2> QED
    BY <2>4, <2>6, <2>7, <2>8 DEF Inv
<1> QED
  BY <1>3, <1>4

(* The end of a round, and of a thread.                                    *)
LEMMA LeaveInv ==
  ASSUME Inv, NEW t \in Worker, Unlock(t) \/ Return(t)
  PROVE  Inv'
<1> USE CondBufferAssumption, LoopsAssumption
<1> TypeOK /\ NoLostWakeup /\ Exclusive
  BY DEF Inv
<1>1. /\ UNCHANGED <<ring, more, less>>
      /\ UNCHANGED <<buf, occupied, nextin, nextout>>
  BY DEF Unlock, Return, ring
<1>2. \A u \in Worker : Acts(u)' = Acts(u)
  BY DEF Unlock, Return, At, Acts, TypeOK
<1>3. Ring' /\ Balanced'
  BY <1>1, <1>2, Quiet
<1>4. TypeOK' /\ Exclusive'
  <2>1. CASE Unlock(t)
    <3>1. /\ pc[t] = "unlock" /\ pc' = [pc EXCEPT ![t] = "loop"]
          /\ mutex' = NOBODY /\ i' = [i EXCEPT ![t] = i[t] + 1]
          /\ i[t] < Quota(t) /\ mutex = t
      BY <2>1 DEF Unlock, At, Exclusive
    <3>2. TypeOK'
      BY <1>1, <3>1, TakingCount DEF TypeOK, Quota
    <3>3. Exclusive'
      BY <1>1, <3>1 DEF Exclusive, TypeOK, MustWait, Quota, Worker
    <3> QED
      BY <3>2, <3>3
  <2>2. CASE Return(t)
    <3>1. /\ pc[t] = "loop" /\ pc' = [pc EXCEPT ![t] = "done"]
          /\ UNCHANGED <<mutex, i>> /\ i[t] = Quota(t)
      BY <2>2 DEF Return, At
    <3>2. TypeOK'
      BY <1>1, <3>1 DEF TypeOK, Quota
    <3>3. Exclusive'
      BY <1>1, <3>1 DEF Exclusive, TypeOK, MustWait, Quota, Worker
    <3> QED
      BY <3>2, <3>3
  <2> QED
    BY <2>1, <2>2
<1>5. Coming' = Coming
  BY DEF Unlock, Return, At, Coming, TypeOK, Worker
<1>6. \A u \in Worker : pc'[u] = "signal" <=> pc[u] = "signal"
  BY DEF Unlock, Return, At, TypeOK
<1>7. NoLostWakeup'
  BY <1>1, <1>5, <1>6 DEF NoLostWakeup, Worker
<1> QED
  BY <1>3, <1>4, <1>7 DEF Inv

(* A stutter changes nothing.                                              *)
LEMMA StutterInv == Inv /\ UNCHANGED vars => Inv'
<1> SUFFICES ASSUME Inv, UNCHANGED vars PROVE Inv'
  OBVIOUS
<1>1. UNCHANGED <<buf, occupied, nextin, nextout, mutex, more, less, pc, i>>
  BY DEF vars
<1>2. Ring' /\ Balanced'
  BY <1>1, Quiet DEF Acts, ring
<1>3. Coming' = Coming
  BY <1>1 DEF Coming
<1> QED
  BY <1>1, <1>2, <1>3
     DEF Inv, TypeOK, NoLostWakeup, Exclusive, MustWait, Quota

(* The strengthened invariant holds in every state of every run.           *)
THEOREM Invariance == Spec => []Inv
<1>1. Inv /\ [Next]_vars => Inv'
  BY AcquireInv, PassInv, WaitInv, PutInv, GetInv, SignalInv, LeaveInv,
     StutterInv
     DEF Next, Step, Joined
<1> QED
  BY <1>1, InitInv, PTL DEF Spec

-----------------------------------------------------------------------------
(* The properties the runs check.                                          *)

(* The two indices, the count and the contents of the slots are those of   *)
(* one queue, for every size of the ring.                                  *)
THEOREM RingHolds == Spec => []Ring
BY Invariance, PTL DEF Inv

(* Every item that was put is taken once or still in the ring.             *)
THEOREM BalancedHolds == Spec => []Balanced
BY Invariance, PTL DEF Inv

(* No consumer waits next to an item that nobody is coming for, and the    *)
(* producer does not wait next to room that nobody will tell it of.        *)
THEOREM NoWakeupIsLost == Spec => []NoLostWakeup
BY Invariance, PTL DEF Inv

(* Once all threads are back the producer made what the consumers took.    *)
LEMMA InvDrained == Inv => Drained
<1> SUFFICES ASSUME Inv, \A t \in Worker : pc[t] = "done"
             PROVE  occupied = 0
  BY DEF Drained
<1>1. \A t \in Worker : Acts(t) = Quota(t)
  BY CondBufferAssumption, LoopsAssumption DEF Inv, Exclusive, Acts, TypeOK
<1>2. Takings = Taking
  BY <1>1, CondBufferAssumption, LoopsAssumption
     DEF Takings, Taking, Quota, Worker
<1>3. Quota(producer) = Quota(producer) + occupied
  BY <1>1, <1>2, TakingCount DEF Inv, Balanced, Worker
<1> QED
  BY <1>3, TakingCount DEF Inv, TypeOK

(* When all threads have come back nothing is left in the ring.            *)
THEOREM DrainedHolds == Spec => []Drained
BY Invariance, InvDrained, PTL

-----------------------------------------------------------------------------
(* The adders: facts about the additions to make.                          *)

(* There are Total additions, at least one.                                *)
LEMMA AddersTotal ==
  /\ IsFiniteSet(Addition)
  /\ Cardinality(Addition) = Total
  /\ Total \in Nat
  /\ Total > 0
<1>1. /\ IsFiniteSet(0..(LOOPS_PER_THREAD - 1))
      /\ Cardinality(0..(LOOPS_PER_THREAD - 1)) = LOOPS_PER_THREAD
  BY FS_Interval, CounterAssumption, LoopsAssumption
<1>2. /\ IsFiniteSet(Adder \X (0..(LOOPS_PER_THREAD - 1)))
      /\ Cardinality(Adder \X (0..(LOOPS_PER_THREAD - 1))) = Total
  BY <1>1, FS_Product, CounterAssumption, LoopsAssumption DEF Total
<1>3. Total \in Nat
  BY <1>2, FS_CardinalityType
<1>4. PICK a : a \in Adder
  BY CounterAssumption, LoopsAssumption
<1>5. <<a, 0>> \in Adder \X (0..(LOOPS_PER_THREAD - 1))
  BY <1>4, CounterAssumption, LoopsAssumption
<1>6. Total # 0
  BY <1>2, <1>5, FS_EmptySet
<1> QED
  BY <1>2, <1>3, <1>6 DEF Addition

(* So the additions made so far are at most Total, and Total of them are   *)
(* all of them.                                                            *)
LEMMA AdditionsCount ==
  /\ IsFiniteSet(Additions)
  /\ Cardinality(Additions) \in 0..Total
  /\ Cardinality(Additions) = Total => Additions = Addition
<1>1. Additions \in SUBSET Addition
  BY DEF Additions
<1>2. /\ IsFiniteSet(Additions)
      /\ Cardinality(Additions) <= Total
      /\ Cardinality(Additions) = Total => Additions = Addition
  BY <1>1, AddersTotal, FS_Subset
<1> QED
  BY <1>2, AddersTotal, FS_CardinalityType

-----------------------------------------------------------------------------
(* The inductive invariant of the adders.                                  *)

(* It holds before any adder runs.                                         *)
LEMMA AddersStart == AddersInit => AddersInv
<1> SUFFICES ASSUME AddersInit PROVE AddersInv
  OBVIOUS
<1> USE AddersTotal, CounterAssumption, LoopsAssumption
<1>1. AddersTypeOK
  BY DEF AddersInit, AddersTypeOK
<1>2. Additions = {}
  BY DEF AddersInit, Additions, Addition, Added
<1>3. NoLostUpdate
  BY <1>2, FS_EmptySet DEF AddersInit, NoLostUpdate
<1>4. OneReporter /\ AddersExclusive /\ Reported
  BY DEF AddersInit, OneReporter, AddersExclusive, Reported
<1> QED
  BY <1>1, <1>3, <1>4 DEF AddersInv

(* A step that makes no addition leaves the set of additions as it is.     *)
LEMMA SameAdditions ==
  ASSUME \A a \in Adder : Added(a)' = Added(a)
  PROVE  Additions' = Additions
BY DEF Additions, Addition

(* The mutex is taken free: nobody else is between lock and unlock.        *)
LEMMA AdderLocks ==
  ASSUME AddersInv, NEW a \in Adder, AdderLock(a)
  PROVE  AddersInv'
<1> USE CounterAssumption, LoopsAssumption DEF AdderLock, AdderAt
<1>1. AddersTypeOK'
  BY DEF AddersInv, AddersTypeOK
<1>2. \A b \in Adder : Added(b)' = Added(b)
  BY DEF Added, AddersInv, AddersTypeOK
<1>3. NoLostUpdate'
  BY <1>2, SameAdditions DEF NoLostUpdate, AddersInv
<1>4. OneReporter' /\ AddersExclusive'
  BY DEF OneReporter, AddersExclusive, AddersInv, AddersTypeOK
<1>5. Reported'
  BY DEF Reported, AddersInv, AddersTypeOK, Total
<1> QED
  BY <1>1, <1>3, <1>4, <1>5 DEF AddersInv

(* What the holder of the mutex reads is what the counter is.              *)
LEMMA AdderReads ==
  ASSUME AddersInv, NEW a \in Adder, AdderRead(a)
  PROVE  AddersInv'
<1> USE CounterAssumption, LoopsAssumption DEF AdderRead, AdderAt
<1>1. AddersTypeOK'
  BY DEF AddersInv, AddersTypeOK
<1>2. \A b \in Adder : Added(b)' = Added(b)
  BY DEF Added, AddersInv, AddersTypeOK
<1>3. NoLostUpdate'
  BY <1>2, SameAdditions DEF NoLostUpdate, AddersInv
<1>4. OneReporter' /\ AddersExclusive'
  BY DEF OneReporter, AddersExclusive, AddersInv, AddersTypeOK
<1>5. Reported'
  BY DEF Reported, AddersInv, AddersTypeOK
<1> QED
  BY <1>1, <1>3, <1>4, <1>5 DEF AddersInv

(* The step that adds: the holder of the mutex writes one more than the    *)
(* counter still holds, and makes the addition that no one has made yet.   *)
LEMMA AdderWrites ==
  ASSUME AddersInv, NEW a \in Adder, AdderWrite(a)
  PROVE  AddersInv'
<1> USE CounterAssumption, LoopsAssumption DEF AdderWrite, AdderAt
<1> AddersTypeOK /\ NoLostUpdate /\ OneReporter /\ AddersExclusive /\ Reported
  BY DEF AddersInv
<1>1. /\ tmp[a] = global_counter
      /\ global_mutex = a
      /\ adder_i[a] \in 0..(LOOPS_PER_THREAD - 1)
  BY DEF AddersExclusive, Reported, AddersTypeOK
<1>2. /\ Added(a) = adder_i[a]
      /\ Added(a)' = adder_i[a] + 1
      /\ \A b \in Adder \ {a} : Added(b)' = Added(b)
  BY <1>1 DEF Added, AddersTypeOK
<1>3. Additions' = Additions \cup {<<a, adder_i[a]>>}
  <2>1. ASSUME NEW ak \in Addition
        PROVE  ak \in Additions' <=> ak \in Additions \/ ak = <<a, adder_i[a]>>
    <3>1. CASE ak[1] = a
      BY <3>1, <1>1, <1>2 DEF Additions, Addition
    <3>2. CASE ak[1] # a
      BY <3>2, <1>2 DEF Additions, Addition
    <3> QED
      BY <3>1, <3>2
  <2>2. <<a, adder_i[a]>> \in Addition
    BY <1>1 DEF Addition
  <2> QED
    BY <2>1, <2>2 DEF Additions, Addition
<1>4. <<a, adder_i[a]>> \notin Additions
  BY <1>2, <1>1 DEF Additions
<1>5. Cardinality(Additions') = Cardinality(Additions) + 1
  BY <1>3, <1>4, AdditionsCount, FS_AddElement
<1>6. NoLostUpdate'
  BY <1>1, <1>5 DEF NoLostUpdate
<1>7. Additions' \in SUBSET Addition
  BY <1>3, <1>1 DEF Additions, Addition
<1>8. global_counter' \in 0..Total
  BY <1>6, <1>7, AddersTotal, FS_Subset, FS_CardinalityType DEF NoLostUpdate
<1>9. Total' = Total
  BY DEF Total
<1>10. /\ global_counter \in 0..(Total - 1)
       /\ global_counter' = global_counter + 1
  BY <1>1, <1>8, AddersTotal DEF AddersTypeOK
<1>11. \A b \in Adder : ret[b] = 0
  BY <1>10, AddersTotal DEF Reported, AddersTypeOK
<1>12. AddersTypeOK'
  BY <1>8, <1>9, <1>1, AddersTotal DEF AddersTypeOK
<1>13. OneReporter'
  BY <1>11 DEF OneReporter, AddersTypeOK
<1>14. AddersExclusive'
  BY DEF AddersExclusive, AddersTypeOK
<1>15. Reported'
  BY <1>1, <1>9, <1>10, <1>11, AddersTotal DEF Reported, AddersTypeOK
<1> QED
  BY <1>6, <1>12, <1>13, <1>14, <1>15 DEF AddersInv

(* The round is counted and the mutex is free.                             *)
LEMMA AdderUnlocks ==
  ASSUME AddersInv, NEW a \in Adder, AdderUnlock(a)
  PROVE  AddersInv'
<1> USE CounterAssumption, LoopsAssumption DEF AdderUnlock, AdderAt
<1>1. adder_i[a] \in 0..(LOOPS_PER_THREAD - 1) /\ global_mutex = a
  BY DEF AddersInv, Reported, AddersExclusive, AddersTypeOK
<1>2. AddersTypeOK'
  BY <1>1, AddersTotal DEF AddersInv, AddersTypeOK
<1>3. \A b \in Adder : Added(b)' = Added(b)
  BY DEF Added, AddersInv, AddersTypeOK
<1>4. NoLostUpdate'
  BY <1>3, SameAdditions DEF NoLostUpdate, AddersInv
<1>5. OneReporter' /\ AddersExclusive'
  BY <1>1 DEF OneReporter, AddersExclusive, AddersInv, AddersTypeOK
<1>6. Reported'
  BY DEF Reported, AddersInv, AddersTypeOK, Total
<1> QED
  BY <1>2, <1>4, <1>5, <1>6 DEF AddersInv

(* The reporter stores the total, every other adder stores nothing.        *)
LEMMA AdderReturns ==
  ASSUME AddersInv, NEW a \in Adder, AdderReturn(a)
  PROVE  AddersInv'
<1> USE CounterAssumption, LoopsAssumption, AddersTotal
        DEF AdderReturn, AdderAt
<1>1. AddersTypeOK'
  BY DEF AddersInv, AddersTypeOK
<1>2. \A b \in Adder : Added(b)' = Added(b)
  BY DEF Added, AddersInv, AddersTypeOK
<1>3. NoLostUpdate'
  BY <1>2, SameAdditions DEF NoLostUpdate, AddersInv
<1>4. OneReporter' /\ AddersExclusive'
  BY DEF OneReporter, AddersExclusive, AddersInv, AddersTypeOK
<1>5. Reported'
  BY DEF Reported, AddersInv, AddersTypeOK
<1> QED
  BY <1>1, <1>3, <1>4, <1>5 DEF AddersInv

(* A join changes nothing but the set of joined adders, and a stutter      *)
(* changes nothing.                                                        *)
LEMMA AddersElse ==
  ASSUME AddersInv, (\E a \in Adder : AdderJoin(a)) \/ UNCHANGED adder_vars
  PROVE  AddersInv'
<1>1. /\ UNCHANGED <<global_counter, global_mutex, counter, adder_pc, adder_i,
                    tmp, ret>>
      /\ joined' \subseteq {a \in Adder : adder_pc[a] = "done"}
  BY DEF AdderJoin, adder_vars, AddersInv, AddersTypeOK
<1>2. Additions' = Additions
  BY <1>1, SameAdditions DEF Added
<1> QED
  BY <1>1, <1>2
     DEF AddersInv, AddersTypeOK, NoLostUpdate, OneReporter, AddersExclusive,
         Reported, Total

(* The strengthened invariant holds in every state of every run of the     *)
(* adders.                                                                 *)
THEOREM AddersInvariance == AddersSpec => []AddersInv
<1>1. AddersInv /\ [AddersNext]_adder_vars => AddersInv'
  BY AdderLocks, AdderReads, AdderWrites, AdderUnlocks, AdderReturns,
     AddersElse
     DEF AddersNext, AdderStep, AddersJoined
<1> QED
  BY <1>1, AddersStart, PTL DEF AddersSpec

-----------------------------------------------------------------------------
(* The properties the run of the adders checks.                            *)

(* No addition to global_counter is ever lost.                             *)
THEOREM NoUpdateIsLost == AddersSpec => []NoLostUpdate
BY AddersInvariance, PTL DEF AddersInv

(* At most one thread ever has a total to store into the host's counter.   *)
THEOREM ThereIsOneReporter == AddersSpec => []OneReporter
BY AddersInvariance, PTL DEF AddersInv

(* Once every adder is joined all additions are made, so the total is      *)
(* reached, its reporter is back and the host has it.                      *)
LEMMA AddersAssert == AddersInv => AssertHolds
<1> SUFFICES ASSUME AddersInv, joined = Adder PROVE counter = Total
  BY DEF AssertHolds
<1>1. \A a \in Adder : adder_pc[a] = "done" /\ adder_i[a] = LOOPS_PER_THREAD
  BY DEF AddersInv, AddersTypeOK, Reported
<1>2. \A a \in Adder : Added(a) = LOOPS_PER_THREAD
  BY <1>1, CounterAssumption, LoopsAssumption DEF Added
<1>3. Additions = Addition
  BY <1>2, CounterAssumption, LoopsAssumption DEF Additions, Addition
<1>4. global_counter = Total
  BY <1>3, AddersTotal DEF AddersInv, NoLostUpdate
<1> QED
  BY <1>1, <1>4 DEF AddersInv, Reported

(* The assertion of ecall_thread_functions never fails.                    *)
THEOREM AssertionHolds == AddersSpec => []AssertHolds
BY AddersInvariance, AddersAssert, PTL

-----------------------------------------------------------------------------
(* The two halves together.                                                *)

(* Seen through its own variables, each half of ecall_thread_functions     *)
(* behaves as its module says, so that what is proved of a half holds of   *)
(* the whole.                                                              *)
THEOREM HalvesOfThreads == ThreadsSpec => AddersSpec /\ Spec
<1>1. ThreadsInit => AddersInit /\ Init
  BY DEF ThreadsInit
<1>2. [ThreadsNext]_all_vars => [AddersNext]_adder_vars /\ [Next]_vars
  <2> SUFFICES ASSUME [ThreadsNext]_all_vars
               PROVE  [AddersNext]_adder_vars /\ [Next]_vars
    OBVIOUS
  <2>1. CASE \E a \in Adder : AdderTurn(a)
    BY <2>1, Zenon DEF AdderTurn, AddersNext
  <2>2. CASE StartSecondHalf
    BY <2>2, Zenon DEF StartSecondHalf
  <2>3. CASE \E t \in Worker : WorkerTurn(t)
    BY <2>3, Zenon DEF WorkerTurn, Next
  <2>4. CASE SecondHalfJoined
    BY <2>4, Zenon DEF SecondHalfJoined, Next
  <2>5. CASE UNCHANGED all_vars
    BY <2>5 DEF all_vars
  <2> QED
    BY <2>1, <2>2, <2>3, <2>4, <2>5 DEF ThreadsNext
<1> QED
  BY <1>1, <1>2, PTL DEF ThreadsSpec, AddersSpec, Spec

(* The invariants of both halves hold in every run of the sample.          *)
THEOREM ThreadsInvariance == ThreadsSpec => [](AddersInv /\ Inv)
BY HalvesOfThreads, AddersInvariance, Invariance, PTL
=============================================================================
