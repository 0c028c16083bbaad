----------------------------- MODULE CondBuffer -----------------------------
(***************************************************************************)
(* The second half of the SDK's thread sample: one producer and several    *)
(* consumers share a ring of BUFFER_SIZE slots inside the enclave, guarded *)
(* by one mutex and two condition variables, more and less                 *)
(* (ecall_producer, ecall_consumer). A signal without a waiter is lost, a  *)
(* woken thread competes for the mutex like any other, and another thread  *)
(* may have been faster: this is where wake-ups get lost.                  *)
(*                                                                         *)
(* The producer makes as many items as the consumers take together: the    *)
(* code's literal 4 is the number of consumers.                            *)
(***************************************************************************)
EXTENDS ThreadConstants

CONSTANTS Consumer,          \* the threads that run data_consumer
          producer,          \* the thread that runs data_producer
          BUFFER_SIZE        \* slots of the ring

ASSUME CondBufferAssumption ==
  /\ IsFiniteSet(Consumer) /\ Consumer # {}
  /\ producer \notin Consumer
  /\ BUFFER_SIZE \in Nat \ {0}
  /\ NOBODY \notin Consumer \cup {producer}

Worker == Consumer \cup {producer}

VARIABLES buf,       \* the slots
          occupied,  \* how many of them hold an item
          nextin,    \* where the producer puts the next item
          nextout,   \* where the next item is taken
          mutex,     \* the thread that holds the mutex, or NOBODY
          more,      \* the threads that wait for an item
          less,      \* the threads that wait for room
          pc,        \* where each thread is
          i          \* its loop variable

vars == <<buf, occupied, nextin, nextout, mutex, more, less, pc, i>>
ring == <<buf, occupied, nextin, nextout>>

(* Variant: the producer counts one consumer too many.                     *)
Quota_OneTooMany(t) ==
  IF t = producer THEN (Cardinality(Consumer) + 1) * LOOPS_PER_THREAD
                  ELSE LOOPS_PER_THREAD

(* The rounds of a thread's loop.                                          *)
Quota(t) == IF t = producer THEN Cardinality(Consumer) * LOOPS_PER_THREAD
                            ELSE LOOPS_PER_THREAD

Init ==
  /\ buf = [k \in 0..(BUFFER_SIZE - 1) |-> 0]
  /\ occupied = 0 /\ nextin = 0 /\ nextout = 0
  /\ mutex = NOBODY
  /\ more = {} /\ less = {}
  /\ pc = [t \in Worker |-> "loop"]
  /\ i = [t \in Worker |-> 0]

At(t, from, to) == pc[t] = from /\ pc' = [pc EXCEPT ![t] = to]

-----------------------------------------------------------------------------
(* sgx_thread_mutex_lock at the head of a round, and the same inside       *)
(* sgx_thread_cond_wait when the thread has been woken.                    *)
Acquire(t) ==
  /\ mutex = NOBODY
  /\ mutex' = t
  /\ UNCHANGED <<ring, more, less, i>>

Lock(t) == At(t, "loop", "test") /\ i[t] < Quota(t) /\ Acquire(t)

(* Variant: a woken thread does not look at the condition again.           *)
Relock_WithoutTest(t) == At(t, "woken", "act") /\ Acquire(t)

Relock(t) == At(t, "woken", "test") /\ Acquire(t)

(* The condition of the while loop.                                        *)
MustWait(t) == IF t = producer THEN occupied >= BUFFER_SIZE ELSE occupied <= 0

(* The loop ends: the thread has room, or an item.                         *)
Pass(t) ==
  /\ At(t, "test", "act")
  /\ ~ MustWait(t)
  /\ UNCHANGED <<ring, mutex, more, less, i>>

(* Variant: the mutex is kept while the thread waits.                      *)
Wait_KeepsMutex(t) ==
  /\ At(t, "test", "wait")
  /\ MustWait(t)
  /\ more' = IF t = producer THEN more ELSE more \cup {t}
  /\ less' = IF t = producer THEN less \cup {t} ELSE less
  /\ UNCHANGED <<ring, mutex, i>>

(* sgx_thread_cond_wait: join the waiters and release the mutex, in one.   *)
Wait(t) ==
  /\ At(t, "test", "wait")
  /\ MustWait(t)
  /\ mutex' = NOBODY
  /\ more' = IF t = producer THEN more ELSE more \cup {t}
  /\ less' = IF t = producer THEN less \cup {t} ELSE less
  /\ UNCHANGED <<ring, i>>

(* k++; k %= BUFFER_SIZE                                                   *)
Successor(k) == (k + 1) % BUFFER_SIZE

(* buf[nextin] = nextin, and the producer's bookkeeping.                   *)
Put(t) ==
  /\ t = producer
  /\ At(t, "act", "signal")
  /\ buf' = [buf EXCEPT ![nextin] = nextin]
  /\ nextin' = Successor(nextin)
  /\ occupied' = occupied + 1
  /\ UNCHANGED <<nextout, mutex, more, less, i>>

(* Variant: the count is left to the producer.                             *)
Get_KeepsCount(t) ==
  /\ t \in Consumer
  /\ At(t, "act", "signal")
  /\ buf' = [buf EXCEPT ![nextout] = 0]
  /\ nextout' = Successor(nextout)
  /\ UNCHANGED <<occupied, nextin, mutex, more, less, i>>

(* buf[nextout++] = 0, and the consumer's bookkeeping.                     *)
Get(t) ==
  /\ t \in Consumer
  /\ At(t, "act", "signal")
  /\ buf' = [buf EXCEPT ![nextout] = 0]
  /\ nextout' = Successor(nextout)
  /\ occupied' = occupied - 1
  /\ UNCHANGED <<nextin, mutex, more, less, i>>

(* Wake one of the waiters, or nobody if there is none.                    *)
Wake(waiting, others, t) ==
  \/ /\ waiting = {}
     /\ pc' = [pc EXCEPT ![t] = "unlock"]
     /\ UNCHANGED <<more, less>>
  \/ \E w \in waiting :
       /\ pc' = [pc EXCEPT ![t] = "unlock", ![w] = "woken"]
       /\ more' = more \ {w} /\ less' = less \ {w}

(* Variant: the consumers are told only of the first item.                 *)
SignalMore_OnlyWhenFirst(t) ==
  /\ t = producer
  /\ pc[t] = "signal"
  /\ IF occupied = 1
     THEN Wake(more, less, t)
     ELSE pc' = [pc EXCEPT ![t] = "unlock"] /\ UNCHANGED <<more, less>>
  /\ UNCHANGED <<ring, mutex, i>>

(* sgx_thread_cond_signal(&b->more)                                        *)
SignalMore(t) ==
  /\ t = producer
  /\ pc[t] = "signal"
  /\ Wake(more, less, t)
  /\ UNCHANGED <<ring, mutex, i>>

(* sgx_thread_cond_signal(&b->less)                                        *)
SignalLess(t) ==
  /\ t \in Consumer
  /\ pc[t] = "signal"
  /\ Wake(less, more, t)
  /\ UNCHANGED <<ring, mutex, i>>

(* sgx_thread_mutex_unlock; i++                                            *)
Unlock(t) ==
  /\ At(t, "unlock", "loop")
  /\ mutex' = NOBODY
  /\ i' = [i EXCEPT ![t] = i[t] + 1]
  /\ UNCHANGED <<ring, more, less>>

(* The ecall returns and the host's thread ends, to be joined.             *)
Return(t) ==
  /\ At(t, "loop", "done")
  /\ i[t] = Quota(t)
  /\ UNCHANGED <<ring, mutex, more, less, i>>

(* ecall_thread_functions has joined them all.                             *)
Joined == (\A t \in Worker : pc[t] = "done") /\ UNCHANGED vars

Step(t) ==
  \/ Lock(t) \/ Relock(t) \/ Pass(t) \/ Wait(t)
  \/ Put(t) \/ Get(t) \/ SignalMore(t) \/ SignalLess(t)
  \/ Unlock(t) \/ Return(t)

Next == (\E t \in Worker : Step(t)) \/ Joined

Spec == Init /\ [][Next]_vars

-----------------------------------------------------------------------------
Slot == 0..(BUFFER_SIZE - 1)

TypeOK ==
  /\ buf \in [Slot -> Slot]
  /\ occupied \in 0..BUFFER_SIZE
  /\ nextin \in Slot /\ nextout \in Slot
  /\ mutex \in Worker \cup {NOBODY}
  /\ more \subseteq Consumer /\ less \subseteq {producer}
  /\ pc \in [Worker -> {"loop", "test", "wait", "woken", "act", "signal",
                        "unlock", "done"}]
  /\ i \in [Worker -> Nat] /\ \A t \in Worker : i[t] <= Quota(t)

(* The ring is a queue: the slots that hold an item are the occupied ones  *)
(* from nextout on, nextin is the slot after them, and all others are      *)
(* clear. The code keeps the three numbers apart and never compares them.  *)
Holds(k) == (k - nextout + BUFFER_SIZE) % BUFFER_SIZE < occupied

Ring ==
  /\ nextin = (nextout + occupied) % BUFFER_SIZE
  /\ \A k \in Slot : buf[k] = IF Holds(k) THEN k ELSE 0

(* What thread t has put or taken so far.                                  *)
Acts(t) == i[t] + (IF pc[t] \in {"signal", "unlock"} THEN 1 ELSE 0)

(* Everything the consumers have taken, as pairs.                          *)
Takings == {ck \in Consumer \X (0..(LOOPS_PER_THREAD - 1)) :
              ck[2] < Acts(ck[1])}

(* Every item is taken once: what has been put is taken or in the ring.    *)
Balanced == Acts(producer) = Cardinality(Takings) + occupied

(* No wake-up is lost. While consumers wait, there are no more items than  *)
(* consumers on their way to one, the item about to be signalled apart;    *)
(* while the producer waits the ring is full, or a consumer is about to    *)
(* tell it otherwise. A signal sent too seldom, to the wrong condition or  *)
(* to a thread that another has overtaken breaks this.                     *)
Coming == {c \in Consumer : pc[c] \in {"woken", "test", "act"}}

NoLostWakeup ==
  /\ more # {} =>
       occupied <= Cardinality(Coming)
                     + (IF pc[producer] = "signal" THEN 1 ELSE 0)
  /\ less # {} =>
       occupied = BUFFER_SIZE \/ \E c \in Consumer : pc[c] = "signal"

(* The waiters are those the condition variables know, only the holder of  *)
(* the mutex is in the critical section, and it acts on a condition that   *)
(* still holds.                                                            *)
Exclusive ==
  /\ more = {c \in Consumer : pc[c] = "wait"}
  /\ less = {t \in {producer} : pc[t] = "wait"}
  /\ \A t \in Worker :
       /\ pc[t] \in {"test", "act", "signal", "unlock"} => mutex = t
       /\ pc[t] = "act" => ~ MustWait(t)
       /\ pc[t] \notin {"loop", "done"} => i[t] < Quota(t)
       /\ pc[t] = "done" => i[t] = Quota(t)

(* The inductive invariant.                                                *)
Inv == TypeOK /\ Ring /\ Balanced /\ NoLostWakeup /\ Exclusive

(* When all threads are back the ring is empty.                            *)
Drained == (\A t \in Worker : pc[t] = "done") => occupied = 0

(* All threads come back, whichever waiter each signal picks.              *)
AllDone == <>(\A t \in Worker : pc[t] = "done")
=============================================================================
