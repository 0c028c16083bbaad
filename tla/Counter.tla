------------------------------- MODULE Counter -------------------------------
(***************************************************************************)
(* The first half of the SDK's thread sample: ecall_thread_functions (App) *)
(* starts adder threads, each of which enters the enclave through          *)
(* ecall_increase_counter and adds to one global counter under a mutex;    *)
(* the adder that makes the last addition reports the total to the host    *)
(* through its return value, every other adder reports 0, and the main     *)
(* thread joins them all and asserts the total.                            *)
(*                                                                         *)
(* The code names four adders and the literal 4*LOOPS_PER_THREAD; here     *)
(* the four is the number of elements of Adder.                            *)
(***************************************************************************)
EXTENDS ThreadConstants

CONSTANT Adder  \* the threads that run increase_counter

ASSUME CounterAssumption ==
  /\ IsFiniteSet(Adder) /\ Adder # {}
  /\ NOBODY \notin Adder

VARIABLES global_counter,  \* the enclave's counter
          global_mutex,    \* the adder that holds the mutex, or NOBODY
          counter,         \* the host's copy
          adder_pc,        \* where each adder is
          adder_i,         \* its loop variable
          tmp,             \* the counter as it read it
          ret,             \* what ecall_increase_counter will return
          joined           \* the adders the main thread has joined

adder_vars == <<global_counter, global_mutex, counter, adder_pc, adder_i,
                tmp, ret, joined>>

Total == Cardinality(Adder) * LOOPS_PER_THREAD

AddersInit ==
  /\ global_counter = 0
  /\ global_mutex = NOBODY
  /\ counter = 0
  /\ adder_pc = [a \in Adder |-> "loop"]
  /\ adder_i = [a \in Adder |-> 0]
  /\ tmp = [a \in Adder |-> 0]
  /\ ret = [a \in Adder |-> 0]
  /\ joined = {}

AdderAt(a, from, to) ==
  /\ adder_pc[a] = from
  /\ adder_pc' = [adder_pc EXCEPT ![a] = to]

-----------------------------------------------------------------------------
(* Variant: the mutex is not waited for.                                   *)
AdderLock_NotWaited(a) ==
  /\ AdderAt(a, "loop", "read")
  /\ adder_i[a] < LOOPS_PER_THREAD
  /\ global_mutex' = a
  /\ UNCHANGED <<global_counter, counter, adder_i, tmp, ret, joined>>

(* sgx_thread_mutex_lock: one more round of the loop.                      *)
AdderLock(a) ==
  /\ AdderAt(a, "loop", "read")
  /\ adder_i[a] < LOOPS_PER_THREAD
  /\ global_mutex = NOBODY
  /\ global_mutex' = a
  /\ UNCHANGED <<global_counter, counter, adder_i, tmp, ret, joined>>

(* size_t tmp = global_counter                                             *)
AdderRead(a) ==
  /\ AdderAt(a, "read", "write")
  /\ tmp' = [tmp EXCEPT ![a] = global_counter]
  /\ UNCHANGED <<global_counter, global_mutex, counter, adder_i, ret, joined>>

(* Variant: the total is compared before the addition.                     *)
AdderWrite_ComparesFirst(a) ==
  /\ AdderAt(a, "write", "unlock")
  /\ global_counter' = tmp[a] + 1
  /\ tmp' = [tmp EXCEPT ![a] = tmp[a] + 1]
  /\ ret' = IF global_counter = Total
            THEN [ret EXCEPT ![a] = global_counter] ELSE ret
  /\ UNCHANGED <<global_mutex, counter, adder_i, joined>>

(* Variant: every adder remembers how far the counter had got.             *)
AdderWrite_AlwaysReports(a) ==
  /\ AdderAt(a, "write", "unlock")
  /\ global_counter' = tmp[a] + 1
  /\ tmp' = [tmp EXCEPT ![a] = tmp[a] + 1]
  /\ ret' = [ret EXCEPT ![a] = tmp'[a]]
  /\ UNCHANGED <<global_mutex, counter, adder_i, joined>>

(* global_counter = ++tmp, and the comparison with the total.              *)
AdderWrite(a) ==
  /\ AdderAt(a, "write", "unlock")
  /\ global_counter' = tmp[a] + 1
  /\ tmp' = [tmp EXCEPT ![a] = tmp[a] + 1]
  /\ ret' = IF global_counter' = Total
            THEN [ret EXCEPT ![a] = global_counter'] ELSE ret
  /\ UNCHANGED <<global_mutex, counter, adder_i, joined>>

(* Variant: the mutex is left locked by the last round.                    *)
AdderUnlock_LeavesLocked(a) ==
  /\ AdderAt(a, "unlock", "loop")
  /\ global_mutex' = IF adder_i[a] + 1 = LOOPS_PER_THREAD THEN a ELSE NOBODY
  /\ adder_i' = [adder_i EXCEPT ![a] = adder_i[a] + 1]
  /\ tmp' = [tmp EXCEPT ![a] = 0]
  /\ UNCHANGED <<global_counter, counter, ret, joined>>

(* sgx_thread_mutex_unlock; i++. The round's variable tmp is gone.         *)
AdderUnlock(a) ==
  /\ AdderAt(a, "unlock", "loop")
  /\ global_mutex' = NOBODY
  /\ adder_i' = [adder_i EXCEPT ![a] = adder_i[a] + 1]
  /\ tmp' = [tmp EXCEPT ![a] = 0]
  /\ UNCHANGED <<global_counter, counter, ret, joined>>

(* Variant: the host stores what every adder returns, the zeros included.  *)
AdderReturn_StoresZero(a) ==
  /\ AdderAt(a, "loop", "done")
  /\ adder_i[a] = LOOPS_PER_THREAD
  /\ counter' = ret[a]
  /\ UNCHANGED <<global_counter, global_mutex, adder_i, tmp, ret, joined>>

(* ecall_increase_counter returns, and increase_counter stores what it     *)
(* returned unless it is 0. This store is outside the enclave's mutex.     *)
AdderReturn(a) ==
  /\ AdderAt(a, "loop", "done")
  /\ adder_i[a] = LOOPS_PER_THREAD
  /\ counter' = IF ret[a] # 0 THEN ret[a] ELSE counter
  /\ UNCHANGED <<global_counter, global_mutex, adder_i, tmp, ret, joined>>

(* adderN.join()                                                           *)
AdderJoin(a) ==
  /\ adder_pc[a] = "done"
  /\ a \notin joined
  /\ joined' = joined \cup {a}
  /\ UNCHANGED <<global_counter, global_mutex, counter, adder_pc, adder_i,
                 tmp, ret>>

(* ecall_thread_functions is past its joins: nothing more happens here.    *)
AddersJoined == joined = Adder /\ UNCHANGED adder_vars

AdderStep(a) ==
  \/ AdderLock(a) \/ AdderRead(a) \/ AdderWrite(a) \/ AdderUnlock(a)
  \/ AdderReturn(a)

AddersNext ==
  (\E a \in Adder : AdderStep(a) \/ AdderJoin(a)) \/ AddersJoined

AddersSpec == AddersInit /\ [][AddersNext]_adder_vars

-----------------------------------------------------------------------------
AddersTypeOK ==
  /\ global_counter \in 0..Total
  /\ global_mutex \in Adder \cup {NOBODY}
  /\ counter \in {0, Total}
  /\ adder_pc \in [Adder -> {"loop", "read", "write", "unlock", "done"}]
  /\ adder_i \in [Adder -> 0..LOOPS_PER_THREAD]
  /\ tmp \in [Adder -> 0..Total]
  /\ ret \in [Adder -> {0, Total}]
  /\ joined \subseteq {a \in Adder : adder_pc[a] = "done"}

(* The additions adder a has made so far.                                  *)
Added(a) == adder_i[a] + (IF adder_pc[a] = "unlock" THEN 1 ELSE 0)

(* All the additions there are to make, and those made so far.             *)
Addition == Adder \X (0..(LOOPS_PER_THREAD - 1))
Additions == {ak \in Addition : ak[2] < Added(ak[1])}

(* No addition is lost: the counter is the number of additions made, in    *)
(* whatever order the threads read and write it.                           *)
NoLostUpdate == global_counter = Cardinality(Additions)

(* At most one adder ever has the total to report, so that the host's      *)
(* store to counter, which no lock protects, has one writer.               *)
OneReporter ==
  \A a, b \in Adder : ret[a] # 0 /\ ret[b] # 0 => a = b

(* assert(counter == 4*LOOPS_PER_THREAD), after the joins.                 *)
AssertHolds == joined = Adder => counter = Total

(* Only the holder of the mutex is between lock and unlock, and what it    *)
(* read is what the counter still is.                                      *)
AddersExclusive ==
  \A a \in Adder :
    /\ adder_pc[a] \in {"read", "write", "unlock"} => global_mutex = a
    /\ adder_pc[a] = "write" => tmp[a] = global_counter

(* What makes the reported total the right one: rounds are complete when   *)
(* an adder returns, a report exists once the total is reached and not     *)
(* before, and the host has it once the adder with the report is back.     *)
Reported ==
  /\ \A a \in Adder :
       /\ adder_pc[a] \in {"read", "write", "unlock"} =>
            adder_i[a] < LOOPS_PER_THREAD
       /\ adder_pc[a] = "done" => adder_i[a] = LOOPS_PER_THREAD
       /\ ret[a] # 0 => global_counter = Total
       /\ adder_pc[a] = "done" /\ ret[a] # 0 => counter = Total
  /\ global_counter = Total => \E a \in Adder : ret[a] # 0

(* The inductive invariant.                                                *)
AddersInv ==
  /\ AddersTypeOK
  /\ NoLostUpdate /\ OneReporter /\ AddersExclusive /\ Reported

(* The main thread gets past its joins.                                    *)
AllJoined == <>(joined = Adder)
=============================================================================
