-------------------------------- MODULE PRNG --------------------------------
(***************************************************************************)
(* Random numbers in the SGX port of OpenFHE: the engine that              *)
(* PseudoRandomNumberGenerator keeps for each thread                       *)
(* (distributiongenerator.cpp), its seed, and the buffer of a Blake2Engine *)
(* (blake2engine.h, blake2engine.cpp).                                     *)
(*                                                                         *)
(* A number is its place: the seed, the counter the block was made from    *)
(* and the index in the block. m_prng is a thread_local variable, which    *)
(* the SGX run-time initializes at every root ecall (TCSPolicy is 1, a     *)
(* thread is not bound); the port's __cxa_thread_atexit registers no       *)
(* destructor, so that an engine stays allocated when the thread leaves.   *)
(***************************************************************************)
EXTENDS Integers

CONSTANTS Thread,           \* the enclave's thread control structures
          Seed,             \* what random_device and sgx_read_rand give
          PRNG_BUFFER_SIZE,
          attempts,         \* of std::random_device before the call fails
          nullptr,
          MaxBlocks         \* bound: blocks made from one seed

ASSUME PRNGAssumption ==
  /\ PRNG_BUFFER_SIZE \in Nat \ {0} /\ attempts \in Nat \ {0}
  /\ MaxBlocks \in Nat \ {0}
  /\ nullptr \notin Seed
  /\ nullptr \notin [seed : Seed, block : Nat, index : Nat]

VARIABLES pc,            \* where each thread is
          genPRNGEngine, \* is the function pointer set?
          m_prng,        \* each thread's engine, named by its seed
          i,             \* attempts made for the engine being created
          engines,       \* every engine ever created: none is destroyed
          m_counter, m_bufferIndex,
          buffer,        \* the counter that the block in m_buffer came from
          result,        \* the last number each thread got
          drawn          \* all numbers got so far (history)

vars == <<pc, genPRNGEngine, m_prng, i, engines, m_counter, m_bufferIndex,
          buffer, result, drawn>>

engine == <<m_counter, m_bufferIndex, buffer, result, drawn>>

Place == [seed : Seed, block : Nat, index : 0..(PRNG_BUFFER_SIZE - 1)]

Init ==
  /\ pc = [t \in Thread |-> "outside"]
  /\ genPRNGEngine = FALSE
  /\ m_prng = [t \in Thread |-> nullptr]
  /\ i = [t \in Thread |-> 0]
  /\ engines = {}
  /\ m_counter = [s \in Seed |-> 0]
  /\ m_bufferIndex = [s \in Seed |-> 0]
  /\ buffer = [s \in Seed |-> 0]
  /\ result = [t \in Thread |-> nullptr]
  /\ drawn = {}

Goto(t, from, to) == pc[t] = from /\ pc' = [pc EXCEPT ![t] = to]

-----------------------------------------------------------------------------
(* A root ecall on a thread, and its end.                                  *)
Enter(t) ==
  /\ Goto(t, "outside", "inside")
  /\ m_prng' = [m_prng EXCEPT ![t] = nullptr]
  /\ UNCHANGED <<genPRNGEngine, i, engines, engine>>

Leave(t) ==
  /\ Goto(t, "inside", "outside")
  /\ UNCHANGED <<genPRNGEngine, m_prng, i, engines, engine>>

-----------------------------------------------------------------------------
(* GetPRNG, for a number to be drawn. The pragma omp critical is empty:    *)
(* the port is built without OpenMP.                                       *)
GetPRNG(t) ==
  /\ m_prng[t] # nullptr => m_counter[m_prng[t]] < MaxBlocks
  /\ Goto(t, "inside", IF m_prng[t] = nullptr THEN "function" ELSE "draw")
  /\ UNCHANGED <<genPRNGEngine, m_prng, i, engines, engine>>

TestFunction(t) ==
  /\ Goto(t, "function", IF genPRNGEngine THEN "create" ELSE "init")
  /\ i' = [i EXCEPT ![t] = 0]
  /\ UNCHANGED <<genPRNGEngine, m_prng, engines, engine>>

InitPRNGEngine(t) ==
  /\ Goto(t, "init", "create")
  /\ genPRNGEngine' = TRUE
  /\ UNCHANGED <<m_prng, i, engines, engine>>

(* std::random_device throws; the call does when the last attempt has.     *)
SeedFails(t) ==
  /\ Goto(t, "create", IF i[t] + 1 < attempts THEN "create" ELSE "inside")
  /\ i' = [i EXCEPT ![t] = @ + 1]
  /\ UNCHANGED <<genPRNGEngine, m_prng, engines, engine>>

(* Seeds differ: sixteen words of random_device, plus as many of a         *)
(* generator keyed by sgx_read_rand.                                       *)
Blake2SeedGenerator == Seed \ engines

(* Variant: FIXED_SEED is defined.                                         *)
Create_FixedSeed(t) ==
  /\ Goto(t, "create", "draw")
  /\ LET s == CHOOSE s \in Seed : TRUE
     IN /\ m_prng' = [m_prng EXCEPT ![t] = s]
        /\ engines' = engines \cup {s}
        /\ m_counter' = [m_counter EXCEPT ![s] = 0]
        /\ m_bufferIndex' = [m_bufferIndex EXCEPT ![s] = 0]
  /\ UNCHANGED <<genPRNGEngine, i, buffer, result, drawn>>

Create(t) ==
  /\ Goto(t, "create", "draw")
  /\ \E s \in Blake2SeedGenerator :
       /\ m_prng' = [m_prng EXCEPT ![t] = s]
       /\ engines' = engines \cup {s}
       /\ m_counter' = [m_counter EXCEPT ![s] = 0]
       /\ m_bufferIndex' = [m_bufferIndex EXCEPT ![s] = 0]
  /\ UNCHANGED <<genPRNGEngine, i, buffer, result, drawn>>

-----------------------------------------------------------------------------
(* Variant: a full buffer is taken for a fresh one.                        *)
Used_AtEndOnly(s) == m_bufferIndex[s] = PRNG_BUFFER_SIZE

(* The next number of an engine: from the buffer, or from a new block      *)
(* where the buffer is used up or was never filled.                        *)
Used(s) == m_bufferIndex[s] \in {0, PRNG_BUFFER_SIZE}

(* Variant: the counter stays.                                             *)
Generate_SameCounter(s) ==
  /\ buffer' = [buffer EXCEPT ![s] = m_counter[s]]
  /\ UNCHANGED m_counter

Generate(s) ==
  /\ buffer' = [buffer EXCEPT ![s] = m_counter[s]]
  /\ m_counter' = [m_counter EXCEPT ![s] = @ + 1]

Draw(t) ==
  /\ Goto(t, "draw", "inside")
  /\ LET s == m_prng[t]
         index == IF Used(s) THEN 0 ELSE m_bufferIndex[s]
     IN /\ IF Used(s) THEN Generate(s) ELSE UNCHANGED <<buffer, m_counter>>
        /\ m_bufferIndex' = [m_bufferIndex EXCEPT ![s] = index + 1]
        /\ result' = [result EXCEPT ![t] = [seed |-> s, block |-> buffer'[s],
                                            index |-> index]]
  /\ drawn' = drawn \cup {result'[t]}
  /\ UNCHANGED <<genPRNGEngine, m_prng, i, engines>>

Next ==
  \E t \in Thread :
    \/ Enter(t) \/ Leave(t)
    \/ GetPRNG(t) \/ TestFunction(t) \/ InitPRNGEngine(t)
    \/ SeedFails(t) \/ Create(t)
    \/ Draw(t)

Spec == Init /\ [][Next]_vars

-----------------------------------------------------------------------------
TypeOK ==
  /\ pc \in [Thread -> {"outside", "inside", "function", "init", "create",
                        "draw"}]
  /\ genPRNGEngine \in BOOLEAN
  /\ m_prng \in [Thread -> Seed \cup {nullptr}]
  /\ i \in [Thread -> 0..attempts]
  /\ engines \subseteq Seed
  /\ m_counter \in [Seed -> Nat] /\ buffer \in [Seed -> Nat]
  /\ m_bufferIndex \in [Seed -> 0..PRNG_BUFFER_SIZE]
  /\ result \in [Thread -> Place \cup {nullptr}]
  /\ drawn \subseteq Place

(* A thread draws from an engine of its own, and creates one through a     *)
(* function pointer that is set.                                           *)
Owned ==
  /\ \A t \in Thread : /\ m_prng[t] # nullptr => m_prng[t] \in engines
                       /\ pc[t] = "draw" => m_prng[t] # nullptr
                       /\ pc[t] \in {"function", "init", "create"} =>
                            m_prng[t] = nullptr
                       /\ pc[t] = "create" => genPRNGEngine
                       /\ pc[t] \in {"init", "create"} => i[t] < attempts
  /\ \A t, u \in Thread : m_prng[t] = m_prng[u] /\ m_prng[t] # nullptr =>
                            t = u

(* The buffer is that of the last counter, and unfilled at first.          *)
Buffered ==
  \A s \in Seed : /\ s \notin engines => m_counter[s] = 0
                  /\ m_counter[s] = 0 <=> m_bufferIndex[s] = 0
                  /\ m_counter[s] > 0 => buffer[s] = m_counter[s] - 1

(* Every number got lies behind the place its engine has reached.          *)
Behind(v) ==
  /\ v.block < m_counter[v.seed]
  /\ v.block = m_counter[v.seed] - 1 => v.index < m_bufferIndex[v.seed]

(* Threads that create engines at once, fail to, leave and come back each  *)
(* have an engine of their own, whose buffer, index and counter are at the *)
(* place after the last number anybody got from it.                        *)
Inv == TypeOK /\ Owned /\ Buffered /\ \A v \in drawn : Behind(v)

(* No number is given twice, to one thread or to two. (GetPRNG,            *)
(* Blake2Engine::operator())                                               *)
NoRepeat == [][\A t \in Thread : Draw(t) => result'[t] \notin drawn]_vars
=============================================================================
