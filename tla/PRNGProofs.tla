----------------------------- MODULE PRNGProofs -----------------------------
(***************************************************************************)
(* Proofs about PRNG, for all threads, seeds, buffer sizes and attempts:   *)
(* Inv is inductive as it stands, no number is given twice, and every step *)
(* is a step of Streams or a stutter.                                      *)
(***************************************************************************)
EXTENDS PRNGStreams, TLAPS

(* Number x of block c is drawn from the engine s: the first of the next   *)
(* block or the next of the last one.                                      *)
Draws(t, s, c, x) ==
  LET v == [seed |-> s, block |-> c, index |-> x]
  IN /\ s \in Seed /\ s \in engines
     /\ v \in Place
     /\ m_counter' = [m_counter EXCEPT ![s] = c + 1]
     /\ m_bufferIndex' = [m_bufferIndex EXCEPT ![s] = x + 1]
     /\ buffer' = [buffer EXCEPT ![s] = c]
     /\ result' = [result EXCEPT ![t] = v]
     /\ drawn' = drawn \cup {v}
     /\ \/ x = 0 /\ c = m_counter[s]
           /\ m_bufferIndex[s] \in {0, PRNG_BUFFER_SIZE}
        \/ /\ c = m_counter[s] - 1 /\ x = m_bufferIndex[s]
           /\ m_counter[s] > 0

(* That is what a draw is.                                                 *)
LEMMA DrawFacts ==
  ASSUME Inv, NEW t \in Thread, Draw(t), NEW s, s = m_prng[t]
  PROVE  \E c \in Nat, x \in 0..(PRNG_BUFFER_SIZE - 1) : Draws(t, s, c, x)
<1>1. s \in Seed /\ s \in engines /\ pc[t] = "draw"
  BY DEF Inv, TypeOK, Owned, Draw, Goto
<1>2. /\ m_counter[s] \in Nat /\ buffer[s] \in Nat
      /\ m_bufferIndex[s] \in 0..PRNG_BUFFER_SIZE
      /\ PRNG_BUFFER_SIZE \in Nat \ {0}
  BY <1>1, PRNGAssumption DEF Inv, TypeOK
<1>3. /\ m_counter[s] = 0 <=> m_bufferIndex[s] = 0
      /\ m_counter[s] > 0 => buffer[s] = m_counter[s] - 1
  BY <1>1 DEF Inv, Buffered
<1>4. CASE Used(s)
  <2> DEFINE v == [seed |-> s, block |-> m_counter[s], index |-> 0]
  <2>1. /\ m_counter' = [m_counter EXCEPT ![s] = m_counter[s] + 1]
        /\ m_bufferIndex' = [m_bufferIndex EXCEPT ![s] = 0 + 1]
        /\ buffer' = [buffer EXCEPT ![s] = m_counter[s]]
        /\ result' = [result EXCEPT ![t] = [seed |-> s, block |-> buffer'[s],
                                            index |-> 0]]
        /\ drawn' = drawn \cup {result'[t]}
    BY <1>4 DEF Draw, Generate
  <2>2. buffer'[s] = m_counter[s]
    BY <2>1, <1>1 DEF Inv, TypeOK
  <2>3. result' = [result EXCEPT ![t] = v] /\ result'[t] = v
    BY <2>1, <2>2 DEF Inv, TypeOK
  <2>4. 0 \in 0..(PRNG_BUFFER_SIZE - 1) /\ v \in Place
    BY <1>1, <1>2 DEF Place
  <2>5. m_bufferIndex[s] \in {0, PRNG_BUFFER_SIZE}
    BY <1>4 DEF Used
  <2> QED BY <1>1, <1>2, <2>1, <2>3, <2>4, <2>5 DEF Draws
<1>5. CASE ~Used(s)
  <2> DEFINE v == [seed |-> s, block |-> buffer[s],
                   index |-> m_bufferIndex[s]]
  <2>1. /\ UNCHANGED <<buffer, m_counter>>
        /\ m_bufferIndex' = [m_bufferIndex EXCEPT ![s] =
                               m_bufferIndex[s] + 1]
        /\ result' = [result EXCEPT ![t] = v]
        /\ drawn' = drawn \cup {result'[t]}
    BY <1>5 DEF Draw
  <2>2. result'[t] = v
    BY <2>1 DEF Inv, TypeOK
  <2>3. /\ m_bufferIndex[s] \in 0..(PRNG_BUFFER_SIZE - 1)
        /\ m_bufferIndex[s] # 0
    BY <1>2, <1>5 DEF Used
  <2>4. m_counter[s] > 0 /\ buffer[s] = m_counter[s] - 1
    BY <1>2, <1>3, <2>3
  <2>5. v \in Place
    BY <1>1, <1>2, <2>3 DEF Place
  <2>6. /\ m_counter' = [m_counter EXCEPT ![s] = buffer[s] + 1]
        /\ buffer' = [buffer EXCEPT ![s] = buffer[s]]
    BY <2>1, <2>4, <1>1, <1>2 DEF Inv, TypeOK
  <2> QED BY <1>1, <1>2, <2>1, <2>2, <2>3, <2>4, <2>5, <2>6 DEF Draws
<1> QED BY <1>4, <1>5

(* Steps that draw nothing and create nothing.                             *)
LEMMA QuietInv ==
  ASSUME Inv, NEW t \in Thread, UNCHANGED <<engines, engine>>,
         \/ Enter(t) \/ Leave(t) \/ GetPRNG(t) \/ TestFunction(t)
         \/ InitPRNGEngine(t) \/ SeedFails(t)
  PROVE  Inv'
<1>1. TypeOK'
  <2>1. i' \in [Thread -> 0..attempts]
    <3>1. CASE SeedFails(t)
      <4>1. pc[t] = "create" /\ i' = [i EXCEPT ![t] = i[t] + 1]
        BY <3>1 DEF SeedFails, Goto
      <4>2. i[t] \in 0..attempts /\ i[t] < attempts
        BY <4>1 DEF Inv, TypeOK, Owned
      <4>3. i[t] + 1 \in 0..attempts
        BY <4>2, PRNGAssumption
      <4> QED BY <4>1, <4>3 DEF Inv, TypeOK
    <3>2. CASE TestFunction(t)
      <4>1. 0 \in 0..attempts
        BY PRNGAssumption
      <4> QED BY <3>2, <4>1 DEF TestFunction, Inv, TypeOK
    <3> QED BY <3>1, <3>2
            DEF Enter, Leave, GetPRNG, InitPRNGEngine, Inv, TypeOK
  <2>2. /\ pc' \in [Thread -> {"outside", "inside", "function", "init",
                              "create", "draw"}]
        /\ genPRNGEngine' \in BOOLEAN
        /\ m_prng' \in [Thread -> Seed \cup {nullptr}]
    BY DEF Enter, Leave, GetPRNG, TestFunction, InitPRNGEngine, SeedFails,
           Goto, Inv, TypeOK
  <2> QED BY <2>1, <2>2 DEF Inv, TypeOK, engine, Place
<1>2. Owned'
  <2>1. \A u \in Thread : u # t => pc'[u] = pc[u] /\ i'[u] = i[u]
                                 /\ m_prng'[u] = m_prng[u]
    BY DEF Enter, Leave, GetPRNG, TestFunction, InitPRNGEngine, SeedFails,
           Goto, Inv, TypeOK
  <2>2. m_prng'[t] = m_prng[t] \/ m_prng'[t] = nullptr
    BY DEF Enter, Leave, GetPRNG, TestFunction, InitPRNGEngine, SeedFails,
           Goto, Inv, TypeOK
  <2>3. genPRNGEngine => genPRNGEngine'
    BY DEF Enter, Leave, GetPRNG, TestFunction, InitPRNGEngine, SeedFails
  <2>4. /\ pc'[t] = "draw" => m_prng'[t] # nullptr
        /\ pc'[t] \in {"function", "init", "create"} => m_prng'[t] = nullptr
    <3>1. CASE Enter(t) \/ Leave(t)
      BY <3>1 DEF Enter, Leave, Goto, Inv, TypeOK
    <3>2. CASE GetPRNG(t)
      BY <3>2 DEF GetPRNG, Goto, Inv, TypeOK
    <3>3. CASE TestFunction(t) \/ InitPRNGEngine(t) \/ SeedFails(t)
      <4>1. pc[t] \in {"function", "init", "create"} /\ m_prng' = m_prng
        BY <3>3 DEF TestFunction, InitPRNGEngine, SeedFails, Goto
      <4>2. pc'[t] # "draw"
        BY <3>3 DEF TestFunction, InitPRNGEngine, SeedFails, Goto, Inv,
                    TypeOK
      <4> QED BY <4>1, <4>2 DEF Inv, Owned
    <3> QED BY <3>1, <3>2, <3>3
  <2>5. /\ pc'[t] = "create" => genPRNGEngine'
        /\ pc'[t] \in {"init", "create"} => i'[t] < attempts
    <3>1. CASE Enter(t) \/ Leave(t) \/ GetPRNG(t)
      BY <3>1 DEF Enter, Leave, GetPRNG, Goto, Inv, TypeOK
    <3>2. CASE TestFunction(t)
      <4>1. 0 < attempts
        BY PRNGAssumption
      <4> QED BY <3>2, <4>1 DEF TestFunction, Goto, Inv, TypeOK
    <3>3. CASE InitPRNGEngine(t)
      BY <3>3 DEF InitPRNGEngine, Goto, Inv, TypeOK, Owned
    <3>4. CASE SeedFails(t)
      <4>1. /\ pc[t] = "create" /\ i[t] \in Nat
            /\ genPRNGEngine' = genPRNGEngine
            /\ i'[t] = i[t] + 1
            /\ pc'[t] = IF i[t] + 1 < attempts THEN "create" ELSE "inside"
        BY <3>4 DEF SeedFails, Goto, Inv, TypeOK
      <4> QED BY <4>1 DEF Inv, Owned
    <3> QED BY <3>1, <3>2, <3>3, <3>4
  <2> QED BY <2>1, <2>2, <2>3, <2>4, <2>5 DEF Inv, Owned
<1>3. Buffered' /\ (\A v \in drawn : Behind(v))'
  BY DEF Inv, Buffered, Behind, engine
<1> QED BY <1>1, <1>2, <1>3 DEF Inv

(* A created engine has a seed that no engine had.                         *)
LEMMA CreateInv ==
  ASSUME Inv, NEW t \in Thread, Create(t)
  PROVE  Inv'
<1>1. PICK s \in Seed \ engines :
        /\ m_prng' = [m_prng EXCEPT ![t] = s]
        /\ engines' = engines \cup {s}
        /\ m_counter' = [m_counter EXCEPT ![s] = 0]
        /\ m_bufferIndex' = [m_bufferIndex EXCEPT ![s] = 0]
  BY DEF Create, Blake2SeedGenerator
<1>2. /\ pc[t] = "create" /\ pc' = [pc EXCEPT ![t] = "draw"]
      /\ UNCHANGED <<genPRNGEngine, i, buffer, result, drawn>>
  BY DEF Create, Goto
<1>3. m_counter[s] = 0 /\ m_bufferIndex[s] = 0
  BY DEF Inv, Buffered
<1>4. m_counter' = m_counter /\ m_bufferIndex' = m_bufferIndex
  BY <1>1, <1>3 DEF Inv, TypeOK
<1>5. TypeOK'
  BY <1>1, <1>2, <1>4 DEF Inv, TypeOK, Place
<1>6. Owned'
  <2>1. \A u \in Thread : m_prng[u] # s
    BY <1>1, PRNGAssumption DEF Inv, Owned
  <2>2. /\ m_prng'[t] = s /\ pc'[t] = "draw" /\ s # nullptr
        /\ \A u \in Thread : u # t => pc'[u] = pc[u] /\ m_prng'[u] = m_prng[u]
    BY <1>1, <1>2, PRNGAssumption DEF Inv, TypeOK
  <2> QED BY <1>1, <1>2, <2>1, <2>2 DEF Inv, Owned
<1>7. Buffered'
  BY <1>1, <1>2, <1>4 DEF Inv, Buffered
<1>8. (\A v \in drawn : Behind(v))'
  BY <1>2, <1>4 DEF Inv, Behind
<1> QED BY <1>5, <1>6, <1>7, <1>8 DEF Inv

(* A draw moves its engine to the place after the number got.              *)
LEMMA DrawInv ==
  ASSUME Inv, NEW t \in Thread, Draw(t)
  PROVE  Inv'
<1>1. PICK s : s = m_prng[t]
  OBVIOUS
<1>2. PICK c \in Nat, x \in 0..(PRNG_BUFFER_SIZE - 1) : Draws(t, s, c, x)
  BY <1>1, DrawFacts
<1> USE DEF Draws
<1>3. /\ pc' = [pc EXCEPT ![t] = "inside"]
      /\ UNCHANGED <<genPRNGEngine, m_prng, i, engines>>
  BY DEF Draw, Goto
<1>4. x + 1 \in 0..PRNG_BUFFER_SIZE /\ c + 1 \in Nat /\ x \in Nat
  BY PRNGAssumption
<1>5. TypeOK'
  BY <1>2, <1>3, <1>4 DEF Inv, TypeOK, Place
<1>6. Owned'
  BY <1>3 DEF Inv, Owned, TypeOK
<1>7. Buffered'
  <2>1. /\ m_counter'[s] = c + 1 /\ m_bufferIndex'[s] = x + 1
        /\ buffer'[s] = c
        /\ \A r \in Seed : r # s => /\ m_counter'[r] = m_counter[r]
                                    /\ m_bufferIndex'[r] = m_bufferIndex[r]
                                    /\ buffer'[r] = buffer[r]
    BY <1>2 DEF Inv, TypeOK
  <2>2. c + 1 # 0 /\ x + 1 # 0 /\ c = (c + 1) - 1
    BY <1>4
  <2> QED BY <1>2, <1>3, <2>1, <2>2 DEF Inv, Buffered
<1>8. ASSUME NEW v \in drawn'
      PROVE  Behind(v)'
  <2>1. /\ m_counter'[s] = c + 1 /\ m_bufferIndex'[s] = x + 1
        /\ \A r \in Seed : r # s => /\ m_counter'[r] = m_counter[r]
                                    /\ m_bufferIndex'[r] = m_bufferIndex[r]
    BY <1>2 DEF Inv, TypeOK
  <2>2. CASE v \notin drawn
    <3>1. v.seed = s /\ v.block = c /\ v.index = x
      BY <1>2, <2>2
    <3> QED BY <2>1, <3>1, <1>4 DEF Behind
  <2>3. CASE v \in drawn
    <3>1. /\ v.seed \in Seed /\ v.block \in Nat /\ Behind(v)
          /\ v.index \in 0..(PRNG_BUFFER_SIZE - 1)
      BY <2>3 DEF Inv, TypeOK, Place
    <3>2. CASE v.seed # s
      BY <2>1, <3>1, <3>2 DEF Behind
    <3>3. CASE v.seed = s
      <4>1. /\ m_counter[s] \in Nat
            /\ v.block < m_counter[s]
            /\ v.block = m_counter[s] - 1 => v.index < m_bufferIndex[s]
        BY <1>2, <3>1, <3>3 DEF Behind, Inv, TypeOK
      <4>2. v.block < c + 1 /\ (v.block = (c + 1) - 1 => v.index < x + 1)
        BY <1>2, <3>1, <4>1, <1>4
      <4> QED BY <2>1, <3>3, <4>2 DEF Behind
    <3> QED BY <3>2, <3>3
  <2> QED BY <2>2, <2>3
<1> QED BY <1>5, <1>6, <1>7, <1>8 DEF Inv

(* Every thread has an engine of its own, at the place after the last      *)
(* number got from it.                                                     *)
THEOREM Invariance == Spec => []Inv
<1>1. Init => Inv
  <2> SUFFICES ASSUME Init
               PROVE  Inv
    OBVIOUS
  <2>1. 0 \in 0..attempts /\ 0 \in 0..PRNG_BUFFER_SIZE
    BY PRNGAssumption
  <2>2. TypeOK
    BY <2>1 DEF Init, TypeOK
  <2>3. Owned
    BY DEF Init, Owned
  <2>4. Buffered
    BY DEF Init, Buffered
  <2>5. \A v \in drawn : Behind(v)
    BY DEF Init
  <2> QED BY <2>2, <2>3, <2>4, <2>5 DEF Inv
<1>2. Inv /\ [Next]_vars => Inv'
  <2> SUFFICES ASSUME Inv, [Next]_vars
               PROVE  Inv'
    OBVIOUS
  <2>1. ASSUME NEW t \in Thread,
               \/ Enter(t) \/ Leave(t) \/ GetPRNG(t) \/ TestFunction(t)
               \/ InitPRNGEngine(t) \/ SeedFails(t)
        PROVE  Inv'
    <3>1. UNCHANGED <<engines, engine>>
      BY <2>1 DEF Enter, Leave, GetPRNG, TestFunction, InitPRNGEngine,
                  SeedFails
    <3> QED BY <2>1, <3>1, QuietInv
  <2>2. CASE UNCHANGED vars
    BY <2>2 DEF vars, Inv, TypeOK, Owned, Buffered, Behind
  <2> QED BY <2>1, <2>2, CreateInv, DrawInv DEF Next
<1> QED BY <1>1, <1>2, PTL DEF Spec

(* The number drawn lies at the place the engine has reached, and so is    *)
(* not behind it.                                                          *)
LEMMA DrawsNew ==
  ASSUME Inv, NEW t \in Thread, Draw(t)
  PROVE  result'[t] \notin drawn
<1>1. PICK s : s = m_prng[t]
  OBVIOUS
<1>2. PICK c \in Nat, x \in 0..(PRNG_BUFFER_SIZE - 1) : Draws(t, s, c, x)
  BY <1>1, DrawFacts
<1> USE DEF Draws
<1> DEFINE v == [seed |-> s, block |-> c, index |-> x]
<1>3. result'[t] = v
  BY <1>2 DEF Inv, TypeOK
<1>4. m_counter[s] \in Nat /\ m_bufferIndex[s] \in Nat
  BY <1>2, PRNGAssumption DEF Inv, TypeOK
<1>5. ~Behind(v)
  BY <1>2, <1>4 DEF Behind
<1> QED BY <1>3, <1>5 DEF Inv

(* No number is given twice, to one thread or to two.                      *)
THEOREM NoRepeatHolds == Spec => NoRepeat
<1>1. Inv => \A t \in Thread : Draw(t) => result'[t] \notin drawn
  BY DrawsNew
<1> QED BY <1>1, Invariance, PTL DEF NoRepeat

-----------------------------------------------------------------------------
(* The refinement.                                                         *)
read == [s \in Seed |-> IF m_counter[s] = 0 THEN 0 ELSE
                          Position(m_counter[s] - 1, m_bufferIndex[s])]

got == [t \in Thread |->
          IF result[t] = nullptr THEN <<nullptr, 0>> ELSE
            <<result[t].seed, Position(result[t].block, result[t].index)>>]

(* The first place of a block is the one after the last of the block       *)
(* before.                                                                 *)
LEMMA EndToEnd ==
  ASSUME NEW c \in Nat, c > 0
  PROVE  Position(c - 1, PRNG_BUFFER_SIZE) = Position(c, 0)
<1>1. PRNG_BUFFER_SIZE \in Nat
  BY PRNGAssumption
<1>2. (c - 1) * PRNG_BUFFER_SIZE + PRNG_BUFFER_SIZE = c * PRNG_BUFFER_SIZE
  BY <1>1
<1>3. c * PRNG_BUFFER_SIZE + 0 = c * PRNG_BUFFER_SIZE
  BY <1>1
<1> QED BY <1>2, <1>3 DEF Position

(* A draw reads the next element of the thread's stream.                   *)
LEMMA DrawReads ==
  ASSUME Inv, NEW t \in Thread, Draw(t)
  PROVE  S!Read(t)
<1>1. PICK s : s = m_prng[t]
  OBVIOUS
<1>2. PICK c \in Nat, x \in 0..(PRNG_BUFFER_SIZE - 1) : Draws(t, s, c, x)
  BY <1>1, DrawFacts
<1> USE DEF Draws
<1>3. /\ PRNG_BUFFER_SIZE \in Nat \ {0} /\ x \in Nat
      /\ m_counter[s] \in Nat /\ m_bufferIndex[s] \in Nat
      /\ m_counter[s] = 0 <=> m_bufferIndex[s] = 0
  BY <1>2, PRNGAssumption DEF Inv, TypeOK, Buffered
<1>4. read[s] = Position(c, x)
  <2>1. CASE x = 0 /\ c = m_counter[s] /\ m_counter[s] = 0
    <3>1. 0 * PRNG_BUFFER_SIZE + 0 = 0
      BY <1>3
    <3> QED BY <1>2, <2>1, <3>1 DEF read, Position
  <2>2. CASE x = 0 /\ c = m_counter[s] /\ m_counter[s] # 0 /\
             m_bufferIndex[s] = PRNG_BUFFER_SIZE
    <3>1. read[s] = Position(c - 1, PRNG_BUFFER_SIZE)
      BY <1>2, <2>2 DEF read
    <3> QED BY <2>2, <3>1, <1>3, EndToEnd
  <2>3. CASE c = m_counter[s] - 1 /\ x = m_bufferIndex[s] /\ m_counter[s] > 0
    BY <1>2, <1>3, <2>3 DEF read
  <2> QED BY <1>2, <1>3, <2>1, <2>2, <2>3
<1>5. read'[s] = Position(c, x) + 1
  <2>1. m_counter'[s] = c + 1 /\ m_bufferIndex'[s] = x + 1
    BY <1>2 DEF Inv, TypeOK
  <2>2. read'[s] = Position((c + 1) - 1, x + 1)
    BY <1>2, <2>1 DEF read, Position
  <2>3. (c + 1) - 1 = c
    OBVIOUS
  <2>4. read'[s] = Position(c, x + 1)
    BY <2>2, <2>3
  <2>5. c * PRNG_BUFFER_SIZE \in Nat
    BY <1>3
  <2>6. c * PRNG_BUFFER_SIZE + (x + 1) = (c * PRNG_BUFFER_SIZE + x) + 1
    BY <2>5, <1>3
  <2> QED BY <2>4, <2>6 DEF Position
<1>6. \A r \in Seed : r # s => read'[r] = read[r]
  BY <1>2 DEF read, Position, Inv, TypeOK
<1>7. read' = [read EXCEPT ![s] = read[s] + 1]
  <2>1. /\ read' = [r \in Seed |-> read'[r]] /\ read = [r \in Seed |-> read[r]]
    BY DEF read
  <2> HIDE DEF read
  <2> QED BY <1>2, <1>4, <1>5, <1>6, <2>1
<1>8. got'[t] = <<s, read[s]>>
  <2>1. result'[t] = [seed |-> s, block |-> c, index |-> x]
    BY <1>2 DEF Inv, TypeOK
  <2>2. result'[t] # nullptr
    <3>1. result'[t] \in [seed : Seed, block : Nat, index : Nat]
      BY <1>2, <1>3, <2>1 DEF Draws
    <3> QED BY <3>1, PRNGAssumption
  <2>3. got'[t] = <<s, Position(c, x)>>
    BY <2>1, <2>2 DEF got, Position
  <2> QED BY <1>4, <2>3
<1>9. got' = [got EXCEPT ![t] = <<s, read[s]>>]
  <2>1. \A u \in Thread : u # t => got'[u] = got[u]
    BY <1>2 DEF got, Position, Inv, TypeOK
  <2>2. /\ got' = [u \in Thread |-> got'[u]] /\ got = [u \in Thread |-> got[u]]
    BY DEF got
  <2> HIDE DEF got
  <2> QED BY <1>8, <2>1, <2>2
<1>10. s # nullptr /\ m_prng' = m_prng
  BY <1>2, PRNGAssumption DEF Draw
<1> QED BY <1>1, <1>7, <1>9, <1>10 DEF S!Read, read, got

(* A created engine is a stream nobody reads or has read from.             *)
LEMMA CreateOpens ==
  ASSUME Inv, NEW t \in Thread, Create(t)
  PROVE  \E s \in Seed : S!Open(t, s)
<1>1. PICK s \in Seed \ engines :
        /\ m_prng' = [m_prng EXCEPT ![t] = s]
        /\ m_counter' = [m_counter EXCEPT ![s] = 0]
        /\ m_bufferIndex' = [m_bufferIndex EXCEPT ![s] = 0]
  BY DEF Create, Blake2SeedGenerator
<1>2. m_counter[s] = 0 /\ m_bufferIndex[s] = 0
  BY DEF Inv, Buffered
<1>3. m_counter' = m_counter /\ m_bufferIndex' = m_bufferIndex
      /\ result' = result
  BY <1>1, <1>2 DEF Inv, TypeOK, Create
<1>4. read[s] = 0 /\ read' = read /\ got' = got
  BY <1>2, <1>3 DEF read, got, Position
<1>5. m_prng[t] = nullptr /\ \A u \in Thread : m_prng[u] # s
  BY PRNGAssumption DEF Inv, Owned, Create, Goto
<1>6. S!Open(t, s)
  BY <1>1, <1>4, <1>5 DEF S!Open, read, got
<1> QED BY <1>6

(* Every other step leaves the streams alone, but for a root ecall, at     *)
(* which the thread is rid of its stream.                                  *)
LEMMA OtherSteps ==
  ASSUME Inv, NEW t \in Thread,
         \/ Enter(t) \/ Leave(t) \/ GetPRNG(t) \/ TestFunction(t)
         \/ InitPRNGEngine(t) \/ SeedFails(t)
  PROVE  S!Close(t) \/ UNCHANGED S!vars
<1>1. read' = read /\ got' = got
  BY DEF read, got, Position, engine, Enter, Leave, GetPRNG, TestFunction,
         InitPRNGEngine, SeedFails
<1>2. CASE Enter(t)
  BY <1>1, <1>2 DEF Enter, S!Close, read, got
<1>3. CASE ~Enter(t)
  <2>1. m_prng' = m_prng
    BY <1>3 DEF Leave, GetPRNG, TestFunction, InitPRNGEngine, SeedFails
  <2> QED BY <1>1, <2>1 DEF S!vars, read, got
<1> QED BY <1>2, <1>3

(* PRNG implements Streams.                                                *)
THEOREM Implementation == Spec => ImplementsStreams
<1>1. Init => S!Init
  BY DEF Init, S!Init
<1>2. Inv /\ [Next]_vars => [S!Next]_(S!vars)
  <2> SUFFICES ASSUME Inv, [Next]_vars
               PROVE  S!Next \/ UNCHANGED S!vars
    OBVIOUS
  <2>1. ASSUME NEW t \in Thread, Draw(t)
        PROVE  S!Next
    BY <2>1, DrawReads DEF S!Next
  <2>2. ASSUME NEW t \in Thread, Create(t)
        PROVE  S!Next
    BY <2>2, CreateOpens DEF S!Next
  <2>3. ASSUME NEW t \in Thread,
               \/ Enter(t) \/ Leave(t) \/ GetPRNG(t) \/ TestFunction(t)
               \/ InitPRNGEngine(t) \/ SeedFails(t)
        PROVE  S!Next \/ UNCHANGED S!vars
    BY <2>3, OtherSteps DEF S!Next
  <2>4. CASE UNCHANGED vars
    BY <2>4 DEF vars, S!vars, Position
  <2> QED BY <2>1, <2>2, <2>3, <2>4 DEF Next
<1> QED BY <1>1, <1>2, Invariance, PTL DEF Spec, ImplementsStreams, S!Spec
=============================================================================
