----------------------------- MODULE ArenaProofs -----------------------------
(***************************************************************************)
(* Proofs about Arena: the safety properties of the allocator's list, and  *)
(* that it implements Heap, for every arena size, every set of threads and *)
(* every set of requests.                                                  *)
(***************************************************************************)
EXTENDS ArenaHeap, NaturalsInduction, WellFoundedInduction, TLAPS

-----------------------------------------------------------------------------
(* The size arithmetic.                                                    *)

(* The remainder of symbolic divisors, for which the SMT solver needs the  *)
(* definition spelled out.                                                 *)
LEMMA Remainder ==
  ASSUME NEW a \in Nat, NEW b \in Nat \ {0}
  PROVE  /\ a % b \in 0..(b - 1)
         /\ a < b => a % b = a
  OBVIOUS

(* A rounded request is a size_t, whole granules, and never less than the  *)
(* request unless the sum wrapped.                                         *)
LEMMA AlignUpFacts ==
  ASSUME NEW n \in 0..SIZE_MAX
  PROVE  /\ AlignUp(n) \in 0..SIZE_MAX
         /\ AlignUp(n) % 16 = 0
         /\ NoWrap(n) => n <= AlignUp(n)
<1> DEFINE m == SIZE_MAX + 1
           s == (n + 15) % m
<1>1. m \in Nat \ {0} /\ SIZE_MAX = m - 1 /\ n \in Nat /\ n + 15 \in Nat
  BY ArenaAssumption
<1> HIDE DEF m
<1>2. s \in 0..SIZE_MAX /\ (n + 15 < m => s = n + 15)
  BY <1>1, Remainder
<1>3. NoWrap(n) => s = n + 15
  BY <1>1, <1>2 DEF NoWrap, ALIGNMENT
<1>4. AlignUp(n) = s - (s % 16)
  <2>1. n + 16 - 1 = n + 15
    BY <1>1
  <2> QED
    BY <2>1 DEF AlignUp, ALIGNMENT, m
<1> HIDE DEF s
<1>5. s % 16 \in 0..15 /\ s % 16 <= s /\ (s - (s % 16)) % 16 = 0
  BY <1>1, <1>2
<1> QED
  BY <1>1, <1>2, <1>3, <1>4, <1>5

(* The header takes two granules.                                          *)
LEMMA HeaderSize == BLOCK_SIZE = 32
<1>1. 24 \in 0..SIZE_MAX /\ 39 < SIZE_MAX + 1 /\ SIZE_MAX + 1 \in Nat
  BY ArenaAssumption
<1>2. 39 % (SIZE_MAX + 1) = 39
  BY <1>1
<1>3. 24 + 16 - 1 = 39 /\ 39 - (39 % 16) = 32
  OBVIOUS
<1> QED
  BY <1>2, <1>3 DEF BLOCK_SIZE, AlignUp, ALIGNMENT, SIZEOF_BLOCK

-----------------------------------------------------------------------------
(* The list.                                                               *)

(* What Inv says of one block.                                             *)
LEMMA BlockFacts ==
  ASSUME Inv, NEW h \in Header
  PROVE  /\ h \in 0..HEAP_SIZE /\ h % 16 = 0
         /\ blocks[h] \in BlockType
         /\ blocks[h].size \in Nat /\ blocks[h].free \in BOOLEAN
         /\ EndOf(h) = h + 32 + blocks[h].size
         /\ EndOf(h) \in Nat /\ EndOf(h) <= HEAP_SIZE
         /\ \/ EndOf(h) = HEAP_SIZE /\ blocks[h].next = NULL
            \/ /\ EndOf(h) \in Header /\ blocks[h].next = EndOf(h)
               /\ EndOf(h) < HEAP_SIZE /\ blocks[h].next # NULL
<1>1. /\ h \in 0..HEAP_SIZE /\ h % 16 = 0
      /\ blocks[h] \in BlockType /\ HEAP_SIZE \in Nat /\ NULL \notin Int
  BY ArenaAssumption DEF Inv, TypeOK, Tiling, ALIGNMENT
<1>2. blocks[h].size \in Nat /\ blocks[h].free \in BOOLEAN
  BY <1>1 DEF BlockType
<1>3. EndOf(h) = h + 32 + blocks[h].size
  BY HeaderSize DEF EndOf
<1>4. CASE EndOf(h) = HEAP_SIZE
  BY <1>1, <1>2, <1>3, <1>4 DEF Inv, Tiling
<1>5. CASE EndOf(h) # HEAP_SIZE
  <2>1. blocks[h].next = EndOf(h) /\ EndOf(h) \in Header
    BY <1>5 DEF Inv, Tiling
  <2>2. EndOf(h) \in 0..HEAP_SIZE
    BY <2>1 DEF Inv, TypeOK
  <2> QED
    BY <1>1, <1>2, <1>3, <1>5, <2>1, <2>2
<1> QED
  BY <1>4, <1>5

(* Splitting a block keeps the tiling and moves no header.                 *)
LEMMA SplitKeepsTiling ==
  ASSUME Inv, NEW c \in Header, NEW n \in Nat, n % 16 = 0,
         CanSplit(blocks[c], n), blocks' = SplitAt(c, n)
  PROVE  LET rest == c + 32 + n
         IN  /\ rest \in 0..HEAP_SIZE /\ rest \notin Header /\ rest # c
             /\ Header' = Header \cup {rest}
             /\ blocks'[c] = [size |-> n, free |-> FALSE, next |-> rest]
             /\ blocks'[rest] = [size |-> blocks[c].size - n - 32,
                                 free |-> TRUE, next |-> blocks[c].next]
             /\ \A h \in Header \ {c} : blocks'[h] = blocks[h]
             /\ blocks' \in [Header' -> BlockType]
             /\ Header' \subseteq 0..HEAP_SIZE
             /\ Tiling' /\ Disjoint'
<1> DEFINE rest == c + 32 + n
           r == blocks[c].size - n - 32
<1>1. /\ c \in Nat /\ c % 16 = 0 /\ blocks[c].size \in Nat
      /\ EndOf(c) = c + 32 + blocks[c].size /\ EndOf(c) <= HEAP_SIZE
      /\ HEAP_SIZE \in Nat
      /\ \/ EndOf(c) = HEAP_SIZE /\ blocks[c].next = NULL
         \/ EndOf(c) \in Header /\ blocks[c].next = EndOf(c)
  BY BlockFacts, ArenaAssumption
<1>2. r \in Nat /\ r >= 16 /\ rest \in Nat /\ c < rest
      /\ rest + 32 + r = EndOf(c) /\ rest % 16 = 0
  BY <1>1, HeaderSize DEF CanSplit, ALIGNMENT
<1>3. rest \notin Header
  <2>1. \A h \in Header : c < h => EndOf(c) <= h
    BY DEF Inv, Disjoint
  <2> QED
    BY <1>1, <1>2, <2>1
<1>4. /\ Header' = Header \cup {rest}
      /\ blocks' = [h \in Header \cup {rest} |->
           CASE h = c    -> [size |-> n, free |-> FALSE, next |-> rest]
             [] h = rest -> [size |-> r, free |-> TRUE,
                             next |-> blocks[c].next]
             [] OTHER    -> blocks[h]]
  BY HeaderSize DEF SplitAt, Header
<1>5. /\ blocks'[c] = [size |-> n, free |-> FALSE, next |-> rest]
      /\ blocks'[rest] = [size |-> r, free |-> TRUE, next |-> blocks[c].next]
      /\ \A h \in Header \ {c} : blocks'[h] = blocks[h]
  BY <1>1, <1>2, <1>3, <1>4
<1> HIDE DEF rest, r
<1>6. /\ Header \subseteq 0..HEAP_SIZE /\ Header' \subseteq 0..HEAP_SIZE
      /\ rest \in 0..HEAP_SIZE /\ n \in 0..HEAP_SIZE /\ r \in 0..HEAP_SIZE
  BY <1>1, <1>2, <1>4 DEF Inv, TypeOK, rest
<1>7. \A h \in Header' : blocks'[h] \in BlockType
  <2> SUFFICES ASSUME NEW h \in Header' PROVE blocks'[h] \in BlockType
    OBVIOUS
  <2>1. CASE h = c
    BY <2>1, <1>5, <1>6 DEF BlockType
  <2>2. CASE h = rest
    BY <2>2, <1>1, <1>5, <1>6 DEF BlockType
  <2>3. CASE h # c /\ h # rest
    BY <2>3, <1>4, <1>5 DEF Inv, TypeOK
  <2> QED
    BY <2>1, <2>2, <2>3
<1>8. \A h \in Header' :
         /\ h = c => EndOf(h)' = rest
         /\ h = rest => EndOf(h)' = EndOf(c)
         /\ h # c /\ h # rest => EndOf(h)' = EndOf(h)
  BY <1>1, <1>2, <1>3, <1>4, <1>5, HeaderSize DEF EndOf, rest
<1>9. Tiling'
  <2>1. free_list \in Header'
    BY <1>4 DEF Inv, Tiling
  <2>2. ASSUME NEW h \in Header'
        PROVE  /\ h % 16 = 0
               /\ IF EndOf(h)' = HEAP_SIZE
                  THEN blocks'[h].next = NULL
                  ELSE blocks'[h].next = EndOf(h)' /\ EndOf(h)' \in Header'
    <3>1. CASE h = c
      BY <3>1, <1>1, <1>2, <1>4, <1>5, <1>8
    <3>2. CASE h = rest
      <4>1. IF EndOf(c) = HEAP_SIZE
            THEN blocks[c].next = NULL
            ELSE blocks[c].next = EndOf(c) /\ EndOf(c) \in Header
        BY DEF Inv, Tiling
      <4> QED
        BY <3>2, <4>1, <1>2, <1>4, <1>5, <1>8
    <3>3. CASE h # c /\ h # rest
      <4>1. h \in Header \ {c}
        BY <3>3, <1>4
      <4> QED
        BY <4>1, <1>4, <1>5, <1>8 DEF Inv, Tiling, ALIGNMENT
    <3> QED
      BY <3>1, <3>2, <3>3
  <2> QED
    BY <2>1, <2>2 DEF Tiling, ALIGNMENT
<1>10. Disjoint'
  <2> SUFFICES ASSUME NEW g \in Header', NEW h \in Header', g < h
               PROVE  EndOf(g)' <= h
    BY DEF Disjoint
  <2>1. \A x, y \in Header : x < y => EndOf(x) <= y
    BY DEF Inv, Disjoint
  <2>2. \A x \in Header : x \in Nat /\ EndOf(x) \in Nat /\ x < EndOf(x)
    BY BlockFacts
  <2>3. g \in Header \cup {rest} /\ h \in Header \cup {rest}
    BY <1>4
  <2>8. /\ EndOf(c) \in Nat /\ rest \in Nat /\ c < rest /\ rest < EndOf(c)
        /\ \A x \in Header : c < x => EndOf(c) <= x
    BY <2>1, <2>2, <1>1, <1>2
  <2>4. CASE g = c
    <3>1. EndOf(g)' = rest
      BY <2>4, <1>8
    <3>2. h = rest \/ (EndOf(c) <= h /\ h \in Nat)
      BY <2>2, <2>3, <2>4, <2>8
    <3> QED
      BY <3>1, <3>2, <2>8
  <2>5. CASE g = rest
    <3>1. EndOf(g)' = EndOf(c)
      BY <2>5, <1>8
    <3>2. rest < h
      BY <2>5
    <3>3. h \in Header
      BY <2>3, <2>8, <3>2
    <3>4. h \in Nat /\ c < h
      BY <2>2, <2>8, <3>2, <3>3, <1>1
    <3> QED
      BY <3>1, <3>3, <3>4, <2>8
  <2>6. CASE g # c /\ g # rest /\ h = rest
    BY <2>1, <2>2, <2>3, <2>6, <1>1, <1>2, <1>8
  <2>7. CASE g # c /\ g # rest /\ h # rest
    BY <2>1, <2>3, <2>7, <1>8
  <2> QED
    BY <2>4, <2>5, <2>6, <2>7
<1>11. blocks' \in [Header' -> BlockType]
  BY <1>4, <1>7
<1> QED
  BY <1>2, <1>3, <1>4, <1>5, <1>6, <1>9, <1>10, <1>11 DEF rest, r

(* Merging a block with its successor keeps the tiling, and no header but  *)
(* the successor's disappears.                                             *)
LEMMA MergeKeepsTiling ==
  ASSUME Inv, NEW i \in Header, blocks[i].next # NULL, Mergeable(i),
         blocks' = MergeAt(i)
  PROVE  LET j == blocks[i].next
         IN  /\ j \in Header /\ i < j /\ j = EndOf(i)
             /\ blocks[i].free /\ blocks[j].free
             /\ Header' = Header \ {j}
             /\ blocks'[i] = [size |-> blocks[i].size + 32 + blocks[j].size,
                              free |-> TRUE, next |-> blocks[j].next]
             /\ \A h \in Header' \ {i} : blocks'[h] = blocks[h]
             /\ blocks' \in [Header' -> BlockType]
             /\ Tiling' /\ Disjoint'
<1> DEFINE j == blocks[i].next
           s == blocks[i].size + 32 + blocks[j].size
<1>1. /\ j \in Header /\ j = EndOf(i)
      /\ i \in Nat /\ EndOf(i) = i + 32 + blocks[i].size
      /\ blocks[i].size \in Nat /\ i < j
      /\ blocks[i].free = TRUE /\ blocks[j].free
  BY BlockFacts DEF Mergeable
<1>2. /\ j \in Nat /\ EndOf(j) = j + 32 + blocks[j].size
      /\ blocks[j].size \in Nat /\ EndOf(j) <= HEAP_SIZE /\ HEAP_SIZE \in Nat
      /\ j < EndOf(j) /\ blocks[j].next \in 0..HEAP_SIZE \cup {NULL}
      /\ \/ EndOf(j) = HEAP_SIZE /\ blocks[j].next = NULL
         \/ EndOf(j) \in Header /\ blocks[j].next = EndOf(j)
  BY <1>1, BlockFacts, ArenaAssumption DEF BlockType
<1>3. /\ Header' = Header \ {j} /\ i \in Header'
      /\ blocks' = [h \in Header \ {j} |->
           IF h = i THEN [size |-> s, free |-> blocks[i].free,
                          next |-> blocks[j].next]
                    ELSE blocks[h]]
  BY <1>1, HeaderSize DEF MergeAt, Header
<1>4. /\ blocks'[i] = [size |-> s, free |-> TRUE, next |-> blocks[j].next]
      /\ \A h \in Header' \ {i} : blocks'[h] = blocks[h]
  BY <1>1, <1>3
<1>5. s \in 0..HEAP_SIZE /\ i + 32 + s = EndOf(j)
  BY <1>1, <1>2
<1> HIDE DEF j, s
<1>6. blocks' \in [Header' -> BlockType]
  <2>1. blocks'[i] \in BlockType
    BY <1>2, <1>4, <1>5 DEF BlockType
  <2>2. \A h \in Header' \ {i} : blocks'[h] \in BlockType
    BY <1>3, <1>4 DEF Inv, TypeOK
  <2> QED
    BY <2>1, <2>2, <1>3
<1>7. \A h \in Header' :
         /\ h = i => EndOf(h)' = EndOf(j)
         /\ h # i => EndOf(h)' = EndOf(h)
  BY <1>3, <1>4, <1>5, HeaderSize DEF EndOf
<1>8. /\ \A x \in Header : x \in Nat /\ EndOf(x) \in Nat /\ x < EndOf(x)
      /\ \A x, y \in Header : x < y => EndOf(x) <= y
  BY BlockFacts DEF Inv, Disjoint
<1>9. \A h \in Header' : h # i => EndOf(h) # j
  <2> SUFFICES ASSUME NEW h \in Header', h # i PROVE EndOf(h) # j
    OBVIOUS
  <2>1. h \in Header /\ h # j /\ h \in Nat
    BY <1>3, <1>8
  <2>2. CASE h < i
    <3>1. EndOf(h) <= i /\ EndOf(h) \in Nat
      BY <2>1, <2>2, <1>8
    <3> QED
      BY <3>1, <1>1, <1>2
  <2>3. CASE h > i
    <3>1. j <= h /\ h < EndOf(h) /\ EndOf(h) \in Nat
      BY <2>1, <2>3, <1>1, <1>8
    <3> QED
      BY <3>1, <2>1, <1>2
  <2> QED
    BY <2>1, <2>2, <2>3, <1>1
<1>10. Tiling'
  <2>1. free_list \in Header'
    <3>1. free_list \in Header /\ 0 # j
      BY <1>1, <1>2 DEF Inv, Tiling
    <3> QED
      BY <3>1, <1>3 DEF free_list
  <2>2. ASSUME NEW h \in Header'
        PROVE  /\ h % 16 = 0
               /\ IF EndOf(h)' = HEAP_SIZE
                  THEN blocks'[h].next = NULL
                  ELSE blocks'[h].next = EndOf(h)' /\ EndOf(h)' \in Header'
    <3>1. h \in Header /\ h % 16 = 0
      BY <1>3, BlockFacts
    <3>2. CASE h = i
      <4>1. IF EndOf(j) = HEAP_SIZE
            THEN blocks[j].next = NULL
            ELSE blocks[j].next = EndOf(j) /\ EndOf(j) \in Header
        BY <1>1 DEF Inv, Tiling
      <4>2. EndOf(h)' = EndOf(j) /\ blocks'[h].next = blocks[j].next
        BY <3>2, <1>4, <1>7
      <4>3. EndOf(j) # j
        BY <1>2
      <4> QED
        BY <3>1, <4>1, <4>2, <4>3, <1>3
    <3>3. CASE h # i
      <4>1. EndOf(h)' = EndOf(h) /\ blocks'[h] = blocks[h] /\ EndOf(h) # j
        BY <3>3, <1>4, <1>7, <1>9
      <4> QED
        BY <3>1, <4>1, <1>3 DEF Inv, Tiling
    <3> QED
      BY <3>2, <3>3
  <2> QED
    BY <2>1, <2>2 DEF Tiling, ALIGNMENT
<1>11. Disjoint'
  <2> SUFFICES ASSUME NEW g \in Header', NEW h \in Header', g < h
               PROVE  EndOf(g)' <= h
    BY DEF Disjoint
  <2>1. g \in Header /\ h \in Header /\ h # j /\ h \in Nat
    BY <1>3, <1>8
  <2>2. CASE g = i
    <3>1. j <= h
      BY <2>1, <2>2, <1>1, <1>8
    <3>2. j < h
      BY <3>1, <2>1, <1>2
    <3>3. EndOf(j) <= h
      BY <3>2, <2>1, <1>1, <1>8
    <3> QED
      BY <3>3, <2>2, <1>7
  <2>3. CASE g # i
    BY <2>1, <2>3, <1>7, <1>8
  <2> QED
    BY <2>2, <2>3
<1> QED
  BY <1>1, <1>3, <1>4, <1>6, <1>10, <1>11 DEF j, s

(* Marking a block free or in use moves no header.                         *)
LEMMA FlagKeepsTiling ==
  ASSUME Inv, NEW c \in Header, NEW f \in BOOLEAN,
         blocks' = [blocks EXCEPT ![c].free = f]
  PROVE  /\ Header' = Header
         /\ blocks'[c] = [blocks[c] EXCEPT !.free = f]
         /\ \A h \in Header \ {c} : blocks'[h] = blocks[h]
         /\ \A h \in Header : /\ blocks'[h].size = blocks[h].size
                              /\ blocks'[h].next = blocks[h].next
         /\ blocks' \in [Header' -> BlockType]
         /\ Tiling' /\ Disjoint'
<1>1. blocks \in [Header -> BlockType]
  BY DEF Inv, TypeOK
<1>2. /\ Header' = Header
      /\ blocks'[c] = [blocks[c] EXCEPT !.free = f]
      /\ \A h \in Header \ {c} : blocks'[h] = blocks[h]
  BY <1>1 DEF Header
<1>3. \A h \in Header : /\ blocks'[h].size = blocks[h].size
                        /\ blocks'[h].next = blocks[h].next
  BY <1>1, <1>2 DEF BlockType
<1>4. \A h \in Header : EndOf(h)' = EndOf(h)
  BY <1>2, <1>3 DEF EndOf
<1>5. blocks' \in [Header' -> BlockType]
  BY <1>1, <1>2 DEF BlockType
<1>6. Tiling'
  BY <1>2, <1>3, <1>4 DEF Inv, Tiling
<1>7. Disjoint'
  BY <1>2, <1>4 DEF Inv, Disjoint
<1> QED
  BY <1>2, <1>3, <1>5, <1>6, <1>7

(* A step that does not touch the list.                                    *)
LEMMA ListUnchanged ==
  ASSUME Inv, blocks' = blocks
  PROVE  /\ Header' = Header
         /\ blocks' \in [Header' -> BlockType]
         /\ Header' \subseteq 0..HEAP_SIZE
         /\ Tiling' /\ Disjoint'
<1>1. Header' = Header
  BY DEF Header
<1>2. \A h : EndOf(h)' = EndOf(h)
  BY DEF EndOf
<1> QED
  BY <1>1, <1>2 DEF Inv, TypeOK, Tiling, Disjoint

(* The pointers in use, one by one.                                        *)
LEMMA InUseDef ==
  \A p : p \in InUse <=> \/ p \in DOMAIN live
                         \/ \E u \in Thread : pc[u] = "delete" /\ arg[u] = p
  BY DEF InUse, Pending

(* A pointer in use is that of a header that is not free.                  *)
LEMMA InUseBlock ==
  ASSUME Inv, NEW p \in InUse
  PROVE  /\ p - BLOCK_SIZE \in Header /\ ~blocks[p - BLOCK_SIZE].free
         /\ p \in Nat
<1>1. p - BLOCK_SIZE \in Header
  BY DEF Inv, Owned
<1>2. p \in 0..HEAP_SIZE \/ p \in 0..SIZE_MAX
  BY InUseDef DEF Inv, TypeOK
<1>3. p \in Nat
  BY <1>2, ArenaAssumption
<1>4. (p - BLOCK_SIZE) + BLOCK_SIZE = p
  BY <1>3, HeaderSize
<1> QED
  BY <1>1, <1>3, <1>4 DEF Inv, Owned

-----------------------------------------------------------------------------
(* The invariant is inductive.                                             *)

LEMMA InitInv == Init => Inv
<1> SUFFICES ASSUME Init PROVE Inv
  OBVIOUS
<1>1. /\ Header = {0}
      /\ blocks[0] = [size |-> HEAP_SIZE - 32, free |-> TRUE, next |-> NULL]
      /\ HEAP_SIZE \in Nat /\ HEAP_SIZE >= 48
  BY HeaderSize, ArenaAssumption DEF Init, FreshArena, Header, free_list
<1>2. EndOf(0) = HEAP_SIZE
  BY <1>1, HeaderSize DEF EndOf
<1>3. TypeOK
  <2>1. blocks \in [Header -> BlockType] /\ Header \subseteq 0..HEAP_SIZE
    BY <1>1 DEF Init, FreshArena, BlockType, Header
  <2>2. 0 \in 0..SIZE_MAX
    BY ArenaAssumption
  <2> QED
    BY <2>1, <2>2 DEF TypeOK, Init
<1>4. Tiling
  BY <1>1, <1>2 DEF Tiling, free_list, ALIGNMENT
<1>5. Disjoint
  BY <1>1 DEF Disjoint
<1>6. Locked
  BY ArenaAssumption DEF Locked, Init
<1>7. Pending = {} /\ DOMAIN live = {} /\ InUse = {}
  BY DEF Init, Pending, InUse
<1>8. Owned /\ Unique /\ Roomy /\ MergeAhead
  BY <1>1, <1>7 DEF Owned, Unique, Roomy, MergeAhead
<1> QED
  BY <1>3, <1>4, <1>5, <1>6, <1>8 DEF Inv

LEMMA CallNewInv ==
  ASSUME Inv, NEW t \in Thread, NEW n \in Request, CallNew(t, n)
  PROVE  Inv'
<1>1. /\ pc[t] = "idle" /\ pc' = [pc EXCEPT ![t] = "new"]
      /\ arg' = [arg EXCEPT ![t] = n]
      /\ UNCHANGED <<blocks, mtx, cursor, live>>
      /\ n \in 0..SIZE_MAX
  BY ArenaAssumption DEF CallNew, Goto
<1>2. /\ Header' = Header /\ blocks' \in [Header' -> BlockType]
      /\ Header' \subseteq 0..HEAP_SIZE /\ Tiling' /\ Disjoint'
  BY <1>1, ListUnchanged
<1>3. TypeOK'
  BY <1>1, <1>2 DEF Inv, TypeOK
<1>4. Locked'
  BY <1>1 DEF Inv, TypeOK, Locked
<1>5. /\ Pending' = Pending
      /\ \A u \in Pending : arg'[u] = arg[u]
  BY <1>1 DEF Inv, TypeOK, Pending
<1>6. InUse' = InUse
  BY <1>1, <1>5 DEF InUse
<1>7. Owned' /\ Unique' /\ Roomy'
  BY <1>1, <1>2, <1>5, <1>6 DEF Inv, Owned, Unique, Roomy
<1>8. MergeAhead'
  BY <1>1, <1>2 DEF Inv, TypeOK, MergeAhead
<1> QED
  BY <1>2, <1>3, <1>4, <1>7, <1>8 DEF Inv

LEMMA LockNewInv ==
  ASSUME Inv, NEW t \in Thread, LockNew(t)
  PROVE  Inv'
<1>1. /\ pc[t] = "new" /\ pc' = [pc EXCEPT ![t] = "search"]
      /\ mtx = NOBODY /\ mtx' = t
      /\ cursor' = [cursor EXCEPT ![t] = free_list]
      /\ UNCHANGED <<blocks, arg, live>>
  BY DEF LockNew, Goto, Acquire
<1>2. /\ Header' = Header /\ blocks' \in [Header' -> BlockType]
      /\ Header' \subseteq 0..HEAP_SIZE /\ Tiling' /\ Disjoint'
  BY <1>1, ListUnchanged
<1>3. TypeOK'
  BY <1>1, <1>2 DEF Inv, TypeOK, Tiling
<1>4. Locked'
  BY <1>1, ArenaAssumption DEF Inv, TypeOK, Locked
<1>5. Pending' = Pending
  BY <1>1 DEF Inv, TypeOK, Pending
<1>6. InUse' = InUse
  BY <1>1, <1>5 DEF InUse
<1>7. Owned' /\ Unique' /\ Roomy'
  BY <1>1, <1>2, <1>5, <1>6 DEF Inv, Owned, Unique, Roomy
<1>8. MergeAhead'
  BY <1>1, <1>2 DEF Inv, TypeOK, MergeAhead
<1> QED
  BY <1>2, <1>3, <1>4, <1>7, <1>8 DEF Inv

LEMMA SearchNextInv ==
  ASSUME Inv, NEW t \in Thread, SearchNext(t)
  PROVE  Inv'
<1>1. /\ pc[t] = "search" /\ cursor[t] # NULL
      /\ cursor' = [cursor EXCEPT ![t] = blocks[cursor[t]].next]
      /\ UNCHANGED <<blocks, mtx, pc, arg, live>>
  BY DEF SearchNext, Inv, TypeOK
<1>2. /\ Header' = Header /\ blocks' \in [Header' -> BlockType]
      /\ Header' \subseteq 0..HEAP_SIZE /\ Tiling' /\ Disjoint'
  BY <1>1, ListUnchanged
<1>3. cursor[t] \in Header /\ blocks[cursor[t]].next \in Header \cup {NULL}
  BY <1>1, BlockFacts DEF Inv, TypeOK
<1>4. TypeOK'
  BY <1>1, <1>2, <1>3 DEF Inv, TypeOK
<1>5. Locked'
  BY <1>1, ArenaAssumption DEF Inv, TypeOK, Locked
<1>6. Pending' = Pending /\ InUse' = InUse
  BY <1>1 DEF Pending, InUse
<1>7. Owned' /\ Unique' /\ Roomy'
  BY <1>1, <1>2, <1>6 DEF Inv, Owned, Unique, Roomy
<1>8. MergeAhead'
  BY <1>1, <1>2 DEF Inv, TypeOK, MergeAhead
<1> QED
  BY <1>2, <1>4, <1>5, <1>7, <1>8 DEF Inv

LEMMA BadAllocInv ==
  ASSUME Inv, NEW t \in Thread, BadAlloc(t)
  PROVE  Inv'
<1>1. /\ pc[t] = "search" /\ pc' = [pc EXCEPT ![t] = "idle"]
      /\ mtx' = NOBODY
      /\ arg' = [arg EXCEPT ![t] = 0]
      /\ cursor' = [cursor EXCEPT ![t] = NULL]
      /\ UNCHANGED <<blocks, live>>
      /\ 0 \in 0..SIZE_MAX
  BY ArenaAssumption DEF BadAlloc, Goto, Return
<1>2. /\ Header' = Header /\ blocks' \in [Header' -> BlockType]
      /\ Header' \subseteq 0..HEAP_SIZE /\ Tiling' /\ Disjoint'
  BY <1>1, ListUnchanged
<1>3. TypeOK'
  BY <1>1, <1>2 DEF Inv, TypeOK
<1>4. Locked'
  BY <1>1, ArenaAssumption DEF Inv, TypeOK, Locked
<1>5. Pending' = Pending /\ \A u \in Pending : arg'[u] = arg[u]
  BY <1>1 DEF Inv, TypeOK, Pending
<1>6. InUse' = InUse
  BY <1>1, <1>5 DEF InUse
<1>7. Owned' /\ Unique' /\ Roomy'
  BY <1>1, <1>2, <1>5, <1>6 DEF Inv, Owned, Unique, Roomy
<1>8. MergeAhead'
  BY <1>1, <1>2 DEF Inv, TypeOK, MergeAhead
<1> QED
  BY <1>2, <1>3, <1>4, <1>7, <1>8 DEF Inv

LEMMA CallDeleteInv ==
  ASSUME Inv, NEW t \in Thread, NEW p \in DOMAIN live, CallDelete(t, p)
  PROVE  Inv'
<1>1. /\ pc[t] = "idle" /\ pc' = [pc EXCEPT ![t] = "delete"]
      /\ arg' = [arg EXCEPT ![t] = p]
      /\ live' = [q \in DOMAIN live \ {p} |-> live[q]]
      /\ DOMAIN live' = DOMAIN live \ {p}
      /\ UNCHANGED <<blocks, mtx, cursor>>
      /\ p \in 0..SIZE_MAX
  BY ArenaAssumption DEF CallDelete, Goto, Inv, TypeOK
<1>2. /\ Header' = Header /\ blocks' \in [Header' -> BlockType]
      /\ Header' \subseteq 0..HEAP_SIZE /\ Tiling' /\ Disjoint'
  BY <1>1, ListUnchanged
<1>3. TypeOK'
  BY <1>1, <1>2 DEF Inv, TypeOK
<1>4. Locked'
  BY <1>1 DEF Inv, TypeOK, Locked
<1>5. /\ Pending' = Pending \cup {t} /\ t \notin Pending
      /\ arg'[t] = p
      /\ \A u \in Pending : arg'[u] = arg[u]
  BY <1>1 DEF Inv, TypeOK, Pending
<1>6. InUse' = InUse
  BY <1>1, <1>5 DEF InUse
<1>7. Unique'
  BY <1>1, <1>5 DEF Inv, Unique
<1>8. Owned' /\ Roomy'
  BY <1>1, <1>2, <1>6 DEF Inv, Owned, Roomy
<1>9. MergeAhead'
  BY <1>1, <1>2 DEF Inv, TypeOK, MergeAhead
<1> QED
  BY <1>2, <1>3, <1>4, <1>7, <1>8, <1>9 DEF Inv

LEMMA LockDeleteInv ==
  ASSUME Inv, NEW t \in Thread, LockDelete(t)
  PROVE  Inv'
<1> DEFINE c == arg[t] - BLOCK_SIZE
<1>1. /\ pc[t] = "delete" /\ pc' = [pc EXCEPT ![t] = "coalesce"]
      /\ mtx = NOBODY /\ mtx' = t
      /\ blocks' = [blocks EXCEPT ![c].free = TRUE]
      /\ cursor' = [cursor EXCEPT ![t] = free_list]
      /\ UNCHANGED <<arg, live>>
  BY DEF LockDelete, Goto, Acquire
<1>2. arg[t] \in InUse /\ arg[t] \in Nat /\ c \in Header
  BY <1>1, InUseDef, InUseBlock
<1>12. c + BLOCK_SIZE = arg[t]
  BY <1>2, HeaderSize
<1> HIDE DEF c
<1>3. /\ Header' = Header
      /\ blocks'[c] = [blocks[c] EXCEPT !.free = TRUE]
      /\ \A h \in Header \ {c} : blocks'[h] = blocks[h]
      /\ \A h \in Header : /\ blocks'[h].size = blocks[h].size
                           /\ blocks'[h].next = blocks[h].next
      /\ blocks' \in [Header' -> BlockType] /\ Tiling' /\ Disjoint'
  BY <1>1, <1>2, FlagKeepsTiling
<1>4. TypeOK'
  BY <1>1, <1>3 DEF Inv, TypeOK, Tiling
<1>5. Locked'
  BY <1>1, ArenaAssumption DEF Inv, TypeOK, Locked, free_list
<1>6. /\ Pending' = Pending \ {t} /\ t \in Pending
      /\ \A u \in Pending : arg'[u] = arg[u]
  BY <1>1 DEF Inv, TypeOK, Pending
<1>7. InUse' = InUse \ {arg[t]}
  BY <1>1, <1>6 DEF Inv, Unique, InUse
<1>8. Unique'
  BY <1>1, <1>6 DEF Inv, Unique
<1>9. Owned'
  <2> SUFFICES ASSUME NEW h \in Header
               PROVE  ~blocks'[h].free <=> h + BLOCK_SIZE \in InUse'
    BY <1>3, <1>7 DEF Inv, Owned
  <2>1. CASE h = c
    <3>1. blocks[c] \in BlockType
      BY <1>2 DEF Inv, TypeOK
    <3>2. blocks'[c].free
      BY <3>1, <1>3 DEF BlockType
    <3> QED
      BY <2>1, <3>2, <1>12, <1>7
  <2>2. CASE h # c
    <3>1. h + BLOCK_SIZE # arg[t]
      <4>1. h \in Nat
        BY BlockFacts
      <4>2. c \in Nat
        BY <1>2, ArenaAssumption DEF Inv, TypeOK
      <4> QED
        BY <4>1, <4>2, <2>2, <1>12, HeaderSize
    <3>2. blocks'[h] = blocks[h]
      BY <2>2, <1>3
    <3> QED
      BY <3>1, <3>2, <1>7 DEF Inv, Owned
  <2> QED
    BY <2>1, <2>2
<1>10. Roomy'
  <2>1. \A p \in DOMAIN live : p - BLOCK_SIZE \in Header
    BY InUseDef, InUseBlock
  <2> QED
    BY <2>1, <1>1, <1>3 DEF Inv, Roomy
<1>11. MergeAhead'
  <2>1. \A h \in Header : 0 <= h
    BY BlockFacts
  <2>2. pc'[t] = "coalesce" /\ cursor'[t] = 0
    BY <1>1 DEF Inv, TypeOK, free_list
  <2> QED
    BY <2>1, <2>2, <1>3 DEF MergeAhead
<1> QED
  BY <1>3, <1>4, <1>5, <1>8, <1>9, <1>10, <1>11 DEF Inv

(* The thread that coalesces is alone in it.                               *)
LEMMA Coalescing ==
  ASSUME Inv, NEW t \in Thread, pc[t] = "coalesce"
  PROVE  /\ mtx = t /\ cursor[t] \in Header
         /\ \A u \in Thread : pc[u] \in {"search", "coalesce"} => u = t
         /\ \A h \in Header :
              /\ blocks[h].free
              /\ blocks[h].next # NULL
              /\ blocks[blocks[h].next].free
              => cursor[t] <= h
<1>1. mtx = t /\ cursor[t] \in Header
  BY DEF Inv, TypeOK, Locked
<1>2. \A u \in Thread : pc[u] \in {"search", "coalesce"} => u = t
  BY <1>1 DEF Inv, Locked
<1> QED
  BY <1>1, <1>2 DEF Inv, MergeAhead

LEMMA CoalesceNextInv ==
  ASSUME Inv, NEW t \in Thread, CoalesceNext(t)
  PROVE  Inv'
<1> DEFINE i == cursor[t]
<1>1. /\ pc[t] = "coalesce"
      /\ blocks[i].next # NULL /\ ~Mergeable(i)
      /\ cursor' = [cursor EXCEPT ![t] = blocks[i].next]
      /\ UNCHANGED <<blocks, mtx, pc, arg, live>>
  BY DEF CoalesceNext, Iterating, MoreToMerge
<1>2. /\ Header' = Header /\ blocks' \in [Header' -> BlockType]
      /\ Header' \subseteq 0..HEAP_SIZE /\ Tiling' /\ Disjoint'
  BY <1>1, ListUnchanged
<1>3. /\ i \in Header /\ blocks[i].next \in Header
      /\ blocks[i].next = EndOf(i)
  BY <1>1, Coalescing, BlockFacts
<1>4. TypeOK'
  BY <1>1, <1>2, <1>3 DEF Inv, TypeOK
<1>5. Locked'
  BY <1>1, ArenaAssumption DEF Inv, TypeOK, Locked
<1>6. Pending' = Pending /\ InUse' = InUse
  BY <1>1 DEF Pending, InUse
<1>7. Owned' /\ Unique' /\ Roomy'
  BY <1>1, <1>2, <1>6 DEF Inv, Owned, Unique, Roomy
<1>8. MergeAhead'
  <2> SUFFICES ASSUME NEW h \in Header, blocks[h].free,
                      blocks[h].next # NULL, blocks[blocks[h].next].free
               PROVE  cursor'[t] <= h
    BY <1>1, <1>2 DEF MergeAhead
  <2>1. i <= h
    BY <1>1, Coalescing
  <2>2. i # h
    BY <1>1 DEF Mergeable
  <2>3. i < h
    <3>1. i \in Nat /\ h \in Nat
      BY <1>3, BlockFacts
    <3> QED
      BY <3>1, <2>1, <2>2
  <2>4. EndOf(i) <= h
    BY <2>3, <1>3 DEF Inv, Disjoint
  <2>5. cursor'[t] = EndOf(i)
    BY <1>1, <1>3 DEF Inv, TypeOK
  <2> QED
    BY <2>4, <2>5
<1> QED
  BY <1>2, <1>4, <1>5, <1>7, <1>8 DEF Inv

LEMMA ReturnDeleteInv ==
  ASSUME Inv, NEW t \in Thread, ReturnDelete(t)
  PROVE  Inv'
<1> DEFINE c == cursor[t]
<1>1. /\ pc[t] = "coalesce" /\ pc' = [pc EXCEPT ![t] = "idle"]
      /\ blocks[c].next = NULL
      /\ mtx' = NOBODY
      /\ arg' = [arg EXCEPT ![t] = 0]
      /\ cursor' = [cursor EXCEPT ![t] = NULL]
      /\ UNCHANGED <<blocks, live>>
      /\ 0 \in 0..SIZE_MAX
  BY ArenaAssumption, Coalescing
  DEF ReturnDelete, Goto, Return, MoreToMerge, Inv, Locked
<1>2. /\ Header' = Header /\ blocks' \in [Header' -> BlockType]
      /\ Header' \subseteq 0..HEAP_SIZE /\ Tiling' /\ Disjoint'
  BY <1>1, ListUnchanged
<1>3. c \in Header /\ EndOf(c) = HEAP_SIZE
  BY <1>1, Coalescing, BlockFacts
<1>4. TypeOK'
  BY <1>1, <1>2 DEF Inv, TypeOK
<1>5. Locked'
  BY <1>1, ArenaAssumption DEF Inv, TypeOK, Locked
<1>6. Pending' = Pending /\ \A u \in Pending : arg'[u] = arg[u]
  BY <1>1 DEF Inv, TypeOK, Pending
<1>7. InUse' = InUse
  BY <1>1, <1>6 DEF InUse
<1>8. Owned' /\ Unique' /\ Roomy'
  BY <1>1, <1>2, <1>6, <1>7 DEF Inv, Owned, Unique, Roomy
<1>9. MergeAhead'
  <2> SUFFICES ASSUME NEW h \in Header, blocks[h].free,
                      blocks[h].next # NULL, blocks[blocks[h].next].free
               PROVE  FALSE
    BY <1>1, <1>2 DEF MergeAhead
  <2>1. c <= h /\ c # h /\ c \in Nat /\ h \in Nat
    BY <1>1, <1>3, Coalescing, BlockFacts
  <2>2. EndOf(c) <= h
    BY <2>1, <1>3 DEF Inv, Disjoint
  <2>3. h < EndOf(h) /\ EndOf(h) <= HEAP_SIZE /\ EndOf(h) \in Nat
    BY BlockFacts
  <2> QED
    BY <2>1, <2>2, <2>3, <1>3, ArenaAssumption
<1> QED
  BY <1>2, <1>4, <1>5, <1>8, <1>9 DEF Inv

LEMMA MergeInv ==
  ASSUME Inv, NEW t \in Thread, Merge(t)
  PROVE  Inv'
<1> DEFINE i == cursor[t]
           j == blocks[i].next
<1>1. /\ pc[t] = "coalesce" /\ j # NULL /\ Mergeable(i)
      /\ blocks' = MergeAt(i)
      /\ UNCHANGED <<mtx, pc, arg, cursor, live>>
  BY DEF Merge, Iterating, MoreToMerge
<1>2. i \in Header
  BY <1>1, Coalescing
<1>3. /\ j \in Header /\ i < j /\ blocks[i].free /\ blocks[j].free
      /\ Header' = Header \ {j}
      /\ blocks'[i] = [size |-> blocks[i].size + 32 + blocks[j].size,
                       free |-> TRUE, next |-> blocks[j].next]
      /\ \A h \in Header' \ {i} : blocks'[h] = blocks[h]
      /\ blocks' \in [Header' -> BlockType] /\ Tiling' /\ Disjoint'
      /\ j = EndOf(i) /\ i \in Nat /\ j \in Nat
  BY <1>1, <1>2, MergeKeepsTiling, BlockFacts
<1> HIDE DEF i, j
<1>4. TypeOK'
  <2>1. \A u \in Thread : cursor[u] \in Header' \cup {NULL}
    <3>1. \A u \in Thread : u # t => cursor[u] = NULL
      BY <1>1, Coalescing DEF Inv, Locked
    <3>2. cursor[t] \in Header'
      BY <1>2, <1>3 DEF i
    <3> QED
      BY <3>1, <3>2
  <2> QED
    BY <2>1, <1>1, <1>3 DEF Inv, TypeOK
<1>5. Locked'
  BY <1>1 DEF Inv, Locked
<1>6. Pending' = Pending /\ InUse' = InUse
  BY <1>1 DEF Pending, InUse
<1>7. \A p \in InUse : /\ p - BLOCK_SIZE \in Header' \ {i}
                       /\ p - BLOCK_SIZE # j
  BY InUseBlock, <1>3
<1>8. Owned'
  <2>1. \A h \in Header' : ~blocks'[h].free <=> h + BLOCK_SIZE \in InUse
    <3> SUFFICES ASSUME NEW h \in Header'
                 PROVE  ~blocks'[h].free <=> h + BLOCK_SIZE \in InUse
      OBVIOUS
    <3>1. h \in Header /\ (blocks'[h].free <=> blocks[h].free)
      BY <1>3
    <3> QED
      BY <3>1 DEF Inv, Owned
  <2> QED
    BY <2>1, <1>6, <1>7 DEF Owned
<1>9. Unique'
  BY <1>1, <1>6 DEF Inv, Unique
<1>10. Roomy'
  <2>1. \A p \in DOMAIN live : p - BLOCK_SIZE \in Header' \ {i}
    BY <1>7, InUseDef
  <2> QED
    BY <2>1, <1>1, <1>3 DEF Inv, Roomy
<1>11. MergeAhead'
  <2> SUFFICES ASSUME NEW h \in Header', blocks'[h].free,
                      blocks'[h].next # NULL, blocks'[blocks'[h].next].free,
                      ~(i <= h)
               PROVE  FALSE
    BY <1>1 DEF MergeAhead, i
  <2>1. h \in Header /\ h # i /\ blocks'[h] = blocks[h] /\ h \in Nat
    BY <1>3, BlockFacts
  <2>2. blocks[h].next \in Header'
    BY <2>1, <1>3, BlockFacts DEF Tiling
  <2>3. blocks[blocks[h].next].free
    BY <2>1, <2>2, <1>3
  <2>4. i <= h
    BY <1>1, <2>1, <2>3, Coalescing DEF i
  <2> QED
    BY <2>4
<1> QED
  BY <1>3, <1>4, <1>5, <1>8, <1>9, <1>10, <1>11 DEF Inv

(* While a thread searches nobody coalesces, so no two free blocks meet.   *)
LEMMA Searching ==
  ASSUME Inv, NEW t \in Thread, pc[t] = "search"
  PROVE  /\ mtx = t
         /\ \A u \in Thread : pc[u] = "coalesce" => FALSE
         /\ \A u \in Thread : u # t => cursor[u] = NULL
         /\ \A h \in Header :
              blocks[h].free /\ blocks[h].next # NULL
                => ~blocks[blocks[h].next].free
<1>1. mtx = t
  BY DEF Inv, Locked
<1>2. \A u \in Thread : pc[u] = "coalesce" => FALSE
  BY <1>1 DEF Inv, Locked
<1>3. \A u \in Thread : u # t => cursor[u] = NULL
  BY <1>1 DEF Inv, Locked
<1> QED
  BY <1>1, <1>2, <1>3 DEF Inv, MergeAhead

(* What taking a block does to the bookkeeping, whether it was split or    *)
(* not: block c is no longer free and has at least n bytes, a rest behind  *)
(* it may be a new, free block, and all other blocks are as before.        *)
LEMMA TakenInv ==
  ASSUME Inv, NEW t \in Thread, pc[t] = "search",
         NEW c \in Header, blocks[c].free,
         pc' = [pc EXCEPT ![t] = "idle"],
         mtx' = NOBODY,
         arg' = [arg EXCEPT ![t] = 0],
         cursor' = [cursor EXCEPT ![t] = NULL],
         live' = [p \in DOMAIN live \cup {c + BLOCK_SIZE} |->
                    IF p = c + BLOCK_SIZE THEN arg[t] ELSE live[p]],
         Header' \subseteq 0..HEAP_SIZE,
         blocks' \in [Header' -> BlockType], Tiling', Disjoint',
         Header \subseteq Header',
         ~blocks'[c].free, blocks'[c].size >= AlignUp(arg[t]),
         \A h \in Header \ {c} : blocks'[h] = blocks[h],
         \A h \in Header' \ Header : blocks'[h].free,
         \A h \in Header' : blocks'[h].free /\ blocks'[h].next # NULL
                              => ~blocks'[blocks'[h].next].free
  PROVE  Inv'
<1> DEFINE p == c + BLOCK_SIZE
<1>1. /\ c \in 0..HEAP_SIZE /\ p \in Nat /\ p - BLOCK_SIZE = c
      /\ p = c + 32 /\ p <= HEAP_SIZE
  BY HeaderSize, BlockFacts, ArenaAssumption
<1>2. /\ DOMAIN live' = DOMAIN live \cup {p} /\ live'[p] = arg[t]
      /\ \A q \in DOMAIN live \ {p} : live'[q] = live[q]
  OBVIOUS
<1> HIDE DEF p
<1>3. p \notin InUse
  BY <1>1, InUseBlock
<1>4. TypeOK'
  <2>1. arg[t] \in 0..SIZE_MAX /\ 0 \in 0..SIZE_MAX /\ p \in 0..HEAP_SIZE
    BY <1>1, ArenaAssumption DEF Inv, TypeOK
  <2>2. /\ live' \in [DOMAIN live' -> 0..SIZE_MAX]
        /\ DOMAIN live' \subseteq 0..HEAP_SIZE
    BY <1>2, <2>1 DEF Inv, TypeOK, p
  <2> QED
    BY <2>1, <2>2 DEF Inv, TypeOK
<1>5. Locked'
  BY Searching, ArenaAssumption DEF Inv, TypeOK, Locked
<1>6. /\ Pending' = Pending /\ t \notin Pending
      /\ \A u \in Pending : arg'[u] = arg[u]
  BY DEF Inv, TypeOK, Pending
<1>7. InUse' = InUse \cup {p}
  BY <1>2, <1>6 DEF InUse
<1>8. Unique'
  <2>1. \A u \in Pending : arg[u] # p
    BY <1>3, InUseDef DEF Pending
  <2> QED
    BY <2>1, <1>2, <1>6 DEF Inv, Unique
<1>9. Owned'
  <2>1. ASSUME NEW h \in Header'
        PROVE  ~blocks'[h].free <=> h + BLOCK_SIZE \in InUse'
    <3>1. h \in Nat /\ (h + BLOCK_SIZE = p => h = c)
          /\ (h + BLOCK_SIZE) - BLOCK_SIZE = h
      BY <1>1, HeaderSize, ArenaAssumption DEF p
    <3>2. CASE h = c
      BY <3>2, <1>7 DEF p
    <3>3. CASE h # c /\ h \in Header
      BY <3>1, <3>3, <1>7 DEF Inv, Owned
    <3>4. CASE h \notin Header
      <4>1. h + BLOCK_SIZE \notin InUse
        BY <3>1, <3>4 DEF Inv, Owned
      <4> QED
        BY <3>1, <3>4, <4>1, <1>7
    <3> QED
      BY <3>2, <3>3, <3>4
  <2>2. \A q \in InUse' : q - BLOCK_SIZE \in Header'
    BY <1>1, <1>7 DEF Inv, Owned
  <2> QED
    BY <2>1, <2>2 DEF Owned
<1>10. Roomy'
  <2>1. ASSUME NEW q \in DOMAIN live'
        PROVE  AlignUp(live'[q]) <= blocks'[q - BLOCK_SIZE].size
    <3>1. CASE q = p
      <4>1. AlignUp(arg[t]) \in Nat /\ blocks'[c].size \in Nat
        BY AlignUpFacts, ArenaAssumption DEF Inv, TypeOK, BlockType
      <4> QED
        BY <3>1, <4>1, <1>1, <1>2
    <3>2. CASE q # p
      <4>1. q \in DOMAIN live /\ q \in InUse /\ q \in Nat
        BY <3>2, <1>2, InUseDef, InUseBlock
      <4>2. q - BLOCK_SIZE \in Header /\ q - BLOCK_SIZE # c
        BY <4>1, <3>2, <1>1, InUseBlock, HeaderSize
      <4> QED
        BY <3>2, <4>1, <4>2, <1>2 DEF Inv, Roomy
    <3> QED
      BY <3>1, <3>2
  <2> QED
    BY <2>1 DEF Roomy
<1>11. MergeAhead'
  BY DEF MergeAhead
<1> QED
  BY <1>4, <1>5, <1>8, <1>9, <1>10, <1>11 DEF Inv

LEMMA TakeInv ==
  ASSUME Inv, NEW t \in Thread, Take(t)
  PROVE  Inv'
<1> DEFINE c == cursor[t]
           n == Size(t)
<1>1. /\ pc[t] = "search" /\ pc' = [pc EXCEPT ![t] = "idle"]
      /\ c # NULL /\ Fits(blocks[c], n)
      /\ live' = [p \in DOMAIN live \cup {c + BLOCK_SIZE} |->
                    IF p = c + BLOCK_SIZE THEN arg[t] ELSE live[p]]
      /\ mtx' = NOBODY
      /\ arg' = [arg EXCEPT ![t] = 0]
      /\ cursor' = [cursor EXCEPT ![t] = NULL]
  BY DEF Take, Goto, Return
<1>2. \/ CanSplit(blocks[c], n) /\ blocks' = SplitAt(c, n)
      \/ blocks' = TakeAll(c)
  BY DEF Take
<1>3. /\ c \in Header /\ blocks[c] \in BlockType /\ blocks[c].free
      /\ blocks[c].size >= n
  BY <1>1, BlockFacts DEF Inv, TypeOK, Fits
<1>4. n \in Nat /\ n % 16 = 0 /\ n = AlignUp(arg[t])
  BY AlignUpFacts, ArenaAssumption DEF Size, Inv, TypeOK
<1>5. \A h \in Header :
         blocks[h].free /\ blocks[h].next # NULL
           => ~blocks[blocks[h].next].free
  BY <1>1, Searching
<1> HIDE DEF c, n
<1>6. CASE CanSplit(blocks[c], n) /\ blocks' = SplitAt(c, n)
  <2> DEFINE rest == c + 32 + n
  <2>1. /\ rest \notin Header
        /\ Header' = Header \cup {rest}
        /\ blocks'[c] = [size |-> n, free |-> FALSE, next |-> rest]
        /\ blocks'[rest] = [size |-> blocks[c].size - n - 32,
                            free |-> TRUE, next |-> blocks[c].next]
        /\ \A h \in Header \ {c} : blocks'[h] = blocks[h]
        /\ blocks' \in [Header' -> BlockType]
        /\ Header' \subseteq 0..HEAP_SIZE
        /\ Tiling' /\ Disjoint'
    BY <1>3, <1>4, <1>6, SplitKeepsTiling
  <2> HIDE DEF rest
  <2>2. /\ ~blocks'[c].free /\ blocks'[c].size >= n
        /\ blocks'[rest].free /\ blocks'[rest].next = blocks[c].next
    BY <2>1, <1>4
  <2>3. \A h \in Header : h # c =>
           \/ blocks[h].next = NULL
           \/ blocks[h].next \in Header
    BY BlockFacts
  <2>4. \/ blocks[c].next = NULL
        \/ /\ blocks[c].next \in Header /\ blocks[c].next # c
           /\ ~blocks[blocks[c].next].free
    <3>1. EndOf(c) # c
      BY <1>3, BlockFacts
    <3> QED
      BY <3>1, <1>3, <1>5, BlockFacts
  <2>5. ASSUME NEW h \in Header', blocks'[h].free, blocks'[h].next # NULL
        PROVE  ~blocks'[blocks'[h].next].free
    <3>1. CASE h = rest
      BY <3>1, <2>1, <2>2, <2>4, <2>5
    <3>2. CASE h # rest
      <4>1. h \in Header \ {c} /\ blocks'[h] = blocks[h]
        BY <3>2, <2>1, <2>2, <2>5
      <4>2. blocks[h].next \in Header /\ ~blocks[blocks[h].next].free
        BY <4>1, <2>3, <2>5, <1>5
      <4> QED
        BY <4>1, <4>2, <2>1, <2>2
    <3> QED
      BY <3>1, <3>2
  <2> QED
    BY <2>1, <2>2, <2>5, <1>1, <1>3, <1>4, TakenInv DEF c
<1>7. CASE blocks' = TakeAll(c)
  <2>1. blocks' = [blocks EXCEPT ![c].free = FALSE]
    BY <1>7 DEF TakeAll
  <2>2. /\ Header' = Header
        /\ blocks'[c] = [blocks[c] EXCEPT !.free = FALSE]
        /\ \A h \in Header \ {c} : blocks'[h] = blocks[h]
        /\ \A h \in Header : /\ blocks'[h].size = blocks[h].size
                             /\ blocks'[h].next = blocks[h].next
        /\ blocks' \in [Header' -> BlockType]
        /\ Tiling' /\ Disjoint'
    BY <2>1, <1>3, FlagKeepsTiling
  <2>3. ~blocks'[c].free /\ blocks'[c].size >= n
    BY <2>2, <1>3 DEF BlockType
  <2>4. ASSUME NEW h \in Header', blocks'[h].free, blocks'[h].next # NULL
        PROVE  ~blocks'[blocks'[h].next].free
    <3>1. h \in Header \ {c} /\ blocks'[h] = blocks[h]
      BY <2>2, <2>3, <2>4
    <3>2. blocks[h].next \in Header /\ ~blocks[blocks[h].next].free
      BY <3>1, <2>4, <1>5, BlockFacts
    <3> QED
      BY <3>1, <3>2, <2>2, <2>3
  <2>5. Header' \subseteq 0..HEAP_SIZE
    BY <2>2 DEF Inv, TypeOK
  <2> QED
    BY <2>2, <2>3, <2>4, <2>5, <1>1, <1>3, <1>4, TakenInv DEF c
<1> QED
  BY <1>2, <1>6, <1>7 DEF c, n

(* Every step of every thread keeps the invariant.                         *)
LEMMA NextInv == Inv /\ [Next]_vars => Inv'
<1> SUFFICES ASSUME Inv, [Next]_vars PROVE Inv'
  OBVIOUS
<1>1. CASE UNCHANGED vars
  <2>1. UNCHANGED <<blocks, mtx, pc, arg, cursor, live>>
    BY <1>1 DEF vars
  <2>2. /\ Header' = Header /\ blocks' \in [Header' -> BlockType]
        /\ Header' \subseteq 0..HEAP_SIZE /\ Tiling' /\ Disjoint'
    BY <2>1, ListUnchanged
  <2>3. Pending' = Pending /\ InUse' = InUse
    BY <2>1 DEF Pending, InUse
  <2>4. TypeOK' /\ Locked'
    BY <2>1, <2>2 DEF Inv, TypeOK, Locked
  <2>5. Owned' /\ Unique' /\ Roomy' /\ MergeAhead'
    BY <2>1, <2>2, <2>3 DEF Inv, Owned, Unique, Roomy, MergeAhead
  <2> QED
    BY <2>2, <2>4, <2>5 DEF Inv
<1>2. CASE Next
  <2> SUFFICES ASSUME NEW t \in Thread,
                      \/ \E n \in Request : CallNew(t, n)
                      \/ \E p \in DOMAIN live : CallDelete(t, p)
                      \/ Inside(t)
               PROVE  Inv'
    BY <1>2 DEF Next
  <2>1. CASE \E n \in Request : CallNew(t, n)
    BY <2>1, CallNewInv
  <2>2. CASE \E p \in DOMAIN live : CallDelete(t, p)
    BY <2>2, CallDeleteInv
  <2>3. CASE LockNew(t)
    BY <2>3, LockNewInv
  <2>4. CASE SearchNext(t)
    BY <2>4, SearchNextInv
  <2>5. CASE Take(t)
    BY <2>5, TakeInv
  <2>6. CASE BadAlloc(t)
    BY <2>6, BadAllocInv
  <2>7. CASE LockDelete(t)
    BY <2>7, LockDeleteInv
  <2>8. CASE Merge(t)
    BY <2>8, MergeInv
  <2>9. CASE CoalesceNext(t)
    BY <2>9, CoalesceNextInv
  <2>10. CASE ReturnDelete(t)
    BY <2>10, ReturnDeleteInv
  <2> QED
    BY <2>1, <2>2, <2>3, <2>4, <2>5, <2>6, <2>7, <2>8, <2>9, <2>10 DEF Inside
<1> QED
  BY <1>1, <1>2

(* The invariant holds in every reachable state.                           *)
THEOREM Invariance == Spec => []Inv
<1>1. Init => Inv
  BY InitInv
<1>2. Inv /\ [Next]_vars => Inv'
  BY NextInv
<1> QED
  BY <1>1, <1>2, PTL DEF Spec

-----------------------------------------------------------------------------
(* What follows from it.                                                   *)

(* Every variable keeps to its type.                                       *)
THEOREM TypeCorrect == Spec => []TypeOK
<1>1. Inv => TypeOK
  BY DEF Inv
<1> QED
  BY <1>1, Invariance, PTL

(* The list tiles the arena in every state, between any two steps.         *)
THEOREM TilingHolds == Spec => []Tiling
<1>1. Inv => Tiling
  BY DEF Inv
<1> QED
  BY <1>1, Invariance, PTL

(* A block is in use exactly as long as a pointer to it is.                *)
THEOREM OwnedHolds == Spec => []Owned
<1>1. Inv => Owned
  BY DEF Inv
<1> QED
  BY <1>1, Invariance, PTL

(* The bytes of two callers, and of any header, never overlap.             *)
LEMMA InvSeparate == Inv => Separate
<1> SUFFICES ASSUME Inv, NEW p \in DOMAIN live, NoWrap(live[p])
             PROVE  /\ p + live[p] <= HEAP_SIZE
                    /\ \A h \in Header :
                         h + BLOCK_SIZE <= p \/ p + live[p] <= h
                    /\ \A q \in DOMAIN live \ {p} :
                         NoWrap(live[q]) =>
                           q + live[q] <= p \/ p + live[p] <= q
  BY DEF Separate
<1>1. ASSUME NEW q \in DOMAIN live, NoWrap(live[q])
      PROVE  /\ q - 32 \in Header /\ q \in Nat /\ live[q] \in Nat
             /\ EndOf(q - 32) \in Nat /\ EndOf(q - 32) <= HEAP_SIZE
             /\ q + live[q] <= EndOf(q - 32)
  <2>1. q \in InUse /\ live[q] \in 0..SIZE_MAX
    BY InUseDef DEF Inv, TypeOK
  <2>2. q - 32 \in Header /\ q \in Nat
    BY <2>1, InUseBlock, HeaderSize
  <2>3. /\ live[q] <= AlignUp(live[q])
        /\ AlignUp(live[q]) \in Nat /\ live[q] \in Nat
    BY <1>1, <2>1, AlignUpFacts, ArenaAssumption
  <2>4. AlignUp(live[q]) <= blocks[q - 32].size
    BY HeaderSize DEF Inv, Roomy
  <2>5. /\ blocks[q - 32].size \in Nat /\ EndOf(q - 32) \in Nat
        /\ EndOf(q - 32) = (q - 32) + 32 + blocks[q - 32].size
        /\ EndOf(q - 32) <= HEAP_SIZE
    BY <2>2, BlockFacts
  <2> QED
    BY <2>2, <2>3, <2>4, <2>5
<1>2. \A g, h \in Header : g < h => EndOf(g) <= h
  BY DEF Inv, Disjoint
<1>3. \A h \in Header : h \in Nat /\ EndOf(h) \in Nat /\ h + 32 <= EndOf(h)
  <2> SUFFICES ASSUME NEW h \in Header
               PROVE  h \in Nat /\ EndOf(h) \in Nat /\ h + 32 <= EndOf(h)
    OBVIOUS
  <2>1. /\ h \in Nat /\ EndOf(h) \in Nat /\ blocks[h].size \in Nat
        /\ EndOf(h) = h + 32 + blocks[h].size
    BY BlockFacts
  <2> QED
    BY <2>1
<1>4. /\ p - 32 \in Header /\ p \in Nat /\ live[p] \in Nat
      /\ EndOf(p - 32) \in Nat /\ EndOf(p - 32) <= HEAP_SIZE
      /\ p + live[p] <= EndOf(p - 32)
  BY <1>1
<1>5. p + live[p] <= HEAP_SIZE
  BY <1>4, ArenaAssumption
<1>6. ASSUME NEW h \in Header PROVE h + BLOCK_SIZE <= p \/ p + live[p] <= h
  <2>1. CASE h <= p - 32
    BY <2>1, <1>3, <1>4, HeaderSize
  <2>2. CASE p - 32 < h
    <3>1. EndOf(p - 32) <= h
      BY <2>2, <1>2, <1>4
    <3> QED
      BY <3>1, <1>3, <1>4
  <2> QED
    BY <2>1, <2>2, <1>3, <1>4
<1>7. ASSUME NEW q \in DOMAIN live \ {p}, NoWrap(live[q])
      PROVE  q + live[q] <= p \/ p + live[p] <= q
  <2>1. /\ q - 32 \in Header /\ q \in Nat /\ live[q] \in Nat
        /\ EndOf(q - 32) \in Nat /\ q + live[q] <= EndOf(q - 32)
    BY <1>1, <1>7
  <2>2. CASE q < p
    <3>1. EndOf(q - 32) <= p - 32
      BY <2>1, <2>2, <1>2, <1>4
    <3> QED
      BY <3>1, <2>1, <1>4
  <2>3. CASE p < q
    <3>1. EndOf(p - 32) <= q - 32
      BY <2>1, <2>3, <1>2, <1>4
    <3> QED
      BY <3>1, <2>1, <1>4
  <2> QED
    BY <2>1, <2>2, <2>3, <1>4
<1> QED
  BY <1>5, <1>6, <1>7

(* No two callers ever share a byte, and no caller's byte is a header's.   *)
THEOREM SeparateHolds == Spec => []Separate
BY Invariance, InvSeparate, PTL

(* One pass of delete is enough to leave no two free neighbours.           *)
LEMMA InvCoalesced == Inv => Coalesced
<1> SUFFICES ASSUME Inv, mtx = NOBODY,
                    NEW h \in Header, blocks[h].free, blocks[h].next # NULL
             PROVE  ~blocks[blocks[h].next].free
  BY DEF Coalesced
<1>1. \A t \in Thread : pc[t] # "coalesce"
  BY ArenaAssumption DEF Inv, Locked
<1> QED
  BY <1>1 DEF Inv, MergeAhead

(* Whenever the mutex is free no two neighbours are both free.             *)
THEOREM CoalescedHolds == Spec => []Coalesced
BY Invariance, InvCoalesced, PTL

(* A list with nothing in use and no two free neighbours has one block.    *)
LEMMA InvRestored == Inv => Restored
<1> SUFFICES ASSUME Inv, InUse = {}, mtx = NOBODY
             PROVE  blocks = FreshArena
  BY DEF Restored
<1>1. \A h \in Header : blocks[h].free
  BY DEF Inv, Owned
<1>2. 0 \in Header
  BY DEF Inv, Tiling, free_list
<1>3. blocks[0].next = NULL
  <2>1. SUFFICES ASSUME blocks[0].next # NULL PROVE FALSE
    OBVIOUS
  <2>2. blocks[0].next \in Header
    BY <2>1, <1>2, BlockFacts
  <2> QED
    BY <2>1, <2>2, <1>1, <1>2, InvCoalesced DEF Coalesced
<1>4. EndOf(0) = HEAP_SIZE /\ EndOf(0) = 0 + 32 + blocks[0].size
      /\ blocks[0].size \in Nat /\ blocks[0] \in BlockType
  BY <1>2, <1>3, BlockFacts
<1>5. Header = {0}
  <2> SUFFICES ASSUME NEW h \in Header, h # 0 PROVE FALSE
    BY <1>2
  <2>1. h \in Nat /\ h < EndOf(h) /\ EndOf(h) <= HEAP_SIZE /\ EndOf(h) \in Nat
    BY BlockFacts
  <2>2. EndOf(0) <= h
    BY <2>1, <1>2 DEF Inv, Disjoint
  <2> QED
    BY <2>1, <2>2, <1>4, ArenaAssumption
<1>6. blocks[0] = [size |-> HEAP_SIZE - 32, free |-> TRUE, next |-> NULL]
  <2>1. blocks[0].size = HEAP_SIZE - 32 /\ blocks[0].free = TRUE
    BY <1>1, <1>2, <1>4, ArenaAssumption DEF BlockType
  <2> QED
    BY <2>1, <1>3, <1>4 DEF BlockType
<1>7. blocks = [h \in {0} |-> blocks[0]]
  BY <1>5 DEF Inv, TypeOK
<1> QED
  BY <1>6, <1>7, HeaderSize DEF FreshArena, free_list

(* When everything has been given back the arena is as new.                *)
THEOREM RestoredHolds == Spec => []Restored
BY Invariance, InvRestored, PTL

(* No step changes the header of a block the program holds.                *)
LEMMA StepHeldUntouched ==
  ASSUME Inv, [Next]_vars, NEW p \in DOMAIN live, p \in DOMAIN live'
  PROVE  LET h == p - BLOCK_SIZE
         IN  /\ h \in Header' /\ blocks'[h] = blocks[h]
             /\ live'[p] = live[p]
<1> DEFINE h == p - BLOCK_SIZE
<1>1. p \in InUse /\ h \in Header /\ ~blocks[h].free /\ p \in Nat
  BY InUseDef, InUseBlock
<1>2. CASE UNCHANGED <<blocks, live>>
  BY <1>1, <1>2 DEF Header
<1>3. ASSUME NEW t \in Thread, Take(t)
      PROVE  h \in Header' /\ blocks'[h] = blocks[h] /\ live'[p] = live[p]
  <2>1. /\ cursor[t] \in Header /\ blocks[cursor[t]].free
        /\ live' = [q \in DOMAIN live \cup {cursor[t] + BLOCK_SIZE} |->
                      IF q = cursor[t] + BLOCK_SIZE THEN arg[t] ELSE live[q]]
    BY <1>3, BlockFacts DEF Take, Fits, Inv, TypeOK
  <2>2. h # cursor[t] /\ cursor[t] \in Nat
    BY <2>1, <1>1, BlockFacts
  <2>3. p # cursor[t] + BLOCK_SIZE
    BY <2>2, <1>1, HeaderSize
  <2>4. live'[p] = live[p]
    BY <2>1, <2>3
  <2>5. CASE CanSplit(blocks[cursor[t]], Size(t))
             /\ blocks' = SplitAt(cursor[t], Size(t))
    <3> DEFINE c == cursor[t]
               n == Size(t)
    <3>1. n \in Nat /\ n % 16 = 0
      BY AlignUpFacts, ArenaAssumption DEF Size, Inv, TypeOK
    <3>2. c \in Header /\ CanSplit(blocks[c], n) /\ blocks' = SplitAt(c, n)
      BY <2>1, <2>5
    <3> HIDE DEF c, n
    <3>3. /\ Header \subseteq Header'
          /\ \A g \in Header \ {c} : blocks'[g] = blocks[g]
      BY <3>1, <3>2, SplitKeepsTiling
    <3> QED
      BY <3>3, <2>2, <2>4, <1>1 DEF c
  <2>6. CASE blocks' = TakeAll(cursor[t])
    BY <2>1, <2>2, <2>4, <2>6, <1>1, FlagKeepsTiling DEF TakeAll
  <2> QED
    BY <2>5, <2>6, <1>3 DEF Take
<1>4. ASSUME NEW t \in Thread, NEW q \in DOMAIN live, CallDelete(t, q)
      PROVE  h \in Header' /\ blocks'[h] = blocks[h] /\ live'[p] = live[p]
  BY <1>1, <1>4 DEF CallDelete, Header
<1>5. ASSUME NEW t \in Thread, LockDelete(t)
      PROVE  h \in Header' /\ blocks'[h] = blocks[h] /\ live'[p] = live[p]
  <2>1. /\ pc[t] = "delete" /\ live' = live
        /\ blocks' = [blocks EXCEPT ![arg[t] - BLOCK_SIZE].free = TRUE]
    BY <1>5 DEF LockDelete, Goto
  <2>2. arg[t] \in Nat /\ arg[t] - BLOCK_SIZE \in Header /\ arg[t] # p
    BY <2>1, InUseDef, InUseBlock DEF Inv, Unique, Pending
  <2>3. h # arg[t] - BLOCK_SIZE
    BY <2>2, <1>1, HeaderSize
  <2> QED
    BY <2>1, <2>2, <2>3, <1>1, FlagKeepsTiling
<1>6. ASSUME NEW t \in Thread, Merge(t)
      PROVE  h \in Header' /\ blocks'[h] = blocks[h] /\ live'[p] = live[p]
  <2>1. /\ cursor[t] \in Header /\ blocks[cursor[t]].next # NULL
        /\ Mergeable(cursor[t]) /\ blocks' = MergeAt(cursor[t])
        /\ live' = live
    BY <1>6, Coalescing DEF Merge, Iterating, MoreToMerge
  <2> QED
    BY <2>1, <1>1, MergeKeepsTiling
<1>7. CASE UNCHANGED vars
  BY <1>2, <1>7 DEF vars
<1>8. CASE Next
  BY <1>2, <1>3, <1>4, <1>5, <1>6, <1>8
  DEF Next, Inside, CallNew, LockNew, SearchNext, BadAlloc, CoalesceNext,
      ReturnDelete
<1> QED
  BY <1>7, <1>8

(* A granted block stays as it is until its owner gives it back.           *)
THEOREM HeldUntouchedHolds == Spec => HeldUntouched
<1>1. Inv /\ [Next]_vars =>
        [\A p \in DOMAIN live \cap DOMAIN live' :
           LET h == p - BLOCK_SIZE
           IN  /\ h \in Header' /\ blocks'[h] = blocks[h]
               /\ live'[p] = live[p]]_vars
  BY StepHeldUntouched
<1> QED
  BY <1>1, Invariance, PTL DEF Spec, HeldUntouched

-----------------------------------------------------------------------------
(***************************************************************************)
(* Arena implements Heap: every step of the list, the mutex and the two    *)
(* loops is one of the abstract heap or a stutter.                         *)
(***************************************************************************)

(* The search has passed only blocks that do not do.                       *)
Behind(t, h) == cursor[t] = NULL \/ h < cursor[t]

Passed ==
  \A t \in Thread : pc[t] = "search" =>
    \A h \in Header : Behind(t, h) => ~Fits(blocks[h], Size(t))

(* The two variables of Heap that Arena does not have.                     *)
Used == {h \in Header : ~blocks[h].free}
Extent == [h \in Used |-> BLOCK_SIZE + blocks[h].size]
Of(place) == CASE place = "search"   -> "new"
               [] place = "coalesce" -> "freed"
               [] OTHER              -> place
Call == [t \in Thread |-> Of(pc[t])]

(* No two neighbours are free.                                             *)
Single ==
  \A h \in Header : blocks[h].free /\ blocks[h].next # NULL
                      => ~blocks[blocks[h].next].free

(* The sizes of Heap are those of Arena.                                   *)
LEMMA SameSizes ==
  /\ H!BLOCK_SIZE = 32 /\ H!ALIGNMENT = 16
  /\ \A n : H!AlignUp(n) = AlignUp(n)
<1>1. \A n : H!AlignUp(n) = AlignUp(n)
  BY DEF H!AlignUp, AlignUp, H!ALIGNMENT, ALIGNMENT
<1> QED
  BY <1>1, HeaderSize DEF H!BLOCK_SIZE, BLOCK_SIZE, H!SIZEOF_BLOCK,
     SIZEOF_BLOCK, H!ALIGNMENT

-----------------------------------------------------------------------------
(* Blocks and gaps.                                                        *)

(* A bounded, nonempty set of naturals has a largest element.              *)
LEMMA HasGreatest ==
  ASSUME NEW m \in Nat, NEW T, T \subseteq 0..m, T # {}
  PROVE  \E x \in T : \A y \in T : y <= x
<1> DEFINE D == {m - x : x \in T}
<1>1. D \subseteq Nat /\ D # {}
  <2>1. \A x \in T : x \in 0..m
    OBVIOUS
  <2>2. \A x \in 0..m : m - x \in Nat
    OBVIOUS
  <2> QED
    BY <2>1, <2>2
<1> HIDE DEF D
<1>2. PICK d \in D : \A e \in D : ~(<<e, d>> \in OpToRel(<, Nat))
  BY <1>1, NatLessThanWellFounded, WFMin
<1>3. \A e \in D : d <= e
  <2>1. \A e \in D : <<e, d>> \in Nat \X Nat
    BY <1>1
  <2>2. \A e \in D : ~(e < d)
    BY <1>2, <2>1 DEF OpToRel
  <2> QED
    BY <1>1, <2>2
<1>4. PICK x \in T : d = m - x
  BY DEF D
<1>5. ASSUME NEW y \in T PROVE y <= x
  <2>1. d <= m - y
    BY <1>3 DEF D
  <2> QED
    BY <2>1, <1>4
<1> QED
  BY <1>5

(* Every block but the first ends another one.                             *)
LEMMA Predecessor ==
  ASSUME Inv, NEW h \in Header, h # 0
  PROVE  \E g \in Header : EndOf(g) = h /\ blocks[g].next = h
<1> DEFINE T == {x \in Header : x < h}
<1>1. /\ HEAP_SIZE \in Nat /\ 0 \in Header /\ Header \subseteq 0..HEAP_SIZE
  BY ArenaAssumption DEF Inv, TypeOK, Tiling, free_list
<1>2. T \subseteq 0..HEAP_SIZE /\ 0 \in T
  <2>1. h \in 0..HEAP_SIZE /\ 0 < h
    BY <1>1
  <2> QED
    BY <1>1, <2>1
<1>3. PICK g \in T : \A y \in T : y <= g
  BY <1>1, <1>2, HasGreatest
<1>4. g \in Header /\ g < h
  BY <1>3
<1>5. EndOf(g) <= h
  BY <1>4 DEF Inv, Disjoint
<1>6. h < EndOf(h) /\ EndOf(h) <= HEAP_SIZE /\ g < EndOf(g)
  BY <1>4, BlockFacts
<1>7. EndOf(g) \in Header /\ blocks[g].next = EndOf(g) /\ EndOf(g) \in Nat
  BY <1>1, <1>4, <1>5, <1>6, BlockFacts
<1>8. EndOf(g) = h
  <2>1. CASE EndOf(g) < h
    BY <2>1, <1>1, <1>3, <1>4, <1>6, <1>7
  <2> QED
    BY <2>1, <1>1, <1>5, <1>7
<1> QED
  BY <1>4, <1>7, <1>8

(* What a gap of Heap is, in terms of the blocks.                          *)
LEMMA GapDefs ==
  ASSUME Inv
  PROVE  /\ DOMAIN Extent = Used
         /\ H!GapStart = {0} \cup {EndOf(a) : a \in Used}
         /\ \A g : H!GapLength(g) =
                     H!Min({HEAP_SIZE} \cup {a \in Used : a >= g}) - g
<1>1. \A a \in Used : a + Extent[a] = EndOf(a)
  <2> SUFFICES ASSUME NEW a \in Used PROVE a + Extent[a] = EndOf(a)
    OBVIOUS
  <2>1. a \in Header
    BY DEF Used
  <2>2. EndOf(a) = a + 32 + blocks[a].size /\ a \in Nat
        /\ blocks[a].size \in Nat
    BY <2>1, BlockFacts
  <2>3. Extent[a] = 32 + blocks[a].size
    BY HeaderSize DEF Extent
  <2> QED
    BY <2>2, <2>3
<1>2. DOMAIN Extent = Used
  BY DEF Extent
<1>3. H!GapStart = {0} \cup {a + Extent[a] : a \in DOMAIN Extent}
  BY DEF H!GapStart, Extent, Used
<1>4. \A g : H!GapLength(g) =
         H!Min({HEAP_SIZE} \cup {a \in DOMAIN Extent : a >= g}) - g
  BY DEF H!GapLength, Extent, Used
<1> QED
  BY <1>1, <1>2, <1>3, <1>4

(* The least of a set of integers.                                         *)
LEMMA LeastIs ==
  ASSUME NEW S, S \subseteq Int, NEW x \in S, \A y \in S : x <= y
  PROVE  H!Min(S) = x
<1>1. \A z \in S : (\A y \in S : z <= y) => z = x
  OBVIOUS
<1> QED
  BY <1>1 DEF H!Min

(* When no two neighbours are free, a free block is a whole gap.           *)
LEMMA FreeBlockIsGap ==
  ASSUME Inv, Single, NEW h \in Header, blocks[h].free
  PROVE  h \in H!GapStart /\ H!GapLength(h) = 32 + blocks[h].size
<1> DEFINE S == {HEAP_SIZE} \cup {a \in Used : a >= h}
<1>1. /\ h \in Nat /\ blocks[h].size \in Nat /\ HEAP_SIZE \in Nat
      /\ EndOf(h) = h + 32 + blocks[h].size /\ EndOf(h) <= HEAP_SIZE
      /\ Used \subseteq Header /\ Header \subseteq 0..HEAP_SIZE
  BY BlockFacts, ArenaAssumption DEF Used, Inv, TypeOK
<1>2. h \in H!GapStart
  <2>1. CASE h = 0
    BY <2>1, GapDefs
  <2>2. CASE h # 0
    <3>1. PICK g \in Header : EndOf(g) = h /\ blocks[g].next = h
      BY <2>2, Predecessor
    <3>2. h # NULL
      BY <1>1, ArenaAssumption
    <3>3. ~blocks[g].free
      BY <3>1, <3>2 DEF Single
    <3> QED
      BY <3>1, <3>3, GapDefs DEF Used
  <2> QED
    BY <2>1, <2>2
<1>3. EndOf(h) \in S
  <2>1. CASE EndOf(h) = HEAP_SIZE
    BY <2>1
  <2>2. CASE EndOf(h) # HEAP_SIZE
    <3>1. EndOf(h) \in Header /\ blocks[h].next = EndOf(h)
          /\ blocks[h].next # NULL
      BY <2>2, BlockFacts
    <3>2. EndOf(h) \in Used
      BY <3>1 DEF Single, Used
    <3> QED
      BY <3>2, <1>1
  <2> QED
    BY <2>1, <2>2
<1>4. \A y \in S : EndOf(h) <= y
  <2> SUFFICES ASSUME NEW a \in Used, a >= h PROVE EndOf(h) <= a
    BY <1>1
  <2>1. a \in Header /\ a # h
    BY DEF Used
  <2>2. h < a
    BY <2>1, <1>1
  <2> QED
    BY <2>1, <2>2 DEF Inv, Disjoint
<1>5. S \subseteq Int
  <2>1. Used \subseteq Int /\ HEAP_SIZE \in Int
    BY <1>1
  <2> QED
    BY <2>1
<1>6. H!Min(S) = EndOf(h)
  BY <1>3, <1>4, <1>5, LeastIs
<1>7. H!GapLength(h) = EndOf(h) - h
  BY <1>6, GapDefs
<1> QED
  BY <1>1, <1>2, <1>7

(* Every other gap is empty.                                               *)
LEMMA OtherGapsAreEmpty ==
  ASSUME Inv, NEW g \in H!GapStart, ~(g \in Header /\ blocks[g].free)
  PROVE  H!GapLength(g) = 0
<1> DEFINE S == {HEAP_SIZE} \cup {a \in Used : a >= g}
<1>1. /\ HEAP_SIZE \in Nat /\ 0 \in Header
      /\ Used \subseteq Header /\ Header \subseteq 0..HEAP_SIZE
  BY ArenaAssumption DEF Used, Inv, TypeOK, Tiling, free_list
<1>2. g \in Header \/ g = HEAP_SIZE
  <2>1. CASE g = 0
    BY <2>1, <1>1
  <2>2. CASE g # 0
    <3>1. PICK a \in Used : g = EndOf(a)
      BY <2>2, GapDefs
    <3> QED
      BY <3>1, <1>1, BlockFacts
  <2> QED
    BY <2>1, <2>2
<1>3. g \in S /\ g \in 0..HEAP_SIZE
  <2>1. g \in 0..HEAP_SIZE
    <3>1. HEAP_SIZE \in 0..HEAP_SIZE
      BY <1>1
    <3>2. \A h \in Header : h \in 0..HEAP_SIZE
      BY <1>1
    <3> QED
      BY <1>2, <3>1, <3>2
  <2>2. CASE g = HEAP_SIZE
    BY <2>1, <2>2
  <2>3. CASE g # HEAP_SIZE
    <3>1. g \in Used /\ g >= g
      BY <1>2, <2>1, <2>3 DEF Used
    <3> QED
      BY <2>1, <3>1
  <2> QED
    BY <2>2, <2>3
<1>4. S \subseteq Int /\ \A y \in S : g <= y
  <2>1. Used \subseteq Int /\ HEAP_SIZE \in Int /\ g <= HEAP_SIZE
    BY <1>1, <1>3
  <2>2. \A a \in Used : a >= g => g <= a
    BY <2>1, <1>3
  <2> QED
    BY <2>1, <2>2
<1>5. H!Min(S) = g
  BY <1>3, <1>4, LeastIs
<1> QED
  BY <1>3, <1>5, GapDefs

(* The gaps that hold a request are the free blocks that do.               *)
LEMMA SuitableIsFits ==
  ASSUME Inv, Single, NEW n \in 0..SIZE_MAX
  PROVE  H!Suitable(n) = {h \in Header : Fits(blocks[h], AlignUp(n))}
<1>1. AlignUp(n) \in Nat
  BY AlignUpFacts, ArenaAssumption
<1>2. H!Needed(n) = 32 + AlignUp(n)
  BY SameSizes DEF H!Needed
<1>3. ASSUME NEW g \in H!GapStart, H!GapLength(g) >= 32 + AlignUp(n)
      PROVE  g \in Header /\ Fits(blocks[g], AlignUp(n))
  <2>1. g \in Header /\ blocks[g].free
    BY <1>1, <1>3, OtherGapsAreEmpty
  <2>2. H!GapLength(g) = 32 + blocks[g].size /\ blocks[g].size \in Nat
    BY <2>1, FreeBlockIsGap, BlockFacts
  <2> QED
    BY <1>1, <1>3, <2>1, <2>2 DEF Fits
<1>4. ASSUME NEW h \in Header, Fits(blocks[h], AlignUp(n))
      PROVE  h \in H!GapStart /\ H!GapLength(h) >= 32 + AlignUp(n)
  <2>1. blocks[h].free /\ blocks[h].size >= AlignUp(n)
    BY <1>4 DEF Fits
  <2>2. /\ h \in H!GapStart /\ H!GapLength(h) = 32 + blocks[h].size
        /\ blocks[h].size \in Nat
    BY <2>1, FreeBlockIsGap, BlockFacts
  <2> QED
    BY <1>1, <2>1, <2>2
<1> QED
  BY <1>2, <1>3, <1>4 DEF H!Suitable

-----------------------------------------------------------------------------
(* Passed is an invariant.                                                 *)

LEMMA PassedInit == Init => Passed
  BY DEF Init, Passed

(* Steps that leave the list and the other searches alone.                 *)
LEMMA PassedOutside ==
  ASSUME Inv, Passed, NEW t \in Thread, pc'[t] # "search",
         \A u \in Thread \ {t} :
           pc'[u] = pc[u] /\ arg'[u] = arg[u] /\ cursor'[u] = cursor[u],
         blocks' = blocks \/ \A u \in Thread \ {t} : pc[u] # "search"
  PROVE  Passed'
<1> SUFFICES ASSUME NEW u \in Thread, pc'[u] = "search",
                    NEW h \in Header', Behind(u, h)'
             PROVE  ~Fits(blocks[h], Size(u))'
  BY DEF Passed
<1>1. u # t /\ pc[u] = "search" /\ arg'[u] = arg[u] /\ cursor'[u] = cursor[u]
      /\ blocks' = blocks
  OBVIOUS
<1>2. h \in Header /\ Behind(u, h)
  BY <1>1 DEF Header, Behind
<1>3. ~Fits(blocks[h], Size(u))
  BY <1>1, <1>2 DEF Passed
<1> QED
  BY <1>1, <1>3 DEF Size, Fits

(* The thread that holds the mutex is the only one that searches.          *)
LEMMA OneSearch ==
  ASSUME Inv, NEW t \in Thread, mtx \in {t, NOBODY}
  PROVE  \A u \in Thread \ {t} : pc[u] # "search"
  BY ArenaAssumption DEF Inv, Locked

LEMMA PassedLockNew ==
  ASSUME Inv, Passed, NEW t \in Thread, LockNew(t)
  PROVE  Passed'
<1>1. /\ pc' = [pc EXCEPT ![t] = "search"] /\ mtx = NOBODY
      /\ cursor' = [cursor EXCEPT ![t] = 0] /\ UNCHANGED <<blocks, arg>>
  BY DEF LockNew, Goto, Acquire, free_list
<1>2. \A u \in Thread : pc'[u] = "search" => u = t
  BY <1>1, OneSearch DEF Inv, TypeOK
<1>3. \A h \in Header' : ~(cursor'[t] = NULL \/ h < cursor'[t])
  <2>1. cursor'[t] = 0 /\ 0 # NULL
    BY <1>1, ArenaAssumption DEF Inv, TypeOK
  <2>2. \A h \in Header' : h \in Nat
    BY <1>1, BlockFacts DEF Header
  <2> QED
    BY <2>1, <2>2
<1> QED
  BY <1>2, <1>3 DEF Passed, Behind

LEMMA PassedSearchNext ==
  ASSUME Inv, Passed, NEW t \in Thread, SearchNext(t)
  PROVE  Passed'
<1> DEFINE c == cursor[t]
<1>1. /\ pc[t] = "search" /\ c # NULL /\ ~Fits(blocks[c], Size(t))
      /\ cursor' = [cursor EXCEPT ![t] = blocks[c].next]
      /\ UNCHANGED <<blocks, mtx, pc, arg>>
  BY DEF SearchNext
<1>2. mtx = t /\ c \in Header
  BY <1>1, Searching DEF Inv, TypeOK
<1>3. \A u \in Thread : pc'[u] = "search" => u = t
  BY <1>1, <1>2, OneSearch
<1>4. ASSUME NEW h \in Header, cursor'[t] = NULL \/ h < cursor'[t]
      PROVE  h = c \/ h < c
  <2>1. cursor'[t] = blocks[c].next
    BY <1>1 DEF Inv, TypeOK
  <2>2. /\ EndOf(c) \in Nat /\ h \in Nat /\ c \in Nat
        /\ EndOf(h) <= HEAP_SIZE /\ h < EndOf(h)
    BY <1>2, BlockFacts
  <2>3. h < EndOf(c)
    <3>1. \/ EndOf(c) = HEAP_SIZE
          \/ blocks[c].next = EndOf(c) /\ blocks[c].next # NULL
      BY <1>2, BlockFacts
    <3>2. HEAP_SIZE \in Nat /\ EndOf(h) \in Nat
      BY ArenaAssumption, BlockFacts
    <3> QED
      BY <1>4, <2>1, <2>2, <3>1, <3>2
  <2>4. c < h => EndOf(c) <= h
    BY <1>2 DEF Inv, Disjoint
  <2> QED
    BY <2>2, <2>3, <2>4
<1>5. \A h \in Header : h = c \/ h < c => ~Fits(blocks[h], Size(t))
  BY <1>1, <1>2 DEF Passed, Behind
<1>6. Header' = Header /\ Size(t)' = Size(t)
  BY <1>1 DEF Header, Size
<1> QED
  BY <1>1, <1>3, <1>4, <1>5, <1>6 DEF Passed, Behind

LEMMA PassedNext ==
  ASSUME Inv, Passed, [Next]_vars
  PROVE  Passed'
<1>1. CASE UNCHANGED vars
  BY <1>1 DEF vars, Passed, Behind, Header, Size, Fits
<1>2. CASE Next
  <2> SUFFICES ASSUME NEW t \in Thread,
                      \/ \E n \in Request : CallNew(t, n)
                      \/ \E p \in DOMAIN live : CallDelete(t, p)
                      \/ Inside(t)
               PROVE  Passed'
    BY <1>2 DEF Next
  <2>1. ASSUME NEW n \in Request, CallNew(t, n) PROVE Passed'
    <3>1. /\ pc' = [pc EXCEPT ![t] = "new"] /\ arg' = [arg EXCEPT ![t] = n]
          /\ UNCHANGED <<blocks, cursor>>
      BY <2>1 DEF CallNew, Goto
    <3> QED
      BY <3>1, PassedOutside DEF Inv, TypeOK
  <2>2. ASSUME NEW p \in DOMAIN live, CallDelete(t, p) PROVE Passed'
    <3>1. /\ pc' = [pc EXCEPT ![t] = "delete"]
          /\ arg' = [arg EXCEPT ![t] = p] /\ UNCHANGED <<blocks, cursor>>
      BY <2>2 DEF CallDelete, Goto
    <3> QED
      BY <3>1, PassedOutside DEF Inv, TypeOK
  <2>3. CASE LockNew(t)
    BY <2>3, PassedLockNew
  <2>4. CASE SearchNext(t)
    BY <2>4, PassedSearchNext
  <2>5. CASE Take(t) \/ BadAlloc(t) \/ ReturnDelete(t)
    <3>1. /\ pc[t] \in {"search", "coalesce"}
          /\ pc' = [pc EXCEPT ![t] = "idle"]
          /\ arg' = [arg EXCEPT ![t] = 0]
          /\ cursor' = [cursor EXCEPT ![t] = NULL]
      BY <2>5 DEF Take, BadAlloc, ReturnDelete, Goto, Return
    <3>2. mtx = t
      BY <3>1 DEF Inv, Locked
    <3> QED
      BY <3>1, <3>2, OneSearch, PassedOutside DEF Inv, TypeOK
  <2>6. CASE LockDelete(t)
    <3>1. /\ pc' = [pc EXCEPT ![t] = "coalesce"] /\ mtx = NOBODY
          /\ arg' = arg /\ cursor' = [cursor EXCEPT ![t] = free_list]
      BY <2>6 DEF LockDelete, Goto, Acquire
    <3> QED
      BY <3>1, OneSearch, PassedOutside DEF Inv, TypeOK
  <2>7. CASE Merge(t) \/ CoalesceNext(t)
    <3>1. /\ pc[t] = "coalesce" /\ UNCHANGED <<pc, arg>>
          /\ \A u \in Thread \ {t} : cursor'[u] = cursor[u]
      BY <2>7 DEF Merge, CoalesceNext, Iterating, Inv, TypeOK
    <3>2. mtx = t
      BY <3>1 DEF Inv, Locked
    <3> QED
      BY <3>1, <3>2, OneSearch, PassedOutside DEF Inv, TypeOK
  <2> QED
    BY <2>1, <2>2, <2>3, <2>4, <2>5, <2>6, <2>7 DEF Inside
<1> QED
  BY <1>1, <1>2

(* The search has passed only blocks that do not do, in every state.       *)
THEOREM PassedHolds == Spec => []Passed
<1>1. Inv /\ Passed /\ [Next]_vars => Passed'
  BY PassedNext
<1> QED
  BY <1>1, PassedInit, Invariance, PTL DEF Spec

-----------------------------------------------------------------------------
(* The steps of Heap in terms of Arena.                                    *)

LEMMA HeapAsk ==
  ASSUME NEW t, NEW n,
         Call[t] = "idle", Call' = [Call EXCEPT ![t] = "new"],
         arg' = [arg EXCEPT ![t] = n], Extent' = Extent, live' = live
  PROVE  H!Ask(t, n)
  BY DEF H!Ask, H!Move, Call, Of, Extent, Used

LEMMA HeapGiveBack ==
  ASSUME NEW t, NEW p,
         Call[t] = "idle", Call' = [Call EXCEPT ![t] = "delete"],
         arg' = [arg EXCEPT ![t] = p], Extent' = Extent,
         live' = [q \in DOMAIN live \ {p} |-> live[q]]
  PROVE  H!GiveBack(t, p)
  BY DEF H!GiveBack, H!Move, Call, Of, Extent, Used

LEMMA HeapRefuse ==
  ASSUME NEW t,
         Call[t] = "new", Call' = [Call EXCEPT ![t] = "idle"],
         H!Suitable(arg[t]) = {},
         arg' = [arg EXCEPT ![t] = 0], Extent' = Extent, live' = live
  PROVE  H!Refuse(t)
  BY DEF H!Refuse, H!Move, Call, Of, Extent, Used

LEMMA HeapFree ==
  ASSUME NEW t, NEW c, c = arg[t] - H!BLOCK_SIZE,
         Call[t] = "delete", Call' = [Call EXCEPT ![t] = "freed"],
         Extent' = [a \in DOMAIN Extent \ {c} |-> Extent[a]],
         arg' = arg, live' = live
  PROVE  H!Free(t)
  BY DEF H!Free, H!Move, Call, Of, Extent, Used

LEMMA HeapReturn ==
  ASSUME NEW t,
         Call[t] = "freed", Call' = [Call EXCEPT ![t] = "idle"],
         arg' = [arg EXCEPT ![t] = 0], Extent' = Extent, live' = live
  PROVE  H!Return(t)
  BY DEF H!Return, H!Move, Call, Of, Extent, Used

LEMMA HeapStutter ==
  ASSUME Extent' = Extent, Call' = Call, arg' = arg, live' = live
  PROVE  UNCHANGED H!vars
  BY DEF H!vars, Call, Of, Extent, Used

LEMMA HeapGrant ==
  ASSUME NEW t, NEW g, g = H!Min(H!Suitable(arg[t])),
         H!Suitable(arg[t]) # {},
         Call[t] = "new", Call' = [Call EXCEPT ![t] = "idle"],
         Extent' = [a \in DOMAIN Extent \cup {g} |->
                      IF a = g THEN H!Taken(g, arg[t]) ELSE Extent[a]],
         live' = [q \in DOMAIN live \cup {g + H!BLOCK_SIZE} |->
                    IF q = g + H!BLOCK_SIZE THEN arg[t] ELSE live[q]],
         arg' = [arg EXCEPT ![t] = 0]
  PROVE  H!Grant(t)
  BY DEF H!Grant, H!Move, Call, Of, Extent, Used

(* The list as it was: the same extents.                                   *)
LEMMA ExtentSame ==
  ASSUME blocks' = blocks
  PROVE  Extent' = Extent
  BY DEF Extent, Used, Header

(* A thread that moves.                                                    *)
LEMMA Moves ==
  ASSUME Inv, NEW t \in Thread, NEW to, pc' = [pc EXCEPT ![t] = to]
  PROVE  Call' = [Call EXCEPT ![t] = Of(to)]
  BY DEF Inv, TypeOK, Call

-----------------------------------------------------------------------------
(* The steps that only the list, the mutex or the loop variable sees.      *)
LEMMA LockNewStutters ==
  ASSUME Inv, NEW t \in Thread, LockNew(t)
  PROVE  UNCHANGED H!vars
<1>1. /\ pc[t] = "new" /\ pc' = [pc EXCEPT ![t] = "search"]
      /\ UNCHANGED <<blocks, arg, live>>
  BY DEF LockNew, Goto
<1>2. Call' = Call
  BY <1>1 DEF Inv, TypeOK, Call, Of
<1> QED
  BY <1>1, <1>2, ExtentSame, HeapStutter

LEMMA LoopStutters ==
  ASSUME Inv, NEW t \in Thread, SearchNext(t) \/ CoalesceNext(t)
  PROVE  UNCHANGED H!vars
<1>1. UNCHANGED <<blocks, pc, arg, live>>
  BY DEF SearchNext, CoalesceNext
<1>2. Call' = Call
  BY <1>1 DEF Call
<1> QED
  BY <1>1, <1>2, ExtentSame, HeapStutter

LEMMA MergeStutters ==
  ASSUME Inv, NEW t \in Thread, Merge(t)
  PROVE  UNCHANGED H!vars
<1> DEFINE i == cursor[t]
           j == blocks[i].next
<1>1. /\ pc[t] = "coalesce" /\ j # NULL /\ Mergeable(i)
      /\ blocks' = MergeAt(i)
      /\ UNCHANGED <<mtx, pc, arg, cursor, live>>
  BY DEF Merge, Iterating, MoreToMerge
<1>2. i \in Header
  BY <1>1, Coalescing
<1>3. /\ j \in Header /\ blocks[i].free /\ blocks[j].free
      /\ Header' = Header \ {j}
      /\ blocks'[i] = [size |-> blocks[i].size + 32 + blocks[j].size,
                       free |-> TRUE, next |-> blocks[j].next]
      /\ \A h \in Header' \ {i} : blocks'[h] = blocks[h]
  BY <1>1, <1>2, MergeKeepsTiling, BlockFacts
<1> HIDE DEF i, j
<1>4. Used' = Used /\ \A h \in Used : blocks'[h] = blocks[h]
  <2>1. \A h \in Header' : h # i => blocks'[h] = blocks[h]
    BY <1>3
  <2>2. i \notin Used /\ i \notin Used' /\ j \notin Used
    BY <1>3 DEF Used
  <2> QED
    BY <1>3, <2>1, <2>2 DEF Used
<1>5. Extent' = Extent
  BY <1>4 DEF Extent
<1>6. Call' = Call
  BY <1>1 DEF Call
<1> QED
  BY <1>1, <1>5, <1>6, HeapStutter

-----------------------------------------------------------------------------
(* The steps that Heap sees.                                               *)
LEMMA CallNewAsks ==
  ASSUME Inv, NEW t \in Thread, NEW n \in Request, CallNew(t, n)
  PROVE  H!Ask(t, n)
<1>1. /\ pc[t] = "idle" /\ pc' = [pc EXCEPT ![t] = "new"]
      /\ arg' = [arg EXCEPT ![t] = n] /\ UNCHANGED <<blocks, live>>
  BY DEF CallNew, Goto
<1>2. Call[t] = "idle" /\ Call' = [Call EXCEPT ![t] = "new"]
  BY <1>1, Moves DEF Call, Of
<1> QED
  BY <1>1, <1>2, ExtentSame, HeapAsk

LEMMA CallDeleteGivesBack ==
  ASSUME Inv, NEW t \in Thread, NEW p \in DOMAIN live, CallDelete(t, p)
  PROVE  H!GiveBack(t, p)
<1>1. /\ pc[t] = "idle" /\ pc' = [pc EXCEPT ![t] = "delete"]
      /\ arg' = [arg EXCEPT ![t] = p] /\ UNCHANGED blocks
      /\ live' = [q \in DOMAIN live \ {p} |-> live[q]]
  BY DEF CallDelete, Goto
<1>2. Call[t] = "idle" /\ Call' = [Call EXCEPT ![t] = "delete"]
  BY <1>1, Moves DEF Call, Of
<1> QED
  BY <1>1, <1>2, ExtentSame, HeapGiveBack

LEMMA LockDeleteFrees ==
  ASSUME Inv, NEW t \in Thread, LockDelete(t)
  PROVE  H!Free(t)
<1>1. /\ pc[t] = "delete" /\ pc' = [pc EXCEPT ![t] = "coalesce"]
      /\ blocks' = [blocks EXCEPT ![arg[t] - BLOCK_SIZE].free = TRUE]
      /\ UNCHANGED <<arg, live>>
  BY DEF LockDelete, Goto
<1>2. PICK c \in Header : c = arg[t] - BLOCK_SIZE
  BY <1>1, InUseDef, InUseBlock
<1>3. /\ Header' = Header
      /\ blocks'[c] = [blocks[c] EXCEPT !.free = TRUE]
      /\ \A h \in Header \ {c} : blocks'[h] = blocks[h]
  BY <1>1, <1>2, FlagKeepsTiling
<1>4. blocks'[c].free
  BY <1>2, <1>3 DEF Inv, TypeOK, BlockType
<1>5. Used' = Used \ {c} /\ \A h \in Used' : blocks'[h] = blocks[h]
  BY <1>3, <1>4 DEF Used
<1>6. Extent' = [a \in DOMAIN Extent \ {c} |-> Extent[a]]
  BY <1>5 DEF Extent
<1>7. Call[t] = "delete" /\ Call' = [Call EXCEPT ![t] = "freed"]
  BY <1>1, Moves DEF Call, Of
<1>8. c = arg[t] - H!BLOCK_SIZE
  BY <1>2, HeaderSize, SameSizes
<1> QED
  BY <1>1, <1>6, <1>7, <1>8, HeapFree

LEMMA ReturnDeleteReturns ==
  ASSUME Inv, NEW t \in Thread, ReturnDelete(t)
  PROVE  H!Return(t)
<1>1. /\ pc[t] = "coalesce" /\ pc' = [pc EXCEPT ![t] = "idle"]
      /\ arg' = [arg EXCEPT ![t] = 0] /\ UNCHANGED <<blocks, live>>
  BY DEF ReturnDelete, Goto, Return
<1>2. Call[t] = "freed" /\ Call' = [Call EXCEPT ![t] = "idle"]
  BY <1>1, Moves DEF Call, Of
<1> QED
  BY <1>1, <1>2, ExtentSame, HeapReturn

LEMMA BadAllocRefuses ==
  ASSUME Inv, Passed, NEW t \in Thread, BadAlloc(t)
  PROVE  H!Refuse(t)
<1>1. /\ pc[t] = "search" /\ pc' = [pc EXCEPT ![t] = "idle"]
      /\ cursor[t] = NULL
      /\ arg' = [arg EXCEPT ![t] = 0] /\ UNCHANGED <<blocks, live>>
  BY DEF BadAlloc, Goto, Return
<1>2. Call[t] = "new" /\ Call' = [Call EXCEPT ![t] = "idle"]
  BY <1>1, Moves DEF Call, Of
<1>3. Single
  BY <1>1, Searching DEF Single
<1>4. PICK n \in 0..SIZE_MAX : n = arg[t]
  BY DEF Inv, TypeOK
<1>5. H!Suitable(n) = {h \in Header : Fits(blocks[h], AlignUp(n))}
  BY <1>3, SuitableIsFits
<1>6. \A h \in Header : ~Fits(blocks[h], AlignUp(n))
  BY <1>1, <1>4 DEF Passed, Behind, Size
<1>7. H!Suitable(arg[t]) = {}
  BY <1>4, <1>5, <1>6
<1> QED
  BY <1>1, <1>2, <1>7, ExtentSame, HeapRefuse

LEMMA TakeGrants ==
  ASSUME Inv, Passed, NEW t \in Thread, Take(t)
  PROVE  H!Grant(t)
<1>1. PICK n \in 0..SIZE_MAX : n = arg[t]
  BY DEF Inv, TypeOK
<1>2. PICK c \in Header : c = cursor[t]
  BY DEF Take, Inv, TypeOK
<1> DEFINE m == AlignUp(n)
<1>3. m \in Nat /\ m % 16 = 0 /\ m = Size(t)
  BY <1>1, AlignUpFacts, ArenaAssumption DEF Size
<1>4. /\ pc[t] = "search" /\ pc' = [pc EXCEPT ![t] = "idle"]
      /\ Fits(blocks[c], m)
      /\ \/ CanSplit(blocks[c], m) /\ blocks' = SplitAt(c, m)
         \/ ~CanSplit(blocks[c], m) /\ blocks' = TakeAll(c)
      /\ live' = [p \in DOMAIN live \cup {c + BLOCK_SIZE} |->
                    IF p = c + BLOCK_SIZE THEN n ELSE live[p]]
      /\ arg' = [arg EXCEPT ![t] = 0]
  BY <1>1, <1>2, <1>3 DEF Take, Goto, Return
<1> HIDE DEF m
<1>5. /\ c \in Nat /\ blocks[c] \in BlockType /\ blocks[c].size \in Nat
      /\ blocks[c].free /\ blocks[c].size >= m
  BY <1>4, BlockFacts DEF Fits
<1>6. Single
  BY <1>4, Searching DEF Single
<1>7. H!Suitable(n) = {h \in Header : Fits(blocks[h], m)}
  BY <1>6, SuitableIsFits DEF m
<1>8. c \in H!Suitable(n) /\ \A h \in H!Suitable(n) : c <= h
  <2>1. ASSUME NEW h \in Header, Fits(blocks[h], m) PROVE c <= h
    <3>1. ~(h < c)
      BY <1>2, <1>3, <1>4, <2>1 DEF Passed, Behind
    <3>2. h \in Nat
      BY <2>1, BlockFacts
    <3> QED
      BY <1>5, <3>1, <3>2
  <2> QED
    BY <1>4, <1>7, <2>1
<1>9. c = H!Min(H!Suitable(n))
  <2>1. H!Suitable(n) \subseteq Int
    BY <1>7, BlockFacts
  <2> QED
    BY <1>8, <2>1, LeastIs
<1>10. H!GapLength(c) = 32 + blocks[c].size /\ H!Needed(n) = 32 + m
  BY <1>5, <1>6, FreeBlockIsGap, SameSizes DEF H!Needed, m
<1>11. H!Taken(c, n) = IF CanSplit(blocks[c], m) THEN 32 + m
                       ELSE 32 + blocks[c].size
  <2>1. (32 + blocks[c].size) - (32 + m) = blocks[c].size - m
    BY <1>3, <1>5
  <2>2. blocks[c].size - m >= 32 + 16 <=> blocks[c].size >= m + 32 + 16
    BY <1>3, <1>5
  <2> QED
    BY <1>10, <2>1, <2>2, SameSizes, HeaderSize
    DEF H!Taken, CanSplit, ALIGNMENT
<1>12. /\ Used' = Used \cup {c}
       /\ \A h \in Used : h # c /\ blocks'[h] = blocks[h]
       /\ 32 + blocks'[c].size = H!Taken(c, n)
  <2>1. CASE CanSplit(blocks[c], m) /\ blocks' = SplitAt(c, m)
    <3> DEFINE rest == c + 32 + m
    <3>1. /\ rest \notin Header /\ rest # c
          /\ Header' = Header \cup {rest}
          /\ blocks'[c] = [size |-> m, free |-> FALSE, next |-> rest]
          /\ blocks'[rest] = [size |-> blocks[c].size - m - 32,
                              free |-> TRUE, next |-> blocks[c].next]
          /\ \A h \in Header \ {c} : blocks'[h] = blocks[h]
      BY <1>3, <2>1, SplitKeepsTiling
    <3> HIDE DEF rest
    <3>2. blocks'[rest].free /\ ~blocks'[c].free /\ blocks'[c].size = m
      BY <3>1
    <3>3. Used' = Used \cup {c}
      BY <3>1, <3>2 DEF Used
    <3>4. \A h \in Used : h # c /\ blocks'[h] = blocks[h]
      BY <1>5, <3>1 DEF Used
    <3> QED
      BY <1>11, <2>1, <3>2, <3>3, <3>4
  <2>2. CASE ~CanSplit(blocks[c], m) /\ blocks' = TakeAll(c)
    <3>1. /\ Header' = Header
          /\ blocks'[c] = [blocks[c] EXCEPT !.free = FALSE]
          /\ \A h \in Header \ {c} : blocks'[h] = blocks[h]
      BY <2>2, FlagKeepsTiling DEF TakeAll
    <3>2. ~blocks'[c].free /\ blocks'[c].size = blocks[c].size
      BY <1>5, <3>1 DEF BlockType
    <3>3. Used' = Used \cup {c}
      BY <3>1, <3>2 DEF Used
    <3>4. \A h \in Used : h # c /\ blocks'[h] = blocks[h]
      BY <1>5, <3>1 DEF Used
    <3> QED
      BY <1>11, <2>2, <3>2, <3>3, <3>4
  <2> QED
    BY <1>4, <2>1, <2>2
<1>13. Extent' = [a \in DOMAIN Extent \cup {c} |->
                    IF a = c THEN H!Taken(c, n) ELSE Extent[a]]
  BY <1>12, HeaderSize DEF Extent
<1>14. Call[t] = "new" /\ Call' = [Call EXCEPT ![t] = "idle"]
  BY <1>4, Moves DEF Call, Of
<1>15. BLOCK_SIZE = H!BLOCK_SIZE
  BY HeaderSize, SameSizes
<1> QED
  BY <1>1, <1>4, <1>8, <1>9, <1>13, <1>14, <1>15, HeapGrant

-----------------------------------------------------------------------------
LEMMA InitHeap == Init => H!Init
<1> SUFFICES ASSUME Init PROVE H!Init
  OBVIOUS
<1>1. Header = {free_list} /\ blocks[free_list].free
  BY DEF Init, FreshArena, Header
<1>2. {g \in Header : ~blocks[g].free} = {}
  BY <1>1
<1> QED
  BY <1>2 DEF Init, H!Init

LEMMA StepHeap ==
  ASSUME Inv, Passed, [Next]_vars
  PROVE  H!Next \/ UNCHANGED H!vars
<1>1. CASE UNCHANGED vars
  <2>1. UNCHANGED <<blocks, pc, arg, live>>
    BY <1>1 DEF vars
  <2>2. Call' = Call
    BY <2>1 DEF Call
  <2> QED
    BY <2>1, <2>2, ExtentSame, HeapStutter
<1>2. CASE Next
  <2> SUFFICES ASSUME NEW t \in Thread,
                      \/ \E n \in Request : CallNew(t, n)
                      \/ \E p \in DOMAIN live : CallDelete(t, p)
                      \/ Inside(t)
               PROVE  H!Next \/ UNCHANGED H!vars
    BY <1>2 DEF Next
  <2>1. CASE \E n \in Request : CallNew(t, n)
    BY <2>1, CallNewAsks DEF H!Next
  <2>2. CASE \E p \in DOMAIN live : CallDelete(t, p)
    BY <2>2, CallDeleteGivesBack DEF H!Next
  <2>3. CASE Take(t)
    BY <2>3, TakeGrants DEF H!Next
  <2>4. CASE BadAlloc(t)
    BY <2>4, BadAllocRefuses DEF H!Next
  <2>5. CASE LockDelete(t)
    BY <2>5, LockDeleteFrees DEF H!Next
  <2>6. CASE ReturnDelete(t)
    BY <2>6, ReturnDeleteReturns DEF H!Next
  <2>7. CASE LockNew(t) \/ SearchNext(t) \/ CoalesceNext(t) \/ Merge(t)
    BY <2>7, LockNewStutters, LoopStutters, MergeStutters
  <2> QED
    BY <2>1, <2>2, <2>3, <2>4, <2>5, <2>6, <2>7 DEF Inside
<1> QED
  BY <1>1, <1>2

(* Arena implements Heap: operator new serves a request exactly when some  *)
(* gap of the arena holds it, from the lowest such gap, whatever the other *)
(* threads do meanwhile.                                                   *)
THEOREM Implementation == Spec => ImplementsHeap
<1>1. Spec => [](Inv /\ Passed)
  BY Invariance, PassedHolds, PTL
<1> QED
  BY <1>1, InitHeap, StepHeap, PTL DEF Spec, ImplementsHeap, H!Spec
==============================================================================
