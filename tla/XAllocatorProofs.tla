-------------------------- MODULE XAllocatorProofs --------------------------
(***************************************************************************)
(* Proofs about XAllocator: its inductive invariant, the copy of xrealloc, *)
(* and that it implements BlockPools, for every set of threads, addresses, *)
(* block sizes and requests.                                               *)
(***************************************************************************)
EXTENDS XAllocatorPools, FiniteSetTheorems, TLAPS

-----------------------------------------------------------------------------
(* Stacks.                                                                 *)

(* A stack depends on the words of its members only.                       *)
LEMMA StackSame ==
  ASSUME NEW F, NEW h, NEW w, NEW v, IsStack(F, h, w),
         \A b \in F : v[b] = w[b]
  PROVE  IsStack(F, h, v)
<1> DEFINE k == Cardinality(F)
<1>1. PICK f \in [1..k -> F] :
         /\ \A c \in F : \E i \in 1..k : f[i] = c
         /\ \A i, j \in 1..k : f[i] = f[j] => i = j
         /\ h = IF k = 0 THEN NULL ELSE f[k]
         /\ \A i \in 1..k : w[f[i]] = IF i = 1 THEN NULL ELSE f[i - 1]
  BY DEF IsStack
<1> HIDE DEF k
<1>2. \A i \in 1..k : v[f[i]] = IF i = 1 THEN NULL ELSE f[i - 1]
  BY <1>1
<1> QED
  BY <1>1, <1>2 DEF IsStack, k

(* Its head is a member unless it is empty.                                *)
LEMMA StackHead ==
  ASSUME NEW F, NEW h, NEW w, IsStack(F, h, w), IsFiniteSet(F), NULL \notin F
  PROVE  /\ h = NULL <=> F = {}
         /\ h # NULL => h \in F
<1>1. Cardinality(F) \in Nat /\ (Cardinality(F) = 0 <=> F = {})
  BY FS_CardinalityType, FS_EmptySet
<1> QED
  BY <1>1 DEF IsStack

(* A block whose word is the head becomes the head.                        *)
LEMMA StackPush ==
  ASSUME NEW F, NEW h, NEW w, IsStack(F, h, w), IsFiniteSet(F),
         NEW b, b \notin F, w[b] = h
  PROVE  IsStack(F \cup {b}, b, w)
<1> DEFINE k == Cardinality(F)
           n == Cardinality(F \cup {b})
<1>1. k \in Nat /\ n = k + 1
  BY FS_CardinalityType, FS_AddElement
<1>2. PICK f \in [1..k -> F] :
         /\ \A c \in F : \E i \in 1..k : f[i] = c
         /\ \A i, j \in 1..k : f[i] = f[j] => i = j
         /\ h = IF k = 0 THEN NULL ELSE f[k]
         /\ \A i \in 1..k : w[f[i]] = IF i = 1 THEN NULL ELSE f[i - 1]
  BY DEF IsStack
<1> HIDE DEF k, n
<1> DEFINE g == [i \in 1..n |-> IF i = n THEN b ELSE f[i]]
<1>3. g \in [1..n -> F \cup {b}]
  BY <1>1
<1>4. g[n] = b /\ \A i \in 1..k : g[i] = f[i]
  BY <1>1
<1>5. \A c \in F \cup {b} : \E i \in 1..n : g[i] = c
  BY <1>1, <1>2, <1>4
<1>6. \A i, j \in 1..n : g[i] = g[j] => i = j
  BY <1>1, <1>2
<1>7. \A i \in 1..n : w[g[i]] = IF i = 1 THEN NULL ELSE g[i - 1]
  BY <1>1, <1>2, <1>4
<1> HIDE DEF g
<1>8. \E e \in [1..n -> F \cup {b}] :
        /\ \A c \in F \cup {b} : \E i \in 1..n : e[i] = c
        /\ \A i, j \in 1..n : e[i] = e[j] => i = j
        /\ b = IF n = 0 THEN NULL ELSE e[n]
        /\ \A i \in 1..n : w[e[i]] = IF i = 1 THEN NULL ELSE e[i - 1]
  BY <1>1, <1>3, <1>4, <1>5, <1>6, <1>7
<1> QED
  BY <1>1, <1>8 DEF IsStack, n

(* Without its head it continues with the head's word.                     *)
LEMMA StackPop ==
  ASSUME NEW F, NEW h, NEW w, IsStack(F, h, w), IsFiniteSet(F), NULL \notin F,
         h # NULL
  PROVE  IsStack(F \ {h}, w[h], w)
<1> DEFINE k == Cardinality(F)
           n == Cardinality(F \ {h})
<1>1. h \in F
  BY StackHead
<1>2. k \in Nat /\ k # 0 /\ n = k - 1
  BY <1>1, FS_CardinalityType, FS_EmptySet, FS_RemoveElement
<1>3. PICK f \in [1..k -> F] :
         /\ \A c \in F : \E i \in 1..k : f[i] = c
         /\ \A i, j \in 1..k : f[i] = f[j] => i = j
         /\ h = IF k = 0 THEN NULL ELSE f[k]
         /\ \A i \in 1..k : w[f[i]] = IF i = 1 THEN NULL ELSE f[i - 1]
  BY DEF IsStack
<1> HIDE DEF k, n
<1> DEFINE g == [i \in 1..n |-> f[i]]
<1>4. g \in [1..n -> F \ {h}]
  BY <1>2, <1>3
<1>5. \A c \in F \ {h} : \E i \in 1..n : g[i] = c
  BY <1>2, <1>3
<1>6. \A i, j \in 1..n : g[i] = g[j] => i = j
  BY <1>2, <1>3
<1>7. w[h] = IF n = 0 THEN NULL ELSE g[n]
  BY <1>2, <1>3
<1>8. \A i \in 1..n : w[g[i]] = IF i = 1 THEN NULL ELSE g[i - 1]
  BY <1>2, <1>3
<1> HIDE DEF g
<1>9. \E e \in [1..n -> F \ {h}] :
        /\ \A c \in F \ {h} : \E i \in 1..n : e[i] = c
        /\ \A i, j \in 1..n : e[i] = e[j] => i = j
        /\ w[h] = IF n = 0 THEN NULL ELSE e[n]
        /\ \A i \in 1..n : w[e[i]] = IF i = 1 THEN NULL ELSE e[i - 1]
  BY <1>4, <1>5, <1>6, <1>7, <1>8
<1> QED
  BY <1>2, <1>9 DEF IsStack, n
-----------------------------------------------------------------------------
(* The lists and the counters, when nothing they depend on changes.        *)
LEMMA ListsKept ==
  ASSUME Lists, UNCHANGED <<m_pHead, m_blocksInUse, blocks>>, Used' = Used,
         \A s \in Allocators : Counted(s)' = Counted(s),
         \A b \in DOMAIN blocks : b \notin Used => word'[b] = word[b]
  PROVE  Lists'
<1> SUFFICES ASSUME NEW s \in Allocators
             PROVE  /\ IsStack(Free(s)', m_pHead'[s], word')
                    /\ m_blocksInUse'[s] = Cardinality(Counted(s)')
  BY DEF Lists, Stacked
<1>1. Free(s)' = Free(s)
  BY DEF Free
<1>2. IsStack(Free(s), m_pHead[s], word')
  <2>1. \A b \in Free(s) : word'[b] = word[b]
    BY DEF Free
  <2> QED
    BY <2>1, StackSame DEF Lists, Stacked
<1> QED
  BY <1>1, <1>2 DEF Lists

(* The same for the number of blocks.                                      *)
LEMMA CountsKept ==
  ASSUME Counts, UNCHANGED <<m_maxObjects, m_blockCnt, blocks>>
  PROVE  Counts'
BY DEF Counts, OfSize

(* There are finitely many blocks of a size.                               *)
LEMMA SizeFinite ==
  ASSUME Inv, NEW s \in Allocators
  PROVE  IsFiniteSet(OfSize(s)) /\ Cardinality(OfSize(s)) \in Nat
BY FS_Subset, FS_CardinalityType DEF Inv, TypeOK, OfSize

(* A call of xmalloc begins.                                               *)
LEMMA CallMallocInv ==
  ASSUME Inv, NEW t \in Thread, NEW n \in Request, CallMalloc(t, n)
  PROVE  Inv'
<1> USE DEF CallMalloc, Running, Goto, Intact, pool, local
<1>0. n \in 0..SIZE_MAX
  BY XAllocatorAssumption DEF Inv, TypeOK, Locals
<1>1. TypeOK'
  BY <1>0 DEF Inv, TypeOK, Locals, InMutex
<1>2. ASSUME NEW u \in Thread PROVE Locals(u)'
  <2>1. CASE u = t
    BY <1>0, <2>1 DEF Inv, TypeOK, Locals, InMutex, IsFit, NoWrap
  <2>2. CASE u # t
    BY <1>0, <2>2 DEF Inv, TypeOK, Locals, InMutex, IsFit, NoWrap
  <2> QED
    BY <2>1, <2>2
<1>3. Distinct'
  BY <1>0 DEF Inv, TypeOK, Locals, Distinct
<1>4. Used' = Used
  BY <1>0 DEF Inv, TypeOK, Locals, Used, Freeing, Handing
<1>5. \A s \in Allocators : Counted(s)' = Counted(s)
  BY <1>0, <1>4 DEF Inv, TypeOK, Locals, Counted
<1>6. Headers'
  BY <1>0, <1>4 DEF Inv, TypeOK, Locals, Headers
<1>7. Lists'
  BY <1>0, <1>4, <1>5, ListsKept DEF Inv, Used, Freeing
<1>8. Sized' /\ Released' /\ (~ exiting' => _allocators' = Allocators)
  BY <1>0 DEF Inv, TypeOK, Locals, Sized, Released, IsFit
<1> QED
  BY <1>1, <1>2, <1>3, <1>6, <1>7, <1>8, CountsKept DEF Inv

(* A call of xfree begins.                                                 *)
LEMMA CallFreeInv ==
  ASSUME Inv, NEW t \in Thread, NEW p \in Usable, CallFree(t, p)
  PROVE  Inv'
<1> USE DEF CallFree, Running, Goto, Intact, pool, local
<1>0. /\ p \in DOMAIN held /\ p \in DOMAIN blocks /\ p # NULL
      /\ \A u \in Thread : ptr[u] # p
  BY XAllocatorAssumption DEF Usable, Freeing, Inv, TypeOK
<1>1. TypeOK'
  BY <1>0 DEF Inv, TypeOK, Locals, Without, InMutex
<1>2. ASSUME NEW u \in Thread PROVE Locals(u)'
  <2>1. CASE u = t
    BY <1>0, <2>1 DEF Inv, TypeOK, Locals, Without, InMutex, IsFit, NoWrap
  <2>2. CASE u # t
    BY <1>0, <2>2 DEF Inv, TypeOK, Locals, Without, InMutex, IsFit, NoWrap
  <2> QED
    BY <2>1, <2>2
<1>3. Distinct'
  BY <1>0 DEF Inv, TypeOK, Locals, Without, Distinct
<1>4. Used' = Used
  BY <1>0 DEF Inv, TypeOK, Locals, Without, Used, Freeing, Handing
<1>5. \A s \in Allocators : Counted(s)' = Counted(s)
  BY <1>0, <1>4 DEF Inv, TypeOK, Locals, Without, Counted
<1>6. Headers'
  BY <1>0, <1>4 DEF Inv, TypeOK, Locals, Without, Headers
<1>7. Lists'
  BY <1>0, <1>4, <1>5, ListsKept DEF Inv, Used, Freeing
<1>8. Sized' /\ Released' /\ (~ exiting' => _allocators' = Allocators)
  BY <1>0 DEF Inv, TypeOK, Locals, Without, Sized, Released, IsFit
<1> QED
  BY <1>1, <1>2, <1>3, <1>6, <1>7, <1>8, CountsKept DEF Inv

(* A call of xrealloc begins.                                              *)
LEMMA CallReallocInv ==
  ASSUME Inv, NEW t \in Thread, NEW p \in Usable, NEW n \in Request,
         CallRealloc(t, p, n)
  PROVE  Inv'
<1> USE DEF CallRealloc, Running, Goto, Intact, pool, local
<1>0. /\ p \in DOMAIN held /\ p \in DOMAIN blocks /\ p # NULL
      /\ n \in 0..SIZE_MAX /\ \A u \in Thread : ptr[u] # p
  BY XAllocatorAssumption DEF Usable, Freeing, Inv, TypeOK
<1>1. TypeOK'
  BY <1>0 DEF Inv, TypeOK, Locals, InMutex
<1>2. ASSUME NEW u \in Thread PROVE Locals(u)'
  <2>1. CASE u = t
    BY <1>0, <2>1 DEF Inv, TypeOK, Locals, InMutex, IsFit, NoWrap
  <2>2. CASE u # t
    BY <1>0, <2>2 DEF Inv, TypeOK, Locals, InMutex, IsFit, NoWrap
  <2> QED
    BY <2>1, <2>2
<1>3. Distinct'
  BY <1>0 DEF Inv, TypeOK, Locals, Distinct
<1>4. Used' = Used
  BY <1>0 DEF Inv, TypeOK, Locals, Used, Freeing, Handing
<1>5. \A s \in Allocators : Counted(s)' = Counted(s)
  BY <1>0, <1>4 DEF Inv, TypeOK, Locals, Counted
<1>6. Headers'
  BY <1>0, <1>4 DEF Inv, TypeOK, Locals, Headers
<1>7. Lists'
  BY <1>0, <1>4, <1>5, ListsKept DEF Inv, Used, Freeing
<1>8. Sized' /\ Released' /\ (~ exiting' => _allocators' = Allocators)
  BY <1>0 DEF Inv, TypeOK, Locals, Sized, Released, IsFit
<1> QED
  BY <1>1, <1>2, <1>3, <1>6, <1>7, <1>8, CountsKept DEF Inv

(* xmalloc takes the mutex.                                                *)
LEMMA LockMallocInv ==
  ASSUME Inv, NEW t \in Thread, LockMalloc(t)
  PROVE  Inv'
<1> USE DEF LockMalloc, Acquire, Goto, Intact, pool, local
<1>0. NOBODY \notin Thread
  BY XAllocatorAssumption DEF Inv, TypeOK, Locals
<1>1. TypeOK'
  BY <1>0 DEF Inv, TypeOK, Locals, InMutex
<1>2. ASSUME NEW u \in Thread PROVE Locals(u)'
  <2>1. CASE u = t
    BY <1>0, <2>1 DEF Inv, TypeOK, Locals, InMutex, IsFit, NoWrap
  <2>2. CASE u # t
    BY <1>0, <2>2 DEF Inv, TypeOK, Locals, InMutex, IsFit, NoWrap
  <2> QED
    BY <2>1, <2>2
<1>3. Distinct'
  BY <1>0 DEF Inv, TypeOK, Locals, Distinct
<1>4. Used' = Used
  BY <1>0 DEF Inv, TypeOK, Locals, Used, Freeing, Handing
<1>5. \A s \in Allocators : Counted(s)' = Counted(s)
  BY <1>0, <1>4 DEF Inv, TypeOK, Locals, Counted
<1>6. Headers'
  BY <1>0, <1>4 DEF Inv, TypeOK, Locals, Headers
<1>7. Lists'
  BY <1>0, <1>4, <1>5, ListsKept DEF Inv, Used, Freeing
<1>8. Sized' /\ Released' /\ (~ exiting' => _allocators' = Allocators)
  BY <1>0 DEF Inv, TypeOK, Locals, Sized, Released, IsFit
<1> QED
  BY <1>1, <1>2, <1>3, <1>6, <1>7, <1>8, CountsKept DEF Inv

(* An exception leaves the call.                                           *)
LEMMA TooLargeInv ==
  ASSUME Inv, NEW t \in Thread, TooLarge(t)
  PROVE  Inv'
<1> USE DEF TooLarge, Throw, Goto, Intact, pool, local
<1>0. NOBODY \notin Thread /\ 0 \in 0..SIZE_MAX /\ pc[t] = "fit" /\ mtx = t
  BY XAllocatorAssumption DEF Inv, TypeOK, Locals
<1>1. TypeOK'
  BY <1>0 DEF Inv, TypeOK, Locals, InMutex
<1>2. ASSUME NEW u \in Thread PROVE Locals(u)'
  <2>1. CASE u = t
    BY <1>0, <2>1 DEF Inv, TypeOK, Locals, InMutex, IsFit, NoWrap
  <2>2. CASE u # t
    BY <1>0, <2>2 DEF Inv, TypeOK, Locals, InMutex, IsFit, NoWrap
  <2> QED
    BY <2>1, <2>2
<1>3. Distinct'
  BY <1>0 DEF Inv, TypeOK, Locals, Distinct
<1>4. Used' = Used
  BY <1>0 DEF Inv, TypeOK, Locals, Used, Freeing, Handing
<1>5. \A s \in Allocators : Counted(s)' = Counted(s)
  BY <1>0, <1>4 DEF Inv, TypeOK, Locals, Counted
<1>6. Headers'
  BY <1>0, <1>4 DEF Inv, TypeOK, Locals, Headers
<1>7. Lists'
  BY <1>0, <1>4, <1>5, ListsKept DEF Inv, Used, Freeing
<1>8. Sized' /\ Released' /\ (~ exiting' => _allocators' = Allocators)
  BY <1>0 DEF Inv, TypeOK, Locals, Sized, Released, IsFit
<1> QED
  BY <1>1, <1>2, <1>3, <1>6, <1>7, <1>8, CountsKept DEF Inv

(* An exception leaves the call.                                           *)
LEMMA PoolEmptyInv ==
  ASSUME Inv, NEW t \in Thread, PoolEmpty(t)
  PROVE  Inv'
<1> USE DEF PoolEmpty, Throw, Goto, Intact, pool, local
<1>0. NOBODY \notin Thread /\ 0 \in 0..SIZE_MAX /\ pc[t] = "fit" /\ mtx = t
  BY XAllocatorAssumption DEF Inv, TypeOK, Locals
<1>1. TypeOK'
  BY <1>0 DEF Inv, TypeOK, Locals, InMutex
<1>2. ASSUME NEW u \in Thread PROVE Locals(u)'
  <2>1. CASE u = t
    BY <1>0, <2>1 DEF Inv, TypeOK, Locals, InMutex, IsFit, NoWrap
  <2>2. CASE u # t
    BY <1>0, <2>2 DEF Inv, TypeOK, Locals, InMutex, IsFit, NoWrap
  <2> QED
    BY <2>1, <2>2
<1>3. Distinct'
  BY <1>0 DEF Inv, TypeOK, Locals, Distinct
<1>4. Used' = Used
  BY <1>0 DEF Inv, TypeOK, Locals, Used, Freeing, Handing
<1>5. \A s \in Allocators : Counted(s)' = Counted(s)
  BY <1>0, <1>4 DEF Inv, TypeOK, Locals, Counted
<1>6. Headers'
  BY <1>0, <1>4 DEF Inv, TypeOK, Locals, Headers
<1>7. Lists'
  BY <1>0, <1>4, <1>5, ListsKept DEF Inv, Used, Freeing
<1>8. Sized' /\ Released' /\ (~ exiting' => _allocators' = Allocators)
  BY <1>0 DEF Inv, TypeOK, Locals, Sized, Released, IsFit
<1> QED
  BY <1>1, <1>2, <1>3, <1>6, <1>7, <1>8, CountsKept DEF Inv

(* The heap has no block.                                                  *)
LEMMA NoMemoryInv ==
  ASSUME Inv, NEW t \in Thread, NoMemory(t)
  PROVE  Inv'
<1> USE DEF NoMemory, Throw, Goto, Intact, pool, local
<1>0. NOBODY \notin Thread /\ 0 \in 0..SIZE_MAX /\ pc[t] = "fit" /\ mtx = t
  BY XAllocatorAssumption DEF Inv, TypeOK, Locals
<1>1. TypeOK'
  BY <1>0 DEF Inv, TypeOK, Locals, InMutex
<1>2. ASSUME NEW u \in Thread PROVE Locals(u)'
  <2>1. CASE u = t
    BY <1>0, <2>1 DEF Inv, TypeOK, Locals, InMutex, IsFit, NoWrap
  <2>2. CASE u # t
    BY <1>0, <2>2 DEF Inv, TypeOK, Locals, InMutex, IsFit, NoWrap
  <2> QED
    BY <2>1, <2>2
<1>3. Distinct'
  BY <1>0 DEF Inv, TypeOK, Locals, Distinct
<1>4. Used' = Used
  BY <1>0 DEF Inv, TypeOK, Locals, Used, Freeing, Handing
<1>5. \A s \in Allocators : Counted(s)' = Counted(s)
  BY <1>0, <1>4 DEF Inv, TypeOK, Locals, Counted
<1>6. Headers'
  BY <1>0, <1>4 DEF Inv, TypeOK, Locals, Headers
<1>7. Lists'
  BY <1>0, <1>4, <1>5, ListsKept DEF Inv, Used, Freeing
<1>8. Sized' /\ Released' /\ (~ exiting' => _allocators' = Allocators)
  BY <1>0 DEF Inv, TypeOK, Locals, Sized, Released, IsFit
<1>9. Counts'
  <2>1. UNCHANGED <<m_maxObjects, blocks>> /\ m_maxObjects = 0
    OBVIOUS
  <2>2. \A s \in Allocators : m_blockCnt'[s] >= m_blockCnt[s]
    BY DEF Inv, TypeOK
  <2>3. \A s \in Allocators : /\ m_blockCnt[s] \in Nat
                              /\ m_blockCnt'[s] \in Nat
    BY <1>1 DEF Inv, TypeOK
  <2>4. \A s \in Allocators : Cardinality(OfSize(s)) \in Nat
    BY SizeFinite
  <2> QED
    BY <2>1, <2>2, <2>3, <2>4 DEF Inv, Counts, OfSize
<1> QED
  BY <1>1, <1>2, <1>3, <1>6, <1>7, <1>8, <1>9 DEF Inv

(* The head of a free list is a block that nobody has in hand.             *)
LEMMA HeadFree ==
  ASSUME Inv, NEW s \in Allocators, m_pHead[s] # NULL
  PROVE  m_pHead[s] \in Free(s)
<1>1. IsFiniteSet(Free(s)) /\ NULL \notin Free(s)
  BY FS_Subset, XAllocatorAssumption DEF Inv, TypeOK, Free
<1> QED
  BY <1>1, StackHead DEF Inv, Lists, Stacked

(* Pop reads the head.                                                     *)
LEMMA ReadHeadInv ==
  ASSUME Inv, NEW t \in Thread, ReadHead(t)
  PROVE  Inv'
<1> USE DEF ReadHead, Goto, Intact, pool, local
<1>0. PICK s \in Allocators :
        /\ IsFit(s, size[t]) /\ m_pHead[s] # NULL
        /\ allocator' = [allocator EXCEPT ![t] = s]
        /\ blk' = [blk EXCEPT ![t] = m_pHead[s]]
  OBVIOUS
<1>a. /\ m_pHead[s] \in DOMAIN blocks /\ blocks[m_pHead[s]] = s
      /\ m_pHead[s] \notin Used /\ s # NULL /\ NULL \notin DOMAIN blocks
  BY <1>0, HeadFree, XAllocatorAssumption DEF Free, Inv, TypeOK
<1>b. pc[t] = "fit" /\ \A u \in Thread : u # t => pc[u] # "pop"
  BY DEF Inv, Locals, InMutex
<1>c. \A u \in Thread : ptr[u] # m_pHead[s] /\ blk[u] # m_pHead[s]
  BY <1>0, <1>a, <1>b DEF Inv, TypeOK, Locals, Used, Freeing, Handing
<1>d. m_pHead[s] \notin DOMAIN held
  BY <1>a DEF Used
<1>1. TypeOK'
  BY <1>0, <1>a, <1>b, <1>c, <1>d DEF Inv, TypeOK, Locals, InMutex
<1>2. ASSUME NEW u \in Thread PROVE Locals(u)'
  <2>1. CASE u = t
    BY <1>0, <1>a, <1>b, <1>c, <1>d, <2>1
    DEF Inv, TypeOK, Locals, InMutex, IsFit, NoWrap
  <2>2. CASE u # t
    BY <1>0, <1>a, <1>b, <1>c, <1>d, <2>2
    DEF Inv, TypeOK, Locals, InMutex, IsFit, NoWrap
  <2> QED
    BY <2>1, <2>2
<1>3. Distinct'
  BY <1>0, <1>a, <1>b, <1>c, <1>d DEF Inv, TypeOK, Locals, Distinct
<1>4. Used' = Used
  BY <1>0, <1>a, <1>b, <1>c, <1>d
  DEF Inv, TypeOK, Locals, Used, Freeing, Handing
<1>5. \A r \in Allocators : Counted(r)' = Counted(r)
  BY <1>0, <1>a, <1>b, <1>c, <1>d, <1>4 DEF Inv, TypeOK, Locals, Counted
<1>6. Headers'
  BY <1>0, <1>a, <1>b, <1>c, <1>d, <1>4 DEF Inv, TypeOK, Locals, Headers
<1>7. Lists'
  BY <1>4, <1>5, ListsKept DEF Inv, Used, Freeing
<1>8. Sized' /\ Released' /\ (~ exiting' => _allocators' = Allocators)
  BY <1>0, <1>a, <1>b, <1>c, <1>d
  DEF Inv, TypeOK, Locals, Sized, Released, IsFit
<1> QED
  BY <1>1, <1>2, <1>3, <1>6, <1>7, <1>8, CountsKept DEF Inv

(* xrealloc has copied.                                                    *)
LEMMA CopyInv ==
  ASSUME Inv, NEW t \in Thread, Copy(t)
  PROVE  Inv'
<1> USE DEF Copy, Goto, Intact, pool, local
<1>0. ptr[t] \in DOMAIN held /\ ptr[t] # NULL /\ pc[t] = "copy"
  BY XAllocatorAssumption DEF Inv, TypeOK, Locals
<1>1. TypeOK'
  BY <1>0 DEF Inv, TypeOK, Locals, Distinct, Without, InMutex
<1>2. ASSUME NEW u \in Thread PROVE Locals(u)'
  <2>1. CASE u = t
    BY <1>0, <2>1
    DEF Inv, TypeOK, Locals, Distinct, Without, InMutex, IsFit, NoWrap
  <2>2. CASE u # t
    BY <1>0, <2>2
    DEF Inv, TypeOK, Locals, Distinct, Without, InMutex, IsFit, NoWrap
  <2> QED
    BY <2>1, <2>2
<1>3. Distinct'
  BY <1>0 DEF Inv, TypeOK, Locals, Distinct, Without
<1>4. Used' = Used
  BY <1>0 DEF Inv, TypeOK, Locals, Distinct, Without, Used, Freeing, Handing
<1>5. \A s \in Allocators : Counted(s)' = Counted(s)
  BY <1>0, <1>4 DEF Inv, TypeOK, Locals, Distinct, Without, Counted
<1>6. Headers'
  BY <1>0, <1>4 DEF Inv, TypeOK, Locals, Distinct, Without, Headers
<1>7. Lists'
  BY <1>0, <1>4, <1>5, ListsKept DEF Inv, Used, Freeing
<1>8. Sized' /\ Released' /\ (~ exiting' => _allocators' = Allocators)
  BY <1>0 DEF Inv, TypeOK, Locals, Distinct, Without, Sized, Released, IsFit
<1> QED
  BY <1>1, <1>2, <1>3, <1>6, <1>7, <1>8, CountsKept DEF Inv

(* The copy leaves the new block, and nothing more happens.                *)
LEMMA OverrunInv ==
  ASSUME Inv, NEW t \in Thread, Overrun(t)
  PROVE  Inv'
<1> USE DEF Overrun, Goto, Intact, pool, local
<1>0. pc[t] = "copy" /\ ~ InBounds(t)
  OBVIOUS
<1>1. TypeOK'
  BY <1>0 DEF Inv, TypeOK, Locals, InMutex
<1>2. ASSUME NEW u \in Thread PROVE Locals(u)'
  <2>1. CASE u = t
    <3>1. InBounds(t)' = InBounds(t)
      BY DEF InBounds, Copied, Smaller
    <3> QED
      BY <1>0, <2>1, <3>1 DEF Inv, TypeOK, Locals, InMutex, IsFit
  <2>2. CASE u # t
    BY <1>0, <2>2 DEF Inv, TypeOK, Locals, InMutex, IsFit
  <2> QED
    BY <2>1, <2>2
<1>3. Distinct'
  BY <1>0 DEF Inv, TypeOK, Locals, Distinct
<1>4. Used' = Used
  BY <1>0 DEF Inv, TypeOK, Locals, Used, Freeing, Handing
<1>5. \A s \in Allocators : Counted(s)' = Counted(s)
  BY <1>0, <1>4 DEF Inv, TypeOK, Locals, Counted
<1>6. Headers'
  BY <1>0, <1>4 DEF Inv, TypeOK, Locals, Headers
<1>7. Lists'
  BY <1>0, <1>4, <1>5, ListsKept DEF Inv, Used, Freeing
<1>8. Sized' /\ Released' /\ (~ exiting' => _allocators' = Allocators)
  BY <1>0 DEF Inv, TypeOK, Locals, Sized, Released, IsFit
<1> QED
  BY <1>1, <1>2, <1>3, <1>6, <1>7, <1>8, CountsKept DEF Inv

(* xfree reads the Allocator off the block.                                *)
LEMMA ReadHeaderInv ==
  ASSUME Inv, NEW t \in Thread, ReadHeader(t)
  PROVE  Inv'
<1> USE DEF ReadHeader, Goto, Intact, pool, local
<1>0. /\ ptr[t] \in Used /\ word[ptr[t]] = blocks[ptr[t]]
      /\ ptr[t] \in DOMAIN blocks /\ ptr[t] # NULL
      /\ blocks[ptr[t]] \in Allocators /\ NULL \notin Allocators
  BY XAllocatorAssumption
    DEF Inv, TypeOK, Locals, Distinct, Headers, Used, Freeing
<1>1. TypeOK'
  BY <1>0 DEF Inv, TypeOK, Locals, InMutex
<1>2. ASSUME NEW u \in Thread PROVE Locals(u)'
  <2>1. CASE u = t
    BY <1>0, <2>1 DEF Inv, TypeOK, Locals, InMutex, IsFit, NoWrap
  <2>2. CASE u # t
    BY <1>0, <2>2 DEF Inv, TypeOK, Locals, InMutex, IsFit, NoWrap
  <2> QED
    BY <2>1, <2>2
<1>3. Distinct'
  BY <1>0 DEF Inv, TypeOK, Locals, Distinct
<1>4. Used' = Used
  BY <1>0 DEF Inv, TypeOK, Locals, Used, Freeing, Handing
<1>5. \A s \in Allocators : Counted(s)' = Counted(s)
  BY <1>0, <1>4 DEF Inv, TypeOK, Locals, Counted
<1>6. Headers'
  BY <1>0, <1>4 DEF Inv, TypeOK, Locals, Headers
<1>7. Lists'
  BY <1>0, <1>4, <1>5, ListsKept DEF Inv, Used, Freeing
<1>8. Sized' /\ Released' /\ (~ exiting' => _allocators' = Allocators)
  BY <1>0 DEF Inv, TypeOK, Locals, Sized, Released, IsFit
<1> QED
  BY <1>1, <1>2, <1>3, <1>6, <1>7, <1>8, CountsKept DEF Inv

(* xfree takes the mutex.                                                  *)
LEMMA LockFreeInv ==
  ASSUME Inv, NEW t \in Thread, LockFree(t)
  PROVE  Inv'
<1> USE DEF LockFree, Acquire, Goto, Intact, pool, local
<1>0. NOBODY \notin Thread
  BY XAllocatorAssumption DEF Inv, TypeOK, Locals
<1>1. TypeOK'
  BY <1>0 DEF Inv, TypeOK, Locals, InMutex
<1>2. ASSUME NEW u \in Thread PROVE Locals(u)'
  <2>1. CASE u = t
    BY <1>0, <2>1 DEF Inv, TypeOK, Locals, InMutex, IsFit, NoWrap
  <2>2. CASE u # t
    BY <1>0, <2>2 DEF Inv, TypeOK, Locals, InMutex, IsFit, NoWrap
  <2> QED
    BY <2>1, <2>2
<1>3. Distinct'
  BY <1>0 DEF Inv, TypeOK, Locals, Distinct
<1>4. Used' = Used
  BY <1>0 DEF Inv, TypeOK, Locals, Used, Freeing, Handing
<1>5. \A s \in Allocators : Counted(s)' = Counted(s)
  BY <1>0, <1>4 DEF Inv, TypeOK, Locals, Counted
<1>6. Headers'
  BY <1>0, <1>4 DEF Inv, TypeOK, Locals, Headers
<1>7. Lists'
  BY <1>0, <1>4, <1>5, ListsKept DEF Inv, Used, Freeing
<1>8. Sized' /\ Released' /\ (~ exiting' => _allocators' = Allocators)
  BY <1>0 DEF Inv, TypeOK, Locals, Sized, Released, IsFit
<1> QED
  BY <1>1, <1>2, <1>3, <1>6, <1>7, <1>8, CountsKept DEF Inv

(* Push links the block to the head.                                       *)
LEMMA LinkInv ==
  ASSUME Inv, NEW t \in Thread, Link(t)
  PROVE  Inv'
<1> USE DEF Link, Goto, Intact, pool, local
<1>0. /\ ptr[t] \in DOMAIN blocks /\ ptr[t] # NULL /\ pc[t] = "link"
      /\ allocator[t] \in Allocators /\ mtx = t
  BY XAllocatorAssumption DEF Inv, TypeOK, Locals
<1>1. TypeOK'
  BY <1>0 DEF Inv, TypeOK, Locals, InMutex
<1>2. ASSUME NEW u \in Thread PROVE Locals(u)'
  <2>1. CASE u = t
    BY <1>0, <2>1 DEF Inv, TypeOK, Locals, InMutex, IsFit, NoWrap
  <2>2. CASE u # t
    BY <1>0, <2>2 DEF Inv, TypeOK, Locals, InMutex, IsFit, NoWrap
  <2> QED
    BY <2>1, <2>2
<1>3. Distinct'
  BY <1>0 DEF Inv, TypeOK, Locals, Distinct
<1>4. Used' = Used
  BY <1>0 DEF Inv, TypeOK, Locals, Used, Freeing, Handing
<1>5. \A s \in Allocators : Counted(s)' = Counted(s)
  BY <1>0, <1>4 DEF Inv, TypeOK, Locals, Counted
<1>6. Headers'
  BY <1>0, <1>4 DEF Inv, TypeOK, Locals, Headers
<1>7. Lists'
  BY <1>0, <1>4, <1>5, ListsKept DEF Inv, Used, Freeing
<1>8. Sized' /\ Released' /\ (~ exiting' => _allocators' = Allocators)
  BY <1>0 DEF Inv, TypeOK, Locals, Sized, Released, IsFit
<1> QED
  BY <1>1, <1>2, <1>3, <1>6, <1>7, <1>8, CountsKept DEF Inv

(* The end of xmalloc: the block is counted, marked and returned.          *)
LEMMA HandInv ==
  ASSUME Inv, NEW t \in Thread, Hand(t)
  PROVE  Inv'
<1> DEFINE b == blk[t]
           s == allocator[t]
<1> USE DEF Hand, Goto, Intact, pool, local
<1>0. /\ pc[t] = "hand" /\ b \in DOMAIN blocks /\ b # NULL
      /\ s \in Allocators /\ blocks[b] = s /\ b \notin DOMAIN held
      /\ NOBODY \notin Thread /\ 0 \in 0..SIZE_MAX
      /\ size[t] \in 0..SIZE_MAX /\ IsFit(s, size[t])
      /\ NULL \notin DOMAIN blocks /\ NULL \notin Allocators
      /\ b \in Used /\ \A u \in Thread : ptr[u] # b
  BY XAllocatorAssumption
  DEF Inv, TypeOK, Locals, Distinct, Used, Handing
<1>1. /\ m_blocksInUse' = [m_blocksInUse EXCEPT ![s] = @ + 1]
      /\ word' = [word EXCEPT ![b] = s] /\ mtx' = NOBODY
      /\ allocator' = [allocator EXCEPT ![t] = NULL]
      /\ UNCHANGED <<m_maxObjects, _allocators, m_pHead, m_blockCnt, blocks,
                     ptr, exiting>>
  OBVIOUS
<1>2. \/ /\ ptr[t] = NULL /\ pc' = [pc EXCEPT ![t] = "idle"]
         /\ held' = With(held, b, size[t])
         /\ blk' = [blk EXCEPT ![t] = NULL]
         /\ size' = [size EXCEPT ![t] = 0]
      \/ /\ ptr[t] # NULL /\ pc' = [pc EXCEPT ![t] = "copy"]
         /\ UNCHANGED <<held, blk, size>>
  OBVIOUS
<1> USE <1>0, <1>1, <1>2
<1>3. TypeOK'
  BY DEF Inv, TypeOK, With, InMutex
<1>4. ASSUME NEW u \in Thread PROVE Locals(u)'
  <2>1. CASE u = t
    BY <2>1 DEF Inv, TypeOK, Locals, InMutex, IsFit, NoWrap, With
  <2>2. CASE u # t
    BY <2>2 DEF Inv, TypeOK, Locals, InMutex, IsFit, NoWrap, With
  <2> QED
    BY <2>1, <2>2
<1>5. Distinct'
  BY DEF Inv, TypeOK, Locals, Distinct, With
<1>6. Used' = Used
  BY DEF Inv, TypeOK, Locals, Used, Freeing, Handing, With
<1>7. Headers'
  BY <1>6 DEF Inv, TypeOK, Locals, Headers, Used, Freeing, Handing
<1>8. ASSUME NEW r \in Allocators
      PROVE  Counted(r)' = IF r = s THEN Counted(r) \cup {b} ELSE Counted(r)
  BY <1>6 DEF Inv, TypeOK, Locals, Distinct, Counted, InMutex
<1>9. b \notin Counted(s)
  BY DEF Counted
<1>10. Lists'
  <2> SUFFICES ASSUME NEW r \in Allocators
               PROVE  /\ IsStack(Free(r)', m_pHead'[r], word')
                      /\ m_blocksInUse'[r] = Cardinality(Counted(r)')
    BY DEF Lists, Stacked
  <2>1. Free(r)' = Free(r) /\ \A c \in Free(r) : word'[c] = word[c]
    BY <1>6 DEF Free, Inv, TypeOK
  <2>2. IsStack(Free(r), m_pHead[r], word')
    BY <2>1, StackSame DEF Inv, Lists, Stacked
  <2>3. IsFiniteSet(Counted(r)) /\ m_blocksInUse[r] = Cardinality(Counted(r))
    <3>1. Counted(r) \subseteq DOMAIN blocks
      BY DEF Counted, Used, Freeing, Handing, Inv, TypeOK
    <3> QED
      BY <3>1, FS_Subset DEF Inv, TypeOK, Lists
  <2>4. m_blocksInUse'[r] = Cardinality(Counted(r)')
    <3>1. CASE r = s
      <4>1. Cardinality(Counted(s) \cup {b}) = Cardinality(Counted(s)) + 1
        BY <1>9, <2>3, <3>1, FS_AddElement
      <4>2. Counted(r)' = Counted(s) \cup {b}
        BY <1>8, <3>1
      <4>3. m_blocksInUse'[r] = m_blocksInUse[s] + 1
        BY <3>1 DEF Inv, TypeOK
      <4> QED
        BY <2>3, <3>1, <4>1, <4>2, <4>3
    <3>2. CASE r # s
      BY <1>8, <2>3, <3>2 DEF Inv, TypeOK
    <3> QED
      BY <3>1, <3>2
  <2> QED
    BY <2>1, <2>2, <2>4
<1>11. Sized' /\ Released' /\ (~ exiting' => _allocators' = Allocators)
  BY DEF Inv, TypeOK, Locals, Sized, Released, IsFit, With
<1> QED
  BY <1>1, <1>3, <1>4, <1>5, <1>7, <1>10, <1>11, CountsKept DEF Inv

(* A new block is made: it is in use at once.                              *)
LEMMA NewBlockInv ==
  ASSUME Inv, NEW t \in Thread, NewBlock(t)
  PROVE  Inv'
<1> USE DEF NewBlock, Goto, Intact, pool, local
<1>1. PICK s \in Allocators, b \in Address \ DOMAIN blocks :
        /\ IsFit(s, size[t]) /\ m_pHead[s] = NULL /\ ~ Exhausted(s)
        /\ m_blockCnt' = [m_blockCnt EXCEPT ![s] = @ + 1]
        /\ blocks' = With(blocks, b, s)
        /\ word' = With(word, b, NULL)
        /\ allocator' = [allocator EXCEPT ![t] = s]
        /\ blk' = [blk EXCEPT ![t] = b]
  OBVIOUS
<1>2. /\ pc[t] = "fit" /\ pc' = [pc EXCEPT ![t] = "hand"] /\ blk[t] = NULL
      /\ UNCHANGED <<m_maxObjects, _allocators, m_pHead, m_blocksInUse, held,
                     mtx, size, ptr, exiting>>
      /\ b # NULL /\ s # NULL /\ NULL \notin DOMAIN blocks
      /\ b \notin DOMAIN held
      /\ \A u \in Thread : blk[u] # b /\ ptr[u] # b
  BY <1>1, XAllocatorAssumption DEF Inv, TypeOK, Locals
<1>3. /\ DOMAIN blocks' = DOMAIN blocks \cup {b}
      /\ DOMAIN word' = DOMAIN blocks'
      /\ blocks'[b] = s /\ word'[b] = NULL
      /\ \A c \in DOMAIN blocks : blocks'[c] = blocks[c] /\ word'[c] = word[c]
  BY <1>1 DEF With, Inv, TypeOK
<1>4. TypeOK'
  <2>1. IsFiniteSet(DOMAIN blocks')
    BY <1>3, FS_AddElement DEF Inv, TypeOK
  <2>2. blocks' \in [DOMAIN blocks' -> Allocators]
    BY <1>1 DEF With, Inv, TypeOK
  <2>3. word' \in [DOMAIN blocks' -> Address \cup Allocators \cup {NULL}]
    BY <1>1 DEF With, Inv, TypeOK
  <2> QED
    BY <1>1, <1>2, <1>3, <2>1, <2>2, <2>3 DEF Inv, TypeOK, InMutex
<1>0. \A u \in Thread : pc[u] # "lost"
  OBVIOUS
<1> HIDE DEF NewBlock
<1>5. ASSUME NEW u \in Thread PROVE Locals(u)'
  <2>1. CASE u = t
    BY <1>1, <1>2, <1>3, <2>1
    DEF Inv, TypeOK, Locals, InMutex, IsFit, NoWrap
  <2>2. CASE u # t
    BY <1>0, <1>1, <1>2, <1>3, <2>2
    DEF Inv, TypeOK, Locals, InMutex, IsFit, NoWrap
  <2> QED
    BY <2>1, <2>2
<1>6. Distinct'
  BY <1>1, <1>2, <1>3 DEF Inv, TypeOK, Locals, Distinct
<1>7. Used' = Used \cup {b}
  BY <1>1, <1>2, <1>3 DEF Inv, TypeOK, Locals, Used, Freeing, Handing
<1>8. Headers'
  BY <1>1, <1>2, <1>3, <1>7
  DEF Inv, TypeOK, Locals, Headers, Used, Freeing, Handing
<1>9. Lists'
  <2> SUFFICES ASSUME NEW r \in Allocators
               PROVE  /\ IsStack(Free(r)', m_pHead'[r], word')
                      /\ m_blocksInUse'[r] = Cardinality(Counted(r)')
    BY DEF Lists, Stacked
  <2>1. Free(r)' = Free(r) /\ \A c \in Free(r) : word'[c] = word[c]
    BY <1>3, <1>7 DEF Free
  <2>2. Counted(r)' = Counted(r)
    <3>1. Used \subseteq DOMAIN blocks
      BY DEF Used, Freeing, Handing, Inv, TypeOK
    <3>2. \A u \in Thread : pc'[u] = "hand" <=> (u = t \/ pc[u] = "hand")
      BY <1>2 DEF Inv, TypeOK
    <3>3. \A u \in Thread : u # t => pc[u] # "hand"
      BY <1>2 DEF Inv, Locals, InMutex
    <3>4. blk'[t] = b
      BY <1>1 DEF Inv, TypeOK
    <3> QED
      BY <1>2, <1>3, <1>7, <3>1, <3>2, <3>3, <3>4 DEF Counted
  <2> QED
    BY <1>2, <2>1, <2>2, StackSame DEF Inv, Lists, Stacked
<1>10. Sized' /\ Released' /\ (~ exiting' => _allocators' = Allocators)
  BY <1>2, <1>3 DEF Inv, TypeOK, Sized, Released, IsFit
<1>11. Counts'
  <2> SUFFICES ASSUME NEW r \in Allocators
               PROVE  /\ Cardinality(OfSize(r)') <= m_blockCnt'[r]
                      /\ m_maxObjects' > 0 =>
                           /\ Cardinality(OfSize(r)') = m_blockCnt'[r]
                           /\ m_blockCnt'[r] <= m_maxObjects'
    BY DEF Counts
  <2>1. /\ m_blockCnt[r] \in Nat /\ m_maxObjects \in Nat
        /\ Cardinality(OfSize(r)) <= m_blockCnt[r]
        /\ m_maxObjects > 0 => /\ Cardinality(OfSize(r)) = m_blockCnt[r]
                               /\ m_blockCnt[r] <= m_maxObjects
    BY XAllocatorAssumption DEF Inv, TypeOK, Counts
  <2>2. IsFiniteSet(OfSize(r)) /\ Cardinality(OfSize(r)) \in Nat
    BY SizeFinite
  <2>3. CASE r = s
    <3>1. OfSize(r)' = OfSize(r) \cup {b}
      BY <1>3, <2>3 DEF OfSize
    <3>2. b \notin OfSize(r)
      BY <1>1 DEF OfSize
    <3>3. Cardinality(OfSize(r)') = Cardinality(OfSize(r)) + 1
      BY <2>2, <3>1, <3>2, FS_AddElement
    <3>4. m_blockCnt'[r] = m_blockCnt[r] + 1
      BY <1>1, <2>3 DEF Inv, TypeOK
    <3>5. m_maxObjects > 0 => m_blockCnt[r] < m_maxObjects
      BY <1>1, <2>1, <2>3 DEF Exhausted
    <3> QED
      BY <1>2, <2>1, <2>2, <3>3, <3>4, <3>5
  <2>4. CASE r # s
    <3>1. OfSize(r)' = OfSize(r)
      BY <1>1, <1>3, <2>4 DEF OfSize
    <3>2. m_blockCnt'[r] = m_blockCnt[r]
      BY <1>1, <2>4 DEF Inv, TypeOK
    <3> QED
      BY <1>2, <2>1, <3>1, <3>2
  <2> QED
    BY <2>3, <2>4
<1> QED
  BY <1>4, <1>5, <1>6, <1>8, <1>9, <1>10, <1>11 DEF Inv

(* The head of a free list is taken off it.                                *)
LEMMA PopInv ==
  ASSUME Inv, NEW t \in Thread, Pop(t)
  PROVE  Inv'
<1> DEFINE b == blk[t]
           s == allocator[t]
<1> USE DEF Pop, Goto, Intact, pool, local
<1>1. /\ pc[t] = "pop" /\ pc' = [pc EXCEPT ![t] = "hand"]
      /\ m_pHead' = [m_pHead EXCEPT ![s] = word[b]]
      /\ UNCHANGED <<m_maxObjects, _allocators, m_blockCnt, m_blocksInUse,
                     blocks, word, held, mtx, local, exiting>>
  OBVIOUS
<1>2. b \in DOMAIN blocks /\ b # NULL /\ s \in Allocators /\ b = m_pHead[s]
  BY <1>1, XAllocatorAssumption DEF Inv, TypeOK, Locals
<1>3. b \in Free(s) /\ blocks[b] = s /\ b \notin Used
  BY <1>2, HeadFree DEF Free
<1>4. IsFiniteSet(Free(s)) /\ NULL \notin Free(s)
  BY FS_Subset, XAllocatorAssumption DEF Inv, TypeOK, Free
<1>5. IsStack(Free(s) \ {b}, word[b], word)
  BY <1>2, <1>4, StackPop DEF Inv, Lists, Stacked
<1>6. word[b] \in Address \cup {NULL}
  <2>1. word[b] \in (Free(s) \ {b}) \cup {NULL}
    <3>1. IsFiniteSet(Free(s) \ {b}) /\ NULL \notin Free(s) \ {b}
      BY <1>4, FS_Subset
    <3> QED
      BY <1>5, <3>1, StackHead
  <2> QED
    BY <2>1 DEF Free, Inv, TypeOK
<1>7. TypeOK'
  BY <1>1, <1>2, <1>6 DEF Inv, TypeOK, InMutex
<1>8. ASSUME NEW u \in Thread PROVE Locals(u)'
  <2>1. CASE u = t
    BY <1>1, <1>2, <1>3, <2>1
    DEF Inv, TypeOK, Locals, InMutex, IsFit, NoWrap
  <2>2. CASE u # t
    BY <1>1, <1>2, <2>2 DEF Inv, TypeOK, Locals, InMutex, IsFit, NoWrap
  <2> QED
    BY <2>1, <2>2
<1>9. Distinct'
  BY <1>1 DEF Inv, TypeOK, Locals, Distinct
<1>10. Used' = Used \cup {b}
  BY <1>1, <1>2 DEF Inv, TypeOK, Locals, Used, Freeing, Handing
<1>11. Headers'
  BY <1>1, <1>2, <1>10 DEF Inv, TypeOK, Locals, Headers
<1>12. Lists'
  <2> SUFFICES ASSUME NEW r \in Allocators
               PROVE  /\ IsStack(Free(r)', m_pHead'[r], word')
                      /\ m_blocksInUse'[r] = Cardinality(Counted(r)')
    BY DEF Lists, Stacked
  <2>1. Counted(r)' = Counted(r)
    <3>1. \A u \in Thread : pc'[u] = "hand" <=> (u = t \/ pc[u] = "hand")
      BY <1>1 DEF Inv, TypeOK
    <3>2. \A u \in Thread : u # t => pc[u] # "hand"
      BY <1>1 DEF Inv, Locals, InMutex
    <3> QED
      BY <1>1, <1>3, <1>10, <3>1, <3>2 DEF Counted
  <2>2. Free(r)' = Free(r) \ {b}
    BY <1>1, <1>10 DEF Free
  <2>3. CASE r = s
    BY <1>1, <1>2, <1>5, <2>1, <2>2, <2>3 DEF Inv, TypeOK, Lists
  <2>4. CASE r # s
    <3>1. Free(r) \ {b} = Free(r)
      BY <1>3, <2>4 DEF Free
    <3>2. m_pHead'[r] = m_pHead[r] /\ word' = word
      BY <1>1, <1>2, <2>4 DEF Inv, TypeOK
    <3>3. IsStack(Free(r), m_pHead[r], word)
      BY DEF Inv, Lists, Stacked
    <3>4. m_blocksInUse'[r] = Cardinality(Counted(r)')
      BY <1>1, <2>1 DEF Inv, Lists
    <3> QED
      BY <2>2, <3>1, <3>2, <3>3, <3>4
  <2> QED
    BY <2>3, <2>4
<1>13. Sized' /\ Released' /\ (~ exiting' => _allocators' = Allocators)
  BY <1>1 DEF Inv, TypeOK, Sized, Released, IsFit
<1> QED
  BY <1>1, <1>7, <1>8, <1>9, <1>11, <1>12, <1>13, CountsKept DEF Inv

(* The end of xfree: the block becomes the head of its free list.          *)
LEMMA PushInv ==
  ASSUME Inv, NEW t \in Thread, Push(t)
  PROVE  Inv'
<1> DEFINE b == ptr[t]
           s == allocator[t]
<1> USE DEF Push, Goto, Intact, pool, local
<1>1. /\ pc[t] = "push" /\ pc' = [pc EXCEPT ![t] = "idle"]
      /\ m_pHead' = [m_pHead EXCEPT ![s] = b]
      /\ m_blocksInUse' = [m_blocksInUse EXCEPT ![s] = @ - 1]
      /\ mtx' = NOBODY
      /\ held' = IF blk[t] = NULL THEN held ELSE With(held, blk[t], size[t])
      /\ size' = [size EXCEPT ![t] = 0]
      /\ ptr' = [ptr EXCEPT ![t] = NULL]
      /\ allocator' = [allocator EXCEPT ![t] = NULL]
      /\ blk' = [blk EXCEPT ![t] = NULL]
      /\ UNCHANGED <<m_maxObjects, _allocators, m_blockCnt, blocks, word,
                     exiting>>
  OBVIOUS
<1>2. /\ b \in DOMAIN blocks /\ b # NULL /\ s \in Allocators /\ blocks[b] = s
      /\ word[b] = m_pHead[s] /\ b \notin DOMAIN held
      /\ NULL \notin DOMAIN blocks /\ NULL \notin Allocators
      /\ NOBODY \notin Thread /\ 0 \in 0..SIZE_MAX
      /\ size[t] \in 0..SIZE_MAX
      /\ blk[t] # NULL => blk[t] \in DOMAIN blocks /\ blk[t] # b
      /\ blk[t] # NULL => IsFit(blocks[blk[t]], size[t])
  BY <1>1, XAllocatorAssumption DEF Inv, TypeOK, Locals, Distinct
<1>3. /\ b \in Used /\ \A u \in Thread : blk[u] # b
      /\ \A u \in Thread : u # t => ptr[u] # b
      /\ \A u \in Thread : u # t => pc[u] \notin InMutex
  BY <1>1, <1>2 DEF Used, Freeing, Inv, Distinct, Locals, InMutex
<1>4. b \in Counted(s)
  BY <1>2, <1>3 DEF Counted
<1>5. IsFiniteSet(Counted(s))
  <2>1. Counted(s) \subseteq DOMAIN blocks
    BY DEF Counted, Used, Freeing, Handing, Inv, TypeOK
  <2> QED
    BY <2>1, FS_Subset DEF Inv, TypeOK
<1>6. /\ Cardinality(Counted(s) \ {b}) = m_blocksInUse[s] - 1
      /\ m_blocksInUse[s] - 1 \in Nat
  <2>1. Cardinality(Counted(s) \ {b}) = Cardinality(Counted(s)) - 1
    BY <1>4, <1>5, FS_RemoveElement
  <2>2. Cardinality(Counted(s) \ {b}) \in Nat
    <3>1. IsFiniteSet(Counted(s) \ {b})
      BY <1>5, FS_RemoveElement
    <3> QED
      BY <3>1, FS_CardinalityType
  <2>3. m_blocksInUse[s] = Cardinality(Counted(s))
    BY <1>2 DEF Inv, Lists
  <2> QED
    BY <2>1, <2>2, <2>3
<1>0. \A u \in Thread : pc[u] # "lost"
  OBVIOUS
<1> HIDE DEF Push
<1>7. TypeOK'
  BY <1>1, <1>2, <1>6 DEF Inv, TypeOK, InMutex, With
<1>8. ASSUME NEW u \in Thread PROVE Locals(u)'
  <2>1. CASE u = t
    BY <1>1, <1>2, <1>3, <2>1
    DEF Inv, TypeOK, Locals, InMutex, IsFit, NoWrap, With
  <2>2. CASE u # t
    <3>1. blk[t] # NULL => ptr[u] # blk[t]
      BY DEF Inv, Distinct
    <3> QED
      BY <1>0, <1>1, <1>2, <1>3, <2>2, <3>1
      DEF Inv, TypeOK, Locals, InMutex, IsFit, NoWrap, With
  <2> QED
    BY <2>1, <2>2
<1>9. Distinct'
  BY <1>1, <1>2, <1>3 DEF Inv, TypeOK, Distinct, With
<1>10. Used' = Used \ {b}
  <2>1. blk[t] # NULL => blk[t] \in Used
    BY <1>1, <1>2 DEF Used, Handing
  <2>2. DOMAIN held' = IF blk[t] = NULL THEN DOMAIN held
                       ELSE DOMAIN held \cup {blk[t]}
    BY <1>1 DEF With
  <2>3. Freeing' = Freeing \ {b}
    BY <1>1, <1>2, <1>3 DEF Freeing, Inv, TypeOK
  <2>4. Handing' = Handing \ {blk[t]}
    BY <1>1, <1>2 DEF Handing, Inv, TypeOK, Distinct
  <2>5. b \notin Handing /\ b \notin DOMAIN held /\ blk[t] \notin {b}
    BY <1>2, <1>3 DEF Handing
  <2>6. blk[t] = NULL => blk[t] \notin Handing
    BY <1>2 DEF Handing
  <2> QED
    BY <2>1, <2>2, <2>3, <2>4, <2>5, <2>6 DEF Used
<1>11. Headers'
  BY <1>1, <1>2, <1>10 DEF Inv, TypeOK, Locals, Headers
<1>12. ASSUME NEW r \in Allocators
       PROVE  Counted(r)' = IF r = s THEN Counted(r) \ {b} ELSE Counted(r)
  <2>1. \A u \in Thread : pc'[u] # "hand" /\ pc[u] # "hand"
    BY <1>1, <1>3 DEF Inv, TypeOK, InMutex
  <2> QED
    BY <1>1, <1>2, <1>10, <2>1 DEF Counted
<1>13. Lists'
  <2> SUFFICES ASSUME NEW r \in Allocators
               PROVE  /\ IsStack(Free(r)', m_pHead'[r], word')
                      /\ m_blocksInUse'[r] = Cardinality(Counted(r)')
    BY DEF Lists, Stacked
  <2>1. IsStack(Free(r), m_pHead[r], word) /\ word' = word
    BY <1>1 DEF Inv, Lists, Stacked
  <2>2. CASE r = s
    <3>1. Free(r)' = Free(r) \cup {b} /\ b \notin Free(r)
      BY <1>1, <1>2, <1>3, <1>10, <2>2 DEF Free
    <3>2. IsFiniteSet(Free(r))
      BY FS_Subset DEF Free, Inv, TypeOK
    <3>3. IsStack(Free(r) \cup {b}, b, word)
      BY <1>2, <2>1, <2>2, <3>1, <3>2, StackPush
    <3>4. m_pHead'[r] = b
      BY <1>1, <2>2 DEF Inv, TypeOK
    <3>5. m_blocksInUse'[r] = m_blocksInUse[s] - 1
      BY <1>1, <2>2 DEF Inv, TypeOK
    <3>6. Counted(r)' = Counted(s) \ {b}
      BY <1>12, <2>2
    <3> QED
      BY <1>6, <2>1, <3>1, <3>3, <3>4, <3>5, <3>6
  <2>3. CASE r # s
    <3>1. Free(r)' = Free(r)
      BY <1>1, <1>2, <1>10, <2>3 DEF Free
    <3>2. m_pHead'[r] = m_pHead[r] /\ m_blocksInUse'[r] = m_blocksInUse[r]
      BY <1>1, <2>3 DEF Inv, TypeOK
    <3>3. m_blocksInUse[r] = Cardinality(Counted(r)')
      BY <1>12, <2>3 DEF Inv, Lists
    <3> QED
      BY <2>1, <3>1, <3>2, <3>3
  <2> QED
    BY <2>2, <2>3
<1>14. Sized' /\ Released' /\ (~ exiting' => _allocators' = Allocators)
  BY <1>1, <1>2 DEF Inv, TypeOK, Sized, Released, IsFit, With
<1> QED
  BY <1>1, <1>7, <1>8, <1>9, <1>11, <1>13, <1>14, CountsKept DEF Inv

-----------------------------------------------------------------------------
(* The exit.                                                               *)

(* Nothing is in anybody's hands then but what the program holds.          *)
LEMMA Quiescent ==
  ASSUME Inv, \A t \in Thread : pc[t] = "idle"
  PROVE  /\ \A t \in Thread : ptr[t] = NULL /\ blk[t] = NULL
         /\ Used = DOMAIN held
<1>1. \A t \in Thread : ptr[t] = NULL /\ blk[t] = NULL
  BY DEF Inv, Locals
<1>2. NULL \notin DOMAIN blocks
  BY XAllocatorAssumption DEF Inv, TypeOK
<1> QED
  BY <1>1, <1>2 DEF Used, Freeing, Handing

LEMMA ExitInv ==
  ASSUME Inv, Exit
  PROVE  Inv'
<1> USE DEF Exit, pool, local
<1>1. TypeOK'
  BY DEF Inv, TypeOK
<1>2. ASSUME NEW u \in Thread PROVE Locals(u)'
  BY DEF Inv, Locals, IsFit, NoWrap
<1>3. Distinct'
  BY DEF Inv, Distinct
<1>4. Used' = Used
  BY DEF Used, Freeing, Handing
<1>5. \A s \in Allocators : Counted(s)' = Counted(s)
  BY <1>4 DEF Counted
<1>6. Headers'
  BY <1>4 DEF Inv, Headers
<1>7. Lists'
  BY <1>4, <1>5, ListsKept DEF Inv
<1>8. Sized' /\ Released' /\ (~ exiting' => _allocators' = Allocators)
  BY DEF Inv, TypeOK, Sized, Released
<1> QED
  BY <1>1, <1>2, <1>3, <1>6, <1>7, <1>8, CountsKept DEF Inv

LEMMA DeleteAllocatorInv ==
  ASSUME Inv, DeleteAllocator
  PROVE  Inv'
<1> USE DEF DeleteAllocator, pool, local
<1>0. PICK s \in Allocators :
        /\ Smallest(s) /\ (m_maxObjects = 0 => m_pHead[s] = NULL)
        /\ _allocators' = _allocators \ {s}
  OBVIOUS
<1>a. /\ \A t \in Thread : pc[t] = "idle" /\ ptr[t] = NULL /\ blk[t] = NULL
      /\ Used = DOMAIN held
  BY Quiescent DEF Inv, Released
<1>1. TypeOK'
  BY DEF Inv, TypeOK
<1>2. ASSUME NEW u \in Thread PROVE Locals(u)'
  BY <1>a DEF Inv, Locals
<1>3. Distinct'
  BY DEF Inv, Distinct
<1>4. Used' = Used
  BY DEF Used, Freeing, Handing
<1>5. \A r \in Allocators : Counted(r)' = Counted(r)
  BY <1>4 DEF Counted
<1>6. Headers'
  BY <1>4 DEF Inv, Headers
<1>7. Lists'
  BY <1>4, <1>5, ListsKept DEF Inv
<1>8. m_maxObjects = 0 =>
        \A b \in DOMAIN blocks : blocks[b] = s => b \in DOMAIN held
  <2> SUFFICES ASSUME m_maxObjects = 0
               PROVE  \A b \in DOMAIN blocks :
                        blocks[b] = s => b \in DOMAIN held
    OBVIOUS
  <2>1. IsFiniteSet(Free(s)) /\ NULL \notin Free(s)
    BY FS_Subset, XAllocatorAssumption DEF Inv, TypeOK, Free
  <2>2. Free(s) = {}
    BY <1>0, <2>1, StackHead DEF Inv, Lists, Stacked
  <2> QED
    BY <1>a, <2>2 DEF Free
<1>9. Sized' /\ Released' /\ (~ exiting' => _allocators' = Allocators)
  BY <1>0, <1>8 DEF Inv, TypeOK, Sized, Released
<1> QED
  BY <1>1, <1>2, <1>3, <1>6, <1>7, <1>9, CountsKept DEF Inv

LEMMA DeleteBlockInv ==
  ASSUME Inv, DeleteBlock
  PROVE  Inv'
<1> USE DEF DeleteBlock, pool, local
<1>1. PICK s \in Allocators :
        /\ Smallest(s) /\ m_pHead[s] # NULL
        /\ m_pHead' = [m_pHead EXCEPT ![s] = word[m_pHead[s]]]
        /\ blocks' = Without(blocks, m_pHead[s])
        /\ word' = Without(word, m_pHead[s])
  OBVIOUS
<1> DEFINE b == m_pHead[s]
<1>2. /\ \A t \in Thread : pc[t] = "idle" /\ ptr[t] = NULL /\ blk[t] = NULL
      /\ Used = DOMAIN held
  BY Quiescent DEF Inv, Released
<1>3. b \in Free(s)
  BY <1>1, HeadFree
<1>4. IsFiniteSet(Free(s)) /\ NULL \notin Free(s)
  BY FS_Subset, XAllocatorAssumption DEF Inv, TypeOK, Free
<1>5. IsStack(Free(s) \ {b}, word[b], word)
  BY <1>1, <1>4, StackPop DEF Inv, Lists, Stacked
<1>6. word[b] \in Address \cup {NULL}
  <2>1. word[b] \in (Free(s) \ {b}) \cup {NULL}
    <3>1. IsFiniteSet(Free(s) \ {b}) /\ NULL \notin Free(s) \ {b}
      BY <1>4, FS_Subset
    <3> QED
      BY <1>5, <3>1, StackHead
  <2> QED
    BY <2>1 DEF Free, Inv, TypeOK
<1>7. /\ b \in DOMAIN blocks /\ blocks[b] = s /\ b \notin DOMAIN held
      /\ b \notin Used /\ NULL \notin DOMAIN blocks
  BY <1>2, <1>3, XAllocatorAssumption DEF Free, Inv, TypeOK
<1>8. /\ DOMAIN blocks' = DOMAIN blocks \ {b} /\ DOMAIN word' = DOMAIN blocks'
      /\ \A c \in DOMAIN blocks' : blocks'[c] = blocks[c] /\ word'[c] = word[c]
      /\ UNCHANGED <<m_maxObjects, _allocators, m_blockCnt, m_blocksInUse,
                     held, mtx, pc, size, ptr, allocator, blk, exiting>>
  BY <1>1 DEF Without, Inv, TypeOK
<1>9. TypeOK'
  <2>1. IsFiniteSet(DOMAIN blocks')
    BY <1>8, FS_RemoveElement DEF Inv, TypeOK
  <2>2. blocks' \in [DOMAIN blocks' -> Allocators]
    BY <1>1 DEF Without, Inv, TypeOK
  <2>3. word' \in [DOMAIN blocks' -> Address \cup Allocators \cup {NULL}]
    BY <1>1 DEF Without, Inv, TypeOK
  <2> QED
    BY <1>1, <1>2, <1>6, <1>7, <1>8, <2>1, <2>2, <2>3 DEF Inv, TypeOK
<1> HIDE DEF DeleteBlock
<1>10. ASSUME NEW u \in Thread PROVE Locals(u)'
  BY <1>2, <1>8 DEF Inv, Locals
<1>11. Distinct'
  BY <1>8 DEF Inv, Distinct
<1>12. Used' = Used
  BY <1>2, <1>7, <1>8 DEF Used, Freeing, Handing
<1>13. Headers'
  BY <1>2, <1>7, <1>8, <1>12 DEF Inv, TypeOK, Headers
<1>14. Lists'
  <2> SUFFICES ASSUME NEW r \in Allocators
               PROVE  /\ IsStack(Free(r)', m_pHead'[r], word')
                      /\ m_blocksInUse'[r] = Cardinality(Counted(r)')
    BY DEF Lists, Stacked
  <2>1. Counted(r)' = Counted(r)
    <3>1. Used \subseteq DOMAIN blocks'
      BY <1>2, <1>7, <1>8 DEF Inv, TypeOK
    <3> QED
      BY <1>8, <1>12, <3>1 DEF Counted
  <2>2. Free(r)' = Free(r) \ {b}
    BY <1>8, <1>12 DEF Free
  <2>3. \A c \in Free(r) \ {b} : word'[c] = word[c]
    BY <1>8 DEF Free
  <2>4. IsStack(Free(r) \ {b}, m_pHead'[r], word)
    <3>1. CASE r = s
      BY <1>1, <1>5, <3>1 DEF Inv, TypeOK
    <3>2. CASE r # s
      <4>1. Free(r) \ {b} = Free(r)
        BY <1>7, <3>2 DEF Free
      <4>2. m_pHead'[r] = m_pHead[r]
        BY <1>1, <3>2 DEF Inv, TypeOK
      <4>3. IsStack(Free(r), m_pHead[r], word)
        BY DEF Inv, Lists, Stacked
      <4> QED
        BY <4>1, <4>2, <4>3
    <3> QED
      BY <3>1, <3>2
  <2>5. IsStack(Free(r) \ {b}, m_pHead'[r], word')
    BY <2>3, <2>4, StackSame
  <2> QED
    BY <1>8, <2>1, <2>2, <2>5 DEF Inv, Lists
<1>15. exiting
  BY DEF DeleteBlock
<1>16. Sized' /\ (~ exiting' => _allocators' = Allocators)
  BY <1>8, <1>15 DEF Sized
<1>17. Released'
  BY <1>2, <1>8, <1>15 DEF Inv, Released
<1>18. Counts'
  <2> SUFFICES ASSUME NEW r \in Allocators
               PROVE  Cardinality(OfSize(r)') <= m_blockCnt'[r]
    <3>1. m_maxObjects' = 0
      BY <1>8 DEF DeleteBlock
    <3> QED
      BY <3>1 DEF Counts
  <2>1. OfSize(r)' \subseteq OfSize(r)
    BY <1>8 DEF OfSize
  <2>2. IsFiniteSet(OfSize(r)) /\ Cardinality(OfSize(r)) \in Nat
    BY SizeFinite
  <2>3. /\ Cardinality(OfSize(r)') \in Nat
        /\ Cardinality(OfSize(r)') <= Cardinality(OfSize(r))
    BY <2>1, <2>2, FS_Subset, FS_CardinalityType
  <2>4. /\ m_blockCnt[r] \in Nat /\ m_blockCnt'[r] = m_blockCnt[r]
        /\ Cardinality(OfSize(r)) <= m_blockCnt[r]
    BY <1>8 DEF Inv, TypeOK, Counts
  <2> QED
    BY <2>2, <2>3, <2>4
<1> QED
  BY <1>9, <1>10, <1>11, <1>13, <1>14, <1>16, <1>17, <1>18 DEF Inv

-----------------------------------------------------------------------------
LEMMA InitInv == Init => Inv
<1> SUFFICES ASSUME Init
             PROVE  Inv
  OBVIOUS
<1> USE DEF Init
<1>1. /\ DOMAIN blocks = {} /\ DOMAIN word = {} /\ DOMAIN held = {}
      /\ Used = {} /\ IsFiniteSet(DOMAIN blocks)
  BY FS_EmptySet DEF Used, Freeing, Handing
<1>2. TypeOK
  <2>1. /\ blocks \in [DOMAIN blocks -> Allocators]
        /\ word \in [DOMAIN blocks -> Address \cup Allocators \cup {NULL}]
        /\ held \in [DOMAIN held -> 0..SIZE_MAX]
    BY <1>1
  <2>2. 0 \in 0..SIZE_MAX
    BY XAllocatorAssumption
  <2> QED
    BY <1>1, <2>1, <2>2 DEF TypeOK
<1>3. \A t \in Thread : Locals(t)
  BY XAllocatorAssumption DEF Locals, InMutex
<1>4. Distinct /\ Headers /\ Sized /\ Released
  BY <1>1 DEF Distinct, Headers, Sized, Released
<1>5. Lists
  <2> SUFFICES ASSUME NEW s \in Allocators
               PROVE  Stacked(s) /\ m_blocksInUse[s] = Cardinality(Counted(s))
    BY DEF Lists
  <2>1. Free(s) = {} /\ Counted(s) = {}
    BY <1>1 DEF Free, Counted
  <2>2. Cardinality({}) = 0
    BY FS_EmptySet
  <2>3. m_blocksInUse[s] = 0 /\ m_pHead[s] = NULL
    OBVIOUS
  <2>4. IsStack({}, NULL, word)
    <3>1. 1..0 = {}
      OBVIOUS
    <3> DEFINE f == [i \in 1..0 |-> NULL]
    <3>2. f \in [1..0 -> {}]
      BY <3>1
    <3> HIDE DEF f
    <3> QED
      BY <2>2, <3>1, <3>2 DEF IsStack
  <2> QED
    BY <2>1, <2>2, <2>3, <2>4 DEF Stacked
<1>6. Counts
  <2>1. \A s \in Allocators : OfSize(s) = {}
    BY <1>1 DEF OfSize
  <2>2. Cardinality({}) = 0
    BY FS_EmptySet
  <2>3. m_maxObjects \in Nat /\ \A s \in Allocators : m_blockCnt[s] = 0
    BY XAllocatorAssumption
  <2>4. \A s \in Allocators : Cardinality(OfSize(s)) = 0
    BY <2>1, <2>2
  <2> HIDE DEF Init
  <2>5. \A s \in Allocators :
          /\ Cardinality(OfSize(s)) <= m_blockCnt[s]
          /\ m_maxObjects > 0 => /\ Cardinality(OfSize(s)) = m_blockCnt[s]
                                 /\ m_blockCnt[s] <= m_maxObjects
    BY <2>3, <2>4
  <2> QED
    BY <2>5 DEF Counts
<1> QED
  BY <1>2, <1>3, <1>4, <1>5, <1>6 DEF Inv

LEMMA StepInv == Inv /\ [Next]_vars => Inv'
<1> SUFFICES ASSUME Inv, [Next]_vars
             PROVE  Inv'
  OBVIOUS
<1>1. CASE UNCHANGED vars
  <2>1. UNCHANGED <<m_maxObjects, _allocators, m_pHead, m_blockCnt,
                    m_blocksInUse, blocks, word, held, mtx, pc, size, ptr,
                    allocator, blk, exiting>>
    BY <1>1 DEF vars, pool, local
  <2>2. TypeOK'
    BY <2>1 DEF Inv, TypeOK
  <2>3. \A t \in Thread : Locals(t)'
    BY <2>1 DEF Inv, Locals, IsFit, InBounds, Copied, Smaller
  <2>4. Used' = Used
    BY <2>1 DEF Used, Freeing, Handing
  <2>5. Distinct' /\ Headers' /\ Sized' /\ Released'
    BY <2>1, <2>4 DEF Inv, Distinct, Headers, Sized, IsFit, Released
  <2>6. Lists'
    <3>1. \A s \in Allocators : Free(s)' = Free(s) /\ Counted(s)' = Counted(s)
      BY <2>1, <2>4 DEF Free, Counted
    <3> QED
      BY <2>1, <3>1 DEF Inv, Lists, Stacked
  <2> QED
    BY <2>1, <2>2, <2>3, <2>5, <2>6, CountsKept DEF Inv
<1>2. ASSUME NEW t \in Thread, Call(t) PROVE Inv'
  BY <1>2, CallMallocInv, CallFreeInv, CallReallocInv DEF Call
<1>3. ASSUME NEW t \in Thread, Inside(t) PROVE Inv'
  BY <1>3, LockMallocInv, TooLargeInv, PoolEmptyInv, NoMemoryInv, NewBlockInv,
     ReadHeadInv, PopInv, HandInv, CopyInv, OverrunInv, ReadHeaderInv,
     LockFreeInv, LinkInv, PushInv DEF Inside
<1>4. CASE Exit
  BY <1>4, ExitInv
<1>5. CASE DeleteBlock
  BY <1>5, DeleteBlockInv
<1>6. CASE DeleteAllocator
  BY <1>6, DeleteAllocatorInv
<1>7. CASE Exited \/ Lost
  BY <1>1, <1>7 DEF Exited, Lost
<1> QED
  BY <1>1, <1>2, <1>3, <1>4, <1>5, <1>6, <1>7 DEF Next

(* Inv in every state of every program that uses the allocator, whatever   *)
(* the threads, the block sizes and the sizes asked for.                   *)
THEOREM Invariance == Spec => []Inv
  BY InitInv, StepInv, PTL DEF Spec

-----------------------------------------------------------------------------
(* What xrealloc copies is inside the old block and is all of the contents *)
(* that the new size has room for, whatever the other threads do; it is    *)
(* inside the new block too if the new size with a header is a size_t, and *)
(* that is all that keeps it there: the model lets the copy of a size that *)
(* wraps leave the block, as the code does.                                *)
THEOREM KeptHolds == Spec => []Kept
<1>1. Inv => Kept
  <2> SUFFICES ASSUME Inv, NEW t \in Thread, pc[t] \in {"copy", "lost"}
               PROVE  LET old == ptr[t]
                          new == blk[t]
                      IN /\ NoWrap(held[old]) =>
                              Copied(t) >= Smaller(held[old], size[t])
                         /\ Copied(t) <= blocks[old] - HEADER
                         /\ NoWrap(size[t]) =>
                              Copied(t) <= blocks[new] - HEADER
                         /\ new # old
    BY DEF Kept, Inv, Locals, InBounds
  <2> DEFINE old == ptr[t]
             new == blk[t]
  <2>1. /\ old # NULL /\ new # NULL /\ old \in DOMAIN held
        /\ IsFit(blocks[new], size[t])
    BY DEF Inv, Locals
  <2>2. /\ old \in DOMAIN blocks /\ new \in DOMAIN blocks
        /\ blocks[old] \in Nat /\ blocks[new] \in Nat
        /\ held[old] \in Nat /\ size[t] \in Nat
        /\ HEADER \in Nat /\ SIZE_MAX \in Nat
    BY <2>1, XAllocatorAssumption DEF Inv, TypeOK
  <2>3. new # old
    BY <2>1 DEF Inv, Distinct
  <2>4. word[old] = blocks[old]
    <3>1. old \in Used
      BY <2>1 DEF Used
    <3>2. \A u \in Thread : ~ (pc[u] = "hand" /\ blk[u] = old)
      BY <2>1 DEF Inv, Distinct
    <3>3. \A u \in Thread : ~ (pc[u] = "push" /\ ptr[u] = old)
      BY <2>1 DEF Inv, Distinct
    <3> QED
      BY <3>1, <3>2, <3>3 DEF Inv, Headers
  <2>5. IsFit(blocks[old], held[old])
    <3>1. ~ exiting
      BY DEF Inv, Released
    <3> QED
      BY <2>1, <3>1 DEF Inv, Sized
  <2>6. NoWrap(size[t]) => size[t] + HEADER <= blocks[new]
    BY <2>1, <2>2 DEF IsFit, NoWrap, BlockSize
  <2>7. NoWrap(held[old]) => held[old] + HEADER <= blocks[old]
    BY <2>2, <2>5 DEF IsFit, NoWrap, BlockSize
  <2>8. Copied(t) = Smaller(blocks[old] - HEADER, size[t])
    BY <2>4 DEF Copied
  <2> HIDE DEF old, new
  <2>9. Copied(t) <= blocks[old] - HEADER /\ Copied(t) <= size[t]
    BY <2>2, <2>8 DEF Smaller
  <2>10. NoWrap(held[old]) => Copied(t) >= Smaller(held[old], size[t])
    BY <2>2, <2>7, <2>8 DEF Smaller
  <2>11. NoWrap(size[t]) => Copied(t) <= blocks[new] - HEADER
    <3>1. Copied(t) \in Int
      BY <2>2, <2>8 DEF Smaller
    <3> QED
      BY <2>2, <2>6, <2>9, <3>1
  <2> QED
    BY <2>3, <2>9, <2>10, <2>11 DEF old, new
<1> QED
  BY <1>1, Invariance, PTL

-----------------------------------------------------------------------------
(* What was asked for a block that is on its way to its owner.             *)
LEMMA AskedIs ==
  ASSUME Inv, NEW t \in Thread, blk[t] # NULL, pc[t] # "pop"
  PROVE  /\ blk[t] \in Handing /\ blk[t] \notin DOMAIN held
         /\ Asked(blk[t]) = size[t]
<1>1. blk[t] \in DOMAIN blocks /\ blk[t] \notin DOMAIN held
  BY DEF Inv, TypeOK, Distinct
<1>2. \A u \in Thread : blk[u] = blk[t] => u = t
  BY DEF Inv, Distinct
<1>3. (CHOOSE u \in Thread : blk[u] = blk[t] /\ pc[u] # "pop") = t
  BY <1>2
<1> QED
  BY <1>1, <1>3 DEF Handing, Asked

LEMMA AskedIsNext ==
  ASSUME Inv', NEW t \in Thread, NEW b,
         blk'[t] = b, b # NULL, pc'[t] # "pop"
  PROVE  b \notin DOMAIN held' /\ Asked(b)' = size'[t]
<1>1. b \in DOMAIN blocks' /\ b \notin DOMAIN held'
  BY DEF Inv, TypeOK, Distinct
<1>2. \A u \in Thread : blk'[u] = b => u = t
  BY DEF Inv, Distinct
<1>3. (CHOOSE u \in Thread : blk'[u] = b /\ pc'[u] # "pop") = t
  BY <1>2
<1> QED
  BY <1>1, <1>3 DEF Asked

(* Block b has one owner across a step, in the program's hands or on the   *)
(* way there.                                                              *)
Stays(b) ==
  \/ b \in DOMAIN held /\ b \in DOMAIN held' /\ held'[b] = held[b]
  \/ \E t \in Thread :
       /\ blk[t] = b /\ b # NULL /\ pc[t] # "pop"
       /\ \/ b \in DOMAIN held' /\ held'[b] = size[t]
          \/ blk'[t] = b /\ pc'[t] # "pop" /\ size'[t] = size[t]

LEMMA AskedStays ==
  ASSUME Inv, Inv', NEW b, Stays(b)
  PROVE  Asked(b)' = Asked(b)
<1>1. CASE b \in DOMAIN held /\ b \in DOMAIN held' /\ held'[b] = held[b]
  BY <1>1 DEF Asked
<1>2. ASSUME NEW t \in Thread, blk[t] = b, b # NULL, pc[t] # "pop",
             \/ b \in DOMAIN held' /\ held'[b] = size[t]
             \/ blk'[t] = b /\ pc'[t] # "pop" /\ size'[t] = size[t]
      PROVE  Asked(b)' = Asked(b)
  <2>1. Asked(b) = size[t]
    BY <1>2, AskedIs
  <2>2. CASE b \in DOMAIN held' /\ held'[b] = size[t]
    BY <2>1, <2>2 DEF Asked
  <2>3. CASE blk'[t] = b /\ pc'[t] # "pop" /\ size'[t] = size[t]
    BY <1>2, <2>1, <2>3, AskedIsNext
  <2> QED
    BY <1>2, <2>2, <2>3
<1> QED
  BY <1>1, <1>2 DEF Stays

-----------------------------------------------------------------------------
(* The steps of BlockPools, from what a step does to Used, Free and Owned. *)
LEMMA GiveStep ==
  ASSUME Inv, Inv', NEW s \in Allocators, NEW b, NEW n,
         ~ exiting, UNCHANGED <<m_maxObjects, exiting>>,
         \/ b \in Free(s)
         \/ Free(s) = {} /\ b \notin DOMAIN blocks /\ P!MayGrow(s),
         Used \subseteq DOMAIN blocks, Used' = Used \cup {b},
         \A c \in Used : blocks'[c] = blocks[c], blocks'[b] = s,
         \A r \in Allocators :
           Free(r)' = IF r = s THEN Free(r) \ {b} ELSE Free(r),
         Owned' = Owned \cup {b}, \A c \in Owned : Stays(c),
         Asked(b)' = n
  PROVE  P!Give(s, b, n)
<1>1. b \notin Used /\ Owned \subseteq Used
  BY DEF Free, Owned, Used
<1>2. [r \in Allocators |-> Free(r)'] =
        [[r \in Allocators |-> Free(r)] EXCEPT ![s] = @ \ {b}]
  OBVIOUS
<1>3. [c \in Used' |-> blocks'[c]] =
        [c \in DOMAIN [d \in Used |-> blocks[d]] \cup {b} |->
           IF c = b THEN s ELSE [d \in Used |-> blocks[d]][c]]
  BY <1>1
<1>4. ~ P!Known(b) \/ b \in Free(s)
  BY <1>1 DEF P!Known, Free
<1>5. \A c \in Owned : Asked(c)' = Asked(c)
  BY AskedStays
<1>6. [c \in Owned' |-> Asked(c)'] =
        [c \in DOMAIN [d \in Owned |-> Asked(d)] \cup {b} |->
           IF c = b THEN n ELSE [d \in Owned |-> Asked(d)][c]]
  BY <1>1, <1>5
<1> QED
  BY <1>2, <1>3, <1>4, <1>6 DEF P!Give

LEMMA LetGoStep ==
  ASSUME Inv, Inv', NEW b \in Owned,
         ~ exiting, UNCHANGED <<Used, blocks, m_maxObjects, exiting>>,
         Owned' = Owned \ {b}, \A c \in Owned' : Stays(c)
  PROVE  P!LetGo(b) /\ b \in DOMAIN [c \in Owned |-> Asked(c)]
<1>1. \A r \in Allocators : Free(r)' = Free(r)
  BY DEF Free
<1>2. [r \in Allocators |-> Free(r)'] = [r \in Allocators |-> Free(r)]
  BY <1>1
<1>3. [c \in Used' |-> blocks'[c]] = [c \in Used |-> blocks[c]]
  OBVIOUS
<1>4. \A c \in Owned' : Asked(c)' = Asked(c)
  BY AskedStays
<1>5. [c \in Owned' |-> Asked(c)'] =
        [c \in DOMAIN [d \in Owned |-> Asked(d)] \ {b} |->
           [d \in Owned |-> Asked(d)][c]]
  BY <1>4
<1> QED
  BY <1>2, <1>3, <1>5 DEF P!LetGo

(* The owners are left alone.                                              *)
LEMMA OwnersStay ==
  ASSUME Inv, Inv', Owned' = Owned, \A c \in Owned : Stays(c)
  PROVE  [c \in Owned' |-> Asked(c)'] = [c \in Owned |-> Asked(c)]
<1>1. \A c \in Owned : Asked(c)' = Asked(c)
  BY AskedStays
<1> QED
  BY <1>1

LEMMA GiveBackStep ==
  ASSUME Inv, Inv', NEW s \in Allocators, NEW b \in Used,
         ~ exiting, UNCHANGED <<m_maxObjects, exiting>>, blocks[b] = s,
         Used' = Used \ {b},
         \A c \in Used' : blocks'[c] = blocks[c],
         \A r \in Allocators :
           Free(r)' = IF r = s THEN Free(r) \cup {b} ELSE Free(r),
         b \notin Owned, Owned' = Owned, \A c \in Owned : Stays(c)
  PROVE  P!GiveBack(b) /\ b \in DOMAIN [c \in Used |-> blocks[c]]
<1>1. [r \in Allocators |-> Free(r)'] =
        [[r \in Allocators |-> Free(r)] EXCEPT
           ![[c \in Used |-> blocks[c]][b]] = @ \cup {b}]
  OBVIOUS
<1>2. [c \in Used' |-> blocks'[c]] =
        [c \in DOMAIN [d \in Used |-> blocks[d]] \ {b} |->
           [d \in Used |-> blocks[d]][c]]
  OBVIOUS
<1>3. [c \in Owned' |-> Asked(c)'] = [c \in Owned |-> Asked(c)]
  BY OwnersStay
<1> QED
  BY <1>1, <1>2, <1>3 DEF P!GiveBack

LEMMA DeleteStep ==
  ASSUME Inv, Inv', NEW s \in Allocators, NEW b \in Free(s),
         exiting, UNCHANGED <<m_maxObjects, exiting>>, Used' = Used,
         \A c \in Used : blocks'[c] = blocks[c],
         \A r \in Allocators :
           Free(r)' = IF r = s THEN Free(r) \ {b} ELSE Free(r),
         Owned' = Owned, \A c \in Owned : Stays(c)
  PROVE  P!Delete(s, b)
<1>1. [r \in Allocators |-> Free(r)'] =
        [[r \in Allocators |-> Free(r)] EXCEPT ![s] = @ \ {b}]
  OBVIOUS
<1>2. [c \in Used' |-> blocks'[c]] = [c \in Used |-> blocks[c]]
  OBVIOUS
<1>3. [c \in Owned' |-> Asked(c)'] = [c \in Owned |-> Asked(c)]
  BY OwnersStay
<1> QED
  BY <1>1, <1>2, <1>3 DEF P!Delete

LEMMA Stutter ==
  ASSUME Inv, Inv', UNCHANGED <<Used, blocks, m_maxObjects, exiting>>,
         Owned' = Owned, \A c \in Owned : Stays(c)
  PROVE  UNCHANGED P!vars
<1>1. \A r \in Allocators : Free(r)' = Free(r)
  BY DEF Free
<1>2. [r \in Allocators |-> Free(r)'] = [r \in Allocators |-> Free(r)]
  BY <1>1
<1>3. [c \in Used' |-> blocks'[c]] = [c \in Used |-> blocks[c]]
  OBVIOUS
<1>4. [c \in Owned' |-> Asked(c)'] = [c \in Owned |-> Asked(c)]
  BY OwnersStay
<1> QED
  BY <1>2, <1>3, <1>4 DEF P!vars

-----------------------------------------------------------------------------
(* The blocks handed, when every thread that hands one goes on doing so    *)
(* and none begins to.                                                     *)
LEMMA HandingStays ==
  ASSUME Inv, UNCHANGED <<blocks, held>>,
         \A u \in Thread :
           \/ blk[u] \in {NULL} /\ (blk'[u] \in {NULL} \/ pc'[u] = "pop")
           \/ /\ blk'[u] = blk[u] /\ size'[u] = size[u]
              /\ pc'[u] = "pop" <=> pc[u] = "pop"
  PROVE  Handing' = Handing /\ Owned' = Owned /\ \A c \in Owned : Stays(c)
<1>1. NULL \notin DOMAIN blocks
  BY XAllocatorAssumption DEF Inv, TypeOK
<1>2. Handing' = Handing
  BY <1>1 DEF Handing
<1>3. \A c \in DOMAIN held : Stays(c)
  BY DEF Stays
<1>4. \A c \in Handing : Stays(c)
  BY <1>1 DEF Handing, Stays
<1> QED
  BY <1>2, <1>3, <1>4 DEF Owned

(* A call is a stutter, but that of xfree ends an ownership.               *)
LEMMA CallPools ==
  ASSUME Inv, Inv', NEW t \in Thread, Call(t)
  PROVE  P!Next \/ UNCHANGED P!vars
<1>1. ASSUME NEW n \in Request, CallMalloc(t, n)
      PROVE  UNCHANGED P!vars
  <2>1. /\ pc[t] = "idle" /\ pc' = [pc EXCEPT ![t] = "malloc"]
        /\ size' = [size EXCEPT ![t] = n]
        /\ UNCHANGED <<held, blocks, ptr, blk, m_maxObjects, exiting>>
    BY <1>1 DEF CallMalloc, Goto
  <2>2. blk[t] = NULL
    BY <2>1 DEF Inv, Locals
  <2>3. Handing' = Handing /\ Owned' = Owned /\ \A c \in Owned : Stays(c)
    BY <2>1, <2>2, HandingStays DEF Inv, TypeOK
  <2>4. Used' = Used
    BY <2>1, <2>3 DEF Used, Freeing
  <2> QED
    BY <2>1, <2>3, <2>4, Stutter
<1>2. ASSUME NEW p \in Usable, CallFree(t, p)
      PROVE  P!Next
  <2>1. /\ pc[t] = "idle" /\ pc' = [pc EXCEPT ![t] = "free"]
        /\ ptr' = [ptr EXCEPT ![t] = p]
        /\ held' = Without(held, p)
        /\ ~ exiting
        /\ UNCHANGED <<size, blocks, blk, m_maxObjects, exiting>>
    BY <1>2 DEF CallFree, Goto, Running
  <2>2. /\ blk[t] = NULL /\ ptr[t] = NULL /\ NULL \notin DOMAIN blocks
        /\ p \in DOMAIN held /\ p \in DOMAIN blocks
    BY <2>1, XAllocatorAssumption DEF Inv, TypeOK, Locals, Usable
  <2>3. Handing' = Handing /\ p \notin Handing
    BY <2>1, <2>2 DEF Handing, Inv, TypeOK, Distinct
  <2>4. /\ DOMAIN held' = DOMAIN held \ {p}
        /\ \A c \in DOMAIN held' : held'[c] = held[c]
    BY <2>1 DEF Without
  <2>5. Owned' = Owned \ {p}
    BY <2>3, <2>4 DEF Owned
  <2>6. Freeing' = Freeing \cup {p}
    BY <2>1, <2>2 DEF Freeing, Inv, TypeOK
  <2>7. Used' = Used
    BY <2>2, <2>3, <2>4, <2>6 DEF Used
  <2>8. \A c \in DOMAIN held' : Stays(c)
    BY <2>4 DEF Stays
  <2>9. \A c \in Handing : Stays(c)
    BY <2>1, <2>2 DEF Handing, Stays, Inv, TypeOK
  <2>10. P!LetGo(p) /\ p \in DOMAIN [c \in Owned |-> Asked(c)]
    <3>1. p \in Owned /\ \A c \in Owned' : Stays(c)
      BY <2>2, <2>3, <2>8, <2>9 DEF Owned
    <3> QED
      BY <2>1, <2>5, <2>7, <3>1, LetGoStep
  <2> QED
    BY <2>10 DEF P!Next
<1>3. ASSUME NEW p \in Usable, NEW n \in Request, CallRealloc(t, p, n)
      PROVE  UNCHANGED P!vars
  <2>1. /\ pc[t] = "idle" /\ pc' = [pc EXCEPT ![t] = "malloc"]
        /\ size' = [size EXCEPT ![t] = n]
        /\ ptr' = [ptr EXCEPT ![t] = p]
        /\ UNCHANGED <<held, blocks, blk, m_maxObjects, exiting>>
    BY <1>3 DEF CallRealloc, Goto
  <2>2. /\ blk[t] = NULL /\ ptr[t] = NULL /\ NULL \notin DOMAIN blocks
        /\ p \in DOMAIN held
    BY <2>1, XAllocatorAssumption DEF Inv, TypeOK, Locals, Usable
  <2>3. Handing' = Handing /\ Owned' = Owned /\ \A c \in Owned : Stays(c)
    BY <2>1, <2>2, HandingStays DEF Inv, TypeOK
  <2>4. Used' = Used
    BY <2>1, <2>2, <2>3 DEF Used, Freeing, Inv, TypeOK
  <2> QED
    BY <2>1, <2>3, <2>4, Stutter
<1> QED
  BY <1>1, <1>2, <1>3 DEF Call

(* A step that leaves the owners and the lists alone.                      *)
LEMMA InsideStutters ==
  ASSUME Inv, Inv', NEW t \in Thread,
         \/ LockMalloc(t) \/ TooLarge(t) \/ PoolEmpty(t) \/ NoMemory(t)
         \/ ReadHead(t) \/ Hand(t) \/ Overrun(t) \/ ReadHeader(t)
         \/ LockFree(t) \/ Link(t)
  PROVE  UNCHANGED P!vars
<1> USE DEF Goto, Intact, pool, local
<1>1. CASE \/ LockMalloc(t) \/ Overrun(t) \/ ReadHeader(t)
           \/ LockFree(t) \/ Link(t)
  <2>1. UNCHANGED <<held, ptr, blk, size, blocks, m_maxObjects, exiting>>
    BY <1>1 DEF LockMalloc, Overrun, ReadHeader, LockFree, Link
  <2>2. \A u \in Thread : pc'[u] = "pop" <=> pc[u] = "pop"
    BY <1>1 DEF LockMalloc, Overrun, ReadHeader, LockFree, Link, Inv, TypeOK
  <2>3. Handing' = Handing /\ Owned' = Owned /\ \A c \in Owned : Stays(c)
    BY <2>1, <2>2, HandingStays
  <2>4. Used' = Used
    BY <2>1, <2>3 DEF Used, Freeing
  <2> QED
    BY <2>1, <2>3, <2>4, Stutter
<1>2. CASE TooLarge(t) \/ PoolEmpty(t) \/ NoMemory(t)
  <2>1. /\ pc[t] = "fit" /\ pc' = [pc EXCEPT ![t] = "idle"]
        /\ ptr' = [ptr EXCEPT ![t] = NULL]
        /\ size' = [size EXCEPT ![t] = 0]
        /\ UNCHANGED <<held, blk, blocks, m_maxObjects, exiting>>
    BY <1>2 DEF TooLarge, PoolEmpty, NoMemory, Throw
  <2>2. blk[t] = NULL /\ (ptr[t] # NULL => ptr[t] \in DOMAIN held)
    BY <2>1 DEF Inv, Locals
  <2>3. NULL \notin DOMAIN blocks
    BY XAllocatorAssumption DEF Inv, TypeOK
  <2>4. Handing' = Handing /\ Owned' = Owned /\ \A c \in Owned : Stays(c)
    BY <2>1, <2>2, HandingStays DEF Inv, TypeOK
  <2>5. Used' = Used
    BY <2>1, <2>2, <2>3, <2>4 DEF Used, Freeing, Inv, TypeOK
  <2> QED
    BY <2>1, <2>4, <2>5, Stutter
<1>3. CASE ReadHead(t)
  <2>1. /\ pc[t] = "fit" /\ pc' = [pc EXCEPT ![t] = "pop"]
        /\ \A u \in Thread : u # t => blk'[u] = blk[u]
        /\ UNCHANGED <<held, ptr, size, blocks, m_maxObjects, exiting>>
    BY <1>3 DEF ReadHead, Inv, TypeOK
  <2>2. blk[t] = NULL
    BY <2>1 DEF Inv, Locals
  <2>3. pc'[t] = "pop" /\ \A u \in Thread : u # t => pc'[u] = pc[u]
    BY <2>1 DEF Inv, TypeOK
  <2>4. Handing' = Handing /\ Owned' = Owned /\ \A c \in Owned : Stays(c)
    BY <2>1, <2>2, <2>3, HandingStays
  <2>5. Used' = Used
    BY <2>1, <2>4 DEF Used, Freeing
  <2> QED
    BY <2>1, <2>4, <2>5, Stutter
<1>4. CASE Hand(t)
  <2>1. /\ pc[t] = "hand"
        /\ \A u \in Thread : u # t => /\ pc'[u] = pc[u] /\ blk'[u] = blk[u]
                                      /\ size'[u] = size[u]
        /\ pc'[t] # "pop"
        /\ UNCHANGED <<ptr, blocks, m_maxObjects, exiting>>
    BY <1>4 DEF Hand, Inv, TypeOK
  <2>2. /\ blk[t] \in DOMAIN blocks /\ blk[t] # NULL
        /\ NULL \notin DOMAIN blocks
    BY <2>1, XAllocatorAssumption DEF Inv, TypeOK, Locals
  <2>3. CASE ptr[t] = NULL
    <3>1. /\ held' = With(held, blk[t], size[t])
          /\ blk'[t] = NULL
      BY <1>4, <2>3 DEF Hand, Inv, TypeOK
    <3>2. /\ DOMAIN held' = DOMAIN held \cup {blk[t]}
          /\ held'[blk[t]] = size[t]
          /\ \A c \in DOMAIN held : c # blk[t] => held'[c] = held[c]
      BY <3>1 DEF With
    <3>3. Handing = Handing' \cup {blk[t]} /\ blk[t] \notin DOMAIN held
      BY <2>1, <2>2, <3>1 DEF Handing, Inv, Distinct
    <3>4. Owned' = Owned
      BY <3>2, <3>3 DEF Owned
    <3>5. \A c \in DOMAIN held : Stays(c)
      BY <3>2, <3>3 DEF Stays
    <3>6. \A c \in Handing : Stays(c)
      BY <2>1, <2>2, <3>2 DEF Stays, Handing
    <3>7. Used' = Used
      BY <2>1, <3>4 DEF Used, Owned, Freeing
    <3> QED
      BY <2>1, <3>4, <3>5, <3>6, <3>7, Stutter DEF Owned
  <2>4. CASE ptr[t] # NULL
    <3>1. UNCHANGED <<held, blk, size>>
      BY <1>4, <2>4 DEF Hand
    <3>2. Handing' = Handing /\ Owned' = Owned /\ \A c \in Owned : Stays(c)
      BY <2>1, <3>1, HandingStays
    <3>3. Used' = Used
      BY <2>1, <3>1, <3>2 DEF Used, Freeing
    <3> QED
      BY <2>1, <3>2, <3>3, Stutter
  <2> QED
    BY <2>3, <2>4
<1> QED
  BY <1>1, <1>2, <1>3, <1>4

(* When xrealloc has copied, the old block is let go.                      *)
LEMMA CopyLetsGo ==
  ASSUME Inv, Inv', NEW t \in Thread, Copy(t)
  PROVE  P!Next
<1> DEFINE p == ptr[t]
<1>1. /\ pc[t] = "copy" /\ pc' = [pc EXCEPT ![t] = "free"]
      /\ held' = Without(held, p)
      /\ UNCHANGED <<ptr, blk, size, blocks, m_maxObjects, exiting>>
  BY DEF Copy, Goto, local
<1>2. /\ p \in DOMAIN held /\ p \in DOMAIN blocks /\ ~ exiting
      /\ NULL \notin DOMAIN blocks
  BY <1>1, XAllocatorAssumption DEF Inv, TypeOK, Locals, Released
<1>3. /\ DOMAIN held' = DOMAIN held \ {p}
      /\ \A c \in DOMAIN held' : held'[c] = held[c]
  BY <1>1 DEF Without
<1>4. \A u \in Thread : pc'[u] = "pop" <=> pc[u] = "pop"
  BY <1>1 DEF Inv, TypeOK
<1>5. Handing' = Handing /\ p \notin Handing
  BY <1>1, <1>2, <1>4 DEF Handing, Inv, Distinct
<1>6. p \in Freeing /\ Freeing' = Freeing
  BY <1>1, <1>2 DEF Freeing
<1>7. Used' = Used /\ Owned' = Owned \ {p} /\ p \in Owned
  BY <1>2, <1>3, <1>5, <1>6 DEF Used, Owned
<1>8. \A c \in DOMAIN held' : Stays(c)
  BY <1>3 DEF Stays
<1>9. \A c \in Handing : Stays(c)
  BY <1>1, <1>2, <1>4 DEF Handing, Stays
<1>10. \A c \in Owned' : Stays(c)
  BY <1>5, <1>8, <1>9 DEF Owned
<1> HIDE DEF p
<1>11. P!LetGo(p) /\ p \in DOMAIN [c \in Owned |-> Asked(c)]
  BY <1>1, <1>2, <1>7, <1>10, LetGoStep
<1> QED
  BY <1>11 DEF P!Next

(* A block is of the right size for a request whose sum with a header does *)
(* not wrap, and one that wraps is not served.                             *)
LEMMA GiveServes ==
  ASSUME Inv, ~ exiting, NEW s, NEW b, NEW n \in Request, IsFit(s, n),
         P!Give(s, b, n)
  PROVE  P!Take(s, b, n) \/ P!Misserve(s, b, n)
<1>1. n \in Nat /\ HEADER \in Nat /\ SIZE_MAX \in Nat
  BY XAllocatorAssumption
<1>2. CASE n + HEADER > SIZE_MAX
  BY <1>2 DEF P!Misserve
<1>3. CASE ~ (n + HEADER > SIZE_MAX)
  <2>1. BlockSize(n) = n + HEADER
    BY <1>1, <1>3 DEF BlockSize
  <2>2. P!IsFit(s, n)
    BY <2>1 DEF Inv, IsFit, P!IsFit, P!Room
  <2> QED
    BY <2>2 DEF P!Take
<1> QED
  BY <1>2, <1>3

(* An empty list of an Allocator that is not exhausted: the blocks of that *)
(* size are all in use, and fewer than the limit.                          *)
LEMMA EmptyMayGrow ==
  ASSUME Inv, ~ exiting, NEW s \in Allocators, Used \subseteq DOMAIN blocks,
         Free(s) = {}, ~ Exhausted(s)
  PROVE  P!MayGrow(s)
<1>1. {b \in Used : blocks[b] = s} = OfSize(s)
  BY DEF Free, OfSize
<1>2. {b \in DOMAIN [c \in Used |-> blocks[c]] :
         [c \in Used |-> blocks[c]][b] = s} = {b \in Used : blocks[b] = s}
  OBVIOUS
<1>3. m_maxObjects > 0 => Cardinality(OfSize(s)) < m_maxObjects
  <2>1. m_maxObjects > 0 => Cardinality(OfSize(s)) = m_blockCnt[s]
    BY DEF Inv, Counts
  <2>2. m_maxObjects \in Nat /\ m_blockCnt[s] \in Nat
    BY XAllocatorAssumption DEF Inv, TypeOK
  <2> QED
    BY <2>1, <2>2 DEF Exhausted
<1> QED
  BY <1>1, <1>2, <1>3 DEF P!MayGrow, P!Cardinality, Cardinality

LEMMA InsideRuns ==
  ASSUME Inv, NEW t \in Thread, pc[t] # "idle"
  PROVE  ~ exiting /\ NULL \notin DOMAIN blocks /\ Used \subseteq DOMAIN blocks
  BY XAllocatorAssumption DEF Inv, TypeOK, Released, Used, Freeing, Handing

LEMMA NewBlockTakes ==
  ASSUME Inv, Inv', NEW t \in Thread, NewBlock(t)
  PROVE  P!Next
<1>1. PICK s \in Allocators, b \in Address \ DOMAIN blocks :
        /\ IsFit(s, size[t]) /\ m_pHead[s] = NULL /\ ~ Exhausted(s)
        /\ blocks' = With(blocks, b, s)
        /\ blk' = [blk EXCEPT ![t] = b]
  BY DEF NewBlock
<1>2. /\ pc[t] = "fit" /\ pc' = [pc EXCEPT ![t] = "hand"]
      /\ UNCHANGED <<held, ptr, size, m_maxObjects, exiting>>
  BY DEF NewBlock, Goto
<1>3. /\ ~ exiting /\ NULL \notin DOMAIN blocks /\ Used \subseteq DOMAIN blocks
      /\ size[t] \in Request /\ blk[t] = NULL
  BY <1>2, InsideRuns DEF Inv, Locals
<1>4. Free(s) = {}
  <2>1. IsFiniteSet(Free(s)) /\ NULL \notin Free(s)
    BY <1>3, FS_Subset DEF Inv, TypeOK, Free
  <2>2. IsStack(Free(s), NULL, word)
    BY <1>1 DEF Inv, Lists, Stacked
  <2> QED
    BY <2>1, <2>2, StackHead
<1>5. /\ DOMAIN blocks' = DOMAIN blocks \cup {b} /\ blocks'[b] = s
      /\ \A c \in DOMAIN blocks : blocks'[c] = blocks[c]
  BY <1>1 DEF With
<1>6. Used' = Used \cup {b}
  BY <1>1, <1>2, <1>3, <1>5 DEF Used, Freeing, Handing, Inv, TypeOK
<1>7. \A r \in Allocators :
        Free(r)' = IF r = s THEN Free(r) \ {b} ELSE Free(r)
  BY <1>1, <1>3, <1>5, <1>6 DEF Free
<1>8. P!MayGrow(s)
  BY <1>1, <1>3, <1>4, EmptyMayGrow
<1>9. Handing' = Handing \cup {b}
  BY <1>1, <1>2, <1>3, <1>5 DEF Handing, Inv, TypeOK
<1>10. \A c \in Owned : Stays(c)
  <2>1. \A c \in DOMAIN held : Stays(c)
    BY <1>2 DEF Stays
  <2>2. \A c \in Handing : Stays(c)
    BY <1>1, <1>2, <1>3 DEF Stays, Handing, Inv, TypeOK
  <2> QED
    BY <2>1, <2>2 DEF Owned
<1>11. Owned' = Owned \cup {b}
  BY <1>2, <1>9 DEF Owned
<1>12. Asked(b)' = size[t]
  <2>1. /\ blk'[t] = b /\ pc'[t] = "hand" /\ b # NULL
    BY <1>1, <1>2, XAllocatorAssumption DEF Inv, TypeOK
  <2> QED
    BY <1>2, <2>1, AskedIsNext
<1>13. PICK n \in Request : n = size[t]
  BY <1>3
<1>14. P!Give(s, b, n)
  BY <1>1, <1>2, <1>3, <1>4, <1>5, <1>6, <1>7, <1>8, <1>10, <1>11, <1>12,
     <1>13, GiveStep
<1>15. P!Take(s, b, n) \/ P!Misserve(s, b, n)
  BY <1>1, <1>3, <1>13, <1>14, GiveServes
<1> QED
  BY <1>1, <1>15 DEF P!Next

LEMMA PopTakes ==
  ASSUME Inv, Inv', NEW t \in Thread, Pop(t)
  PROVE  P!Next
<1>0. PICK b, s : b = blk[t] /\ s = allocator[t]
  OBVIOUS
<1>1. /\ pc[t] = "pop" /\ pc' = [pc EXCEPT ![t] = "hand"]
      /\ UNCHANGED <<blocks, held, ptr, blk, size, m_maxObjects, exiting>>
  BY DEF Pop, Goto, local
<1>2. /\ ~ exiting /\ NULL \notin DOMAIN blocks /\ Used \subseteq DOMAIN blocks
      /\ size[t] \in Request /\ b # NULL /\ b = m_pHead[s]
      /\ s \in Allocators /\ IsFit(s, size[t])
  BY <1>0, <1>1, InsideRuns DEF Inv, TypeOK, Locals
<1>3. b \in Free(s)
  BY <1>0, <1>2, HeadFree
<1>4. b \in DOMAIN blocks /\ blocks[b] = s /\ b \notin Used
  BY <1>3 DEF Free
<1>5. Used' = Used \cup {b}
  BY <1>0, <1>1, <1>4 DEF Used, Freeing, Handing, Inv, TypeOK
<1>6. \A r \in Allocators :
        Free(r)' = IF r = s THEN Free(r) \ {b} ELSE Free(r)
  BY <1>0, <1>1, <1>4, <1>5 DEF Free
<1>8. b \in Address
  BY <1>4 DEF Inv, TypeOK
<1>9. Handing' = Handing \cup {b}
  BY <1>0, <1>1, <1>4 DEF Handing, Inv, TypeOK
<1>10. \A c \in Owned : Stays(c)
  <2>1. \A c \in DOMAIN held : Stays(c)
    BY <1>1 DEF Stays
  <2>2. \A c \in Handing : Stays(c)
    BY <1>1, <1>2 DEF Stays, Handing, Inv, TypeOK
  <2> QED
    BY <2>1, <2>2 DEF Owned
<1>11. Owned' = Owned \cup {b}
  BY <1>1, <1>9 DEF Owned
<1>12. Asked(b)' = size[t]
  <2>1. /\ blk'[t] = b /\ pc'[t] = "hand" /\ b # NULL
    BY <1>0, <1>1, <1>2 DEF Inv, TypeOK
  <2> QED
    BY <1>1, <2>1, AskedIsNext
<1>13. PICK n \in Request : n = size[t]
  BY <1>2
<1>14. P!Give(s, b, n)
  BY <1>0, <1>1, <1>2, <1>3, <1>4, <1>5, <1>6, <1>10, <1>11, <1>12,
     <1>13, GiveStep
<1>15. P!Take(s, b, n) \/ P!Misserve(s, b, n)
  BY <1>2, <1>13, <1>14, GiveServes
<1> QED
  BY <1>2, <1>8, <1>15 DEF P!Next

LEMMA PushGivesBack ==
  ASSUME Inv, Inv', NEW t \in Thread, Push(t)
  PROVE  P!Next
<1>0. PICK b, s : b = ptr[t] /\ s = allocator[t]
  OBVIOUS
<1>1. /\ pc[t] = "push" /\ pc' = [pc EXCEPT ![t] = "idle"]
      /\ held' = IF blk[t] = NULL THEN held ELSE With(held, blk[t], size[t])
      /\ ptr' = [ptr EXCEPT ![t] = NULL]
      /\ blk' = [blk EXCEPT ![t] = NULL]
      /\ size' = [size EXCEPT ![t] = 0]
      /\ UNCHANGED <<blocks, m_maxObjects, exiting>>
  BY DEF Push, Goto
<1>2. /\ ~ exiting /\ NULL \notin DOMAIN blocks /\ Used \subseteq DOMAIN blocks
      /\ b # NULL /\ b \notin DOMAIN held /\ blocks[b] = s /\ s \in Allocators
  BY <1>0, <1>1, InsideRuns DEF Inv, TypeOK, Locals
<1>3. /\ b \in DOMAIN blocks
      /\ \A u \in Thread : blk[u] # b /\ (u # t => ptr[u] # b)
  BY <1>0, <1>2 DEF Inv, TypeOK, Distinct
<1>4. b \in Used
  BY <1>0, <1>3 DEF Used, Freeing
<1>5. DOMAIN held' = DOMAIN held \cup ({blk[t]} \ {NULL})
  BY <1>0, <1>1 DEF With
<1>6. Used' = Used \ {b}
  <2>1. Freeing' = Freeing \ {b}
    BY <1>0, <1>1, <1>2, <1>3 DEF Freeing, Inv, TypeOK
  <2>2. Handing = Handing' \cup ({blk[t]} \ {NULL})
    BY <1>0, <1>1, <1>2 DEF Handing, Inv, TypeOK
  <2>3. b \notin Handing
    BY <1>0, <1>3 DEF Handing
  <2> QED
    BY <1>2, <1>3, <1>5, <2>1, <2>2, <2>3 DEF Used
<1>7. \A r \in Allocators :
        Free(r)' = IF r = s THEN Free(r) \cup {b} ELSE Free(r)
  BY <1>0, <1>1, <1>2, <1>3, <1>6 DEF Free
<1>8. /\ Handing = Handing' \cup ({blk[t]} \ {NULL})
      /\ b \notin Handing /\ blk[t] \notin DOMAIN held
  BY <1>0, <1>1, <1>2, <1>3 DEF Handing, Inv, TypeOK, Distinct
<1>9. b \notin Owned /\ Owned' = Owned
  BY <1>2, <1>5, <1>8 DEF Owned
<1>10. \A c \in Owned : Stays(c)
  <2>1. \A c \in DOMAIN held : c \in DOMAIN held' /\ held'[c] = held[c]
    BY <1>1, <1>8 DEF With
  <2>2. blk[t] # NULL => blk[t] \in DOMAIN held' /\ held'[blk[t]] = size[t]
    BY <1>1 DEF With
  <2>3. \A c \in DOMAIN held : Stays(c)
    BY <2>1 DEF Stays
  <2>4. \A c \in Handing : Stays(c)
    BY <1>1, <1>2, <2>2 DEF Stays, Handing, Inv, TypeOK
  <2> QED
    BY <2>3, <2>4 DEF Owned
<1>11. P!GiveBack(b) /\ b \in DOMAIN [c \in Used |-> blocks[c]]
  BY <1>0, <1>1, <1>2, <1>4, <1>6, <1>7, <1>9, <1>10, GiveBackStep
<1> QED
  BY <1>11 DEF P!Next

LEMMA DeleteBlockDeletes ==
  ASSUME Inv, Inv', DeleteBlock
  PROVE  P!Next
<1>1. PICK s \in Allocators :
        m_pHead[s] # NULL /\ blocks' = Without(blocks, m_pHead[s])
  BY DEF DeleteBlock
<1> DEFINE b == m_pHead[s]
<1>2. exiting /\ UNCHANGED <<held, pc, ptr, blk, size, m_maxObjects, exiting>>
  BY DEF DeleteBlock, local
<1>3. b \in Free(s)
  BY <1>1, HeadFree
<1>4. b \in DOMAIN blocks /\ blocks[b] = s /\ b \notin Used
  BY <1>3 DEF Free
<1>5. /\ DOMAIN blocks' = DOMAIN blocks \ {b}
      /\ \A c \in DOMAIN blocks' : blocks'[c] = blocks[c]
  BY <1>1 DEF Without
<1>6. Used' = Used
  BY <1>2, <1>4, <1>5 DEF Used, Freeing, Handing
<1>7. \A r \in Allocators :
        Free(r)' = IF r = s THEN Free(r) \ {b} ELSE Free(r)
  BY <1>4, <1>5, <1>6 DEF Free
<1>8. \A c \in Used : blocks'[c] = blocks[c]
  BY <1>4, <1>5 DEF Used, Freeing, Handing, Inv, TypeOK
<1>9. Handing' = Handing
  BY <1>2, <1>4, <1>5 DEF Used, Handing
<1>10. Owned' = Owned /\ \A c \in Owned : Stays(c)
  <2>1. NULL \notin DOMAIN blocks
    BY XAllocatorAssumption DEF Inv, TypeOK
  <2>2. \A c \in Handing : Stays(c)
    BY <1>2, <2>1 DEF Stays, Handing
  <2> QED
    BY <1>2, <1>9, <2>2 DEF Owned, Stays
<1> HIDE DEF b
<1>11. P!Delete(s, b)
  BY <1>2, <1>3, <1>6, <1>7, <1>8, <1>10, DeleteStep
<1>12. b \in Address
  BY <1>4 DEF Inv, TypeOK
<1> QED
  BY <1>11, <1>12 DEF P!Next

LEMMA InitPools == Init => P!Init
<1> SUFFICES ASSUME Init
             PROVE  P!Init
  OBVIOUS
<1>1. DOMAIN blocks = {} /\ Used = {} /\ Owned = {}
  BY DEF Init, Used, Owned, Freeing, Handing
<1>2. \A s \in Allocators : Free(s) = {}
  BY <1>1 DEF Free
<1>3. [s \in Allocators |-> Free(s)] = [s \in Allocators |-> {}]
  BY <1>2
<1>4. [b \in Used |-> blocks[b]] = [b \in {} |-> 0]
  BY <1>1
<1>5. exiting = FALSE /\ m_maxObjects \in MaxObjects
  BY DEF Init
<1>6. [b \in Owned |-> Asked(b)] = [b \in {} |-> 0]
  BY <1>1
<1> QED
  BY <1>3, <1>4, <1>5, <1>6 DEF P!Init

LEMMA StepPools == Inv /\ [Next]_vars => [P!Next]_P!vars
<1> SUFFICES ASSUME Inv, [Next]_vars
             PROVE  P!Next \/ UNCHANGED P!vars
  OBVIOUS
<1>0. Inv'
  BY StepInv
<1>1. CASE UNCHANGED <<held, ptr, blk, size, pc, blocks, m_maxObjects,
                       exiting>>
  <2>1. Handing' = Handing /\ Owned' = Owned /\ \A c \in Owned : Stays(c)
    BY <1>1, HandingStays
  <2>2. Used' = Used
    BY <1>1, <2>1 DEF Used, Freeing
  <2> QED
    BY <1>0, <1>1, <2>1, <2>2, Stutter
<1>2. ASSUME NEW t \in Thread, Call(t) PROVE P!Next \/ UNCHANGED P!vars
  BY <1>0, <1>2, CallPools
<1>3. ASSUME NEW t \in Thread, Inside(t) PROVE P!Next \/ UNCHANGED P!vars
  BY <1>0, <1>3, InsideStutters, NewBlockTakes, PopTakes, CopyLetsGo,
     PushGivesBack
  DEF Inside
<1>4. CASE Exit
  <2>1. /\ UNCHANGED <<held, ptr, blk, size, pc, blocks, m_maxObjects>>
        /\ ~ exiting /\ exiting' = TRUE
    BY <1>4 DEF Exit, local
  <2>2. Handing' = Handing /\ Owned' = Owned /\ \A c \in Owned : Stays(c)
    BY <2>1, HandingStays
  <2>3. Used' = Used
    BY <2>1, <2>2 DEF Used, Freeing
  <2>4. \A r \in Allocators : Free(r)' = Free(r)
    BY <2>1, <2>3 DEF Free
  <2>5. /\ [r \in Allocators |-> Free(r)'] = [r \in Allocators |-> Free(r)]
        /\ [c \in Used' |-> blocks'[c]] = [c \in Used |-> blocks[c]]
    BY <2>1, <2>3, <2>4
  <2>6. [c \in Owned' |-> Asked(c)'] = [c \in Owned |-> Asked(c)]
    BY <1>0, <2>2, OwnersStay
  <2>7. P!Exit
    BY <2>1, <2>5, <2>6 DEF P!Exit
  <2> QED
    BY <2>7 DEF P!Next
<1>5. CASE DeleteBlock
  BY <1>0, <1>5, DeleteBlockDeletes
<1>6. CASE DeleteAllocator \/ Exited \/ Lost \/ UNCHANGED vars
  BY <1>1, <1>6 DEF DeleteAllocator, Exited, Lost, vars, local
<1> QED
  BY <1>2, <1>3, <1>4, <1>5, <1>6 DEF Next

(* XAllocator implements BlockPools.                                       *)
THEOREM Implementation == Spec => ImplementsPools
<1>1. Spec => []Inv
  BY Invariance
<1> QED
  BY <1>1, InitPools, StepPools, PTL DEF Spec, ImplementsPools, P!Spec
=============================================================================
