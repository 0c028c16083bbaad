---------------------------- MODULE XAllocator ----------------------------
(***************************************************************************)
(* The fixed block allocator of the SGX port of OpenFHE: xmalloc, xfree,   *)
(* xrealloc and xalloc_destroy (xallocator.cpp) over one Allocator for     *)
(* each block size (blockAllocator.cpp), called by several threads.        *)
(*                                                                         *)
(* The first word of a block is all the memory that matters. While the     *)
(* program has the block it holds a pointer to its Allocator, read by      *)
(* xfree before it takes the mutex; while the block is on the free list of *)
(* its Allocator the same word holds the pointer to the next block.        *)
(*                                                                         *)
(* The statistics m_allocations and m_deallocations are left out, except   *)
(* for their difference m_blocksInUse.                                     *)
(***************************************************************************)
EXTENDS Integers, FiniteSets

CONSTANTS Thread,
          Address,     \* where blocks may come to lie
          Allocators,  \* one Allocator for each of these block sizes
          HEADER,      \* sizeof(Allocator*)
          SIZE_MAX,
          Request,     \* the sizes the program asks for
          MaxObjects,  \* the values of m_maxObjects: 0 is a heap of blocks
          NULL, NOBODY,
          MaxBlockCnt  \* bound: the heap fails only below this m_blockCnt

ASSUME XAllocatorAssumption ==
  /\ HEADER \in Nat \ {0} /\ SIZE_MAX \in Nat /\ MaxBlockCnt \in Nat
  /\ Allocators \subseteq {s \in Nat : HEADER <= s /\ s <= SIZE_MAX}
  /\ IsFiniteSet(Allocators)
  /\ Request \subseteq 0..SIZE_MAX
  /\ MaxObjects \subseteq Nat
  /\ NULL \notin Address \cup Allocators
  /\ Address \cap Allocators = {}
  /\ NOBODY \notin Thread

VARIABLES m_maxObjects,   \* chosen by the build, see Init
          _allocators,    \* the block sizes that have an Allocator
          m_pHead, m_blockCnt, m_blocksInUse,  \* of each Allocator
          blocks,         \* the address of each block |-> its size
          word,           \* the address of each block |-> its first word
          held,           \* the program's pointers |-> the bytes asked for
          mtx,            \* the thread that has xalloc_mutex, or NOBODY
          pc,             \* where each thread is
          size,           \* the argument size of its call
          ptr,            \* the block its call frees, or reallocates
          allocator, blk, \* its local variables
          exiting         \* is the program past main?

pool == <<m_pHead, m_blockCnt, m_blocksInUse>>
local == <<size, ptr, allocator, blk>>
vars == <<m_maxObjects, _allocators, pool, blocks, word, held, mtx, pc, local,
          exiting>>

(* xalloc_init has run before main. In a build with STATIC_POOLS there is  *)
(* a limit on the blocks of an Allocator.                                  *)
Init ==
  /\ m_maxObjects \in MaxObjects
  /\ _allocators = Allocators
  /\ m_pHead = [s \in Allocators |-> NULL]
  /\ m_blockCnt = [s \in Allocators |-> 0]
  /\ m_blocksInUse = [s \in Allocators |-> 0]
  /\ blocks = [b \in {} |-> 0]
  /\ word = [b \in {} |-> NULL]
  /\ held = [b \in {} |-> 0]
  /\ mtx = NOBODY
  /\ pc = [t \in Thread |-> "idle"]
  /\ size = [t \in Thread |-> 0]
  /\ ptr = [t \in Thread |-> NULL]
  /\ allocator = [t \in Thread |-> NULL]
  /\ blk = [t \in Thread |-> NULL]
  /\ exiting = FALSE

(* No copy has left its block so far, see Overrun.                         *)
Intact == \A t \in Thread : pc[t] # "lost"

Goto(t, from, to) ==
  /\ Intact
  /\ pc[t] = from
  /\ pc' = [pc EXCEPT ![t] = to]

Acquire(t) == mtx = NOBODY /\ mtx' = t

With(f, b, v) == [c \in DOMAIN f \cup {b} |-> IF c = b THEN v ELSE f[c]]
Without(f, b) == [c \in DOMAIN f \ {b} |-> f[c]]

(* Variant: the room for the pointer to the Allocator is forgotten.        *)
BlockSize_HeaderForgotten(n) == n

(* A sum in size_t.                                                        *)
BlockSize(n) == (n + HEADER) % (SIZE_MAX + 1)

(* s is the smallest block size that will do, the lower_bound of the map.  *)
IsFit(s, n) == /\ s \in _allocators /\ s >= BlockSize(n)
               /\ \A r \in _allocators : r >= BlockSize(n) => s <= r

Fits(n) == \E s \in _allocators : s >= BlockSize(n)

(* The blocks a thread has in its hands: what it is to free or reallocate, *)
(* and what it has off the free list but not yet returned.                 *)
Freeing == {b \in DOMAIN blocks : \E t \in Thread : ptr[t] = b}
Handing ==
  {b \in DOMAIN blocks : \E t \in Thread : blk[t] = b /\ pc[t] # "pop"}

Used == (DOMAIN held \cup Freeing) \cup Handing

(* All others are free.                                                    *)
Free(s) == LET used == Used
           IN  {b \in DOMAIN blocks : blocks[b] = s /\ b \notin used}

-----------------------------------------------------------------------------
(* The program calls. A pointer that another call is about to reallocate   *)
(* is not its to use.                                                      *)
Running(t) == pc[t] = "idle" /\ ~ exiting

Usable == DOMAIN held \ Freeing

(* Bound: an address is left for every block that may have to be made.     *)
Room(n) ==
  \A s \in Allocators : IsFit(s, n) =>
    Cardinality({b \in Address : b \in DOMAIN blocks => b \in Free(s)})
      > Cardinality({t \in Thread : pc[t] \in {"malloc", "fit", "pop"}})

CallMalloc(t, n) ==
  /\ Running(t) /\ Room(n)
  /\ Goto(t, "idle", "malloc")
  /\ size' = [size EXCEPT ![t] = n]
  /\ UNCHANGED <<m_maxObjects, _allocators, pool, blocks, word, held, mtx, ptr,
                 allocator, blk, exiting>>

CallFree(t, p) ==
  /\ Running(t)
  /\ Goto(t, "idle", "free")
  /\ ptr' = [ptr EXCEPT ![t] = p]
  /\ held' = Without(held, p)
  /\ UNCHANGED <<m_maxObjects, _allocators, pool, blocks, word, mtx, size,
                 allocator, blk, exiting>>

(* xrealloc of a block to a size other than 0: it begins with an xmalloc.  *)
(* (With size 0 it is xfree, and of NULL it is xmalloc.)                   *)
CallRealloc(t, p, n) ==
  /\ Running(t) /\ Room(n)
  /\ n # 0
  /\ Goto(t, "idle", "malloc")
  /\ size' = [size EXCEPT ![t] = n]
  /\ ptr' = [ptr EXCEPT ![t] = p]
  /\ UNCHANGED <<m_maxObjects, _allocators, pool, blocks, word, held, mtx,
                 allocator, blk, exiting>>

-----------------------------------------------------------------------------
(* xmalloc.                                                                *)
LockMalloc(t) ==
  /\ Goto(t, "malloc", "fit")
  /\ Acquire(t)
  /\ UNCHANGED <<m_maxObjects, _allocators, pool, blocks, word, held, local,
                 exiting>>

(* An exception leaves the call, and the lock guard gives back the mutex.  *)
(* What was to be reallocated is the program's again.                      *)
Throw(t) ==
  /\ Goto(t, "fit", "idle")
  /\ mtx' = NOBODY
  /\ size' = [size EXCEPT ![t] = 0]
  /\ ptr' = [ptr EXCEPT ![t] = NULL]
  /\ UNCHANGED <<allocator, blk>>

(* "Exceeded max block size"                                               *)
TooLarge(t) ==
  /\ ~ Fits(size[t])
  /\ Throw(t)
  /\ UNCHANGED <<m_maxObjects, _allocators, pool, blocks, word, held, exiting>>

(* "Exceeded max block count"                                              *)
Exhausted(s) == m_maxObjects > 0 /\ m_blockCnt[s] >= m_maxObjects

PoolEmpty(t) ==
  /\ \E s \in Allocators : /\ IsFit(s, size[t]) /\ m_pHead[s] = NULL
                           /\ Exhausted(s)
  /\ Throw(t)
  /\ UNCHANGED <<m_maxObjects, _allocators, pool, blocks, word, held, exiting>>

(* new char[m_blockSize] throws std::bad_alloc, after ++m_blockCnt.        *)
NoMemory(t) ==
  /\ \E s \in Allocators :
       /\ IsFit(s, size[t]) /\ m_pHead[s] = NULL /\ m_maxObjects = 0
       /\ m_blockCnt[s] < MaxBlockCnt
       /\ m_blockCnt' = [m_blockCnt EXCEPT ![s] = @ + 1]
  /\ Throw(t)
  /\ UNCHANGED <<m_maxObjects, _allocators, m_pHead, m_blocksInUse, blocks,
                 word, held, exiting>>

(* The free list is empty: a new block, off the heap or the pool.          *)
NewBlock(t) ==
  /\ Goto(t, "fit", "hand")
  /\ \E s \in Allocators, b \in Address \ DOMAIN blocks :
       /\ IsFit(s, size[t]) /\ m_pHead[s] = NULL /\ ~ Exhausted(s)
       /\ m_blockCnt' = [m_blockCnt EXCEPT ![s] = @ + 1]
       /\ blocks' = With(blocks, b, s)
       /\ word' = With(word, b, NULL)
       /\ allocator' = [allocator EXCEPT ![t] = s]
       /\ blk' = [blk EXCEPT ![t] = b]
  /\ UNCHANGED <<m_maxObjects, _allocators, m_pHead, m_blocksInUse, held, mtx,
                 size, ptr, exiting>>

(* Pop reads the head of the list ...                                      *)
ReadHead(t) ==
  /\ Goto(t, "fit", "pop")
  /\ \E s \in Allocators :
       /\ IsFit(s, size[t]) /\ m_pHead[s] # NULL
       /\ allocator' = [allocator EXCEPT ![t] = s]
       /\ blk' = [blk EXCEPT ![t] = m_pHead[s]]
  /\ UNCHANGED <<m_maxObjects, _allocators, pool, blocks, word, held, mtx,
                 size, ptr, exiting>>

(* ... and moves it on.                                                    *)
Pop(t) ==
  /\ Goto(t, "pop", "hand")
  /\ m_pHead' = [m_pHead EXCEPT ![allocator[t]] = word[blk[t]]]
  /\ UNCHANGED <<m_maxObjects, _allocators, m_blockCnt, m_blocksInUse, blocks,
                 word, held, mtx, local, exiting>>

(* The end of Allocate, set_block_allocator, and the return: to the        *)
(* program, or to xrealloc.                                                *)
Hand(t) ==
  /\ pc[t] = "hand"
  /\ m_blocksInUse' = [m_blocksInUse EXCEPT ![allocator[t]] = @ + 1]
  /\ word' = [word EXCEPT ![blk[t]] = allocator[t]]
  /\ mtx' = NOBODY
  /\ allocator' = [allocator EXCEPT ![t] = NULL]
  /\ \/ /\ ptr[t] = NULL
        /\ Goto(t, "hand", "idle")
        /\ held' = With(held, blk[t], size[t])
        /\ blk' = [blk EXCEPT ![t] = NULL]
        /\ size' = [size EXCEPT ![t] = 0]
     \/ /\ ptr[t] # NULL
        /\ Goto(t, "hand", "copy")
        /\ UNCHANGED <<held, blk, size>>
  /\ UNCHANGED <<m_maxObjects, _allocators, m_pHead, m_blockCnt, blocks, ptr,
                 exiting>>

-----------------------------------------------------------------------------
(* The rest of xrealloc: what the old block holds is copied, as far as it  *)
(* goes into the new size, and the old block freed.                        *)
Smaller(m, n) == IF m < n THEN m ELSE n

(* Variant: the pointer to the Allocator is counted as contents.           *)
Copied_WithHeader(t) == Smaller(word[ptr[t]], size[t])

Copied(t) == Smaller(word[ptr[t]] - HEADER, size[t])

InBounds(t) == Copied(t) <= blocks[blk[t]] - HEADER

Copy(t) ==
  /\ Goto(t, "copy", "free")
  /\ InBounds(t)
  /\ held' = Without(held, ptr[t])
  /\ UNCHANGED <<m_maxObjects, _allocators, pool, blocks, word, mtx, local,
                 exiting>>

(* A copy longer than the new block writes over what lies behind it, which *)
(* may be the first word of any block, free or in use: what any thread     *)
(* does from there on is undefined, and the model has no further step.     *)
Overrun(t) ==
  /\ Goto(t, "copy", "lost")
  /\ ~ InBounds(t)
  /\ UNCHANGED <<m_maxObjects, _allocators, pool, blocks, word, held, mtx,
                 local, exiting>>

Lost == ~ Intact /\ UNCHANGED vars

(* xfree reads the Allocator off the block before it takes the mutex.      *)
ReadHeader(t) ==
  /\ Goto(t, "free", "lock")
  /\ allocator' = [allocator EXCEPT ![t] = word[ptr[t]]]
  /\ UNCHANGED <<m_maxObjects, _allocators, pool, blocks, word, held, mtx,
                 size, ptr, blk, exiting>>

(* Variant: Deallocate without the mutex.                                  *)
LockFree_NotLocked(t) ==
  /\ Goto(t, "lock", "link")
  /\ UNCHANGED <<m_maxObjects, _allocators, pool, blocks, word, held, mtx,
                 local, exiting>>

LockFree(t) ==
  /\ Goto(t, "lock", "link")
  /\ Acquire(t)
  /\ UNCHANGED <<m_maxObjects, _allocators, pool, blocks, word, held, local,
                 exiting>>

(* Push links the block to the head of the list ...                        *)
Link(t) ==
  /\ Goto(t, "link", "push")
  /\ word' = [word EXCEPT ![ptr[t]] = m_pHead[allocator[t]]]
  /\ UNCHANGED <<m_maxObjects, _allocators, pool, blocks, held, mtx, local,
                 exiting>>

(* ... and makes it the head. xrealloc returns the new block.              *)
Push(t) ==
  /\ Goto(t, "push", "idle")
  /\ m_pHead' = [m_pHead EXCEPT ![allocator[t]] = ptr[t]]
  /\ m_blocksInUse' = [m_blocksInUse EXCEPT ![allocator[t]] = @ - 1]
  /\ mtx' = NOBODY
  /\ held' = IF blk[t] = NULL THEN held ELSE With(held, blk[t], size[t])
  /\ size' = [size EXCEPT ![t] = 0]
  /\ ptr' = [ptr EXCEPT ![t] = NULL]
  /\ allocator' = [allocator EXCEPT ![t] = NULL]
  /\ blk' = [blk EXCEPT ![t] = NULL]
  /\ UNCHANGED <<m_maxObjects, _allocators, m_blockCnt, blocks, word, exiting>>

-----------------------------------------------------------------------------
(* xalloc_destroy, which a static destructor calls when main has returned. *)
Exit ==
  /\ ~ exiting /\ \A t \in Thread : pc[t] = "idle"
  /\ exiting' = TRUE
  /\ UNCHANGED <<m_maxObjects, _allocators, pool, blocks, word, held, mtx, pc,
                 local>>

(* The loop goes through the map from the smallest block size on.          *)
Smallest(s) == /\ s \in _allocators
               /\ \A r \in _allocators : s <= r

(* ~Allocator deletes the blocks of its free list, those off the heap ...  *)
DeleteBlock ==
  /\ exiting /\ m_maxObjects = 0
  /\ \E s \in Allocators :
       /\ Smallest(s) /\ m_pHead[s] # NULL
       /\ m_pHead' = [m_pHead EXCEPT ![s] = word[m_pHead[s]]]
       /\ blocks' = Without(blocks, m_pHead[s])
       /\ word' = Without(word, m_pHead[s])
  /\ UNCHANGED <<m_maxObjects, _allocators, m_blockCnt, m_blocksInUse, held,
                 mtx, pc, local, exiting>>

(* ... and then the Allocator goes. A pool is static memory and stays.     *)
DeleteAllocator ==
  /\ exiting
  /\ \E s \in Allocators :
       /\ Smallest(s) /\ (m_maxObjects = 0 => m_pHead[s] = NULL)
       /\ _allocators' = _allocators \ {s}
  /\ UNCHANGED <<m_maxObjects, pool, blocks, word, held, mtx, pc, local,
                 exiting>>

Exited == exiting /\ _allocators = {} /\ UNCHANGED vars

-----------------------------------------------------------------------------
Inside(t) ==
  \/ LockMalloc(t) \/ TooLarge(t) \/ PoolEmpty(t) \/ NoMemory(t)
  \/ NewBlock(t) \/ ReadHead(t) \/ Pop(t) \/ Hand(t) \/ Copy(t)
  \/ Overrun(t) \/ ReadHeader(t) \/ LockFree(t) \/ Link(t) \/ Push(t)

Call(t) ==
  \/ \E n \in Request : CallMalloc(t, n)
  \/ \E p \in Usable : \/ CallFree(t, p)
                       \/ \E n \in Request : CallRealloc(t, p, n)

Next == \/ \E t \in Thread : Call(t) \/ Inside(t)
        \/ Exit \/ DeleteBlock \/ DeleteAllocator \/ Exited \/ Lost

Spec == Init /\ [][Next]_vars

-----------------------------------------------------------------------------
(* Those in use, as far as m_blocksInUse has been told.                    *)
Counted(s) ==
  {b \in Used : /\ blocks[b] = s
                /\ \A t \in Thread : pc[t] = "hand" => blk[t] # b}

InMutex == {"fit", "pop", "hand", "link", "push"}

TypeOK ==
  /\ m_maxObjects \in MaxObjects
  /\ _allocators \subseteq Allocators
  /\ m_pHead \in [Allocators -> Address \cup {NULL}]
  /\ m_blockCnt \in [Allocators -> Nat]
  /\ m_blocksInUse \in [Allocators -> Nat]
  /\ DOMAIN blocks \subseteq Address /\ IsFiniteSet(DOMAIN blocks)
  /\ blocks \in [DOMAIN blocks -> Allocators]
  /\ word \in [DOMAIN blocks -> Address \cup Allocators \cup {NULL}]
  /\ DOMAIN held \subseteq DOMAIN blocks
  /\ held \in [DOMAIN held -> 0..SIZE_MAX]
  /\ mtx \in Thread \cup {NOBODY}
  /\ pc \in [Thread -> InMutex \cup {"idle", "malloc", "copy", "lost",
                                      "free", "lock"}]
  /\ size \in [Thread -> 0..SIZE_MAX]
  /\ ptr \in [Thread -> DOMAIN blocks \cup {NULL}]
  /\ allocator \in [Thread -> Allocators \cup {NULL}]
  /\ blk \in [Thread -> DOMAIN blocks \cup {NULL}]
  /\ exiting \in BOOLEAN

(* What the local variables hold where.                                    *)
Locals(t) ==
  /\ mtx = t <=> pc[t] \in InMutex
  /\ pc[t] = "idle" => ptr[t] = NULL
  /\ pc[t] \in {"idle", "malloc", "fit"} => blk[t] = NULL
  /\ pc[t] \in {"pop", "hand", "copy", "lost"} => blk[t] # NULL
  /\ pc[t] \in {"copy", "lost", "free", "lock", "link", "push"} =>
       ptr[t] # NULL
  /\ pc[t] \in {"pop", "hand", "lock", "link", "push"} <=> allocator[t] # NULL
  /\ ptr[t] # NULL => (ptr[t] \in DOMAIN held <=>
                         pc[t] \in {"malloc", "fit", "pop", "hand", "copy",
                                    "lost"})
  /\ pc[t] = "pop" => blk[t] = m_pHead[allocator[t]]
  /\ pc[t] = "hand" => blocks[blk[t]] = allocator[t]
  /\ pc[t] = "lost" => ~ InBounds(t)
  /\ pc[t] \in {"lock", "link", "push"} => blocks[ptr[t]] = allocator[t]
  /\ pc[t] = "push" => word[ptr[t]] = m_pHead[allocator[t]]
  /\ pc[t] \in {"malloc", "fit"} => size[t] \in Request
  /\ blk[t] # NULL =>
       /\ size[t] \in Request
       /\ IF pc[t] = "pop" THEN IsFit(allocator[t], size[t])
          ELSE IsFit(blocks[blk[t]], size[t])

(* No block is in two pairs of hands.                                      *)
Distinct ==
  \A t, u \in Thread :
    /\ t # u /\ ptr[t] # NULL => ptr[t] # ptr[u]
    /\ t # u /\ blk[t] # NULL => blk[t] # blk[u]
    /\ blk[t] # NULL => blk[t] # ptr[u] /\ blk[t] \notin DOMAIN held

(* The first word of a block in use is its Allocator, except between the   *)
(* two steps that take it off the free list or put it there.               *)
Headers ==
  \A b \in Used :
    \/ word[b] = blocks[b]
    \/ \E t \in Thread : \/ pc[t] = "hand" /\ blk[t] = b
                         \/ pc[t] = "push" /\ ptr[t] = b

(* F is a stack, linked through first words w from the head h down.        *)
IsStack(F, h, w) ==
  LET k == Cardinality(F) IN
  \E f \in [1..k -> F] :
    /\ \A b \in F : \E i \in 1..k : f[i] = b
    /\ \A i, j \in 1..k : f[i] = f[j] => i = j
    /\ h = IF k = 0 THEN NULL ELSE f[k]
    /\ \A i \in 1..k : w[f[i]] = IF i = 1 THEN NULL ELSE f[i - 1]

Stacked(s) == IsStack(Free(s), m_pHead[s], word)

(* The lists and the counters fit what is out.                             *)
Lists ==
  \A s \in Allocators : /\ Stacked(s)
                         /\ m_blocksInUse[s] = Cardinality(Counted(s))

(* m_blockCnt is at least the number of blocks there are: a new that threw *)
(* has been counted, and destroyed blocks still are. For a pool it is      *)
(* exact, and within the limit.                                            *)
OfSize(s) == {b \in DOMAIN blocks : blocks[b] = s}

Counts ==
  \A s \in Allocators :
    /\ Cardinality(OfSize(s)) <= m_blockCnt[s]
    /\ m_maxObjects > 0 => /\ Cardinality(OfSize(s)) = m_blockCnt[s]
                           /\ m_blockCnt[s] <= m_maxObjects

(* A pointer of the program is to a block of the smallest size that will   *)
(* do for it, as the sum of line 290 has it.                               *)
Sized == ~ exiting => \A b \in DOMAIN held : IsFit(blocks[b], held[b])

(* When the program exits all but what it has not freed is given back.     *)
Released ==
  exiting => /\ \A t \in Thread : pc[t] = "idle"
             /\ m_maxObjects = 0 =>
                  \A b \in DOMAIN blocks : \/ blocks[b] \in _allocators
                                          \/ b \in DOMAIN held

(* Together, in every state, the steps in the middle of a call included:   *)
(* the free lists of xmalloc and xfree hold exactly the blocks that nobody *)
(* has, each block goes back to the Allocator it came from, m_blocksInUse  *)
(* says how many are out, m_blockCnt covers all there are, and a pool      *)
(* never has more than it may.                                             *)
Inv ==
  /\ TypeOK
  /\ \A t \in Thread : Locals(t)
  /\ Distinct
  /\ Headers
  /\ Lists
  /\ ~ exiting => _allocators = Allocators
  /\ Sized
  /\ Released
  /\ Counts

(* The size of a request does not wrap when room for the header is added.  *)
NoWrap(n) == n + HEADER <= SIZE_MAX

(* The memcpy of xrealloc, whose length is computed from the block sizes,  *)
(* copies all that the program had in the old block and has room for in    *)
(* the new one, whatever other threads allocate in between; it stays       *)
(* inside the old block; what xmalloc gave it is not what it is copying    *)
(* from. It stays inside the new block if the size asked for did not wrap, *)
(* so that an overrun comes of nothing but a size that did. (With such a   *)
(* size it does overrun, against the comment of xallocator.cpp:358: see    *)
(* Overrun.)                                                               *)
Kept ==
  \A t \in Thread :
    /\ pc[t] = "copy" =>
         LET old == ptr[t]
             new == blk[t]
         IN /\ NoWrap(held[old]) => Copied(t) >= Smaller(held[old], size[t])
            /\ Copied(t) <= blocks[old] - HEADER
            /\ NoWrap(size[t]) => Copied(t) <= blocks[new] - HEADER
            /\ new # old
    /\ pc[t] = "lost" => ~ NoWrap(size[t])

=============================================================================
