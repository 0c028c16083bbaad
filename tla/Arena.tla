-------------------------------- MODULE Arena --------------------------------
(***************************************************************************)
(* The enclave's replacement of the global operator new and delete: a      *)
(* first-fit allocator over one static arena of HEAP_SIZE bytes, whose     *)
(* blocks form a singly linked list in address order, protected by one     *)
(* std::mutex (stages-inside-enclave/Enclave/Enclave.cpp).                 *)
(*                                                                         *)
(* A call is a sequence of steps of its thread: the call itself, the       *)
(* acquisition of the mutex, one step per iteration of the search or of    *)
(* the coalescing loop, and the step that returns and releases the mutex.  *)
(* Addresses are byte offsets into Arena::data, a header is named by its   *)
(* offset, and the pointer handed to the program is the offset of the      *)
(* header plus BLOCK_SIZE.                                                 *)
(***************************************************************************)
EXTENDS Sizes

CONSTANTS Thread,     \* the threads (TCSs) that run inside the enclave
          HEAP_SIZE,  \* bytes of Arena::data
          Request,    \* the sizes, in bytes, the program asks for
          NULL,       \* nullptr
          NOBODY      \* the owner of an unlocked mutex

(* The arena has room for one header and one granule and is made of whole  *)
(* granules; a size_t can hold its size and is a whole number of granules. *)
ASSUME ArenaAssumption ==
  /\ HEAP_SIZE \in Nat /\ HEAP_SIZE >= 48 /\ HEAP_SIZE % ALIGNMENT = 0
  /\ SIZE_MAX \in Nat /\ SIZE_MAX >= HEAP_SIZE + 64
  /\ (SIZE_MAX + 1) % ALIGNMENT = 0
  /\ Request \subseteq 0..SIZE_MAX
  /\ NULL \notin Int
  /\ NOBODY \notin Thread

VARIABLES blocks,  \* the headers reachable from free_list, by offset
          mtx,     \* the thread that holds Arena::mtx, or NOBODY
          pc,      \* where each thread is in operator new or delete
          arg,     \* its argument: the request in bytes, or the pointer
          cursor,  \* its loop variable: curr in new, iter in delete
          live     \* the program's pointers, with the bytes it asked for

vars == <<blocks, mtx, pc, arg, cursor, live>>

Header == DOMAIN blocks

(* free_list is set by the constructor and never assigned again.           *)
free_list == 0

-----------------------------------------------------------------------------
(* Variant: the first block has no room for its own header.                *)
FreshArena_HeaderForgotten ==
  [h \in {free_list} |->
     [size |-> HEAP_SIZE, free |-> TRUE, next |-> NULL]]

(* Arena(): one free block that covers the whole of data.                  *)
FreshArena ==
  [h \in {free_list} |->
     [size |-> HEAP_SIZE - BLOCK_SIZE, free |-> TRUE, next |-> NULL]]

Init ==
  /\ blocks = FreshArena
  /\ mtx = NOBODY
  /\ pc = [t \in Thread |-> "idle"]
  /\ arg = [t \in Thread |-> 0]
  /\ cursor = [t \in Thread |-> NULL]
  /\ live = [p \in {} |-> 0]

-----------------------------------------------------------------------------
(* Moving a thread, and the mutex.                                         *)
Goto(t, from, to) ==
  /\ pc[t] = from
  /\ pc' = [pc EXCEPT ![t] = to]

Acquire(t) ==
  /\ mtx = NOBODY
  /\ mtx' = t

(* Leaving the function: the lock guard releases the mutex, the locals are *)
(* gone.                                                                   *)
Return(t) ==
  /\ mtx' = NOBODY
  /\ arg' = [arg EXCEPT ![t] = 0]
  /\ cursor' = [cursor EXCEPT ![t] = NULL]

(* Variant: a block of exactly n bytes does not do.                        *)
Fits_Strictly(b, n) == b.free /\ b.size > n

(* A free block of at least n bytes ends the search.                       *)
Fits(b, n) == b.free /\ b.size >= n

(* Variant: no room is kept for the header of the rest.                    *)
CanSplit_HeaderForgotten(b, n) == b.size >= n + ALIGNMENT

(* It is split when the rest has room for a header and one granule.        *)
CanSplit(b, n) == b.size >= n + BLOCK_SIZE + ALIGNMENT

(* The list after block c has been cut down to n bytes and taken; the rest *)
(* becomes a free block right behind it.                                   *)
SplitAt(c, n) ==
  LET rest == c + BLOCK_SIZE + n
      b    == blocks[c]
  IN  [h \in Header \cup {rest} |->
         CASE h = c    -> [size |-> n, free |-> FALSE, next |-> rest]
           [] h = rest -> [size |-> b.size - n - BLOCK_SIZE,
                           free |-> TRUE, next |-> b.next]
           [] OTHER    -> blocks[h]]

(* The list after block c has been taken as it is.                         *)
TakeAll(c) == [blocks EXCEPT ![c].free = FALSE]

(* Variant: only the successor has to be free.                             *)
Mergeable_IntoUsed(i) == blocks[blocks[i].next].free

(* Two neighbours are merged when both are free.                           *)
Mergeable(i) == blocks[i].free /\ blocks[blocks[i].next].free

(* The list after block i has swallowed its successor, header included.    *)
MergeAt(i) ==
  LET j == blocks[i].next
  IN  [h \in Header \ {j} |->
         IF h = i
         THEN [size |-> blocks[i].size + BLOCK_SIZE + blocks[j].size,
               free |-> blocks[i].free, next |-> blocks[j].next]
         ELSE blocks[h]]

-----------------------------------------------------------------------------
(* operator new(size).                                                     *)

(* The program asks for n bytes.                                           *)
CallNew(t, n) ==
  /\ Goto(t, "idle", "new")
  /\ arg' = [arg EXCEPT ![t] = n]
  /\ UNCHANGED <<blocks, mtx, cursor, live>>

(* The mutex is taken, the request rounded up, the search starts.          *)
LockNew(t) ==
  /\ Goto(t, "new", "search")
  /\ Acquire(t)
  /\ cursor' = [cursor EXCEPT ![t] = free_list]
  /\ UNCHANGED <<blocks, arg, live>>

Size(t) == AlignUp(arg[t])

(* One iteration that moves on to the next block of the list.              *)
SearchNext(t) ==
  /\ pc[t] = "search"
  /\ cursor[t] # NULL
  /\ ~Fits(blocks[cursor[t]], Size(t))
  /\ cursor' = [cursor EXCEPT ![t] = blocks[@].next]
  /\ UNCHANGED <<blocks, mtx, pc, arg, live>>

(* The iteration that finds a block, takes it, returns its payload and     *)
(* lets the lock guard release the mutex.                                  *)
Take(t) ==
  LET c == cursor[t]
      n == Size(t)
  IN  /\ Goto(t, "search", "idle")
      /\ c # NULL
      /\ Fits(blocks[c], n)
      /\ \/ CanSplit(blocks[c], n) /\ blocks' = SplitAt(c, n)
         \/ ~CanSplit(blocks[c], n) /\ blocks' = TakeAll(c)
      /\ live' = [p \in DOMAIN live \cup {c + BLOCK_SIZE} |->
                    IF p = c + BLOCK_SIZE THEN arg[t] ELSE live[p]]
      /\ Return(t)

(* Variant: the exception leaves the mutex locked.                         *)
BadAlloc_KeepsMutex(t) ==
  /\ Goto(t, "search", "idle")
  /\ cursor[t] = NULL
  /\ arg' = [arg EXCEPT ![t] = 0]
  /\ UNCHANGED <<blocks, mtx, cursor, live>>

(* The list is exhausted: std::bad_alloc leaves the function.              *)
BadAlloc(t) ==
  /\ Goto(t, "search", "idle")
  /\ cursor[t] = NULL
  /\ Return(t)
  /\ UNCHANGED <<blocks, live>>

-----------------------------------------------------------------------------
(* operator delete(ptr), for a pointer the program owns; deleting nullptr  *)
(* returns at once and is not a step.                                      *)

CallDelete(t, p) ==
  /\ Goto(t, "idle", "delete")
  /\ arg' = [arg EXCEPT ![t] = p]
  /\ live' = [q \in DOMAIN live \ {p} |-> live[q]]
  /\ UNCHANGED <<blocks, mtx, cursor>>

(* Variant: coalescing starts at the freed block.                          *)
LockDelete_FromBlock(t) ==
  /\ Goto(t, "delete", "coalesce")
  /\ Acquire(t)
  /\ blocks' = [blocks EXCEPT ![arg[t] - BLOCK_SIZE].free = TRUE]
  /\ cursor' = [cursor EXCEPT ![t] = arg[t] - BLOCK_SIZE]
  /\ UNCHANGED <<arg, live>>

(* The mutex is taken, the block marked free, coalescing starts.           *)
LockDelete(t) ==
  /\ Goto(t, "delete", "coalesce")
  /\ Acquire(t)
  /\ blocks' = [blocks EXCEPT ![arg[t] - BLOCK_SIZE].free = TRUE]
  /\ cursor' = [cursor EXCEPT ![t] = free_list]
  /\ UNCHANGED <<arg, live>>

(* The condition of the coalescing loop.                                   *)
MoreToMerge(i) == i # NULL /\ blocks[i].next # NULL

Iterating(t) == pc[t] = "coalesce" /\ MoreToMerge(cursor[t])

(* Variant: the loop moves on after a merge.                               *)
Merge_MovesOn(t) ==
  LET i == cursor[t]
  IN  /\ Iterating(t)
      /\ Mergeable(i)
      /\ blocks' = MergeAt(i)
      /\ cursor' = [cursor EXCEPT ![t] = blocks'[i].next]
      /\ UNCHANGED <<mtx, pc, arg, live>>

(* One iteration that merges; iter stays, it may merge again.              *)
Merge(t) ==
  LET i == cursor[t]
  IN  /\ Iterating(t)
      /\ Mergeable(i)
      /\ blocks' = MergeAt(i)
      /\ UNCHANGED <<mtx, pc, arg, cursor, live>>

(* Variant: the loop does not move on.                                     *)
CoalesceNext_Stays(t) ==
  /\ Iterating(t)
  /\ ~Mergeable(cursor[t])
  /\ UNCHANGED vars

(* One iteration that moves iter to the next block.                        *)
CoalesceNext(t) ==
  LET i == cursor[t]
  IN  /\ Iterating(t)
      /\ ~Mergeable(i)
      /\ cursor' = [cursor EXCEPT ![t] = blocks[i].next]
      /\ UNCHANGED <<blocks, mtx, pc, arg, live>>

(* Nothing is left to merge: the loop ends and the function returns.       *)
ReturnDelete(t) ==
  /\ Goto(t, "coalesce", "idle")
  /\ ~MoreToMerge(cursor[t])
  /\ Return(t)
  /\ UNCHANGED <<blocks, live>>

-----------------------------------------------------------------------------
Inside(t) ==
  \/ LockNew(t) \/ SearchNext(t) \/ Take(t) \/ BadAlloc(t)
  \/ LockDelete(t) \/ Merge(t) \/ CoalesceNext(t) \/ ReturnDelete(t)

Next ==
  \E t \in Thread :
     \/ \E n \in Request : CallNew(t, n)
     \/ \E p \in DOMAIN live : CallDelete(t, p)
     \/ Inside(t)

Spec == Init /\ [][Next]_vars

(* A thread that has something to do in the allocator and can do it is     *)
(* eventually scheduled. Nothing is assumed of which waiter a released     *)
(* std::mutex goes to, nor that the program ever calls.                    *)
FairSpec == Spec /\ \A t \in Thread : WF_vars(Inside(t))

-----------------------------------------------------------------------------
(* Properties.                                                             *)

BlockType ==
  [size : 0..HEAP_SIZE, free : BOOLEAN, next : 0..HEAP_SIZE \cup {NULL}]

(* Every variable keeps to its type: the sizes are never negative or       *)
(* larger than the arena, whatever is split and merged.                    *)
TypeOK ==
  /\ Header \subseteq 0..HEAP_SIZE
  /\ blocks \in [Header -> BlockType]
  /\ mtx \in Thread \cup {NOBODY}
  /\ pc \in [Thread -> {"idle", "new", "search", "delete", "coalesce"}]
  /\ arg \in [Thread -> 0..SIZE_MAX]
  /\ cursor \in [Thread -> Header \cup {NULL}]
  /\ DOMAIN live \subseteq 0..HEAP_SIZE
  /\ live \in [DOMAIN live -> 0..SIZE_MAX]

(* The list is a tiling of the arena: it starts at offset 0, the next of a *)
(* block is the block right behind its payload, only the block that ends   *)
(* at HEAP_SIZE is the last, and every header sits on an ALIGNMENT         *)
(* boundary. Every step of new and delete keeps it, the steps in the       *)
(* middle of a call included, so no byte is ever lost to the list.         *)
EndOf(h) == h + BLOCK_SIZE + blocks[h].size

Tiling ==
  /\ free_list \in Header
  /\ \A h \in Header :
       /\ h % ALIGNMENT = 0
       /\ IF EndOf(h) = HEAP_SIZE
          THEN blocks[h].next = NULL
          ELSE blocks[h].next = EndOf(h) /\ EndOf(h) \in Header

(* The pointers whose blocks are in use: the program's, and those of the   *)
(* calls of delete that have not yet got the mutex.                        *)
Pending == {t \in Thread : pc[t] = "delete"}
InUse == DOMAIN live \cup {arg[t] : t \in Pending}


(* A block is not free exactly as long as some pointer to it is in use:    *)
(* no block leaks, and none is marked free under its owner.                *)
Owned ==
  /\ \A h \in Header : ~blocks[h].free <=> h + BLOCK_SIZE \in InUse
  /\ \A p \in InUse : p - BLOCK_SIZE \in Header

(* The request did not wrap when new rounded it up.                        *)
NoWrap(n) == n + ALIGNMENT - 1 <= SIZE_MAX

(* The bytes a caller asked for are inside the arena, and neither another  *)
(* caller's bytes nor the header of any block, which later calls write,    *)
(* overlap them.                                                           *)
Separate ==
  \A p \in DOMAIN live : NoWrap(live[p]) =>
    /\ p + live[p] <= HEAP_SIZE
    /\ \A h \in Header : h + BLOCK_SIZE <= p \/ p + live[p] <= h
    /\ \A q \in DOMAIN live \ {p} :
         NoWrap(live[q]) => q + live[q] <= p \/ p + live[p] <= q

(* Whenever the mutex is free no two neighbours are both free: the single  *)
(* pass of delete is enough, even though new splits blocks in between.     *)
Coalesced ==
  mtx = NOBODY =>
    \A h \in Header : blocks[h].free /\ blocks[h].next # NULL
                        => ~blocks[blocks[h].next].free

(* Once everything has been given back the arena is as the constructor     *)
(* left it, whatever the order of the calls was.                           *)
Restored == InUse = {} /\ mtx = NOBODY => blocks = FreshArena

(* No step of any thread changes the header of a block that the program    *)
(* holds before and after the step.                                        *)
HeldUntouched ==
  [][\A p \in DOMAIN live \cap DOMAIN live' :
        LET h == p - BLOCK_SIZE
        IN  /\ h \in Header' /\ blocks'[h] = blocks[h]
            /\ live'[p] = live[p]]_vars

(* The strengthening that makes them inductive.                            *)

(* In address order, no block reaches into the next.                       *)
Disjoint == \A g, h \in Header : g < h => EndOf(g) <= h

(* The holder of the mutex is the thread that is in one of the loops; only *)
(* it has a loop variable, and iter never is nullptr.                      *)
Locked ==
  \A t \in Thread :
    /\ mtx = t <=> pc[t] \in {"search", "coalesce"}
    /\ mtx # t => cursor[t] = NULL
    /\ pc[t] = "coalesce" => cursor[t] # NULL

(* No pointer is given back twice or while the program still has it.       *)
Unique ==
  \A t \in Pending :
    /\ arg[t] \notin DOMAIN live
    /\ \A u \in Pending \ {t} : arg[u] # arg[t]

(* A block in use holds the rounded request.                               *)
Roomy == \A p \in DOMAIN live : AlignUp(live[p]) <= blocks[p - BLOCK_SIZE].size

(* Two free neighbours are ahead of a coalescing loop.                     *)
MergeAhead ==
  \A h \in Header :
    blocks[h].free /\ blocks[h].next # NULL /\ blocks[blocks[h].next].free
      => \E t \in Thread : pc[t] = "coalesce" /\ cursor[t] <= h

Inv ==
  /\ TypeOK
  /\ Tiling
  /\ Disjoint
  /\ Locked
  /\ Owned
  /\ Unique
  /\ Roomy
  /\ MergeAhead

(* Neither loop runs for ever: a call that has the mutex returns, or       *)
(* throws.                                                                 *)
CallsEnd ==
  \A t \in Thread : pc[t] \in {"search", "coalesce"} ~> pc[t] = "idle"

(* A thread is not left waiting by one that has gone: when the others are  *)
(* for ever outside, its calls return, so every way out of a call, the     *)
(* exception included, has released the mutex.                             *)
Alone(t) == \A u \in Thread \ {t} : pc[u] = "idle"

AloneIsServed ==
  \A t \in Thread : <>[]Alone(t) => (pc[t] # "idle" ~> pc[t] = "idle")
=============================================================================
