--------------------------------- MODULE Heap ---------------------------------
(***************************************************************************)
(* What the enclave's operator new and delete promise to the program, with *)
(* no list, no mutex and no coalescing: an atomic, deterministic heap that *)
(* knows nothing but the extents in use. A grant takes the lowest gap that *)
(* holds a header and the rounded request, and a request is refused only   *)
(* when there is no such gap. Arena implements it (ArenaHeap).             *)
(***************************************************************************)
EXTENDS Sizes, FiniteSetsExt

CONSTANTS Thread, HEAP_SIZE, Request

VARIABLES extent,  \* where each extent in use starts |-> its length
          call,    \* where each thread is in its call
          arg,     \* the argument of the call
          live     \* the program's pointers |-> the bytes it asked for

vars == <<extent, call, arg, live>>

Init ==
  /\ extent = [a \in {} |-> 0]
  /\ call = [t \in Thread |-> "idle"]
  /\ arg = [t \in Thread |-> 0]
  /\ live = [p \in {} |-> 0]

(* A gap is a maximal run of bytes that no extent covers: it starts at 0   *)
(* or where an extent ends.                                                *)
GapStart == {0} \cup {a + extent[a] : a \in DOMAIN extent}
GapLength(g) == Min({HEAP_SIZE} \cup {a \in DOMAIN extent : a >= g}) - g

(* The gaps that hold a header and the rounded request.                    *)
Needed(n) == BLOCK_SIZE + AlignUp(n)
Suitable(n) == {g \in GapStart : GapLength(g) >= Needed(n)}

(* The extent a grant takes of a gap: what it needs, or all of it when the *)
(* rest would not hold one more header and granule.                        *)
Taken(g, n) ==
  LET rest == GapLength(g) - Needed(n)
  IN  IF rest >= BLOCK_SIZE + ALIGNMENT THEN Needed(n) ELSE GapLength(g)

Move(t, from, to) == call[t] = from /\ call' = [call EXCEPT ![t] = to]

Ask(t, n) ==
  /\ Move(t, "idle", "new")
  /\ arg' = [arg EXCEPT ![t] = n]
  /\ UNCHANGED <<extent, live>>

Grant(t) ==
  /\ Move(t, "new", "idle")
  /\ Suitable(arg[t]) # {}
  /\ LET g == Min(Suitable(arg[t]))
         p == g + BLOCK_SIZE
     IN  /\ extent' = [a \in DOMAIN extent \cup {g} |->
                         IF a = g THEN Taken(g, arg[t]) ELSE extent[a]]
         /\ live' = [q \in DOMAIN live \cup {p} |->
                       IF q = p THEN arg[t] ELSE live[q]]
  /\ arg' = [arg EXCEPT ![t] = 0]

Refuse(t) ==
  /\ Move(t, "new", "idle")
  /\ Suitable(arg[t]) = {}
  /\ arg' = [arg EXCEPT ![t] = 0]
  /\ UNCHANGED <<extent, live>>

GiveBack(t, p) ==
  /\ Move(t, "idle", "delete")
  /\ arg' = [arg EXCEPT ![t] = p]
  /\ live' = [q \in DOMAIN live \ {p} |-> live[q]]
  /\ UNCHANGED extent

Free(t) ==
  /\ Move(t, "delete", "freed")
  /\ extent' = [a \in DOMAIN extent \ {arg[t] - BLOCK_SIZE} |-> extent[a]]
  /\ UNCHANGED <<arg, live>>

Return(t) ==
  /\ Move(t, "freed", "idle")
  /\ arg' = [arg EXCEPT ![t] = 0]
  /\ UNCHANGED <<extent, live>>

Next ==
  \E t \in Thread :
     \/ \E n \in Request : Ask(t, n)
     \/ \E p \in DOMAIN live : GiveBack(t, p)
     \/ Grant(t) \/ Refuse(t) \/ Free(t) \/ Return(t)

Spec == Init /\ [][Next]_vars
=============================================================================
