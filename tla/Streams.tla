------------------------------ MODULE Streams -------------------------------
(***************************************************************************)
(* What users of PseudoRandomNumberGenerator rely on: each thread reads a  *)
(* stream that nobody read before, element by element. Abstract            *)
(* specification, which PRNG implements.                                   *)
(***************************************************************************)
EXTENDS Naturals

CONSTANTS Thread, Stream, NoStream

VARIABLES own,  \* the stream a thread reads, or NoStream
          read, \* how much of each stream was read
          got   \* the last element each thread got: a stream and a position

vars == <<own, read, got>>

Init ==
  /\ own = [t \in Thread |-> NoStream]
  /\ read = [s \in Stream |-> 0]
  /\ got = [t \in Thread |-> <<NoStream, 0>>]

(* A thread takes a stream that nobody has and nobody has read from.       *)
Open(t, s) ==
  /\ own[t] = NoStream /\ read[s] = 0
  /\ \A u \in Thread : own[u] # s
  /\ own' = [own EXCEPT ![t] = s]
  /\ UNCHANGED <<read, got>>

(* It leaves it for good.                                                  *)
Close(t) ==
  /\ own' = [own EXCEPT ![t] = NoStream]
  /\ UNCHANGED <<read, got>>

Read(t) ==
  /\ own[t] # NoStream
  /\ got' = [got EXCEPT ![t] = <<own[t], read[own[t]]>>]
  /\ read' = [read EXCEPT ![own[t]] = @ + 1]
  /\ UNCHANGED own

Next == \E t \in Thread : (\E s \in Stream : Open(t, s)) \/ Close(t) \/ Read(t)

Spec == Init /\ [][Next]_vars
=============================================================================
