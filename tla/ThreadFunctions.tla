--------------------------- MODULE ThreadFunctions ---------------------------
(***************************************************************************)
(* The SDK's thread sample as a whole, ecall_thread_functions (App): the   *)
(* main thread starts the adders of Counter, joins them and asserts their  *)
(* total, and only then starts the producer and the consumers of           *)
(* CondBuffer. Each half's steps leave the other half's variables alone.   *)
(***************************************************************************)
EXTENDS Counter, CondBuffer

VARIABLE half  \* the half whose threads the main thread has started

all_vars == <<adder_vars, vars, half>>

ThreadsInit == AddersInit /\ Init /\ half = "adders"

AdderTurn(a) ==
  /\ AdderStep(a) \/ AdderJoin(a)
  /\ UNCHANGED <<vars, half>>

(* All the adders are joined: the main thread is past its assertion, and   *)
(* starts the threads of the second half.                                  *)
StartSecondHalf ==
  /\ half = "adders" /\ joined = Adder
  /\ half' = "buffer"
  /\ UNCHANGED <<adder_vars, vars>>

WorkerTurn(t) ==
  /\ half = "buffer"
  /\ Step(t)
  /\ UNCHANGED <<adder_vars, half>>

(* The main thread has joined them all, and returns.                       *)
SecondHalfJoined == half = "buffer" /\ Joined /\ UNCHANGED <<adder_vars, half>>

ThreadsNext ==
  \/ \E a \in Adder : AdderTurn(a)
  \/ StartSecondHalf
  \/ \E t \in Worker : WorkerTurn(t)
  \/ SecondHalfJoined

ThreadsSpec == ThreadsInit /\ [][ThreadsNext]_all_vars

(* The operating system runs every thread, the main thread included;       *)
(* nothing is assumed of which waiter a signal wakes or which thread an    *)
(* unlocked mutex goes to.                                                 *)
ThreadsFairSpec ==
  /\ ThreadsSpec
  /\ \A a \in Adder : WF_all_vars(AdderTurn(a))
  /\ WF_all_vars(StartSecondHalf)
  /\ \A t \in Worker : WF_all_vars(WorkerTurn(t))
=============================================================================
