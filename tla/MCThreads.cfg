SPECIFICATION ThreadsFairSpec
CONSTANTS
  Adder = {a1, a2, a3}
  Consumer = {c1, c2, c3}
  producer = producer
  BUFFER_SIZE = 3
  LOOPS_PER_THREAD = 3
  NOBODY = NOBODY
INVARIANTS NoLostUpdate OneReporter AssertHolds AddersInv Balanced NoLostWakeup Drained Inv
PROPERTIES AllJoined AllDone
