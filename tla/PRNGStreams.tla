---------------------------- MODULE PRNGStreams -----------------------------
(* PRNG implements Streams: an engine is the stream of its blocks laid end *)
(* to end.                                                                 *)
EXTENDS PRNG

Position(block, index) == block * PRNG_BUFFER_SIZE + index

S == INSTANCE Streams WITH
       Stream <- Seed,
       NoStream <- nullptr,
       own <- m_prng,
       read <- [s \in Seed |-> IF m_counter[s] = 0 THEN 0 ELSE
                                 Position(m_counter[s] - 1, m_bufferIndex[s])],
       got <- [t \in Thread |->
                 IF result[t] = nullptr THEN <<nullptr, 0>> ELSE
                   <<result[t].seed,
                     Position(result[t].block, result[t].index)>>]

(* A thread gets the numbers of one engine in order, none of them skipped  *)
(* at the end of a block, and after a new root ecall those of an engine    *)
(* that nobody has drawn from. (GetPRNG, Blake2Engine::operator())         *)
ImplementsStreams == S!Spec
=============================================================================
