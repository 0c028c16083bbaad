# Verification of SnP2027

TLA+ models, TLC configurations and TLAPS proofs for the code of this
repository: the programs that run OpenFHE inside an SGX enclave
(`stages-inside-enclave/`), the programs that measure the same computation
outside of one (`stages-outside-enclave/`, `stages-microbenchmarks/`), and the
part of the SGX port of OpenFHE (`openfhe-sgx/`) that has control of its own under
those programs: leveled BGV evaluation, rotations and sums, the tables of contexts
and keys, the random numbers, and the block allocator. Paths below are relative to
`src/`; `openfhe-sgx/` stands for `openfhe-sgx/openfhe/src/`.

Contents: [inventory](#inventory) - [modules](#modules) -
[models and code](#models-and-code) - [runs](#runs-bounds-and-fairness) -
[proofs](#proofs) - [findings](#findings) -
[not modelled](#not-modelled-and-why) - [plan](#plan)

## Inventory

### The system

`App.cpp` creates an enclave, makes one ecall (`ecall_openfhe_bgv_sample_code`)
and destroys the enclave. The ecall runs a sample BGV computation on OpenFHE:
context, key generation, encryption, evaluation, decryption, each timed. Inside
the enclave everything that OpenFHE allocates goes through the replaced global
`operator new` and `operator delete` of `Enclave.cpp`. The SDK's thread sample
(two demonstrations of trusted synchronisation) is built into the same enclave.
Outside, `main.cpp` runs the same computation natively, `alloc_measurements.cpp`
with a preloaded allocator hook, and `cache_measurements.cpp` under hardware
counters.

| Component | State it keeps | Operations | Interacts through |
|---|---|---|---|
| Enclave heap, `stages-inside-enclave/Enclave/Enclave.cpp:65-166` | static `Arena`: `data`, `free_list`, `mtx`; a `Block` header (size, free, next) before each payload | `operator new`, `operator delete`, their array and sized forms | called by all trusted code on up to `TCSNum` = 10 threads |
| Trusted threads, `*/TrustedLibrary/Thread.cpp` | `global_counter`, `global_mutex`; the ring `buffer` with `occupied`, `nextin`, `nextout`, a mutex and the conditions `more`, `less`; the host's `counter` | `ecall_increase_counter`, `ecall_producer`, `ecall_consumer`, `ecall_thread_functions` | ecalls by host threads; return values; SDK mutex and condition variables |
| Allocation measurement, `stages-microbenchmarks/hook.c`, `alloc_measurements.cpp` | `stages[]` (count, size, peak), `current_stage` | hooked `malloc` and `free`; `set_stage`, `reset_stage`, `stage_metrics` | the hook and the program share the two variables |
| Leveled BGV evaluation, `openfhe-sgx/pke/lib/scheme/bgvrns/`: `bgvrns-leveledshe.cpp`, `bgvrns-cryptoparameters.cpp`, `../../schemerns/rns-leveledshe.cpp` | tables of scaling factors; per ciphertext: level, moduli, degree, scaling factor | addition, subtraction, multiplication, square, negation with ciphertexts and plaintexts, each also `Mutable`; `ModReduce`, `LevelReduce`, `ComposedEvalMult`, `Compress`; encoding; decryption | ciphertexts are shared objects: `Mutable` forms change their operands |
| Rotations, sums and evaluation keys, `openfhe-sgx/pke/lib/schemebase/` (`base-advancedshe.cpp`, `base-leveledshe.cpp`), `nbtheory2.cpp`, `packedencoding.cpp` | which automorphism and relinearization keys exist; per ciphertext: slots, number of polynomials | generation of keys; `EvalRotate`, `EvalAtIndex`, `EvalFastRotation`, `EvalSum`, `EvalInnerProduct`, `EvalMerge`, `EvalMult` with and without relinearization, `EvalAddMany`, `EvalMultMany` | one loop chooses the keys to make, another the keys to use |
| Crypto contexts and evaluation key tables, `openfhe-sgx/pke/`: `cryptocontextfactory.cpp`, `cryptocontext.cpp`, `cryptocontext.h` | the static list `AllContexts`; the static maps `s_evalMultKeyMap`, `s_evalAutomorphismKeyMap` | make, find, release contexts; generate, insert, save, load and clear keys, whole, by tag and by context | keys hold contexts by pointer; tables outlive all objects |
| Block allocator, `openfhe-sgx/core/lib/utils/blockAllocator/` | one `Allocator` for each block size: free list, counts; one mutex | `xmalloc`, `xfree`, `xrealloc`, `xalloc_init`, `xalloc_destroy` | the first word of a block is the program's header, or a link of the free list |
| Random number generation, `distributiongenerator.cpp`, `blake2engine.cpp`, `blake2engine.h` | `genPRNGEngine` (shared), `m_prng` (of each thread); per engine: seed, counter, buffer, index | `GetPRNG`, `InitPRNGEngine`, `createEngineInstance`, `operator()` | threads share the function pointer; the enclave's run-time resets thread-local variables |
| BGV sample program, `Enclave.cpp:168-690`, `stages-outside-enclave/main.cpp` | keys and ciphertexts of one run | five stages in a fixed order | the context's tables of keys |
| Cache measurement, `cache_measurements.cpp` | running totals, two counters per region | `region_init`, `_start`, `_end`, `_destroy` | each region repeats all earlier stages and subtracts them |
| Exceptions across threads; ecall nesting; enclave life cycle; parameter generation; ring arithmetic and the other schemes; serialization; generated bridges | see [not modelled](#not-modelled-and-why) | | |

### What is hard, and what makes each component correct

* **Enclave heap.** Several threads; a list rewritten under two loops; sizes
  that round, wrap, and split with a rest too small to use; an exception thrown
  with the mutex held; long alternations of calls that could fragment the arena
  for good. It is correct if callers never share bytes, no header is
  overwritten, no byte is lost to the list, one coalescing pass per `delete` is
  enough, and a request fails only if the arena really has no room for it.
* **Trusted threads.** A read, an increment and a store that are three steps; a
  store on the host under no lock; condition variables whose signals are lost
  without a waiter and whose woken waiter may be overtaken. Correct if no
  addition and no item is lost, no thread sleeps beside work that is its own,
  and all joins return.
* **Allocation measurement.** A hook that sees some calls only, samples the peak
  at some moments only, and narrows a `size_t` to an `int`; a stage's growth is
  read off the next stage's record. Correct if what is printed of a stage is
  what happened in it.
* **Leveled BGV evaluation.** Each operation first brings its operands to one
  level and degree, in one of five ways, each of which sets the scaling factor
  by hand; a wrong factor gives wrong plaintexts of certain histories, without
  an error. Correct if every ciphertext decrypts to the value of its formula,
  and the depth that was asked for is the depth there is.
* **Rotations, sums and keys.** Which automorphism a rotation needs is arithmetic
  of exponents with two rows of slots and a boundary between them; generation and
  use of keys compute it apart. Correct if slots end up where the documentation
  says, and the keys that were generated for an operation suffice for it.
* **Contexts and key tables.** Contexts are found by equal parameters and compared
  by pointer; keys arrive by generation and from files, in any order with clears
  and releases; a load may throw half-way. Correct if the keys of one tag fit
  together and with the context the factory would give, a load files what the file
  has, and a clear removes what it names.
* **Block allocator.** Several steps between a request and its block: size, free
  list, header; sums that wrap; exceptions under the mutex; a copy
  whose length is computed from block sizes. Correct if a block has one owner, goes
  back to its own list, and `xrealloc` copies what the caller had and no more than
  fits.
* **Random numbers.** A shared function pointer set in an empty critical section,
  thread-local engines that re-entry resets, retries of a failing source, a buffer
  index with two meanings of 0. Correct if no number is given twice and none is
  skipped.

`PROJECT.json` lists the hazards at the lines where they bite, and for each the
properties that would catch it going wrong.

## Modules

| Module | What it is |
|---|---|
| `Sizes` | the arena's size arithmetic in `size_t` |
| `Arena` | `operator new` and `delete`, one step per loop iteration |
| `Heap` | abstract specification: an atomic lowest-fit heap |
| `ArenaHeap` | the refinement: `Arena` implements `Heap` |
| `ArenaProofs` | proofs about `Arena`, and of the refinement |
| `ThreadConstants` | the constants the two halves of the thread sample share |
| `Counter` | the shared counter |
| `CondBuffer` | the bounded buffer |
| `ThreadFunctions` | the sample as a whole: one half after the other |
| `ThreadProofs` | proofs about both halves, and that the whole consists of them |
| `StageMetrics`, `StageMetricsProofs` | the allocation measurement, and proofs |
| `ScalingFactors` | the BGV scaling factor tables, encoding and decryption |
| `LeveledBGV`, `LeveledBGVProofs` | the evaluation operations on ciphertexts (extends `ScalingFactors`), and proofs |
| `AdvancedSHE`, `AdvancedSHEProofs` | rotations, sums, products of polynomials, and their keys, and proofs |
| `KeyCache`, `KeyCacheProofs` | the tables of contexts and keys, and proofs |
| `XAllocator` | `xmalloc`, `xfree`, `xrealloc` and the exit, step by step |
| `BlockPools` | abstract specification: a set of free blocks for each size |
| `XAllocatorPools`, `XAllocatorProofs` | the refinement, and proofs |
| `PRNG` | the random number engines of the threads |
| `Streams` | abstract specification: each thread reads a fresh stream in order |
| `PRNGStreams`, `PRNGProofs` | the refinement, and proofs |
| `MC*` | instances for TLC |

A definition whose comment begins with *Variant* is a deliberate mistake: the
definition after it with one guard dropped, one reset missing, one index off by
one. No specification uses it. Put in place of the definition it follows, it
makes TLC find a violation of the property that `PROJECT.json` pairs it with,
which shows that the property can fail.

## Models and code

### Arena

`blocks` maps the byte offset of each header reachable from `free_list` to its
`size`, `free` and `next`; a pointer is the offset of its header plus
`BLOCK_SIZE`. `mtx` is the lock guard's mutex. `pc`, `arg` and `cursor` are a
thread's place in a call, its argument and its loop variable (`curr`, `iter`).
`live` holds the pointers the program owns, with the bytes it asked for; it is
the only variable that the code does not have.

| Action | Code (`Enclave.cpp`) |
|---|---|
| `CallNew`, `LockNew` | the call, and 108-114: the mutex is taken, the request rounded |
| `SearchNext` | 115-133, an iteration that moves on |
| `Take` | 116-130: the block is split or taken whole, and returned; the mutex is released |
| `BadAlloc` | 135: the list is exhausted, the exception releases the mutex |
| `CallDelete`, `LockDelete` | 138-146: the block is marked free under the mutex |
| `Merge`, `CoalesceNext`, `ReturnDelete` | 149-159: an iteration that merges, one that moves on, the end of the loop |

A thread may be interrupted between any two of these steps. `Take` is one step:
its writes are all made under the mutex, and no other thread touches a header
without it. The rounding is done in `size_t` arithmetic and may wrap
(`Sizes!AlignUp`). The program is any program that deletes only pointers it owns,
once; `delete nullptr` returns at once and is not a step. The array and sized
forms forward to these two.

`Heap` is the promise: no list, no mutex, no coalescing, only the extents in use;
a grant takes the lowest gap that holds a header and the rounded request, and a
request is refused only when there is none. In the refinement the extents are the
blocks that are not free, and a call takes effect at `Take`, `BadAlloc` or
`LockDelete`; all other steps of the list stutter.

### Counter and CondBuffer

Every SDK call and every access to shared memory is a step. A mutex goes to any
thread that asks for it. `Wait` adds the thread to the waiters and releases the
mutex in one step, as `sgx_thread_cond_wait` does; a signal (`Wake`) picks any
waiter or is lost; a woken thread must take the mutex again (`Relock`) and is back
at the `while`, where it may find that another thread was faster. `AdderReturn` in
`Counter` is the host's store `if (ret != 0) counter = ret`, outside of any lock.
The number of adders, consumers, loops and slots are constants; the code's literal
4 is the number of adders or consumers. The names of `Counter` carry the prefix
`Adder` where `CondBuffer` has the same name.

`ThreadFunctions` composes the two: the main thread joins the adders, asserts their
total, and only then starts the producer and the consumers (`StartSecondHalf`). The
halves share no variable, and each behaves as its own specification says
(`HalvesOfThreads`).

### StageMetrics

One process, since the benchmark is run with `OMP_NUM_THREADS=1`. `malloc` and
`free` are the hook's; `Unhooked` is any growth of the heap that does not pass
through the hook (calloc, realloc, aligned_alloc) and `Mapped` a request so large
that it is mapped and leaves `uordblks` as it was. `ToInt` is the conversion of
`mallinfo2().uordblks` to the `int` it is kept in. `truth` records what really
happened and is what the properties compare the program's record with.

### ScalingFactors and LeveledBGV

A ciphertext is what decryption depends on: its level, the moduli left, the noise
scale degree, the scaling factor modulo `t`, and one slot of what it encrypts,
multiplied by that factor (`enc`); beside it, the value of its formula (`val`) and
its multiplicative depth, which the program does not know. Of a modulus only its
residue modulo `t` is kept: that is what modulus reduction divides a plaintext by.

`Raise` is the branch of `AdjustLevelsAndDepthInPlace` for operands at different
levels, with its five cases in the order of the code; `Adjusted` adds the branch
for equal levels, `ToOne` and `MultThrows` are `AdjustLevelsAndDepthToOneInPlace`.
An action is a whole public operation with its adjustment, the core operation and
the clone or the in-place change. The result may be assigned to any variable, an
operand included. An operation that throws assigns no result, but a `Mutable` one
has by then adjusted its operands (`EvalMultMutable`, second disjunct).
`EvalMultMutableAliased` is `EvalMultMutable` given one object twice.
Noise, polynomials, keys and relinearization are left out: they do not touch what
is kept.

A degree is a `uint32_t`; the model's 2^16 acts alike, since all degrees met are
below `MaxDegree` or wrapped from -1.

The technique is a variable that never changes, so that one run covers the four.
In FIXEDAUTO the library adjusts as in the flexible modes with all factors 1; in
FIXEDMANUAL it only drops moduli (`AdjustLevels`) and the program calls
`EvalModReduce` and `EvalLevelReduce`, which are copies in the other modes.
`ComposedEvalMult` multiplies, relinearizes and reduces. `Compress` reduces the
excess degree and drops moduli down to what was asked for; its result is marked
`final`, since it keeps a factor of the level it came from: it is made to be sent
and decrypted.

### AdvancedSHE

Slots are numbered as `PackedEncoding` lays them out: two rows of `n/2`, the slot
of a root of unity given by its exponent (`Exponent`). An automorphism multiplies
exponents (`Permuted`), and `FindAutomorphismIndex2n` computes, as the code does,
which one a rotation needs. `autoKeys` are the indices that have a key, `multKeys`
the number of relinearization keys; an operation that lacks one throws and changes
nothing. `want` is what the documentation says the slots should hold, computed
without automorphisms (`InRow`, `OtherRow`, `Rotated`, `Sum`). `Sum` is the documented
sum over any number of slots: slot for slot, from the slot itself onward, and after
the end of its row in the other one (`Onward`). The automorphisms
that `EvalSum_2n` applies are `SumSteps`; for a number of slots that is not a power of
two they sum other slots, which is a [finding](#findings). A 32-bit product
wraps at `W`; since `m` divides 2^32 the remainder is not disturbed. `Merged` is the
result of `EvalMerge`: the first slot of each operand, rotated to its place. Powers
of two are a function on the naturals (`TwoTo`), not the operator `^`, which the
provers cannot reason about.

`exact` is cleared by the two operations whose result is not what the documentation
says: `EvalSum` over a number of slots that is not a power of two, and products that
cut off a fourth polynomial (`EvalMult` on operands of three). It stays cleared in
what is computed from the result. `Decodes` speaks of exact ciphertexts,
`AlwaysDecodes` of all, and is violated.

### KeyCache

A context is its parameters and an identity: `FindContext` compares parameters,
`ValidateKey` and the clears by context compare identities, as the code compares
pointers. A key is its tag, its context, and for an automorphism its index; what it
computes with is left out. `GetContext` is the factory, `Load` what deserialising an
object does to the list of contexts (`GetFullContextByDeserializedContext`). Files
keep parameters only. `DeserializeEvalMultKey` inserts in the order of tags and stops,
by an exception, at the first that is filed already: `InsertedMult` are those before
it.
`Factory`, `MultCall` and `AutoCall` group the calls of the three tables.

### XAllocator

One step of a thread is one access to shared memory or one call into the mutex.

| Action | Code |
|---|---|
| `CallMalloc`, `CallRealloc`, `LockMalloc` | `xmalloc` (`xallocator.cpp`): the call, the guard |
| `TooLarge`, `PoolEmpty`, `NoMemory` | the three exceptions; the guard releases the mutex |
| `NewBlock` | `Allocator::Allocate` with an empty list: `new` |
| `ReadHead`, `Pop` | `Allocator::Pop`: read the head; move it to its next |
| `Hand` | the header is written, the mutex released, the block returned |
| `Copy`, `Overrun` | `xrealloc`: `memcpy` of the smaller of both sizes, into a block that has room for it or has not |
| `CallFree`, `ReadHeader`, `LockFree` | `xfree`: the Allocator is read off the block before the mutex is taken |
| `Link`, `Push` | `Allocator::Push`: the next is written into the block, then the head |
| `Exit`, `DeleteBlock`, `DeleteAllocator` | `xalloc_destroy` at the exit |

`word` is the first word of each block, which is an `Allocator*` or a link of the
free list: if the two were confused, `Inv` would see it. The program frees only what
it has, and asks for any size. A size that wraps when the header is added
(`BlockSize`) gets the smallest block; if `xrealloc` then copies more than the block
holds, what follows is undefined, and the model stops there (`Overrun`, `Lost`).
Pools with a limit (`STATIC_POOLS`) are the other value of `m_maxObjects`. The
statistics `m_allocations` and `m_deallocations` are left out but for their
difference; `Counts` ties that and `m_blockCnt` to the blocks there are, and keeps a
pool within its limit.

`BlockPools` is the promise: no list, no mutex, no words; a request takes a free block
of the smallest size that will do, or a new one when none is free and the limit of
the pool is not reached. Its sum of request and header is a number and does not wrap;
where the code's does, the promise is only that the caller gets a block nobody else
has (`Misserve`). A call takes effect at `Pop` or `NewBlock`, ownership ends at
`CallFree` or `Copy`, and the block is free again at `Push`.

### PRNG

`genPRNGEngine` is the one function pointer of the process, `m_prng` a
`thread_local` variable. The port is built without OpenMP, so that the critical
section around `InitPRNGEngine` is empty and its steps interleave. `Enter` and
`Leave` are a root ecall and its return: the SDK re-initialises thread-local
variables at each (`Enclave.config.xml`, `TCSPolicy` 1, threads are not bound), and
the port's `__cxa_thread_atexit` registers no destructor, so that an engine once
made stays allocated. `SeedFails` is an exception of `random_device`, caught and
retried `attempts` times; after the last the call fails and the next draw starts
over. `Draw` is `Blake2Engine::operator()`: `Used` tests the index, `Generate`
makes the next block. `Streams` is the promise: a thread reads a stream that nobody
has read, element by element.

## Runs, bounds and fairness

| Run | Instance | Distinct states | Shows |
|---|---|---|---|
| `arena` | 2 threads, 144 bytes (three smallest blocks), requests 0, 1, 40, 112, 160 and one that wraps, 10-bit `size_t` | 167 434 | `TypeOK`, `Separate`, `Coalesced`, `Restored`, `HeldUntouched`, and the inductive `Inv`; `ImplementsHeap`; both loops end (`CallsEnd`); every way out of a call releases the mutex (`AloneIsServed`) |
| `threads` | 3 adders of 3 additions each, then 1 producer and 3 consumers of 3 items, 3 slots | 98 379 | `NoLostUpdate`, `OneReporter`, `AssertHolds`, `AddersInv`, `AllJoined`; `Balanced`, `NoLostWakeup`, `Drained`, `Inv`, `AllDone` |
| `stage_metrics` | 2 stages, 6 calls of sizes 1 and 5, heap starts at 0, 3 or 12, `INT_MAX` = 15 | 668 837 | `NetGrowthIsTrue`, `PeakIsTrue`, `PeakCoversNet`, `Inv` |
| `leveled_bgv` | all four techniques, `t` = 7, 4 moduli with different residues, 2 variables, plaintexts at all levels that have a factor | 37 701 | `TypeOK`, `Decodes`, `SameScale`, `AdjustedAgree`, `DepthSuffices` |
| `leveled_bgv_aliased` | FLEXIBLEAUTO, one variable given twice | | violation of `Decodes`, see [findings](#findings) |
| `leveled_bgv_last_level` | FLEXIBLEAUTOEXT with plaintexts at level 3 | | violation of `Decodes`, see [findings](#findings) |
| `advanced_she` | 8 slots modulo 17, 2 variables, 2 operations on top of encryptions and keys | 88 224 | `TypeOK`, `Decodes`, `SumsServed` |
| `advanced_she_sum` | the same ring, one sum over 3 slots | | violation of `AlwaysDecodes`, see [findings](#findings) |
| `key_cache` | 2 sets of parameters, 2 tags, 2 indices, 1 release of all contexts | 368 850 | `Inv`, `ClearsExactly` |
| `key_cache_replaces` | the same | | violation of `Replaces`, see [findings](#findings) |
| `xallocator` | 2 threads, 4 addresses, block sizes 16 and 24, requests 8, 9, 17 and 60, off the heap and in pools of 2 | 259 517 | `Inv`, `Kept`, `ImplementsPools` |
| `prng` | 2 threads, 4 seeds, 3 attempts, 2 blocks of 3 numbers per engine | 110 029 | `Inv`, `NoRepeat`, `ImplementsStreams` |

**Why the bounds are enough.** *Arena:* granule, header and split threshold are
the code's own numbers; requests 0, 1 and 40 leave rests below, at and above the
threshold, 112 takes the whole arena, 160 fits in no arena of this size, and three
blocks put a used or a free neighbour on either side of a block that is split or
merged, with one thread in `new` and one in `delete`. The theorems hold for every
arena. *Threads:* three equal threads give
two that wait while a third overtakes; three slots fill, empty and wrap three times
with nine items. *StageMetrics:* `INT_MAX` = 15 puts heaps on both sides of the
largest `int` within six calls. *LeveledBGV:* four moduli allow levels two and three
apart, which all five cases of `Raise` need; 7 is the least prime with enough
residues for four moduli to be told apart; only one value is encoded, since all
operations are linear or products of what is encoded and the factors multiply it
alike, and sums and products reach the other residues. In the fixed techniques all
factors are 1, so that the value is always right and 0 is encoded: levels, moduli
and degrees are what may go wrong, and FIXEDMANUAL encodes at the first and the last
level and reaches those between by its own reductions. `MaxDepth` bounds the
formulas at 4, one above the depth that four moduli are made for. `MaxDegree` = 3
keeps out of the operands only degrees that products without reduction or aliasing
reach; elsewhere no operand exceeds 2 (`TypeOK`). *AdvancedSHE:* eight slots are two
rows of four, so that rotations stay in a row, cross to the other, and go around in
both directions; sums over 1, 2, 3, 6 and 8 are a power of two in a row, not one,
between half and all, and all; `MaxCalls` bounds the operations, each of which is
checked on every kind of ciphertext that the first can leave, and `MaxMany` = 3
makes the trees of `EvalAddMany` and `EvalMultMany` uneven. *KeyCache:* two of each
kind are needed to mix what should not be; one release leaves old contexts in use
beside new ones of the same parameters. *XAllocator:* the requests fit the first
size exactly, need the second, exceed both, and wrap; four addresses let both
threads hold blocks while both free lists have some; `MaxBlockCnt` bounds the count
that a failing `new` leaves behind. *PRNG:* four engines let each thread create one,
leave and come back; two blocks of three pass the end of a buffer at every index.

**Fairness.** `Arena` assumes weak fairness of each thread's steps inside the
allocator: the code there never blocks but for the mutex, and the enclave's
threads are host threads that the operating system runs. Nothing is assumed of the
program (it need never call) or of whom a released mutex goes to, so that a thread
may in principle starve at the lock; `AloneIsServed` therefore speaks of a thread
whose competitors stay away. `ThreadFunctions` assumes weak fairness per thread,
the main thread included; the loops of the threads are finite, so that none can be
overtaken for ever, and `AllJoined` and `AllDone` follow without an assumption on the
mutex or on the waiter a signal picks. The other modules claim no liveness: a program drives them,
and need not call.

Deadlock is checked in every run. Systems that come to an end have an explicit
last step (`AddersJoined`, `Joined`, `Finished`, `Exited`).

## Proofs

`tlapm` checks every theorem for all values of the constants, from the named
assumption of each module alone (`ArenaAssumption`, `LoopsAssumption`,
`CounterAssumption`, `CondBufferAssumption`, `StageMetricsAssumption`,
`XAllocatorAssumption`, `KeyCacheAssumption`, `PRNGAssumption`,
`ScalingFactorsAssumption`, `LeveledBGVAssumption`, `AdvancedSHEAssumption`); TLC
checks that the instances satisfy them. Every invariant, action property and
refinement that a passing run checks is a theorem here; only the liveness properties
are not.

**`ArenaProofs`** (`Invariance`, `TypeCorrect`, `TilingHolds`, `OwnedHolds`,
`SeparateHolds`, `CoalescedHolds`, `RestoredHolds`, `HeldUntouchedHolds`): any
number of threads, any arena of whole granules, any requests. `Tiling` is not
inductive: a split could run into a block if blocks overlapped, a merge could
swallow one in use if two threads were inside. `Inv` therefore adds `Disjoint`
(blocks do not overlap in address order), `Locked` (who is in a loop holds the
mutex, and only it has a loop variable), `Owned` and `Unique` (a block is in use
exactly while one pointer to it is), `Roomy` (a block in use holds the rounded
request) and `MergeAhead` (two free neighbours lie ahead of the coalescing loop
that will merge them). `MergeAhead` is the argument that one pass is enough:
`LockDelete` starts at `free_list`, before every block, `Merge` stays where it is,
and `CoalesceNext` leaves a pair only if it is not mergeable; when the loop ends
nothing is ahead. `Separate` follows from `Disjoint` and `Roomy`, `Coalesced` from
`MergeAhead` with the mutex free, `Restored` from `Coalesced` and `Tiling`: with
nothing in use all blocks are free, no two are neighbours, so there is one.

There too (`Implementation`, `PassedHolds`): `Arena` implements `Heap`. The argument
is that blocks and gaps are the same: with no two neighbours free
(which `Coalesced`, or `MergeAhead` while a thread searches, gives), a free block is
a whole gap (`FreeBlockIsGap`: it starts where its predecessor, which is in use,
ends, and ends where the next block in use starts) and every other gap is empty. So
what suits a request is exactly what fits it (`SuitableIsFits`). `Passed` says that
a search leaves behind only blocks that do not fit; hence the block that `Take` finds
is the lowest gap, and `BadAlloc` means that there is none.

**`ThreadProofs`**, the counter (`AddersInvariance`, `NoUpdateIsLost`,
`ThereIsOneReporter`, `AssertionHolds`): the counter is the cardinality of the set of
pairs (adder, round) that have been added, and each `AdderWrite` adds one pair. That
needs `AddersExclusive` (what the holder read is still the value) and `Reported` (a
report exists from the moment the total is reached, and the host has it once that
adder is back).

**`ThreadProofs`**, the buffer (`Invariance`, `RingHolds`, `BalancedHolds`,
`NoWakeupIsLost`, `DrainedHolds`): any number of consumers, loops and slots.
`NoLostWakeup` counts: while consumers wait there are no more items than consumers on
their way to one (`Coming`), but for the item about to be signalled. A `Put` adds an
item and its signal moves a waiter to `Coming`; a consumer leaves `Coming` with an
item, or waits again only when there is none.

**`ThreadProofs`**, the whole (`HalvesOfThreads`, `ThreadsInvariance`): every step of
the sample is a step or a stutter of each half, so that what is proved of the halves
holds of it.

**`StageMetricsProofs`** (`Invariance`, `CountedHolds`, `PeakHolds`,
`NetGrowthHolds`, `PeakCoversNetHolds`): any number of stages up to nine, any
width of an `int`, any calls. `Filed` says which stages have been entered and that
their first size is on record; `PeakKept` is `PeakIsTrue` of each stage by itself,
while it runs; `Followed` bounds the heap by the peak of the running stage, which
`free` needs, and `GrowthSeen` by the recorded peak. `ToIntOfDifference` shows
that narrowing twice and subtracting is subtracting and narrowing once. What is proved of
the peak is under `Fits`: sizes fit an `int` and only `malloc` makes the heap grow.

**`XAllocatorProofs`** (`Invariance`, `KeptHolds`, `Implementation`): any number of
threads, blocks and block sizes, off the heap or in pools. `Inv` says of every step
in the middle of a call what the locals hold (`Locals`), that no block is in two
pairs of hands (`Distinct`), that the word of a block in use is its Allocator but
for the two steps that change it (`Headers`), that each free list is a stack of
exactly the blocks nobody has (`Lists`), and that a block is of the smallest size
that will do (`Sized`). A stack is a numbering of its blocks, so that a push appends
to it and a pop cuts it; this keeps the argument free of recursion. `Counts` adds
that `m_blockCnt` is at least the number of blocks of a size and, in a pool, exactly
that, so that a pool within its limit in the code is within it in the promise.
`Kept` says of a copy that it leaves the new block only when the size asked for
wrapped: otherwise the new block is of a size that holds it (`Sized`). In the
refinement each step of a call is a step of `BlockPools` or a stutter; a `Pop` or
`NewBlock` for a size that wraps is a `Misserve`.

**`KeyCacheProofs`** (`Invariance`, `ClearsExactlyHolds`): `Inv` is
inductive as it stands, since `SameParams` follows a key from the secret key to the
table, the file and back. `ClearsExactly` looks at the first key of a tag: while
nothing was released all keys of a tag have one context, so the first speaks for all
(`FirstSpeaks`), and there is a first because tags are naturals.

**`PRNGProofs`** (`Invariance`, `NoRepeatHolds`, `Implementation`): any number of
threads and seeds, any buffer. `Owned` gives each thread an engine of its own,
`Buffered` ties index, counter and buffer together, and `Behind` puts every number
ever drawn before the place of its engine, so that the next is new. A number's place
in the engine's stream is `Position`, and a draw moves it by one, at the end of a
block too.

**`LeveledBGVProofs`** (`DecodesHolds`, `SameScaleHolds`, `AdjustedAgreeHolds`,
`DepthSufficesHolds`, `TypeCorrect`, `TowersAgreeHolds`): any prime plaintext modulus,
any number of moduli with any residues, any values, levels of plaintexts and number of
variables, all four techniques. The theorems are about programs that give no variable
twice to a `Mutable` product (`~ Aliased`), and those about factors and values assume
that no plaintext is made at the last level of FLEXIBLEAUTOEXT (`Covered`): these are
the first two [findings](#findings). Of a ciphertext in a variable the invariant says two
things. *Levels* (`Good`): moduli and level make up the total; in the automatic
techniques the degree is 1 or 2, and level plus degree is at most the depth plus the
degree of a fresh ciphertext. Adjusting keeps that, because the other operand has
paid for the level that one operand is taken to; a reduction moves one from degree to
level; only a product adds one, and it adds one to the depth. So an operand with no
modulus left to reduce by is deeper than what the moduli were made for. *Factors*
(`Exact`): the slot is the value times the factor (`Right`), and the factor is that of
the level and degree (`InScale`), which is the table's where there is an entry and what
a reduction makes of the entry before where the loop leaves one out. `ReducedFactor`
shows that reducing the factor of degree 2 of a level gives that of degree 1 of the
next, and `RaiseRight` takes the five cases of `Raise` one by one: each multiplies slot
and factor alike, and only then sets the factor, to what it has just become. This is
where the code could be wrong without an error: `SetFactor` overwrites. Inverses
modulo `t` exist by counting (`InverseIs`: products with a unit differ); the tables,
defined by recursion over levels, are used through their equation, of which
`TableExists` and `TableUnique` say that it has one solution.

**`AdvancedSHEProofs`** (`RotationIs`, `EvalSumIs`, `TypeCorrect`, `DecodesHolds`,
`SumsServedHolds`): any ring of a power of two, any plaintext modulus and batch size,
any vectors, indices and numbers of ciphertexts. The weight is in what the operators
compute; the invariant is short: `Inv` adds to `TypeOK` and `Decodes` that every
variable holds a ciphertext or nothing, and `SumKeysFiled`: once `EvalSumKeyGen` ran,
the keys for sums are in the table, which `SumsServed` follows from. The argument, in
the order of the file:

* *Exponents.* 5 has order `n/2` modulo `2n` (`5^(2^k)` is 1 modulo `2^(k+2)`, and no
  smaller power is), and no power of it is -1. So the powers of 5 and their negatives are all
  odd residues, each once, and `SlotOf` is well defined: it is the one slot with a
  given exponent.
* *Rotations* (`RotationIs`). The search of `FindAutomorphismIndex2n` ends in the power
  of 5 or its negative that its four branches mean, on both sides of the boundary
  between the rows and for negative indices; multiplying exponents by it is `Rotated`.
* *Sums* (`EvalSumIs`), for powers of two. One round of the loop of `EvalSum_2n` turns
  the sums of `d` neighbours into those of `2d`, so that `k` rounds sum `2^k`; the last
  automorphism is one more such round when the sum stays in a row, and the exchange of
  the rows when it is over all slots. Of any other number nothing of the kind holds.
* *Keys* (`StepsGenerated`). The indices that a sum over `b` slots asks for are among
  those that `EvalSumKeyGen` makes for the batch size, whichever of its two last
  generators either loop takes; except that between half and all of the slots the loop
  of `EvalSum_2n` ends with the identity, for which there may be no key. `SumsServed`
  says that it is the only one that may be missing.
* *Trees.* `EvalAddMany` and `EvalMultMany` combine results pairwise out of one vector
  that they extend as they read it (`Queue`), `EvalAddManyInPlace` in rounds of doubled
  distance (`Rounds`). Every input is counted once in what is left, by a fold over the
  positions not yet consumed; the last one left holds the total of all. Totals are those
  of a commutative monoid, so that one argument serves sums and products modulo `t`.
* *Ciphertexts* (`Good`). Each operation gives a ciphertext whose slots are what is
  wanted if those of its operands are and no polynomial was cut off; the steps of the
  specification follow from that, one lemma for each.

Recursive functions (`TwoTo`, `Power`, the loops) are used through their equations,
which well-founded recursion gives. An induction over the naturals is made by taking
the least counterexample, since the theorem of the library that states it needs an
operator as an argument.

**Only model-checked.** Liveness (`CallsEnd`, `AloneIsServed`, `AllJoined`,
`AllDone`) and anything that needs ENABLED is outside of what the proof system
does. So are the four violations that the findings are about.

## Findings

1. **A mutable product of a variable with itself**
   (`bgvrns-leveledshe.cpp:226-233`, run `leveled_bgv_aliased`).
   `AdjustLevelsAndDepthToOneInPlace` reduces both operands when the first has
   degree 2. `EvalMultMutable(x, x)` hands it one object twice, which is reduced
   twice: its degree becomes 0 and its level one too high. The product still
   decrypts, but it has a degree and a factor that no other ciphertext of its
   level has, and a sum with it decrypts to a wrong value. The documentation in
   `cryptocontext.h:1897-1899` excludes no argument.
2. **The last scaling factor in FLEXIBLEAUTOEXT**
   (`bgvrns-cryptoparameters.cpp:112`, run `leveled_bgv_last_level`). The loop
   that fills the table stops one entry early in this mode; the last entry stays
   0. `cryptocontext.h:149-152` allows a plaintext at that level
   (`multiplicativeDepth + 1`): it is multiplied by 0. The passing run of this
   mode keeps to the levels below.

3. **A sum over a number of slots that is not a power of two**
   (`base-advancedshe.cpp:514`, run `advanced_she_sum`). The loop of `EvalSum_2n`
   doubles the number of slots summed until it reaches `batchSize`: over 3 slots it
   sums 4, and nothing throws. `cryptocontext.h:3040` calls `batchSize` the "Number of
   slots to sum over", `base-advancedshe.h:398` the "size of the batch to be summed
   up". (The batch size of the encoding is documented to be a power of two,
   `encodingparams.h:67`; that of a call is not.)
4. **Keys that are not replaced** (`cryptocontext.cpp:118`, run
   `key_cache_replaces`). `cryptocontext.h:692`, `730`, `766` and `956` say that
   existing matching keys are silently replaced. A second vector of multiplication
   keys for a tag is refused by an exception (`cryptocontext.cpp:118-121`), and of two
   automorphism keys the first stays. In the run a key is generated and saved, the
   contexts are released and the file is loaded: the table still has the key of the
   context that is gone from the list. It follows too that `EvalMultKeysGen` after
   `EvalMultKeyGen` does nothing.

**Where comments and code differ** otherwise, met while modelling; the models follow
the code.

* `xrealloc` copies "as much as will fit" (`xallocator.cpp:358`). A size within eight
  bytes of `SIZE_MAX` wraps when the header is added (`xallocator.cpp:290`), gets the
  smallest block, and the copy of line 359 leaves it when the old block was a larger
  one. The run `xallocator` includes such a size (`Overrun`); `Kept` says that no other
  leads there, and `Misserve` that an `xmalloc` of it gets a block that is too small.
* `EvalSumKeyGen` "generates evaluation keys required for homomorphic summation"
  (`cryptocontext.h:2981`). With a batch of all the slots it makes none for the
  identity, which a sum over more than half of the slots but not all asks for
  (`base-advancedshe.cpp:512-522`): `EvalSum` throws. `SumsServed` names this case.
* `EvalMult` returns "ciphertext1 * ciphertext2" (`cryptocontext.h:1877-1884`). Of two
  operands of three polynomials each it switches the third polynomial of the product
  and cuts off the rest (`base-leveledshe.cpp:196`), and terms are lost: `exact` keeps
  such values apart.
* `ClearEvalAutomorphismKeys(cc)` "clears EvalAutomorphismKey cache for the given
  context" (`cryptocontext.h:946`). After `ReleaseAllContexts` a tag may have keys of
  two contexts of the same parameters, and the code judges the tag by its first key:
  it removes keys of the other context, or leaves some of its own. `ClearsExactly` is
  stated for the time before.
* `ClearEvalMultKeys(keyTag)` is documented to clear everything if the tag is empty
  (`cryptocontext.h:714`); it looks the empty tag up and clears nothing.
* `EvalMultMany` checks only the first ciphertext's number of polynomials against
  the keys (its note in `cryptocontext.h` speaks of all): the model's program passes
  ciphertexts that the keys suffice for.
* `EvalRotate` by 0 needs a key for the identity, `EvalAtIndex` by 0 copies;
  `EvalFastRotation` does not check the number of polynomials.
* A request that no Allocator of `xallocator.cpp` serves makes none (comment at
  `xallocator.cpp:285-286`) but throws.
* `blockAllocator.h:81` calls `m_blockCnt` the number of blocks created; it is
  incremented before `new` may fail, and stays so.

**Known limits**, which no comment in the code denies:

* A request within 15 bytes of `SIZE_MAX` wraps when the arena rounds it and is served
  with a block that is too small (`Separate` is stated for requests that do not wrap;
  the run includes one that does, and shows that all other callers are unaffected).
* `global_counter` is never reset between two runs of the sample.
* A stage without a `malloc` prints a negative peak (`PeakCoversNet` records it);
  growth by `calloc`, `realloc` or `aligned_alloc` never becomes a peak, and neither
  does a size that is negative as an `int` (`Fits` excludes both); the hook is not safe
  for several threads.
* A load that throws half-way keeps what it had inserted (`Inv` holds nevertheless).
* Each root ecall that draws random numbers leaves an engine allocated.
* `xfree` reads the Allocator off the block before it takes the mutex; it is safe
  because the block is the caller's until then, as `Locals` and `Headers` show.

## Not modelled, and why

* **BGV sample program**: straight-line code on one thread. Each call it makes is an
  action of `LeveledBGV`, `AdvancedSHE` or `KeyCache`, whose runs reach the order in
  which it makes them among all others.
* **Cache measurement**: five regions in a row, each a counter read and a
  subtraction modulo 2^64; nothing is shared, retried or decided.
* **Exceptions across threads**: the port removed capture and rethrow, and OpenMP is
  off, so that the parallel loops are sequential.
* **Ecall and ocall nesting**: `App.cpp` has those calls commented out, and what an
  ocall admits is decided by the SDK's run-time.
* **Enclave life cycle**: one sequential pass, nothing retried or shared.
* **Parameter and key generation**: numeric search for primes and sizes; what
  evaluation depends on enters `LeveledBGV` as the number of moduli, their residues
  and the relation of `multiplicativeDepth` to them.
* **Ring arithmetic, BFV, CKKS, binary FHE**: computation without state of their own.
  **Serialization**: input and output by a library; what a load does to the tables is
  in `KeyCache`.
* Within the modelled components: noise and polynomials of BGV, monomials; CKKS
  packing, other cyclotomic orders and sums of rows and columns in `AdvancedSHE`; the
  content of keys, and the lengths of vectors of multiplication keys, in `KeyCache`;
  the hash, the distributions computed from the numbers and a hash that fails (it
  cannot, with the fixed lengths it is given) in `PRNG`, where seeds are taken to be
  distinct. The SDK's mutex, condition variables and thread-local storage are
  modelled by their documented behaviour from their use. The STL adapter of the block
  allocator is compiled only with an option that is off. Timing and printing.
* Generated bridges (`Enclave_t.c`, `Enclave_u.c`), the native `openfhe/` tree and
  the vendored third-party code.

The repository holds OpenFHE twice, with its installed headers and tests: nearly all
of its lines are arithmetic taken over from there. The models cover the code that was
written for this repository and the stateful control of the port, which is a small
share of the lines.

## Plan

The order follows importance: the arena carries every computation in the enclave,
then come the concurrent parts, the measurement, the arithmetic whose errors would be
silent, and the tables and allocators that outlive a computation.

Done: `Sizes`, `Arena`, `Heap`, `ArenaHeap` and their proofs; `Counter`, `CondBuffer`,
their composition `ThreadFunctions`, `StageMetrics` and theirs; `ScalingFactors`,
`LeveledBGV` in all four techniques and its proofs; `AdvancedSHE` and its proofs;
`KeyCache`, `XAllocator`, `PRNG` with their abstract specifications and proofs.

Open:

1. The composition of `LeveledBGV` with `KeyCache`: operations that are refused for
   want of a key between operations that adjust their operands in place.
2. CKKS packing and the sums of rows and columns in `AdvancedSHE`.
