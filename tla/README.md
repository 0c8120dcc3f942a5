# A TLA+ verification of CryptDough

CryptDough evaluates programs on secret-shared vectors.  Every *party* runs the
same binary; the parties differ in their rank and in the shares they hold.  On the engine
rest oblivious operators on tables, and on these query programs.  This directory
contains TLA+ modules for the parts of the system, from the send threads to the
queries, that are easy to get wrong and hard to test, TLC configurations that check them on small instances,
and TLAPS proofs of the central invariants and refinements for instances of any size.

Contents: 1 inventory, 2 modules and code, 3 model-checking runs, 4 proofs,
5 disagreements found, 6 what is not modelled, 7 plan.

## 1. The system

One party is one process with the following threads.

    main thread                program, one engine call at a time
      | addTask, barrier
    worker 0 .. T-1            tasks = ranges of vectors; protocol functions
      | push / wait   ^ recv
    rings (one per worker and peer)
      | currentEntry / pop
    send thread 0 .. S-1       serves the rings of the workers assigned to it
      | send()
    TCP connections            worker t of party p <-> worker t of party q

| component | state | operations | interacts with |
|---|---|---|---|
| no-copy send ring (`no_copy_ring.h`) | slots, `writeIndex`, `readIndex` | `push`, `wait`, `currentEntry`, `pop` | worker (producer), send thread (consumer) |
| communicator (`no_copy_communicator.h`, `..._factory.h`, `network_utils.h`) | sockets, rings, assignment of workers to send threads | `sendShares`, `receiveShares`, `exchangeShares` and their variants for several parties; the send loop | protocols above, TCP below |
| execution engine (`runtime.h`, `worker.h`) | task queue, condition variable and flag of each worker, one barrier | `execute_parallel` and its relatives, `evaluate_oprf`, `setup_workers`, the destructor | the program above; tasks call protocols |
| work partitioning (`runtime.h`, `task.h`) | `batch_size` | `getThreadBatchBoundaries`, `compute_equal_batches`, `makeBatchSizeDivisibleBy`, `Task::execute` | engine calls |
| protocols (`protocols/*.h`) | shares; hashes and checks in the malicious ones | multiplication, and, truncation, division, conversion, opening, input, resharing | communicator, randomness |
| randomness (`core/random`, `rand_setup.h`) | common seeds per group of parties, pools of triples, queues of permutations, committed seeds | setup, `getNext`, commit and reveal | protocols, operators |
| permutations (`permutation_manager.h`, `permutation.h`, the sharded generators) | permutations and pairs made ahead, and the size they have | `reserve`, `getNext`, `getNextPair`, apply, invert, compose | randomness below, sorting and shuffling above |
| operators (`core/operators`) | none of their own | sorting networks, quicksort, radix sort, shuffling, joins, aggregation, distinct, windows | engine, protocols, permutations |
| vectors (`mapping_access_vector.h`) | data, a mapping of indices | views, assignment through views, bit packing, scans | operators, protocols |
| tables (`encoded_table.h`) | named columns, arithmetic or boolean, and a validity column | filter, sort, aggregate, join, trim, finalize, open | operators below, queries above |
| queries (`bench/queries`) | some tables | a straight line of table operations, then a comparison with SQLite | tables, data generators |
| startup (`startmpc.h`, `setup.h`) | ports, connections | listen, connect with retries | communicator |

What is hard here:

* **Concurrency without locks.** The ring is shared by two threads through two
  atomic indices and holds *pointers*: a `wait()` that returns too early is a
  read of freed memory in another thread.  Workers write disjoint parts of one
  result without a lock, so the ranges must be disjoint for every combination of
  length, batch size and number of threads.
* **Synchronisation.**  One reusable barrier and a condition variable per worker
  serve setup, calls and shutdown; `terminate_` is read outside its mutex.
* **Waiting in circles.** All parties send and receive at the same time over
  connections that hold less than a vector, and one send thread serves several
  peers.
* **Order.** The parties never name a message: the k-th receive gets the k-th
  vector sent.  One party that evaluates a sum of two calls in the other order
  shifts every later message.
* **Validity.** A filtered row stays in its table and is only marked.  Every
  later operation must keep invalid rows from flowing into valid ones, and a
  mistake shows several operations later, in one sum on some data.
* **Obliviousness.** What the parties see (sizes, opened comparisons) may not
  depend on the data; no test of results notices when it does.
* **Resources made ahead.** Sorts reserve permutations by a count that is computed
  apart from their use; what is left over meets vectors of another size.
* **Failure.** A party may die; the others must notice.
* **Boundaries.** Empty vectors, vectors shorter than the number of threads,
  batch sizes rounded to a divisor, an index that wraps around.

What makes a component correct is stated with the runs below.  `PROJECT.json`
lists each hazard at its line with the properties that would catch it.

## 2. Modules and the code they model

| module | models | state and actions |
|---|---|---|
| `NoCopyRing` | `no_copy_ring.h`, with the send functions and the send loop that drive it | both indices, the slots, the program counters of worker and send thread, what was pushed / waited for / released / popped, what reached the socket.  Every access to an atomic is a step: `PushWrite` and `PushPublish`, `Wait`, `Poll`, `SendSome`, `PopClear` and `PopAdvance`; `CallSend` starts a send function, `Terminate` is `~RunTime` |
| `SendQueue` | the contract of the send functions | a queue of vectors: `Accept`, `Transmit`, `Complete`, `Return` |
| `Runtime` | `runtime.h`, `worker.h` | main thread, workers, queues, barrier, condition variables.  A critical section is one step; `notify_all()`, called after unlocking, is a step of its own (`AddTaskNotify`, `StopNotify`); arriving at the barrier and leaving it are two steps; wakeups may be spurious |
| `ForkJoin` | the contract of an engine call | a call begins, every worker does its part once, the call ends |
| `Partition` | the arithmetic of ranges and batch sizes | operators only |
| `Batching` | engine calls and `Task::execute` | which elements each batch of each worker touches |
| `CommCalls` | the vector functions of `NoCopyCommunicator` | straight-line code of three primitives: push, receive, wait |
| `Communicator` | all parties with workers, send threads, bounded connections, exit and death | one action per primitive (`DoPush`, `DoReceive`, `DoReceiveFails`, ...) and per step of the send loop (`ComeUpon`, `SkipRing`, `SendUnit`, `Pop`, `SendFails`) |
| `Rounds` | who sends what to whom in each protocol function | sequences of communicator calls for 2PC, 3PC, both 4PC variants and SPDZ2k |
| `SeedSetup` | `rand_setup.h`, `CommonPRGManager`, the groups of `cdough_init` | for each party the steps of its setup (communicator calls, key, source of the seed) and the generators it ends with, given what it received |
| `Ring2k` | the element-wise operators of `mapping_access_vector.h` | words of `Width` bits: arithmetic, bitwise operators, arithmetic shift, division towards zero |
| `CommonPRG` | `common_prg.h`, `rand_setup.h`, `zero_sharing_generator.h` | who holds which generator; what every party has drawn from it; zero sharings |
| `Sharing` | `protocol.h`, `protocol_base.h` | a sharing is what every party holds; replication map, local operators, the halves used by division and conversion, resharing |
| `Beaver2PC`, `Replicated3PC`, `Custom4PC`, `Dalskov4PC` | the four protocols | one operator per protocol function: the new shares of *every* party, the draws it makes and the hash checks it passes |
| `Protocols` | a program of secure operations | two registers, the generators, the protocol compiled in; one action per operation of `Protocol` |
| `Plaintext` | the contract of the operations | the same program on plain values |
| `Vectors` | the views and scans of `mapping_access_vector.h`, `prefix_network.h`, `tree_prefix_sum` | views as sequences of indices; the pairs of each level of a network |
| `BitPacking` | bit compression of `mapping_access_vector.h` | which bit of which element goes where (layouts), and back |
| `SortingNetworks` | `sorting_network.h`, `bitonic_sort`, `merge.h` | a network as its rounds of comparisons; one round on rows |
| `Shuffling` | `shuffle.h`, `permutation.h`, `dm_dummy.h` | permutations on plain values and on the shares of two, three, four parties; the drawing of a permutation |
| `PermutationManager` | `permutation_manager.h` | numbers and size of what is in store, as a record; `reserve`, `getNext`, `getNextPair` |
| `Sorting` | `sorting.h`, `quicksort.h`, `radixsort.h` | padding, one round of quicksort with what it opens, one bit of radix sort, the counts reserved |
| `Operators` | operators as processes | a program of operator calls on a common permutation manager; one action per round, bit, column, level or group |
| `EncodedTable` | `encoded_table.h`, `aggregation.h`, `join.h`, `distinct.h`, `streaming.h` | tables as records of columns and rows; every operation a function on tables, the windows with their session marks included |
| `QueryLanguage` | column expressions, table calls, SQL | what a query program is made of: its steps, its expressions with their encodings, the answer it is compared with |
| `QueryMachine` | a query program running | the tables by name, what is opened, how it ended; one action per table operation.  For some databases the program runs on a second one of equal size at the same time |
| `Databases` | `tpch_dbgen.h`, `secrecy_dbgen.h`, the generators inside the query programs | the rows of each table for a seed and a scope (the values of interest of a query) |
| `TPCHQueries`, `OtherQueries`, `SecretFlowQueries`, `MCQueries` | the query programs | for each its plan, its SQL query over the plain tables, its scope |
| `MCCommunicator`, `MCBatching`, `MCProtocols`, `MCOperators`, `MCQueries` | instances for TLC | scenarios, sets of batch sizes, inputs |
| `ModLemmas` | | arithmetic modulo the ring size and induction on bounded naturals |
| `ProtocolLemmas` | | the algebra of words (`Plus`, `Minus`, `Times`, `BitXor`, `Total`); what draws, local operators, zero sharings and resharing preserve; one lemma per operation of each protocol |
| `NoCopyRingProofs`, `RuntimeProofs`, `BatchingProofs`, `ProtocolProofs`, `CommunicatorProofs`, `OperatorsProofs` | | the theorems |

The modules compose by contract.  `Communicator` uses a queue where the code has
a ring; `NoCopyRing` is shown to implement that queue.  `Runtime` leaves out what
a task computes; `Batching` says which elements it touches.  `NoCopyRing` lets
the runtime terminate only between calls; that this is so is `CallFinished` of
`Runtime`.

`Rounds` with `Communicator` says that the k-th receive gets the k-th vector sent;
the protocol modules take that for granted and say what is in it: a party's
received value is the value its peer computed.

`SeedSetup` hands its calls to `Communicator` and reads the seeds off the vectors
that really arrived; `CommonPRG`, which the protocols use, starts from the result:
every generator held by its group.  `Operators` shows that the sorting algorithms
do what `EncodedTable.sort` says, stability included where queries rely on it;
`QueryMachine` uses `EncodedTable`.

Abstractions: the contents of a vector are reduced to its name and the offset of
each unit; a unit is what one `recv()` may leave behind.  A worker that spins
(`push` on a full ring, `wait`) is modelled by the guard of the step that ends
the loop.  The send thread's endless round over empty rings is collapsed into
the state `Idle`, from which it may come upon any ring that is not empty.

In the protocol modules a vector has one element, and a matrix product, a
convolution and a dot product are represented by one entry with two terms (one
triple, one truncation and one draw per *entry*, where the code draws once for a
vector of entries).  Division is the one compiled with
`USE_DIVISION_CORRECTION`; boolean sharings have precision 0.  AES and the
oblivious linear evaluations of libOTe are external: an arbitrary function of
seed, generator and nonce, and pairs of words with `A + B = C * D`.  A hash is
compared by comparing what was hashed.  `public_share` is called with the sets of
parties the code can handle (`MayKnow`): both 2PC parties at once would double
the value, and the custom 4PC rejects every set.

The operators and tables compute on the values that the shares stand for, in the
clear: that shares stand for values is the business of `Protocols`.  Only where a
permutation is applied share by share (`Shuffling`) are shares modelled.  Keys have
`KEY_BITS` bits and words `WORD_BITS`; the row number that sorts append below the
key is a second component instead of 32 low bits.  The data of a query are few
rows whose values are drawn, by a fixed function of the seed, from the ranges of
the generator restricted to the values on both sides of the query's conditions
(its scope); keys and references are those of the generator.  Timing, printing and
the command line of query programs are left out.

## 3. Model-checking runs

| run | instance | what it shows |
|---|---|---|
| `ring` | 3 slots, vectors of 0, 1, 2 units, calls that name the party up to 4 times, 5 pushes | the ring never overruns and hands a slot back only when the entry is sent (`SlotsOwned`, `RingInv`); no buffer is read after its call returned (`NoReadAfterRelease`); the send thread leaves nothing behind; the ring implements `SendQueue`; calls return |
| `runtime` | 3 workers, 3 calls, `evaluate_oprf` with 1, 3, 4, 7 elements | no call returns before its tasks are done (`CallFinished`), workers stay in step (`Lockstep`), shutdown races with nobody (`TerminateNotRaced`), calls and destructor return, the engine implements `ForkJoin` |
| `runtime_oprf` | the same with `OprfReturns` | violation, see 5 |
| `batching` | 3 threads, chunks of 2, batch sizes 1, 2, 3, 5 and 1, 2, 3 equal batches, 8 lengths, groups of 1 to 4 | every element is processed exactly once, groups are not split, whole-range calls run one batch, equal division runs no more batches than asked for |
| `batching_small` | grouped calls on very short operands | violation, see 5 |
| `comm` | ten scenarios of 2, 3 and 4 parties, connections of one unit, vectors of two; four of them the setup of the common generators | the calls never wait in a circle and everybody ends (`EverybodyEnds`), whatever `recv()` returns and also after the death of a party; the streams stay aligned (`VectorsAligned`), receives are complete unless somebody died, nobody leaves while others still send to it; parties that finish the setup hold equal seeds for what they share, nobody else received them, and none is the zeros sent in exchange (`SeedsAgree`) |
| `comm_wide` | the two rounds in which everybody sends to several parties at once (4PC cross terms, SPDZ2k broadcasts) | alignment and absence of deadlock |
| `comm_spdz_long` | a SPDZ2k broadcast with vectors longer than a connection holds | violation, see 5 |
| `comm_crash_short` | 3PC with a death | violation, see 5 |
| `protocols` | four protocols, six-bit words, inputs 29, -2, 7, -27 of four different parties, public value 5, precisions 0 and 1, divisors 2 and 5, two sets of seeds, programs of three operations | replicas never differ (`ReplicasAgree`), common generators stay in step (`GeneratorsInStep`), hashes of honest parties agree (`HonestRunsPass`), every party opens the value (`AllOpenTheValue`), and the program computes what `Plaintext` allows (`ImplementsPlaintext`) |
| `operators` | networks on all zero-one vectors up to 6 (pairwise) or of 8 elements, both orders; quicksort and radix sort of up to 4 keys of two bits under every shuffle, tables of 3 rows with up to 3 keys; sharded permutations of 3 elements under 2, 3 and 4 parties; windows of 4 rows; prefix networks of 2 to 16; packing of up to 5 words of 4 bits; sequences of operators of different sizes | sorted, complete and stable (`SortsCorrectly`); quicksort ends and what it opens has the same distribution for all data (`QuicksortEnds`, `OpenedTellsNothing`); permutations are drawn uniformly, all reserved ones are used and fit (`DrawnUniformly`, `PermutationsServed`); shuffles keep rows and replicas together (`ShufflesKeepRows`); windows, prefix sums, cartesian joins and packed bits are what their definitions say (`AgreesWithReference` and its parts `SessionsFound`, `PrefixesAdded`, `CartesianIsInner`, `PackedBitsReturn`) |
| `queries` | 38 programs, 15 databases each, two of them run side by side with one of zeros | if every operation was given rows it is made for, a program opens what its SQL query answers (for a division by zero every bit set), and its own comparison with sqlite accepts it except exactly where the comparison is mistaken; otherwise q2, q20, rcdiff and distinct_patients lose rows but invent none (`AnswersTheQuery`); finalizing leaves nothing of invalid rows and of the valid ones the answer (`FinalizedIsTheAnswer`); no missing column, wrong encoding or assertion of an operation is met, the merges' on sizes excepted, and only ten named programs ever give an operation rows it is not made for (`NeverAborts`); the tables' sizes do not follow the data (`Oblivious`) |

**Why the bounds are enough.** The ring of 3 slots is full with 2 entries, wraps
around during 5 pushes, and calls of up to 4 vectors exceed it; that no other
size behaves differently is proved (section 4).  With 3 workers a first, a last
and a middle one exist, and 3 calls make the barrier be reused with a worker
still leaving the previous phase; the proof again covers all sizes.  The lengths
of `batching` include 0, fewer elements than threads, exact multiples, and one
more than a multiple of every batch size.  In `comm` a vector is longer than a
connection holds, the smallest instance in which a sender can block in the
middle of a vector and a `recv()` can be short; two workers sharing one send
thread (scenario `two`) is the smallest in which one worker's vector delays
another's.  In `protocols` three operations are two inputs of different parties
and one operation on them, or one input and two operations in a row, so that an
operation runs on the result, and with the generators, another has left behind;
six bits leave room for a sign, a carry out of the top and a remainder of either
divisor, and the two seeds give halves of equal and of different signs, with and
without overflow.  The operations are linear in the random words or treat them
bit by bit; other values of `Stream` change the shares and not what is checked of
them, which is why two seeds suffice where the rounding does not depend on them.

A network of comparisons that sorts all vectors of zeros and ones sorts all
vectors; the lengths 1 to 6 and 8 include powers of two, the numbers on both sides
of them and odd ones.  For quicksort every shuffle of 3 elements makes every
element the pivot in every position; two-bit keys have a sign and repeat.  In the
sequences of operators `radix_sort_ccs`, which reserves another number than it
uses, comes before operators on larger and smaller tables.  The tables of a query
have enough rows for groups of several rows, groups of one and groups with valid
and invalid rows, and scopes put about half of the rows on either side of every
condition; the databases (seeds 1 to 14 and 17) were chosen because each of the
disagreements of section 5 shows within them.  One worker runs the setup of generators except with two
parties, where two do: they use the same connections one after the other, so a
second worker can only meet what the first left behind, which is nothing.

**Fairness.** `NoCopyRing` and `Runtime` assume weak fairness of each thread's
own steps while it is in a call: threads are preemptively scheduled and their
loops spin or are woken.  Nothing obliges the program to make another call or to
shut down, and no spurious wakeup has to happen.  `Communicator` assumes only
that some enabled step of some thread is eventually taken: in its scenarios each
party runs a finite program, so `EverybodyEnds` is about circular waiting and
not about scheduling.  No crash is ever required to happen.

**Deadlock** is checked where the system may not stop: in `comm` and `comm_wide`
(a behaviour ends only when every process is gone).  The other modules may stop
because a bound on calls has been reached.

## 4. Proofs

`tlapm` checks all of these from nothing; each holds for every value of the
constants that satisfies the named assumptions of the modules.

* **The ring** (`NoCopyRingProofs`; assumes `RingSize >= 2` and the types of the
  other constants).  `RingCorrect`: `Spec => []RingInv`.  From it
  `BuffersOutliveSends`, `SlotsNeverShared`, `ExitLeavesNothing`, which are
  `NoReadAfterRelease`, `SlotsOwned` and `NothingLeftBehind`.  None of these is
  inductive: that the buffer being sent is not released needs that the *waited*
  entries are popped, hence that equality of `readIndex` with an index modulo
  the ring size means the entry has passed, hence that fewer than `RingSize`
  entries are in the ring.  `RingInv` therefore ties the indices to the unbounded
  counts (`IndexInv`), the slots to the buffers (`SlotInv`), what was waited for
  to what was popped (`CallInv`) and the send thread's copy to its slot
  (`SenderInv`).  `ModLemmas` supplies the arithmetic: the successor modulo n,
  and that two numbers less than n apart are equal when their remainders are.
* **The engine** (`RuntimeProofs`; assumes at least one thread).
  `EngineCorrect`: `Spec => []EngineInv`.  From it `CallsFinish`,
  `WorkersInLockstep` and `TerminationIsClean` (`CallFinished`, `Lockstep`,
  `TerminateNotRaced`).  The invariant counts barrier phases: call number `op`
  runs during phase `op`; a participant that is at the barrier without having
  arrived in the current phase is being let through from the previous one; a
  worker at the top of its loop has done the work of this phase.  Without the
  phase numbers a slow worker leaving phase n cannot be told from one that
  arrived in phase n + 1.  The proof covers `evaluate_oprf` too: a worker without
  a task blocks the call, but nothing wrong is ever returned.

* **Refinements.** `RingIsQueue` (`Spec => ImplementsQueue`) and `EngineIsForkJoin`
  (`Spec => ImplementsForkJoin`): every step of the detailed module, under the
  invariants above, is a step of the contract or a stutter.  For the ring the
  queue is the sequence of entries between popped and pushed, so the proof has to
  say which pushes and pops change it (`PushPublish`, `PopAdvance`) and that the
  unit the send thread takes is the next one of the queue's head.
* **Work partitioning** (`BatchingProofs`; assumes at least one thread and the
  constants' types).  `RangesTile`: for every length, group size, number of
  threads and batch size the ranges of `getThreadBatchBoundaries` follow each other
  without gap or overlap.  On it rests the inductive invariant `BatchingInv`, which
  says of every thread how far it has come and that exactly the elements between
  its start and there are its own; `ElementsProcessedOnce`, `GroupsStayWhole` and
  `BatchesAsAsked` follow (`EachElementOnce`, `GroupsNotSplit`,
  `BatchCountBounded`).
* **The protocols** (`ProtocolProofs`; assumes words of at least two bits and the
  constants' types: nothing about seeds, inputs, precisions or the length of
  programs).  `ProtocolInvariant`: `Spec => []ProtocolInv`, where `ProtocolInv` says
  that both registers are `Replicated` (words, and equal wherever two parties hold
  the same share) and that the world is `Honest` (every party has the generators
  set-up gave it, all holders of one have drawn equally often, no check has
  failed).  The parts need each other: equal replicas after a multiplication need
  equal common draws, hence generators in step; passed checks need equal replicas.
  `HonestRunsAlwaysPass`, `GeneratorsAlwaysInStep`, `ReplicasAlwaysAgree` and
  `AllAlwaysOpenTheValue` are the four invariants of the run `protocols`.

  The argument has one lemma per operation and protocol (`MultiplyGood2`,
  `TruncateGood3`, `ReshareGood4`, `InpGoodF`, ...): from shared operands and an
  honest world the operation returns a shared result and an honest world.  Below
  are lemmas on draws (`AfterHonest`: draws in which all holders of a generator call
  it equally often keep it in step; `DrawnAlike`: then the k-th values are equal), on
  zero sharings, on the share assignment of resharing and on words.  `Power`,
  `AndTable` and `Total` are recursive functions; what they are is proved by
  induction with sets of naturals (`BoundedInduction`, `BoundedRecursion` in
  `ModLemmas`), so that e.g. exclusive or, defined arithmetically
  from the table of `&`, is shown to be associative for words of every width.
  The one thing assumed of the random words is that they are words: the external
  `Stream` is used through `StreamType` alone.

  `ProtocolsImplementPlaintext` (`Spec => ImplementsPlaintext`) is the functional
  correctness of the four protocols: under `ProtocolInv`, every operation maps to the
  operation of the same name in `Plaintext` on the words that the shares reconstruct
  to (`PlainStep`, from one `Plain...` lemma per group of operations), resharing to one
  that leaves both registers alone.  It needs the invariant, since what shares add up
  to is only defined when the replicas agree.  Each product lemma shows that the
  local products of the parties are every cross term of the shares exactly once and
  the masks cancel (Beaver triples: `SoundTriple`; three parties: `Grid3`; four:
  `Grid4`, `SixTerms` and the JMP rounds); `ReshareValue` that what resharing adds
  sums to zero; `NotValue` that one share is complemented and the other parties hold
  the same one; `BitValue` that the exclusive or of bits is computed in the
  arithmetic ring.  Truncation and division are exact statements and not bounds: two
  halves of a word are divided separately as signed numbers, their sum may differ
  from the word by the ring's size, and each half leaves a remainder
  (`DividedValues`, `ShiftedValues`, `Rounded`), which is exactly what `Quotients` and
  `Truncations` of `Plaintext` allow.
* **The communicator** (`CommunicatorProofs`; assumes at least two parties, at least
  one worker and send thread, a connection that holds at least one unit, and
  `ProgramsAssumption`: a call names other parties and waits for what it pushed to a
  party before anything else is pushed to it, and what one worker receives from
  another matches what that one pushes, in number and lengths).  The second
  assumption is about the callers; TLC evaluates it on every program of `Rounds`
  and `SeedSetup` that a run uses, those of the violations included.
  `StreamsAlwaysWhole`: `Spec => []CommInv`, for every number of parties, workers,
  send threads and deaths.  `TypesAlwaysOK`, `VectorsAlwaysAligned` and
  `AlwaysLeavesInOrder` are the safety properties of the run `comm`.

  `VectorsAligned` speaks of what has arrived; to keep it, one must know what is on
  its way.  The invariant therefore numbers the units of each stream: the vectors
  pushed lie one after the other in it (`SendOffset`), the receives read it one
  after the other (`GetOffset`), and the k-th of one lies where the k-th of the other
  reads (`StreamsMatch`, by induction over the positions of both programs).  `Intact`
  says that what was read, the connection and the ring together are the stream as
  far as it was pushed (`StreamHolds`), or the sender is dead and nothing is left in
  the connection.  `Outstanding` says when a ring may hold something, which bounds
  it to one entry (`RingHolds`).  One lemma per action shows that a unit moves along
  its stream and every other stream stays as it was.  That a receive fails only
  after a death (`ExitedHasSent`) is a consequence: a process that has exited has
  pushed all, its rings are empty, so what is missing is in the connection.
* **Shuffles and drawn permutations** (`OperatorsProofs`; assumes `ProgramsFit`: the
  rows of a table have the same columns, the permutations and correlations an
  operation is given are permutations of its rows and correlations for them; TLC
  evaluates it on every program of the run `operators`).  `RowsKept` and
  `DrawsUniform` are `ShufflesKeepRows` and `DrawnUniformly` of that run, for
  vectors of every length, every permutation and every program.

  The lemmas say what the operators do: `Applied` (the element at index i goes to
  index p[i]), `ObliviousApplied` (a permutation that is opened under a mask moves
  the masked elements as it would have moved the elements), `PermutedShares` and
  `PermutedBack` (after `permute_and_share` the two shares add up to the permuted
  values, in both encodings: `MasksCancel`), `GroupMoves` (resharing hands on what a
  group has permuted), `BagKept`.  `OperatorsInv` then says, for each point of a
  shuffle, a sharded permutation or a draw, what the parties hold: `Staged` and
  `Passed` are the values after as many steps, and between the receiver's and the
  sender's part of a step a share is on its way and has been replaced already
  (`Sending`).  `gen_perm` is a recursion: `Trace` is the permutation after each
  draw, `SettledStays` says that a place that has been drawn is not touched again,
  so that the draws can be read off the result one after the other (`DrawsDiffer`)
  and no permutation comes from two sequences of accepted draws (`DrawnOnce`).

* **Sorts and the permutation manager** (`OperatorsProofs`; assumes `ProgramsFit`, whose
  part `SortFits` says that keys are numbers and that there are at most `INDEX \div 2`
  rows, and `IndexAssumption`: `INDEX`, where the value begins above the index of a
  padded element, is even; it is 2^32 in the code and 16 in the runs).
  `PermutationsAreServed` and `QuicksortRounds` are `PermutationsServed` and
  `QuicksortEnds` of the run `operators`, for every program, number of rows, keys and
  columns, width of keys, number of parties, and whatever is shuffled and drawn.

  Neither property is inductive.  That all reserved permutations are used at the end,
  and none is made late, is a matter of what is *still* to be taken: `RestPerms` and
  `RestPairs` are what the columns yet to be sorted take, and `ServedInv` says at each
  point of a sort that the manager has exactly that and what the current column still
  takes (`Stocked`; later jobs may find more, left over by earlier ones).
  `CountsAre` shows that `get_perm_counts` is that number at the start, `RestGrows`
  what a column adds to it, `TakesOne`, `TakesPair` and `PairsUsed` what the
  manager's calls do to it, and `ReserveWithin` that the reservations that quicksort
  and radix sort make themselves, inside `table_sort`, add nothing.  `getNext` reserves
  anew when the stored size is another one and `getNextPair` does not: nobody is
  handed a misfit because every operation reserves, or calls `getNext`, before its
  first pair (`Ready`), and no pairs are left between operations (`Resting`).

  That what a sort returns is a permutation needs the data: below the values of a
  padded vector are the indices of its elements (`Indexed`, `PaddedIndexed`), and
  shuffling, every swap of `partition` and every bit of radix sort only rearrange
  them (`Rearranges`), until `remove_padding` lays them open (`PaddingRemoved`);
  `BitPermutationIs` says that the prefix sums of radix sort are a permutation.  The
  number of rounds needs the pivots: `Quick` says that fewer rounds have been made
  than there are pivots; a round walks over the segments (`Walked`) and, in the first
  that has more than one element, makes an element a pivot that was none
  (`PartitionDoes`, `QuickRoundDoes`).  A vector of one element is the exception: its
  only round finds none.

Only model-checked: all liveness properties (fairness is out of the prover's
reach), so also that the calls never wait for each other in a circle; `SeedsAgree`,
which is about what the set-up programs of `SeedSetup` compute from the vectors;
the other properties of `Operators` (that the result is in order, what quicksort
opens, windows and prefix networks) and those of `QueryMachine`, which compare
networks, folds and whole query plans with a reference on their data, or enumerate
distributions.

## 5. Where code and comments disagree

* `runtime_oprf`: `evaluate_oprf` skips workers without elements, "possible when
  |input| < num_threads" (`runtime.h`), but such a worker stays at its condition
  variable and never arrives at the barrier, so the call does not return.
* `batching_small`: `makeBatchSizeDivisibleBy` "must assign batches of the proper
  size"; with equal division and one element (or none) the size is 0 and the
  boundaries are computed by dividing by it.
* `comm_spdz_long`: one send thread sends whole vectors peer after peer while
  SPDZ2k's broadcasts read peer after peer in another order; with vectors longer
  than a connection holds, three parties wait for each other.
* `comm_crash_short`: `receiveSharesGeneric` reads "in chunks if the entire
  vector is not read in a single call", but a failed `recv()` ends the loop and
  the call returns a vector read in part.

Each query program compares what it opens with sqlite's answer.  On some databases that
comparison fails, or an assertion of an operation before it.  Seeds are those among 1
to 21.

* q12 asserts that the modes sqlite found are half the opened rows (`q12.cpp:210`).  A
  mode with only urgent lines, or none, gives one row and not two (seed 1 and most
  others).  The counts are right.
* q14 and market-share: where nothing is selected sqlite answers NULL, which the programs
  read as 0 and compare (`q14.cpp:217`, `market-share.cpp:147`) with the opened 0/0,
  every bit set (q14: seed 5; market-share: 17, 21).  sf-q14 divides and compares in
  the same way (`sf-q14.cpp:400`).
* `distinct(keys)` "performs other operations required for the distinct to work
  correctly" (`encoded_table.h:1350`).  It sorts by validity and keys but compares the
  keys alone: a valid row that follows an invalid one with the same keys is lost.
  Used by q4, q16, q20, rcdiff and distinct_patients; rows are lost, and the comparison
  fails, in rcdiff (2, 4, 7, 8, 12, 15, 18, 21), distinct_patients (2, 4, 14, 15)
  and q20 (11, 16).
* q2 aggregates with `do_sort = false` and without validity among the keys
  (`q2.cpp:180`): values of invalid rows reach valid ones and rows are lost (7, 10, 14,
  18, 19, 20).  sf-q1-mod-obliv groups in the same way and answers wrongly (9, 19), but
  its comparison is commented out (`sf-q1-mod-obliv.cpp:229`).  sf-q1-mod does, too (21),
  with values it has set to 0 in invalid rows, and answers rightly there.
* In sf-q12-merge and sf-q14-merge each party pads its private table on its own; when
  the padded sizes differ the merge stops at its assertion (`merge.h:177`, action
  `AbortMerge`; 14 in both), which also tells the parties about sizes.
* sf-q14-merge sums the revenues in a hash map and merges them in the order of its
  iteration (`sf-q14-merge.cpp:218`), where the merge expects the order of the keys
  (odd seeds, for which the model reads the map backwards).

In the first two the program's answer is right and its comparison mistaken (`Misjudges`):
`AnswersTheQuery` says that these are the only such cases, and that the comparison fails in
each.  In the others an operation is given rows it is not made for, which `QueryMachine`
notes in `misuse`: `"validity"`, and `"halves"` and `"sizes"` in the merges.
`NeverAborts` says that no other programs have such runs.  Of them `AnswersTheQuery` says
only that q2, q20, rcdiff and distinct_patients open rows of the answer, and
`FinalizedIsTheAnswer` only that invalid rows are masked.

What the comparison with sqlite means here:

* Programs compare row by row.  Where the SQL text leaves the order open, or rows tie,
  any order that sqlite may give counts as equal.
* `sf-q1` compares nothing: testing it "is difficult" (`sf-q1.cpp:202`).  Its parties'
  group rows are added position by position, and where the parties have different
  groups (seeds 1, 4, 5, 7, 8, 10, 11, 12, 14) no answer is stated (`SqlUnstated`); on the
  other databases the answer is that of one table of both parties' rows.
* The build that measures finalizes the output before it would be revealed
  (`encoded_table.h:732`).  q14, q17 and market-share keep their number in the last row of a
  table ("the last row might be invalid... but it still contains the answer", as
  `q6.cpp:158` says of q6), and `finalize()` masks invalid rows: in q14 and q17 the
  last row is invalid on every database tried and the number is lost, in market-share
  it is valid on every one.  `FinalizedIsTheAnswer` states both: nothing is left of invalid rows, and
  a number in a valid one is the answer.  That build opens nothing afterwards, so no
  assertion of the programs notices.
* Not modelled are the finalizing builds of sf-q12 and sf-q12-merge
  (`T.finalize()`, where `T` is a type), of sf-q1-mod-obliv (`combinedTable`, which that
  program does not have), and of sf-q14 and sf-q14-merge, which finalize the join and not
  the answer.

Three more, outside the comparisons:

* With two sessions of one key `threshold_session_window` overwrites the number of
  the first, and a session that starts at the first row is not marked
  (`streaming.h:131`); `SessionsFound` is stated for the other cases.
* Bit packing with a step that does not divide the range drops the last bit
  (`mapping_access_vector.h:986`), and a cut last chunk in direction -1 addresses
  bits beyond the word (`:1209`); no caller does either.
* A table of one row is aggregated over a Brent-Kung network of depth -1
  (`prefix_network.h:237`), over which the loop, testing for inequality, does not
  end; the databases have at least two rows.

## 6. Not modelled

See `components` in `PROJECT.json` for the complete list.  Connection setup
(retries), the running hashes of the 4PC transcripts, seeds committed ahead, the
authenticated arithmetic of SPDZ2k (its words are wider than TLC can enumerate),
the circuits inside comparison and conversion.  Wrappers of libOTe and
secure-join (their code is not in the repository), the MPI communicator (order
and progress are the MPI library's), profiling and debugging, measurement scripts,
`sf-q6.cpp` (a sum that sqlite computes locally and one exchange of scalars; it is not
among the 38 programs), the numeric code of the machine-learning operators.

## 7. Plan

In order; each step keeps the rest passing.

1. **Protocol arithmetic**: done for 2PC, 3PC and both 4PC protocols (run
   `protocols`).  Left: the boolean circuits built on `and_b` (comparison, adders,
   a2b) with the correction of a division, and the running transcript hashes of
   the 4PC.
2. **Randomness**: the seed exchanges (run `comm`), permutations and their manager
   (run `operators`) are done.  Left: pools of correlations
   (`pooled_generator.h`), seeds committed ahead (`committed_seeds_queue.h`).
3. **Operators, tables and queries**: done (runs `operators`, `queries`).  Left: the
   operators of the learning examples.
4. **Session establishment** (`startmpc`) and the MAC checks of SPDZ2k.
5. **Proofs**: the ring, the engine, partitioning, the communicator, the
   invariants of the protocols, their refinement of `Plaintext`, shuffles, drawn
   permutations, the permutation manager and the rounds of quicksort are done.  Left:
   that a column is in order when quicksort's pivots are all found, and stability.
