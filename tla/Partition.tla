------------------------------ MODULE Partition ------------------------------
(***************************************************************************)
(* The arithmetic with which the runtime cuts an operation on a vector     *)
(* into one range per worker and a range into batches:                     *)
(* getThreadBatchBoundaries and makeBatchSizeDivisibleBy of                *)
(* backend/common/runtime.h, compute_equal_batches of                      *)
(* backend/common/task.h.  A batch size b > 0 is a number of elements,     *)
(* b < 0 asks for -b equal batches per thread.                             *)
(***************************************************************************)
EXTENDS Integers

CONSTANTS
    NumThreads,         \* num_threads
    MINIMUM_CHUNK_SIZE  \* 256 in the code

ASSUME NumThreadsAssumption == NumThreads \in Nat \ {0}
ASSUME ChunkAssumption == MINIMUM_CHUNK_SIZE \in Nat \ {0}

Threads == 0 .. NumThreads - 1

LesserOf(a, b) == IF a <= b THEN a ELSE b
Magnitude(b) == IF b < 0 THEN -b ELSE b
CeilDiv(a, b) == (a + b - 1) \div b

\* Mutant of compute_equal_batches: chunks per batch are rounded down.
compute_equal_batches_Floor(length, batches_num) ==
    (CeilDiv(length, MINIMUM_CHUNK_SIZE) \div Magnitude(batches_num))
        * MINIMUM_CHUNK_SIZE

(* compute_equal_batches, for a range of the given length.                 *)
compute_equal_batches(length, batches_num) ==
    CeilDiv(CeilDiv(length, MINIMUM_CHUNK_SIZE), Magnitude(batches_num))
        * MINIMUM_CHUNK_SIZE

-----------------------------------------------------------------------------
(* getThreadBatchBoundaries.  The unit of distribution is the batch size,  *)
(* or the minimum chunk when equal division is asked for.                  *)
BoundaryUnit(batch) == IF batch < 0 THEN MINIMUM_CHUNK_SIZE ELSE batch

(* Whole units are dealt out evenly; while some remain, the first threads  *)
(* take one more.                                                          *)
ThreadStart(total, unit, t) ==
    LET whole == total \div unit
        batches_per_thread == whole \div NumThreads
        remaining_batches == whole % NumThreads
    IN (t * batches_per_thread + LesserOf(t, remaining_batches)) * unit

\* Mutant of ThreadEnd: every thread takes the partial batch.
ThreadEnd_PartialEach(total, unit, t) ==
    ThreadStart(total, unit, t + 1) + (total % unit)

(* The last thread also takes the partial batch.                           *)
ThreadEnd(total, unit, t) ==
    LET partial_batch == total % unit
    IN IF t = NumThreads - 1
         THEN ThreadStart(total, unit, t + 1) + partial_batch
         ELSE ThreadStart(total, unit, t + 1)

-----------------------------------------------------------------------------
(* makeBatchSizeDivisibleBy: the batch size an operation runs with whose   *)
(* ranges must not split a group of divisor elements.  total - 1 is        *)
(* computed in size_t; for an empty operand it and the sum after it wrap   *)
(* around, which leaves no chunk at all.                                   *)
EqualBatchesOf(total, batch) ==
    IF total = 0 THEN 0
    ELSE compute_equal_batches(total - 1, Magnitude(batch) * NumThreads)

\* Mutant of makeBatchSizeDivisibleBy: the batch size is not rounded up.
makeBatchSizeDivisibleBy_Plain(total, divisor, batch) ==
    IF batch < 0 THEN EqualBatchesOf(total, batch) ELSE batch

makeBatchSizeDivisibleBy(total, divisor, batch) ==
    LET b == IF batch < 0 THEN EqualBatchesOf(total, batch) ELSE batch
    IN IF b % divisor = 0 THEN b ELSE b + (divisor - (b % divisor))

-----------------------------------------------------------------------------
(* evaluate_oprf splits its input with a batch size of its own, so that    *)
(* every thread gets at most one chunk.                                    *)
OprfUnit(length) == IF length = 0 THEN 1 ELSE CeilDiv(length, NumThreads)
=============================================================================
