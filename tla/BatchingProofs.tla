--------------------------- MODULE BatchingProofs ---------------------------
(***************************************************************************)
(* Proofs about Batching, for every number of threads, every chunk size    *)
(* and all lengths, batch sizes and group sizes: the ranges the threads    *)
(* are given tile the operand, every element is processed exactly once,    *)
(* no group is split, and a thread runs no more batches than was asked     *)
(* for.                                                                    *)
(***************************************************************************)
EXTENDS Batching, ModLemmas

-----------------------------------------------------------------------------
(* How many units the threads before t are given.                          *)
UnitsBefore(n, unit, t) ==
    t * ((n \div unit) \div NumThreads) + LesserOf(t, (n \div unit) % NumThreads)

(* Thread t + 1 never starts before thread t, the first thread starts at   *)
(* 0, and the units before the end are all the whole units.                *)
LEMMA UnitsDealtOut ==
    ASSUME NEW n \in Nat, NEW unit \in Nat, unit > 0
    PROVE  /\ \A t \in 0 .. NumThreads : UnitsBefore(n, unit, t) \in Nat
           /\ \A t, u \in 0 .. NumThreads :
                 t <= u => UnitsBefore(n, unit, t) <= UnitsBefore(n, unit, u)
           /\ UnitsBefore(n, unit, 0) = 0
           /\ UnitsBefore(n, unit, NumThreads) = n \div unit
<1> DEFINE W == n \div unit
           b == W \div NumThreads
           r == W % NumThreads
<1>1. W \in Nat
  BY DivNat
<1>2. NumThreads \in Nat /\ NumThreads > 0
  BY NumThreadsAssumption
<1>3. b \in Nat /\ r \in 0 .. NumThreads - 1 /\ W = NumThreads * b + r
  BY <1>1, <1>2, DivNat, DivMod
<1>4. \A t : UnitsBefore(n, unit, t) = t * b + LesserOf(t, r)
  BY DEF UnitsBefore
<1> HIDE DEF W, b, r
<1>5. \A t \in 0 .. NumThreads : t * b \in Nat /\ LesserOf(t, r) \in Nat
  BY <1>2, <1>3 DEF LesserOf
<1>6. \A t \in 0 .. NumThreads : UnitsBefore(n, unit, t) \in Nat
  BY <1>4, <1>5
<1>7. ASSUME NEW t \in 0 .. NumThreads, NEW u \in 0 .. NumThreads, t <= u
      PROVE  UnitsBefore(n, unit, t) <= UnitsBefore(n, unit, u)
  <2>1. t * b <= u * b
    BY <1>2, <1>3, <1>7, MulMono
  <2>2. LesserOf(t, r) <= LesserOf(u, r)
    BY <1>2, <1>3, <1>7 DEF LesserOf
  <2>3. QED
    BY <1>4, <1>5, <2>1, <2>2
<1>8. UnitsBefore(n, unit, 0) = 0
  BY <1>3, <1>4 DEF LesserOf
<1>9. UnitsBefore(n, unit, NumThreads) = W
  BY <1>2, <1>3, <1>4 DEF LesserOf
<1>10. QED
  BY <1>6, <1>7, <1>8, <1>9 DEF W

(* The same for the elements.                                              *)
LEMMA ThreadStarts ==
    ASSUME NEW n \in Nat, NEW unit \in Nat, unit > 0
    PROVE  /\ \A t \in 0 .. NumThreads :
                 /\ ThreadStart(n, unit, t) \in Nat
                 /\ ThreadStart(n, unit, t) = UnitsBefore(n, unit, t) * unit
           /\ \A t, u \in 0 .. NumThreads :
                 t <= u => ThreadStart(n, unit, t) <= ThreadStart(n, unit, u)
           /\ ThreadStart(n, unit, 0) = 0
           /\ ThreadStart(n, unit, NumThreads) + (n % unit) = n
           /\ n % unit \in Nat
<1>1. \A t : ThreadStart(n, unit, t) = UnitsBefore(n, unit, t) * unit
  BY DEF ThreadStart, UnitsBefore
<1>2. \A t \in 0 .. NumThreads : ThreadStart(n, unit, t) \in Nat
  BY <1>1, UnitsDealtOut
<1>3. ASSUME NEW t \in 0 .. NumThreads, NEW u \in 0 .. NumThreads, t <= u
      PROVE  ThreadStart(n, unit, t) <= ThreadStart(n, unit, u)
  <2>1. /\ UnitsBefore(n, unit, t) \in Int /\ UnitsBefore(n, unit, u) \in Int
        /\ UnitsBefore(n, unit, t) <= UnitsBefore(n, unit, u)
    BY <1>3, UnitsDealtOut
  <2>2. UnitsBefore(n, unit, t) * unit <= UnitsBefore(n, unit, u) * unit
    BY <2>1, MulMono
  <2>3. QED
    BY <1>1, <2>2
<1>4. ThreadStart(n, unit, 0) = 0
  BY <1>1, UnitsDealtOut
<1>5. ThreadStart(n, unit, NumThreads) = (n \div unit) * unit
  BY <1>1, UnitsDealtOut
<1>6. n \div unit \in Nat /\ n % unit \in 0 .. unit - 1 /\ n = unit * (n \div unit) + (n % unit)
  BY DivMod, DivNat
<1>7. ThreadStart(n, unit, NumThreads) + (n % unit) = n /\ n % unit \in Nat
  BY <1>5, <1>6
<1>8. QED
  BY <1>1, <1>2, <1>3, <1>4, <1>7

(* A family of ranges tiles 0 .. n - 1: the ranges lie in it, every        *)
(* element is in one of them, and no two of them overlap.                  *)
Tiles(n, startOf, endOf) ==
    /\ \A t \in Threads : startOf[t] <= endOf[t] /\ endOf[t] <= n
    /\ \A x \in 0 .. n - 1 : \E t \in Threads : startOf[t] <= x /\ x < endOf[t]
    /\ \A t, u \in Threads : t = u \/ endOf[t] <= startOf[u] \/ endOf[u] <= startOf[t]

Starts(n, unit) == [t \in Threads |-> ThreadStart(n, unit, t)]
Ends(n, unit) == [t \in Threads |-> ThreadEnd(n, unit, t)]

(* The ranges of getThreadBatchBoundaries tile the vector.                 *)
THEOREM RangesTile ==
    ASSUME NEW n \in Nat, NEW unit \in Nat, unit > 0
    PROVE  /\ Starts(n, unit) \in [Threads -> Nat]
           /\ Ends(n, unit) \in [Threads -> Nat]
           /\ Tiles(n, Starts(n, unit), Ends(n, unit))
<1> DEFINE S(t) == ThreadStart(n, unit, t)
           E(t) == ThreadEnd(n, unit, t)
           p == n % unit
<1>1. NumThreads \in Nat /\ NumThreads > 0
  BY NumThreadsAssumption
<1>2. /\ \A t \in 0 .. NumThreads : S(t) \in Nat
      /\ \A t, u \in 0 .. NumThreads : t <= u => S(t) <= S(u)
      /\ S(0) = 0 /\ S(NumThreads) + p = n /\ p \in Nat
  BY ThreadStarts
<1>3. \A t \in Threads : E(t) = IF t = NumThreads - 1 THEN S(t + 1) + p ELSE S(t + 1)
  BY DEF ThreadEnd
<1>4. \A t \in Threads : /\ t \in 0 .. NumThreads /\ t + 1 \in 0 .. NumThreads
                         /\ t <= t + 1 /\ t + 1 <= NumThreads
                         /\ t = NumThreads - 1 => t + 1 = NumThreads
  BY <1>1 DEF Threads
<1>5. NumThreads \in 0 .. NumThreads /\ NumThreads - 1 \in Threads /\ NumThreads - 1 + 1 = NumThreads
  BY <1>1 DEF Threads
<1> HIDE DEF S, E, p
<1>6. ASSUME NEW t \in Threads
      PROVE  S(t) \in Nat /\ E(t) \in Nat /\ S(t + 1) \in Nat /\ S(t) <= E(t) /\ E(t) <= n
  <2>1. S(t) \in Nat /\ S(t + 1) \in Nat /\ S(t) <= S(t + 1) /\ S(t + 1) <= S(NumThreads)
    BY <1>2, <1>4, <1>5
  <2>2. S(NumThreads) \in Nat
    BY <1>2, <1>5
  <2>3. CASE t = NumThreads - 1
    BY <2>1, <2>2, <2>3, <1>2, <1>3, <1>5
  <2>4. CASE t # NumThreads - 1
    BY <2>1, <2>2, <2>4, <1>2, <1>3
  <2>5. QED
    BY <2>3, <2>4
<1>7. ASSUME NEW x \in 0 .. n - 1
      PROVE  \E t \in Threads : S(t) <= x /\ x < E(t)
  <2> DEFINE After == {t \in Threads : x < E(t)}
  <2>1. E(NumThreads - 1) = n
    BY <1>2, <1>3, <1>5
  <2>2. NumThreads - 1 \in After /\ After \in SUBSET Nat
    BY <2>1, <1>1, <1>5, <1>7 DEF Threads
  <2> HIDE DEF After
  <2>3. PICK t \in After : \A u \in After : t <= u
    BY <2>2, LeastNumber
  <2>4. t \in Threads /\ x < E(t)
    BY DEF After
  <2>5. CASE t = 0
    BY <2>4, <2>5, <1>2, <1>7
  <2>6. CASE t # 0
    <3>1. t - 1 \in Threads /\ t - 1 # NumThreads - 1 /\ t - 1 + 1 = t
      BY <2>4, <2>6, <1>1 DEF Threads
    <3>2. t - 1 \notin After
      BY <2>3, <2>2, <3>1
    <3>3. E(t - 1) = S(t)
      BY <1>3, <3>1
    <3>4. S(t) \in Nat /\ x \in Nat
      BY <1>6, <1>7, <2>4
    <3>5. S(t) <= x
      BY <3>1, <3>2, <3>3, <3>4 DEF After
    <3>6. QED
      BY <2>4, <3>5
  <2>7. QED
    BY <2>5, <2>6
<1>8. ASSUME NEW t \in Threads, NEW u \in Threads, t < u
      PROVE  E(t) <= S(u)
  <2>1. t # NumThreads - 1 /\ t + 1 \in 0 .. NumThreads /\ u \in 0 .. NumThreads /\ t + 1 <= u
    BY <1>1, <1>8 DEF Threads
  <2>2. QED
    BY <2>1, <1>2, <1>3
<1>9. \A t, u \in Threads : t = u \/ t < u \/ u < t
  BY <1>1 DEF Threads
<1>10. /\ \A t \in Threads : Starts(n, unit)[t] = S(t) /\ Ends(n, unit)[t] = E(t)
       /\ Starts(n, unit) = [t \in Threads |-> S(t)]
       /\ Ends(n, unit) = [t \in Threads |-> E(t)]
  BY DEF Starts, Ends, S, E
<1>11. Starts(n, unit) \in [Threads -> Nat] /\ Ends(n, unit) \in [Threads -> Nat]
  BY <1>6, <1>10
<1>12. QED
  BY <1>6, <1>7, <1>8, <1>9, <1>10, <1>11 DEF Tiles

-----------------------------------------------------------------------------
(* Equal division: the batches asked for cover the range.                  *)
LEMMA EqualBatchesCover ==
    ASSUME NEW len \in Nat, NEW b \in Int \ {0}
    PROVE  /\ compute_equal_batches(len, b) \in Nat
           /\ Magnitude(b) \in Nat \ {0}
           /\ len <= Magnitude(b) * compute_equal_batches(len, b)
<1> DEFINE C == MINIMUM_CHUNK_SIZE
           M == Magnitude(b)
           c == CeilDiv(len, C)
           e == CeilDiv(c, M)
<1>1. C \in Nat /\ C > 0 /\ M \in Nat /\ M > 0
  BY ChunkAssumption DEF Magnitude
<1>2. compute_equal_batches(len, b) = e * C
  BY DEF compute_equal_batches
<1> HIDE DEF C, M
<1>3. c \in Nat /\ len <= C * c
  BY <1>1, RoundedUp DEF CeilDiv
<1> HIDE DEF c
<1>4. e \in Nat /\ c <= M * e
  BY <1>1, <1>3, RoundedUp DEF CeilDiv
<1> HIDE DEF e
<1>5. C * c <= C * (M * e)
  BY <1>1, <1>3, <1>4, MulMono
<1>6. C * (M * e) = M * (e * C)
  BY <1>1, <1>4
<1>7. e * C \in Nat
  BY <1>1, <1>4
<1>8. len <= M * (e * C)
  BY <1>1, <1>3, <1>4, <1>5, <1>6
<1>9. QED
  BY <1>1, <1>2, <1>7, <1>8 DEF M

(* The units in which ranges are dealt out are not empty.                  *)
LEMMA UnitsPositive ==
    /\ \A b \in Int \ {0} : BoundaryUnit(b) \in Nat /\ BoundaryUnit(b) > 0
    /\ \A n \in Nat : OprfUnit(n) \in Int \ {0}
<1>1. \A b \in Int \ {0} : BoundaryUnit(b) \in Nat /\ BoundaryUnit(b) > 0
  BY ChunkAssumption DEF BoundaryUnit
<1>2. ASSUME NEW n \in Nat PROVE OprfUnit(n) \in Int \ {0}
  <2>1. CASE n = 0
    BY <2>1 DEF OprfUnit
  <2>2. CASE n # 0
    <3>1. (n + NumThreads - 1) \div NumThreads \in Nat
          /\ (n + NumThreads - 1) \div NumThreads > 0
      BY <2>2, NumThreadsAssumption, RoundedUp
    <3>2. QED
      BY <2>2, <3>1 DEF OprfUnit, CeilDiv
  <2>3. QED
    BY <2>1, <2>2
<1>3. QED
  BY <1>1, <1>2

(* The adjusted batch size is a number of whole groups.                    *)
LEMMA AdjustedBatchSize ==
    ASSUME NEW n \in Nat, NEW d \in Nat \ {0}, NEW b \in Int \ {0}
    PROVE  /\ makeBatchSizeDivisibleBy(n, d, b) \in Nat
           /\ makeBatchSizeDivisibleBy(n, d, b) % d = 0
<1> DEFINE a == IF b < 0 THEN EqualBatchesOf(n, b) ELSE b
<1>1. a \in Nat
  <2>1. CASE b < 0 /\ n > 0
    <3>1. n - 1 \in Nat /\ Magnitude(b) * NumThreads \in Int \ {0}
      <4>1. Magnitude(b) \in Nat /\ Magnitude(b) > 0 /\ NumThreads \in Nat /\ NumThreads > 0
        BY NumThreadsAssumption DEF Magnitude
      <4>2. ASSUME NEW x \in Nat, NEW y \in Nat, x > 0, y > 0 PROVE x * y \in Int \ {0}
        <5>1. 1 * y <= x * y
          BY <4>2, MulMono
        <5>2. QED
          BY <4>2, <5>1
      <4>3. QED
        BY <2>1, <4>1, <4>2
    <3>2. compute_equal_batches(n - 1, Magnitude(b) * NumThreads) \in Nat
      BY <3>1, EqualBatchesCover
    <3>3. QED
      BY <2>1, <3>2 DEF EqualBatchesOf
  <2>2. CASE b < 0 /\ n = 0
    BY <2>2 DEF EqualBatchesOf
  <2>3. CASE ~(b < 0)
    BY <2>3
  <2>4. QED
    BY <2>1, <2>2, <2>3
<1>2. makeBatchSizeDivisibleBy(n, d, b) = IF a % d = 0 THEN a ELSE a + (d - (a % d))
  BY DEF makeBatchSizeDivisibleBy
<1> HIDE DEF a
<1>3. a % d \in 0 .. d - 1 /\ a \div d \in Nat /\ a = d * (a \div d) + (a % d)
  BY <1>1, DivMod, DivNat
<1>4. CASE a % d = 0
  BY <1>1, <1>2, <1>4
<1>5. CASE a % d # 0
  <2>1. a + (d - (a % d)) \in Nat
    BY <1>1, <1>3
  <2>2. a + (d - (a % d)) = d * ((a \div d) + 1) + 0
    BY <1>1, <1>3
  <2>3. (d * ((a \div d) + 1) + 0) % d = 0
    <3>1. (a \div d) + 1 \in Int /\ 0 \in 0 .. d - 1 /\ d \in Nat /\ d > 0
      BY <1>3
    <3>2. QED
      BY <3>1, DivModUnique
  <2>4. QED
    BY <1>2, <1>5, <2>1, <2>2, <2>3
<1>6. QED
  BY <1>4, <1>5

(* Dealt out in whole groups, an operand of whole groups is cut between    *)
(* groups.                                                                 *)
LEMMA RangesKeepGroups ==
    ASSUME NEW n \in Nat, NEW unit \in Nat, unit > 0, NEW d \in Nat, d > 0,
           n % d = 0, unit % d = 0, NEW t \in Threads
    PROVE  ThreadStart(n, unit, t) % d = 0 /\ ThreadEnd(n, unit, t) % d = 0
<1>1. NumThreads \in Nat /\ t \in 0 .. NumThreads /\ t + 1 \in 0 .. NumThreads
  BY NumThreadsAssumption DEF Threads
<1>2. ASSUME NEW u \in 0 .. NumThreads
      PROVE  ThreadStart(n, unit, u) \in Nat /\ ThreadStart(n, unit, u) % d = 0
  <2>1. ThreadStart(n, unit, u) = UnitsBefore(n, unit, u) * unit /\ UnitsBefore(n, unit, u) \in Nat
        /\ ThreadStart(n, unit, u) \in Nat
    BY ThreadStarts, UnitsDealtOut
  <2>2. (UnitsBefore(n, unit, u) * unit) % d = 0
    BY <2>1, MultipleProduct
  <2>3. QED
    BY <2>1, <2>2
<1>3. n % unit \in Nat /\ (n % unit) % d = 0
  <2> DEFINE q == n \div unit
             r == n % unit
             k == n \div d
             m == unit \div d
  <2>1. q \in Nat /\ r \in 0 .. unit - 1 /\ n = unit * q + r
    BY DivMod, DivNat
  <2>2. k \in Int /\ n = d * k
    BY DivMod
  <2>3. m \in Int /\ unit = d * m
    BY DivMod
  <2> HIDE DEF q, r, k, m
  <2>4. r = d * (k - m * q) + 0
    <3>1. (d * m) * q = d * (m * q) /\ d * (k - m * q) = d * k - d * (m * q)
      BY <2>1, <2>2, <2>3
    <3>2. QED
      BY <2>1, <2>2, <2>3, <3>1
  <2>5. k - m * q \in Int /\ 0 \in 0 .. d - 1
    BY <2>1, <2>2, <2>3
  <2>6. r % d = 0
    BY <2>4, <2>5, DivModUnique
  <2>7. QED
    BY <2>1, <2>6 DEF r
<1>4. (ThreadStart(n, unit, t + 1) + (n % unit)) % d = 0
  BY <1>1, <1>2, <1>3, MultipleSum
<1>5. QED
  BY <1>1, <1>2, <1>4 DEF ThreadEnd

-----------------------------------------------------------------------------
(* The inductive invariant.  The tasks' ranges tile the operand;           *)
RangesInv ==
    Tiles(total, [t \in Threads |-> tasks[t].start], [t \in Threads |-> tasks[t].end])

(* an element of a task's range has been processed once if the task's loop *)
(* has passed it, and not at all otherwise;                                *)
ProgressInv ==
    /\ \A t \in Threads : tasks[t].start <= next[t]
    /\ \A t \in Threads : \A x \in 0 .. total - 1 :
          tasks[t].start <= x /\ x < tasks[t].end => hits[x] = IF x < next[t] THEN 1 ELSE 0
    /\ state = "returned" => \A t \in Threads : tasks[t].end <= next[t]

(* ranges, batches and loops move in whole groups;                         *)
GroupsInv ==
    \A t \in Threads :
        tasks[t].end % divisor = 0 /\ tasks[t].batch % divisor = 0 /\ next[t] % divisor = 0

(* the loop's position tells how many batches have run, the last of them   *)
(* began inside the range, and the batches asked for cover the range.      *)
CountsInv ==
    \A t \in Threads :
        /\ next[t] = tasks[t].start + batches[t] * tasks[t].batch
        /\ batches[t] > 0 => (batches[t] - 1) * tasks[t].batch < tasks[t].end - tasks[t].start
        /\ kind = "elementwise" /\ batch_size < 0 =>
              tasks[t].end - tasks[t].start <= (-batch_size) * tasks[t].batch
        /\ kind = "whole" => tasks[t].batch = tasks[t].end - tasks[t].start

BatchingInv == TypeOK /\ RangesInv /\ ProgressInv /\ GroupsInv /\ CountsInv

(* The tasks of a call are well-formed.                                    *)
LEMMA TasksWellFormed ==
    ASSUME NEW n \in Nat, NEW unit \in Nat, unit > 0, NEW batchOf \in [Threads -> Int]
    PROVE  /\ TasksOf(n, unit, batchOf) \in [Threads -> [start : Nat, end : Nat, batch : Nat]]
           /\ \A t \in Threads :
                 LET task == TasksOf(n, unit, batchOf)[t]
                     len == ThreadEnd(n, unit, t) - ThreadStart(n, unit, t)
                 IN /\ task.start = ThreadStart(n, unit, t)
                    /\ task.end = ThreadEnd(n, unit, t)
                    /\ len \in Nat
                    /\ task.batch = IF batchOf[t] < 0 THEN compute_equal_batches(len, batchOf[t])
                                                      ELSE batchOf[t]
<1> DEFINE len(t) == ThreadEnd(n, unit, t) - ThreadStart(n, unit, t)
           size(t) == IF batchOf[t] < 0 THEN compute_equal_batches(len(t), batchOf[t])
                                        ELSE batchOf[t]
           R(t) == [start |-> ThreadStart(n, unit, t), end |-> ThreadEnd(n, unit, t), batch |-> size(t)]
<1>1. ASSUME NEW t \in Threads
      PROVE  ThreadStart(n, unit, t) \in Nat /\ ThreadEnd(n, unit, t) \in Nat /\ len(t) \in Nat
  <2>1. /\ Starts(n, unit)[t] \in Nat /\ Ends(n, unit)[t] \in Nat
        /\ Starts(n, unit)[t] <= Ends(n, unit)[t]
    BY RangesTile DEF Tiles
  <2>2. Starts(n, unit)[t] = ThreadStart(n, unit, t) /\ Ends(n, unit)[t] = ThreadEnd(n, unit, t)
    BY DEF Starts, Ends
  <2>3. QED
    BY <2>1, <2>2
<1>2. ASSUME NEW t \in Threads PROVE size(t) \in Nat
  <2>1. CASE batchOf[t] < 0
    <3>1. batchOf[t] \in Int \ {0} /\ len(t) \in Nat
      BY <1>1, <2>1
    <3>2. compute_equal_batches(len(t), batchOf[t]) \in Nat
      BY <3>1, EqualBatchesCover
    <3>3. QED
      BY <2>1, <3>2
  <2>2. CASE ~(batchOf[t] < 0)
    BY <2>2
  <2>3. QED
    BY <2>1, <2>2
<1>3. TasksOf(n, unit, batchOf) = [t \in Threads |-> R(t)]
  BY DEF TasksOf, Task
<1> HIDE DEF len, size
<1>4. \A t \in Threads : R(t) \in [start : Nat, end : Nat, batch : Nat]
  BY <1>1, <1>2
<1>5. \A t \in Threads : TasksOf(n, unit, batchOf)[t] = R(t)
  BY <1>3
<1>6. TasksOf(n, unit, batchOf) \in [Threads -> [start : Nat, end : Nat, batch : Nat]]
  BY <1>3, <1>4
<1>7. ASSUME NEW t \in Threads
      PROVE  LET task == TasksOf(n, unit, batchOf)[t]
             IN /\ task.start = ThreadStart(n, unit, t)
                /\ task.end = ThreadEnd(n, unit, t)
                /\ len(t) \in Nat
                /\ task.batch = size(t)
  <2>1. TasksOf(n, unit, batchOf)[t] = R(t)
    BY <1>5
  <2>2. R(t).start = ThreadStart(n, unit, t) /\ R(t).end = ThreadEnd(n, unit, t) /\ R(t).batch = size(t)
    OBVIOUS
  <2> HIDE DEF R
  <2>3. QED
    BY <1>1, <2>1, <2>2
<1>8. QED
  BY <1>6, <1>7 DEF len, size

(* Every call starts with the invariant.                                   *)
LEMMA BeginEstablishes ==
    ASSUME BatchingInv, NEW n \in Nat, NEW unit \in Nat, unit > 0,
           NEW d \in Nat \ {0}, n % d = 0, unit % d = 0,
           NEW batchOf \in [Threads -> Int],
           NEW k \in {"elementwise", "whole", "grouped"},
           Begin(k, n, d, TasksOf(n, unit, batchOf)),
           \A t \in Threads : TasksOf(n, unit, batchOf)[t].batch % d = 0,
           \A t \in Threads :
              LET task == TasksOf(n, unit, batchOf)[t]
              IN /\ k = "elementwise" /\ batch_size < 0 =>
                       task.end - task.start <= (-batch_size) * task.batch
                 /\ k = "whole" => task.batch = task.end - task.start
    PROVE  BatchingInv'
<1> DEFINE T == TasksOf(n, unit, batchOf)
<1>1. /\ T \in [Threads -> [start : Nat, end : Nat, batch : Nat]]
      /\ \A t \in Threads : T[t].start = ThreadStart(n, unit, t) /\ T[t].end = ThreadEnd(n, unit, t)
  BY TasksWellFormed
<1>2. /\ state' = "running" /\ kind' = k /\ total' = n /\ divisor' = d /\ tasks' = T
      /\ next' = [t \in Threads |-> T[t].start]
      /\ batches' = [t \in Threads |-> 0]
      /\ hits' = [x \in 0 .. n - 1 |-> 0]
      /\ batch_size' = batch_size
  BY DEF Begin
<1>3. \A t \in Threads :
         /\ T[t].batch % d = 0
         /\ k = "elementwise" /\ batch_size < 0 =>
               T[t].end - T[t].start <= (-batch_size) * T[t].batch
         /\ k = "whole" => T[t].batch = T[t].end - T[t].start
  OBVIOUS
<1> HIDE DEF T
<1>4. batch_size \in BatchSizes
  BY DEF BatchingInv, TypeOK
<1>5. \A t \in Threads : T[t].start \in Nat /\ T[t].end \in Nat /\ T[t].batch \in Nat
  BY <1>1
<1>6. TypeOK'
  BY <1>1, <1>2, <1>4, <1>5 DEF TypeOK
<1>7. RangesInv'
  <2>1. /\ [t \in Threads |-> T[t].start] = Starts(n, unit)
        /\ [t \in Threads |-> T[t].end] = Ends(n, unit)
    BY <1>1 DEF Starts, Ends
  <2>2. Tiles(n, Starts(n, unit), Ends(n, unit))
    BY RangesTile
  <2>3. QED
    BY <1>2, <2>1, <2>2 DEF RangesInv
<1>8. ProgressInv'
  BY <1>2, <1>5 DEF ProgressInv
<1>9. GroupsInv'
  <2>1. \A t \in Threads : T[t].start % d = 0 /\ T[t].end % d = 0
    BY <1>1, RangesKeepGroups
  <2>2. \A t \in Threads : tasks'[t] = T[t] /\ next'[t] = T[t].start
    BY <1>2
  <2>3. ASSUME NEW t \in Threads
        PROVE  tasks'[t].end % divisor' = 0 /\ tasks'[t].batch % divisor' = 0 /\ next'[t] % divisor' = 0
    <3>1. divisor' = d /\ tasks'[t] = T[t] /\ next'[t] = T[t].start
      BY <1>2, <2>2
    <3>2. T[t].start % d = 0 /\ T[t].end % d = 0 /\ T[t].batch % d = 0
      BY <1>3, <2>1, Zenon
    <3>3. QED
      BY <3>1, <3>2, Zenon
  <2>4. QED
    BY <2>3 DEF GroupsInv
<1>10. CountsInv'
  <2>1. \A t \in Threads : T[t].start = T[t].start + 0 * T[t].batch
    BY <1>5
  <2>2. \A t \in Threads : tasks'[t] = T[t] /\ next'[t] = T[t].start /\ batches'[t] = 0
    BY <1>2
  <2>3. ASSUME NEW t \in Threads
        PROVE  /\ next'[t] = tasks'[t].start + batches'[t] * tasks'[t].batch
               /\ ~(batches'[t] > 0)
               /\ kind' = "elementwise" /\ batch_size' < 0 =>
                     tasks'[t].end - tasks'[t].start <= (-batch_size') * tasks'[t].batch
               /\ kind' = "whole" => tasks'[t].batch = tasks'[t].end - tasks'[t].start
    <3>1. tasks'[t] = T[t] /\ next'[t] = T[t].start /\ batches'[t] = 0 /\ kind' = k
          /\ batch_size' = batch_size
      BY <1>2, <2>2
    <3>2. next'[t] = tasks'[t].start + batches'[t] * tasks'[t].batch
      BY <2>1, <3>1, Zenon
    <3>3. ~(batches'[t] > 0)
      BY <3>1
    <3>4. /\ k = "elementwise" /\ batch_size < 0 =>
                T[t].end - T[t].start <= (-batch_size) * T[t].batch
          /\ k = "whole" => T[t].batch = T[t].end - T[t].start
      BY <1>3, Zenon
    <3>5. QED
      BY <3>1, <3>2, <3>3, <3>4, Zenon
  <2>4. QED
    BY <2>3 DEF CountsInv
<1>11. QED
  BY <1>6, <1>7, <1>8, <1>9, <1>10 DEF BatchingInv

(* No group is split when the groups have one element.                     *)
LEMMA ModOne == \A a \in Nat : a % 1 = 0
  OBVIOUS

LEMMA CallElementwiseKeeps ==
    ASSUME BatchingInv, NEW n \in Lengths, CallElementwise(n)
    PROVE  BatchingInv'
<1> DEFINE unit == BoundaryUnit(batch_size)
           batchOf == Same(batch_size)
<1>1. n \in Nat /\ batch_size \in Int \ {0}
  BY LengthsAssumption, BatchSizesAssumption DEF BatchingInv, TypeOK
<1>2. unit \in Nat /\ unit > 0 /\ batchOf \in [Threads -> Int]
      /\ \A t \in Threads : batchOf[t] = batch_size
  BY <1>1, UnitsPositive DEF Same
<1>3. Begin("elementwise", n, 1, TasksOf(n, unit, batchOf))
  BY DEF CallElementwise
<1> HIDE DEF unit, batchOf
<1>4. ASSUME NEW t \in Threads
      PROVE  LET task == TasksOf(n, unit, batchOf)[t]
             IN /\ task.batch % 1 = 0
                /\ batch_size < 0 => task.end - task.start <= (-batch_size) * task.batch
  <2> DEFINE task == TasksOf(n, unit, batchOf)[t]
  <2>1. task.batch \in Nat /\ task.end - task.start \in Nat
        /\ task.batch = IF batchOf[t] < 0 THEN compute_equal_batches(task.end - task.start, batchOf[t])
                                         ELSE batchOf[t]
    BY <1>1, <1>2, TasksWellFormed
  <2> HIDE DEF task
  <2>2. task.batch % 1 = 0
    BY <2>1, ModOne
  <2>3. ASSUME batch_size < 0 PROVE task.end - task.start <= (-batch_size) * task.batch
    <3>1. Magnitude(batch_size) = -batch_size
      BY <1>1, <2>3 DEF Magnitude
    <3>2. task.batch = compute_equal_batches(task.end - task.start, batch_size)
      BY <1>2, <2>1, <2>3
    <3>3. QED
      BY <1>1, <2>1, <3>1, <3>2, EqualBatchesCover
  <2>4. QED
    BY <2>2, <2>3 DEF task
<1>5. n % 1 = 0 /\ unit % 1 = 0
  BY <1>1, <1>2, ModOne
<1>6. \A t \in Threads : TasksOf(n, unit, batchOf)[t].batch % 1 = 0
  BY <1>4
<1>7. \A t \in Threads :
        LET task == TasksOf(n, unit, batchOf)[t]
        IN /\ "elementwise" = "elementwise" /\ batch_size < 0 =>
                 task.end - task.start <= (-batch_size) * task.batch
           /\ "elementwise" = "whole" => task.batch = task.end - task.start
  BY <1>4
<1>8. QED
  BY <1>1, <1>2, <1>3, <1>5, <1>6, <1>7, BeginEstablishes

LEMMA CallWholeKeeps ==
    ASSUME BatchingInv, NEW n \in Lengths, NEW batch \in {1, -1, OprfUnit(n)}, CallWhole(n, batch)
    PROVE  BatchingInv'
<1> DEFINE unit == BoundaryUnit(batch)
           batchOf == WholeRange(n, unit)
<1>1. n \in Nat /\ batch \in Int \ {0}
  BY LengthsAssumption, UnitsPositive
<1>2. unit \in Nat /\ unit > 0
  BY <1>1, UnitsPositive
<1>3. Begin("whole", n, 1, TasksOf(n, unit, batchOf))
  BY DEF CallWhole
<1>4. \A t \in Threads : batchOf[t] = ThreadEnd(n, unit, t) - ThreadStart(n, unit, t)
  BY DEF WholeRange
<1>5. batchOf = [t \in Threads |-> ThreadEnd(n, unit, t) - ThreadStart(n, unit, t)]
  BY DEF WholeRange
<1> HIDE DEF unit, batchOf
<1>6. ASSUME NEW t \in Threads PROVE ThreadEnd(n, unit, t) - ThreadStart(n, unit, t) \in Nat
  <2>1. [u \in Threads |-> 0] \in [Threads -> Int]
    OBVIOUS
  <2>2. QED
    BY <1>1, <1>2, <2>1, TasksWellFormed
<1>7. batchOf \in [Threads -> Int]
  BY <1>5, <1>6
<1>8. ASSUME NEW t \in Threads
      PROVE  LET task == TasksOf(n, unit, batchOf)[t]
             IN /\ task.batch % 1 = 0
                /\ task.batch = task.end - task.start
  <2> DEFINE task == TasksOf(n, unit, batchOf)[t]
  <2>1. /\ task.start = ThreadStart(n, unit, t) /\ task.end = ThreadEnd(n, unit, t)
        /\ task.batch \in Nat
        /\ task.batch = IF batchOf[t] < 0
                          THEN compute_equal_batches(ThreadEnd(n, unit, t) - ThreadStart(n, unit, t), batchOf[t])
                          ELSE batchOf[t]
    BY <1>1, <1>2, <1>7, TasksWellFormed
  <2>2. ~(batchOf[t] < 0)
    BY <1>4, <1>6
  <2> HIDE DEF task
  <2>3. task.batch % 1 = 0
    BY <2>1, ModOne
  <2>4. task.batch = task.end - task.start
    BY <1>4, <2>1, <2>2
  <2>5. QED
    BY <2>3, <2>4 DEF task
<1>9. n % 1 = 0 /\ unit % 1 = 0
  BY <1>1, <1>2, ModOne
<1>10. QED
  BY <1>1, <1>2, <1>3, <1>7, <1>8, <1>9, BeginEstablishes

LEMMA CallGroupedKeeps ==
    ASSUME BatchingInv, NEW n \in GroupedLengths, NEW d \in Divisors, CallGrouped(n, d)
    PROVE  BatchingInv'
<1> DEFINE b == makeBatchSizeDivisibleBy(n, d, batch_size)
<1>1. n \in Nat /\ d \in Nat \ {0} /\ batch_size \in Int \ {0}
  BY GroupedLengthsAssumption, DivisorsAssumption, BatchSizesAssumption DEF BatchingInv, TypeOK
<1>2. b \in Nat /\ b % d = 0
  BY <1>1, AdjustedBatchSize
<1>3. /\ n % d = 0
      /\ IF b # 0 THEN Begin("grouped", n, d, TasksOf(n, b, Same(b)))
                  ELSE /\ state' = "crashed" /\ UNCHANGED <<callVars, next, batches, hits>>
  BY DEF CallGrouped
<1> HIDE DEF b
<1>4. CASE b # 0
  <2>1. b \in Nat /\ b > 0 /\ Same(b) \in [Threads -> Int] /\ \A t \in Threads : Same(b)[t] = b
    BY <1>2, <1>4 DEF Same
  <2>2. ASSUME NEW t \in Threads PROVE TasksOf(n, b, Same(b))[t].batch % d = 0
    <3>1. TasksOf(n, b, Same(b))[t].batch =
            IF Same(b)[t] < 0
              THEN compute_equal_batches(ThreadEnd(n, b, t) - ThreadStart(n, b, t), Same(b)[t])
              ELSE Same(b)[t]
      BY <1>1, <2>1, TasksWellFormed
    <3>2. TasksOf(n, b, Same(b))[t].batch = b
      BY <2>1, <3>1
    <3>3. QED
      BY <1>2, <3>2, Zenon
  <2>3. \A t \in Threads :
          LET task == TasksOf(n, b, Same(b))[t]
          IN /\ "grouped" = "elementwise" /\ batch_size < 0 =>
                   task.end - task.start <= (-batch_size) * task.batch
             /\ "grouped" = "whole" => task.batch = task.end - task.start
    OBVIOUS
  <2>4. QED
    BY <1>1, <1>2, <1>3, <1>4, <2>1, <2>2, <2>3, BeginEstablishes
<1>5. CASE b = 0
  BY <1>3, <1>5 DEF BatchingInv, TypeOK, RangesInv, ProgressInv, GroupsInv, CountsInv, callVars
<1>6. QED
  BY <1>4, <1>5

(* One batch: the elements it touches belong to its own task's range, and  *)
(* its task's loop had not passed them.                                    *)
LEMMA BatchKeeps ==
    ASSUME BatchingInv, NEW t \in Threads, Batch(t)
    PROVE  BatchingInv'
<1> DEFINE i == next[t]
           B == tasks[t].batch
           E == tasks[t].end
           S == tasks[t].start
           end_ == LesserOf(i + B, E)
<1>1. /\ TypeOK /\ RangesInv /\ ProgressInv /\ GroupsInv /\ CountsInv
  BY DEF BatchingInv
<1>2. /\ i < E /\ state = "running" /\ state' = state
      /\ hits' = [x \in DOMAIN hits |-> IF i <= x /\ x < end_ THEN hits[x] + 1 ELSE hits[x]]
      /\ next' = [next EXCEPT ![t] = i + B]
      /\ batches' = [batches EXCEPT ![t] = @ + 1]
      /\ batch_size' = batch_size /\ kind' = kind /\ total' = total /\ divisor' = divisor
      /\ tasks' = tasks
  BY DEF Batch, callVars
<1>3. /\ \A u \in Threads :
            /\ tasks[u].start \in Nat /\ tasks[u].end \in Nat /\ tasks[u].batch \in Nat
            /\ next[u] \in Nat /\ batches[u] \in Nat
      /\ total \in Nat /\ divisor \in Nat \ {0}
      /\ DOMAIN hits = 0 .. total - 1 /\ \A x \in 0 .. total - 1 : hits[x] \in Nat
  BY <1>1 DEF TypeOK
<1>4. i \in Nat /\ B \in Nat /\ E \in Nat /\ S \in Nat
  BY <1>3
<1>5. /\ \A u \in Threads : next'[u] = IF u = t THEN i + B ELSE next[u]
      /\ \A u \in Threads : batches'[u] = IF u = t THEN batches[t] + 1 ELSE batches[u]
  BY <1>1, <1>2 DEF TypeOK
<1>6. TypeOK'
  <2>1. next' \in [Threads -> Nat] /\ batches' \in [Threads -> Nat]
    BY <1>1, <1>2, <1>4 DEF TypeOK
  <2>2. hits' \in [0 .. total - 1 -> Nat]
    BY <1>2, <1>3
  <2>3. QED
    BY <1>1, <1>2, <2>1, <2>2 DEF TypeOK
<1>7. RangesInv'
  BY <1>1, <1>2 DEF RangesInv
<1>8. \A u \in Threads : tasks[u].start <= next'[u]
  <2>1. \A u \in Threads : tasks[u].start <= next[u]
    BY <1>1 DEF ProgressInv
  <2>2. S <= i + B
    BY <1>4, <2>1
  <2>3. QED
    BY <1>5, <2>1, <2>2
<1>9. ASSUME NEW u \in Threads, NEW x \in 0 .. total - 1, tasks[u].start <= x, x < tasks[u].end
      PROVE  hits'[x] = IF x < next'[u] THEN 1 ELSE 0
  <2>1. hits[x] = IF x < next[u] THEN 1 ELSE 0
    BY <1>1, <1>9 DEF ProgressInv
  <2>2. hits'[x] = IF i <= x /\ x < end_ THEN hits[x] + 1 ELSE hits[x]
    BY <1>2, <1>3
  <2>3. x \in Nat
    BY <1>3
  <2>4. CASE u = t
    <3>1. x < E /\ next[u] = i /\ next'[u] = i + B
      BY <1>5, <1>9, <2>4
    <3>2. x < end_ <=> x < i + B
      BY <1>4, <2>3, <3>1 DEF LesserOf
    <3> HIDE DEF i, B, E, S, end_
    <3>3. QED
      BY <1>4, <2>1, <2>2, <2>3, <3>1, <3>2
  <2>5. CASE u # t
    <3>1. E <= tasks[u].start \/ tasks[u].end <= S
      BY <1>1, <2>5 DEF RangesInv, Tiles
    <3>2. S <= i
      BY <1>1 DEF ProgressInv
    <3>3. ~(i <= x /\ x < end_)
      BY <1>3, <1>4, <1>9, <2>3, <3>1, <3>2 DEF LesserOf
    <3>4. next'[u] = next[u]
      BY <1>5, <2>5
    <3>5. QED
      BY <2>1, <2>2, <3>3, <3>4
  <2>6. QED
    BY <2>4, <2>5
<1>10. ProgressInv'
  BY <1>2, <1>8, <1>9 DEF ProgressInv
<1>11. GroupsInv'
  <2>1. (i + B) % divisor = 0
    <3>1. i % divisor = 0 /\ B % divisor = 0 /\ divisor \in Nat /\ divisor > 0
      BY <1>1, <1>3 DEF GroupsInv
    <3> HIDE DEF i, B
    <3>2. QED
      BY <1>4, <3>1, MultipleSum
  <2>2. \A u \in Threads : next'[u] % divisor = 0
    <3>1. ASSUME NEW u \in Threads PROVE next'[u] % divisor = 0
      <4>1. CASE u = t
        <5>1. next'[u] = i + B
          BY <1>5, <4>1
        <5>2. QED
          BY <2>1, <5>1, Zenon
      <4>2. CASE u # t
        <5>1. next'[u] = next[u]
          BY <1>5, <4>2
        <5>2. next[u] % divisor = 0
          BY <1>1 DEF GroupsInv
        <5>3. QED
          BY <5>1, <5>2, Zenon
      <4>3. QED
        BY <4>1, <4>2
    <3>2. QED
      BY <3>1
  <2>3. \A u \in Threads : tasks[u].end % divisor = 0 /\ tasks[u].batch % divisor = 0
    BY <1>1 DEF GroupsInv
  <2>4. QED
    BY <1>2, <2>2, <2>3, Zenon DEF GroupsInv
<1>12. CountsInv'
  <2>1. /\ i = S + batches[t] * B /\ batches[t] \in Nat
    BY <1>1, <1>3 DEF CountsInv
  <2> DEFINE m == batches[t]
  <2>2. m \in Nat /\ i = S + m * B
    BY <2>1
  <2>3. i + B = S + (m + 1) * B /\ ((m + 1) - 1) * B < E - S
    <3> HIDE DEF m, i, B, S, E
    <3>1. (m + 1) * B = m * B + B /\ (m + 1) - 1 = m /\ m * B \in Nat
      BY <1>4, <2>2
    <3>2. QED
      BY <1>2, <1>4, <2>2, <3>1
  <2>4. ASSUME NEW u \in Threads
        PROVE  /\ next'[u] = tasks[u].start + batches'[u] * tasks[u].batch
               /\ batches'[u] > 0 =>
                     (batches'[u] - 1) * tasks[u].batch < tasks[u].end - tasks[u].start
    <3>1. CASE u = t
      <4>1. next'[u] = i + B /\ batches'[u] = m + 1
        BY <1>5, <3>1
      <4>2. QED
        BY <2>3, <3>1, <4>1, Zenon
    <3>2. CASE u # t
      <4>1. next'[u] = next[u] /\ batches'[u] = batches[u]
        BY <1>5, <3>2
      <4>2. /\ next[u] = tasks[u].start + batches[u] * tasks[u].batch
            /\ batches[u] > 0 => (batches[u] - 1) * tasks[u].batch < tasks[u].end - tasks[u].start
        BY <1>1, Zenon DEF CountsInv
      <4>3. QED
        BY <4>1, <4>2, Zenon
    <3>3. QED
      BY <3>1, <3>2
  <2>5. QED
    BY <1>1, <1>2, <2>4, Zenon DEF CountsInv
<1>13. QED
  BY <1>6, <1>7, <1>10, <1>11, <1>12 DEF BatchingInv

LEMMA BatchingInductive ==
    /\ Init => BatchingInv
    /\ BatchingInv /\ [Next]_vars => BatchingInv'
<1>1. ASSUME Init PROVE BatchingInv
  <2>1. TypeOK
    <3>1. hits = [x \in 0 .. total - 1 |-> 0]
      <4>1. 0 .. total - 1 = {}
        BY <1>1 DEF Init
      <4>2. QED
        BY <1>1, <4>1 DEF Init
    <3>2. hits \in [0 .. total - 1 -> Nat]
      BY <3>1
    <3>3. QED
      BY <1>1, <3>2 DEF Init, TypeOK
  <2>2. RangesInv /\ ProgressInv /\ CountsInv
    BY <1>1 DEF Init, RangesInv, Tiles, ProgressInv, CountsInv
  <2>3. GroupsInv
    <3>1. 0 % 1 = 0 /\ 1 % 1 = 0
      BY ModOne
    <3>2. QED
      BY <1>1, <3>1 DEF Init, GroupsInv
  <2>4. QED
    BY <2>1, <2>2, <2>3 DEF BatchingInv
<1>2. ASSUME BatchingInv, [Next]_vars PROVE BatchingInv'
  <2>1. CASE \E n \in Lengths : CallElementwise(n)
    BY <1>2, <2>1, CallElementwiseKeeps
  <2>2. CASE \E n \in Lengths : \E batch \in {1, -1, OprfUnit(n)} : CallWhole(n, batch)
    BY <1>2, <2>2, CallWholeKeeps
  <2>3. CASE \E n \in GroupedLengths, d \in Divisors : CallGrouped(n, d)
    BY <1>2, <2>3, CallGroupedKeeps
  <2>4. CASE \E t \in Threads : Batch(t)
    BY <1>2, <2>4, BatchKeeps
  <2>5. CASE Return
    BY <1>2, <2>5
    DEF Return, BatchingInv, TypeOK, RangesInv, ProgressInv, GroupsInv, CountsInv, callVars
  <2>6. CASE Proceed
    BY <1>2, <2>6
    DEF Proceed, BatchingInv, TypeOK, RangesInv, ProgressInv, GroupsInv, CountsInv, callVars
  <2>7. CASE UNCHANGED vars
    BY <1>2, <2>7
    DEF vars, BatchingInv, TypeOK, RangesInv, ProgressInv, GroupsInv, CountsInv, callVars
  <2>8. QED
    BY <1>2, <2>1, <2>2, <2>3, <2>4, <2>5, <2>6, <2>7 DEF Next
<1>3. QED
  BY <1>1, <1>2

-----------------------------------------------------------------------------
(* No element of an engine call is processed by two batches, and every     *)
(* element has been processed when execute_parallel and its siblings       *)
(* return.                                                                 *)
THEOREM ElementsProcessedOnce == Spec => []EachElementOnce
<1>1. BatchingInv => EachElementOnce
  <2> SUFFICES ASSUME BatchingInv PROVE EachElementOnce
    OBVIOUS
  <2>1. TypeOK /\ total \in Nat /\ DOMAIN hits = 0 .. total - 1
    BY DEF BatchingInv, TypeOK
  <2>2. ASSUME NEW x \in 0 .. total - 1
        PROVE  hits[x] <= 1 /\ (state = "returned" => hits[x] = 1)
    <3>1. PICK t \in Threads : tasks[t].start <= x /\ x < tasks[t].end
      BY DEF BatchingInv, RangesInv, Tiles
    <3>2. hits[x] = IF x < next[t] THEN 1 ELSE 0
      BY <3>1 DEF BatchingInv, ProgressInv
    <3>3. ASSUME state = "returned" PROVE x < next[t]
      <4>1. tasks[t].end <= next[t] /\ tasks[t].end \in Nat /\ next[t] \in Nat
        BY <3>3 DEF BatchingInv, ProgressInv, TypeOK
      <4>2. QED
        BY <2>1, <3>1, <4>1
    <3>4. QED
      BY <3>2, <3>3
  <2>3. QED
    BY <2>1, <2>2 DEF EachElementOnce
<1>2. QED
  BY <1>1, BatchingInductive, PTL DEF Spec

(* In an aggregation or a matrix product, every batch begins and ends      *)
(* between two groups, for every group size.                               *)
THEOREM GroupsStayWhole == Spec => []GroupsNotSplit
<1>1. BatchingInv => GroupsNotSplit
  BY DEF BatchingInv, GroupsInv, GroupsNotSplit
<1>2. QED
  BY <1>1, BatchingInductive, PTL DEF Spec

(* Asked for that many batches per thread, a thread runs at most that      *)
(* many; and one, where a thread's task must be one chunk.                 *)
THEOREM BatchesAsAsked == Spec => []BatchCountBounded
<1>1. BatchingInv => BatchCountBounded
  <2> SUFFICES ASSUME BatchingInv, NEW t \in Threads
               PROVE  /\ kind = "elementwise" /\ batch_size < 0 => batches[t] <= -batch_size
                      /\ kind = "whole" => batches[t] <= 1
    BY DEF BatchCountBounded
  <2> DEFINE m == batches[t]
             B == tasks[t].batch
             len == tasks[t].end - tasks[t].start
  <2>1. m \in Nat /\ B \in Nat /\ len \in Int /\ batch_size \in Int
    BY BatchSizesAssumption DEF BatchingInv, TypeOK
  <2>2. m > 0 => (m - 1) * B < len
    BY DEF BatchingInv, CountsInv
  <2>3. kind = "elementwise" /\ batch_size < 0 => len <= (-batch_size) * B
    BY DEF BatchingInv, CountsInv
  <2>4. kind = "whole" => B = len
    BY DEF BatchingInv, CountsInv
  <2> HIDE DEF m, B, len
  <2>5. ASSUME NEW a \in Nat, len <= a * B PROVE m <= a
    <3>1. SUFFICES ASSUME a <= m - 1 PROVE FALSE
      BY <2>1
    <3>2. a * B <= (m - 1) * B
      BY <2>1, <3>1, MulMono
    <3>3. a * B \in Int /\ (m - 1) * B \in Int /\ m > 0
      BY <2>1, <3>1
    <3>4. QED
      BY <2>1, <2>2, <2>5, <3>2, <3>3
  <2>6. ASSUME kind = "elementwise", batch_size < 0 PROVE m <= -batch_size
    BY <2>1, <2>3, <2>5, <2>6
  <2>7. ASSUME kind = "whole" PROVE m <= 1
    <3>1. len <= 1 * B
      BY <2>1, <2>4, <2>7
    <3>2. QED
      BY <2>5, <3>1
  <2>8. QED
    BY <2>6, <2>7 DEF m
<1>2. QED
  BY <1>1, BatchingInductive, PTL DEF Spec
=============================================================================
