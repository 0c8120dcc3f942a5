----------------------------- MODULE Operators ------------------------------
(***************************************************************************)
(* Programs that sort, merge, shuffle and window, a round of communication *)
(* at a time.  Every operation draws its random permutations from the one  *)
(* PermutationManager of the process, which keeps what is left over for    *)
(* the next operation.                                                     *)
(*                                                                         *)
(* A job is a record with the fields                                       *)
(*   op        what is done                                                *)
(*   rows      the rows it is done to, functions from columns to values    *)
(*   spec      the order asked for                                         *)
(*   protocol  the algorithm                                               *)
(*   parties   the number of parties                                       *)
(***************************************************************************)
EXTENDS Integers, Sequences, FiniteSets, Bags, EncodedTable, Sorting, BitPacking

CONSTANTS Programs,         \* sequences of jobs
          KEY_BITS,         \* bits of a key that is not a single bit
          Shuffles(_, _),   \* the permutations of n a job's shuffle may draw
          MaskOf(_, _)      \* the permutation of n that masks among so many parties

ASSUME KeyBitsPositive == KEY_BITS \in Nat \ {0}

\* What the operations are given: a table whose rows have the same columns and permutations of
\* its rows; keys that are numbers, of a vector whose indices fit below them; two shares and
\* correlations for them; a permutation of every group.
ShuffleFits(j, m) ==
    /\ IsFiniteSet(DOMAIN j.rows[1])
    /\ \A k \in 1 .. m : j.rows[k] = [c \in DOMAIN j.rows[1] |-> j.rows[k][c]]
    /\ Shuffles(j, m) \subseteq PermutationsOf(m)
    /\ MaskOf(j.parties, m) \in PermutationsOf(m)

SortFits(j, m) ==
    /\ m \in 1 .. INDEX \div 2 /\ Len(j.spec) > 0
    /\ j.protocol \in {"QUICKSORT", "RADIXSORT"}
    /\ IsFiniteSet(DOMAIN j.rows[1])
    /\ \A k \in 1 .. m, c \in 1 .. Len(j.spec) : j.rows[k][j.spec[c][1]] \in Int
    /\ Shuffles(j, m) \subseteq PermutationsOf(m)
    /\ MaskOf(j.parties, m) \in PermutationsOf(m)

DMFits(j, m) ==
    /\ j.encoding \in Encodings
    /\ j.rows \in Shares(m) /\ j.share \in Shares(m)
    /\ \A s \in {0, 1} : FittingTuple(m, j.encoding, j.tuples[s])

HMFits(j, m) ==
    /\ j.parties \in {3, 4}
    /\ \A g \in 1 .. j.parties : j.perms[g] \in PermutationsOf(m)

JobFits(j) ==
    /\ Len(j.rows) \in Nat /\ Len(j.spec) \in Nat
    /\ j.rows = [k \in 1 .. Len(j.rows) |-> j.rows[k]]
    /\ j.op = "shuffle" => ShuffleFits(j, Len(j.rows))
    /\ j.op \in {"table_sort", "vector_sort", "radix_sort_ccs"} => SortFits(j, Len(j.rows))
    /\ j.op = "dm" => DMFits(j, Len(j.rows))
    /\ j.op = "hm" => HMFits(j, Len(j.rows))

ASSUME ProgramsFit ==
    \A prog \in Programs : /\ Len(prog) \in Nat \ {0}
                           /\ \A k \in 1 .. Len(prog) : JobFits(prog[k])

VARIABLES program, at,      \* the program, and the number of its current job
          phase,            \* where the job is
          rows,             \* the table or vector
          loc,              \* what the operation has in its local variables
          pm                \* the permutation manager

vars == <<program, at, phase, rows, loc, pm>>

job == program[at]

NoLocals == [net |-> <<>>, C |-> 0, sort_permutation |-> <<>>, permutation |-> <<>>,
             col |-> [v |-> <<>>, pivots |-> <<>>, opened |-> <<>>], i |-> 0, shares |-> <<>>,
             delta |-> <<>>, draws |-> <<>>]

n == Len(rows)
Values(c) == [k \in 1 .. n |-> rows[k][c]]

\* The mask of every permutation that is applied and taken off again.
Mask == MaskOf(job.parties, n)

Init ==
    /\ program \in Programs
    /\ at = 1
    /\ phase = "start"
    /\ rows = program[1].rows
    /\ loc = NoLocals
    /\ pm = EmptyManager

Starts(op) == phase = "start" /\ job.op = op

Goto(p) == phase' = p /\ UNCHANGED <<program, at>>

NextJob ==
    /\ phase = "done" /\ at < Len(program)
    /\ at' = at + 1
    /\ phase' = "start"
    /\ rows' = program[at'].rows
    /\ loc' = NoLocals
    /\ UNCHANGED <<program, pm>>

(***************************************************************************)
(* Networks.                                                               *)
(***************************************************************************)
ID == "[##ID]"

WithIds(rs) == [k \in 1 .. Len(rs) |-> (ID :> k - 1) @@ rs[k]]
WithoutIds(rs) == [k \in 1 .. Len(rs) |-> [c \in DOMAIN rs[k] \ {ID} |-> rs[k][c]]]

Padding(rs) == [k \in 1 .. PowerOfTwoAbove(Len(rs)) |->
                    IF k <= Len(rs) THEN rs[k] ELSE ZeroRow(DOMAIN rs[1])]

\* NETWORK sorts by the positions, too; BITONICSORT needs a power of two, and its
\* padding stays in the table.
SortWithNetwork ==
    /\ Starts("network")
    /\ rows' = CASE job.protocol = "NETWORK"      -> WithIds(rows)
                 [] job.protocol = "BITONICSORT"  -> Padding(rows)
                 [] job.protocol = "BITONICMERGE" -> bitonic_merge_reverse_second_half(rows)
                 [] job.protocol = "ODDEVEN"      -> rows
    /\ loc' = [loc EXCEPT !.net =
                  CASE job.protocol = "NETWORK"      -> pairwise_sort(n)
                    [] job.protocol = "BITONICSORT"  -> bitonic_sort(PowerOfTwoAbove(n))
                    [] job.protocol = "BITONICMERGE" -> bitonic_merge_rounds(n)
                    [] job.protocol = "ODDEVEN"      -> odd_even_merge(n)]
    /\ Goto("network")
    /\ UNCHANGED pm

NetworkSpec == IF job.protocol = "NETWORK" THEN job.spec \o <<<<ID, "ASC">>>> ELSE job.spec

NetworkRound ==
    /\ phase = "network" /\ loc.net # <<>>
    /\ rows' = CompareRound(rows, NetworkSpec, Head(loc.net))
    /\ loc' = [loc EXCEPT !.net = Tail(@)]
    /\ UNCHANGED <<program, at, phase, pm>>

NetworkEnds ==
    /\ phase = "network" /\ loc.net = <<>>
    /\ rows' = IF job.protocol = "NETWORK" THEN WithoutIds(rows) ELSE rows
    /\ Goto("done")
    /\ UNCHANGED <<loc, pm>>

(***************************************************************************)
(* Quicksort and radix sort, of a vector or of a table column by column    *)
(* from the last.                                                          *)
(***************************************************************************)
SingleBits == {V, TID}

Key == job.spec[loc.C][1]
Reversed == job.spec[loc.C][2] = "DESC"
bits(c) == IF c \in SingleBits THEN 1 ELSE KEY_BITS
ByRadix(c) == job.protocol = "RADIXSORT" \/ c \in SingleBits

Others == Cardinality(DOMAIN rows[1]) - Len(job.spec)

TableSort ==
    /\ Starts("table_sort")
    /\ LET ns == Cardinality({k \in 1 .. Len(job.spec) : job.spec[k][1] \in SingleBits})
           counts == get_perm_counts(Len(job.spec) - ns, ns, Others, KEY_BITS,
                                     job.protocol, job.parties)
       IN  pm' = reserve(pm, n, job.parties, counts.perms, counts.pairs)
    /\ loc' = [loc EXCEPT !.C = Len(job.spec)]
    /\ Goto("column")
    /\ UNCHANGED rows

VectorSort ==
    /\ Starts("vector_sort")
    /\ loc' = [loc EXCEPT !.C = 1]
    /\ Goto("column")
    /\ UNCHANGED <<rows, pm>>

\* The reservations of quicksort and radix_sort themselves.
OwnReserve(m, c) ==
    IF ByRadix(c) THEN reserve(m, n, job.parties, IF job.parties = 2 THEN 0 ELSE 1, bits(c) + 1)
    ELSE reserve(m, n, job.parties, IF job.parties = 2 THEN 1 ELSE 2, 1)

\* The order of the later columns is applied to a copy of this one.
SortColumn ==
    /\ phase = "column"
    /\ LET first == loc.sort_permutation = <<>>
           v == IF first THEN Values(Key)
                ELSE oblivious_apply_elementwise_perm(Values(Key), loc.sort_permutation, Mask)
       IN  /\ pm' = OwnReserve(IF first THEN pm ELSE getNextPair(pm, n, job.parties), Key)
           /\ loc' = [loc EXCEPT !.col.v = pad_input(v, Reversed), !.i = 0]
    /\ Goto(IF ByRadix(Key) THEN "bits" ELSE "shuffle")
    /\ UNCHANGED rows

ShuffleColumn ==
    /\ phase = "shuffle"
    /\ \E pi \in Shuffles(job, n) : loc' = [loc EXCEPT !.col = QuickStart(loc.col.v, pi)]
    /\ pm' = getNext(pm, n, job.parties)
    /\ Goto("partition")
    /\ UNCHANGED rows

PartitionColumn ==
    /\ phase = "partition"
    /\ loc' = [loc EXCEPT !.col = QuickRound(loc.col)]
    /\ Goto(IF QuickDone(loc'.col) THEN "unpad" ELSE "partition")
    /\ UNCHANGED <<rows, pm>>

SortBit ==
    /\ phase = "bits"
    /\ loc' = [loc EXCEPT !.col.v = RadixRound(@, loc.i, bits(Key), bits(Key) = KEY_BITS, Mask),
                          !.i = @ + 1]
    /\ pm' = getNextPair(pm, n, job.parties)
    /\ Goto(IF loc'.i = bits(Key) THEN "unpad" ELSE "bits")
    /\ UNCHANGED rows

\* The permutation is converted, negated, and inverted.
UnpadColumn ==
    /\ phase = "unpad"
    /\ LET padded == IF Reversed THEN reversed_view(loc.col.v) ELSE loc.col.v
           back == remove_padding(padded, Reversed, job.parties, Mask)
           m == IF job.parties = 2 THEN pm ELSE getNext(pm, n, job.parties)
       IN  /\ loc' = [loc EXCEPT !.col.v = Unpadded(padded), !.permutation = invert(back, Mask)]
           /\ pm' = getNextPair(m, n, job.parties)
    /\ Goto(IF job.op = "table_sort" THEN "compose" ELSE "done")
    /\ UNCHANGED rows

ComposeColumn ==
    /\ phase = "compose"
    /\ LET first == loc.sort_permutation = <<>>
       IN  /\ loc' = [loc EXCEPT !.C = @ - 1,
                         !.sort_permutation =
                             IF first THEN loc.permutation
                             ELSE compose_permutations(@, loc.permutation, Mask)]
           /\ pm' = IF first THEN pm ELSE getNext(pm, n, job.parties)
    /\ Goto(IF loc.C = 1 THEN "apply" ELSE "column")
    /\ UNCHANGED rows

\* Every column of the table is permuted alike.
ApplyToColumns ==
    /\ phase = "apply"
    /\ LET new == [c \in DOMAIN rows[1] |->
                      oblivious_apply_elementwise_perm(Values(c), loc.sort_permutation, Mask)]
       IN  rows' = [k \in 1 .. n |-> [c \in DOMAIN rows[1] |-> new[c][k]]]
    /\ pm' = NextPairs(pm, n, job.parties, Cardinality(DOMAIN rows[1]))
    /\ Goto("done")
    /\ UNCHANGED loc

\* The radix sort that composes the permutations of its bits.
RadixSortCcs ==
    /\ Starts("radix_sort_ccs")
    /\ pm' = reserve(pm, n, job.parties, KEY_BITS + 2, 0)
    /\ loc' = [loc EXCEPT !.C = 1, !.col.v = Values(job.spec[1][1]), !.permutation = Identity(n)]
    /\ Goto("ccs")
    /\ UNCHANGED rows

SortBitCcs ==
    /\ phase = "ccs"
    /\ LET f1 == [k \in 1 .. n |-> KeyBit(loc.col.v[k], loc.i, KEY_BITS, TRUE)]
           p == BitPermutation(f1)
       IN  loc' = [loc EXCEPT !.col.v = oblivious_apply_elementwise_perm(@, p, Mask),
                              !.permutation = compose_permutations(@, p, Mask),
                              !.i = @ + 1]
    /\ pm' = getNext(getNextPair(pm, n, job.parties), n, job.parties)
    /\ Goto(IF loc'.i = KEY_BITS THEN "done" ELSE "ccs")
    /\ UNCHANGED rows

(***************************************************************************)
(* Shuffling a table: one permutation for all columns.                     *)
(***************************************************************************)
ShuffleColumns ==
    /\ Starts("shuffle")
    /\ \E pi \in Shuffles(job, n) :
          loc' = [loc EXCEPT !.sort_permutation = local_apply_perm(Identity(n), pi)]
    /\ pm' = getNext(pm, n, job.parties)
    /\ Goto("apply")
    /\ UNCHANGED rows

(***************************************************************************)
(* A sharded permutation and then its inverse, on the shares.  Two         *)
(* parties: the sender of a step permutes by a permutation of its own.     *)
(* job.tuples[s] is the correlation whose sender is s; rows are the values *)
(* shared.                                                                 *)
(***************************************************************************)
DMSteps == <<[sender |-> 0, inverse |-> FALSE], [sender |-> 1, inverse |-> FALSE],
             [sender |-> 1, inverse |-> TRUE], [sender |-> 0, inverse |-> TRUE]>>

DMStep == DMSteps[loc.i + 1]

ApplyDMShardedPerm ==
    /\ Starts("dm")
    /\ loc' = [loc EXCEPT !.shares = [p \in {0, 1} |->
                  IF p = 0 THEN job.share ELSE SubVectors(job.encoding, rows, job.share)]]
    /\ Goto("dm_send")
    /\ UNCHANGED <<rows, pm>>

ReceiverMasks ==
    /\ phase = "dm_send" /\ loc.i < Len(DMSteps)
    /\ LET t == job.tuples[DMStep.sender]
           receiver == 1 - DMStep.sender
       IN  loc' = [loc EXCEPT
                     !.delta = MaskedShare(job.encoding, loc.shares[receiver], t, DMStep.inverse),
                     !.shares[receiver] = ReplacedShare(t, DMStep.inverse)]
    /\ Goto("dm_receive")
    /\ UNCHANGED <<rows, pm>>

SenderPermutes ==
    /\ phase = "dm_receive"
    /\ LET t == job.tuples[DMStep.sender]
       IN  loc' = [loc EXCEPT !.i = @ + 1, !.shares[DMStep.sender] =
                     IF DMStep.inverse THEN permute_and_share_inverse(job.encoding, @, t, loc.delta)
                     ELSE permute_and_share(job.encoding, @, t, loc.delta)]
    /\ Goto(IF loc'.i = Len(DMSteps) THEN "done" ELSE "dm_send")
    /\ UNCHANGED <<rows, pm>>

(***************************************************************************)
(* More parties: the groups in turn, and for the inverse in reverse.       *)
(***************************************************************************)
ApplyHMShardedPerm ==
    /\ Starts("hm")
    /\ loc' = [loc EXCEPT !.shares = [p \in 0 .. job.parties - 1 |-> rows]]
    /\ Goto("groups")
    /\ UNCHANGED <<rows, pm>>

GroupStep ==
    /\ phase = "groups"
    /\ LET groups == getGroups(job.parties)
           inverse == loc.i >= Len(groups)
           g == IF inverse THEN 2 * Len(groups) - loc.i ELSE loc.i + 1
       IN  /\ loc' = [loc EXCEPT !.i = @ + 1,
                         !.shares = GroupPermutes(@, groups[g], job.perms[g], inverse)]
           /\ Goto(IF loc'.i = 2 * Len(groups) THEN "done" ELSE "groups")
    /\ UNCHANGED <<rows, pm>>

(***************************************************************************)
(* Drawing a permutation.                                                  *)
(***************************************************************************)
GeneratePermutation ==
    /\ Starts("gen_perm")
    /\ loc' = [loc EXCEPT !.permutation = Identity(n)]
    /\ Goto("draw")
    /\ UNCHANGED <<rows, pm>>

DrawElement ==
    /\ phase = "draw"
    /\ \E rand \in 0 .. RandomMask(n) :
          /\ ~Refused(n, loc.i, rand)
          /\ loc' = [loc EXCEPT !.permutation = GenPermStep(@, loc.i, rand),
                                !.draws = Append(@, rand), !.i = @ + 1]
    /\ Goto(IF loc'.i = n THEN "done" ELSE "draw")
    /\ UNCHANGED <<rows, pm>>

(***************************************************************************)
(* Windows.                                                                *)
(***************************************************************************)
TableOf(rs) == [cols |-> DOMAIN rs[1], rows |-> rs]
Table == TableOf(rows)

WindowIs(t) == /\ rows' = t.rows
               /\ Goto("done")
               /\ UNCHANGED <<loc, pm>>

TumblingWindow == Starts("tumbling") /\ WindowIs(tumbling_window(Table, "T", job.width, "W"))

GapWindow ==
    Starts("gap") /\ WindowIs(gap_session_window(Table, <<"[K]">>, "[T]", "[W]", job.width))

ThresholdWindow ==
    /\ Starts("threshold")
    /\ WindowIs(threshold_session_window(Table, <<"[K]">>, "[F]", "[T]", "[W]", job.width, TRUE))

(***************************************************************************)
(* Prefix networks, a level at a time; rows are the numbers added up.      *)
(***************************************************************************)
Levels(protocol, m, reversed) ==
    CASE protocol = "TREE" ->
            [i \in 1 .. bit_width(m) - 1 |-> TreeLevel(m, reversed, i)]
      [] protocol = "HILLISSTEELE" ->
            [i \in 1 .. HillisSteeleDepth(m) |-> HillisSteeleLevel(m, reversed, i - 1)]
      [] protocol = "BRENTKUNG" ->
            [i \in 1 .. BrentKungDepth(m) |-> BrentKungLevel(m, reversed, i - 1)]

tree_prefix_sum ==
    /\ Starts("prefix")
    /\ loc' = [loc EXCEPT !.net = Levels(job.protocol, n, job.reversed)]
    /\ Goto("prefix")
    /\ UNCHANGED <<rows, pm>>

PrefixLevel ==
    /\ phase = "prefix" /\ loc.net # <<>>
    /\ LET flows == Head(loc.net)
       IN  rows' = [k \in 1 .. n |-> rows[k] + SumSet({rows[f[1]] : f \in {g \in flows : g[2] = k}})]
    /\ loc' = [loc EXCEPT !.net = Tail(@)]
    /\ Goto(IF loc'.net = <<>> THEN "done" ELSE "prefix")
    /\ UNCHANGED pm

(***************************************************************************)
(* Joins of every row with every row, and bits packed into words.          *)
(***************************************************************************)
CartesianJoin ==
    /\ Starts("cartesian")
    /\ rows' = cartesian_join(TableOf(job.rows), TableOf(job.right), "[K]").rows
    /\ Goto("done")
    /\ UNCHANGED <<loc, pm>>

CompressBits ==
    /\ Starts("pack")
    /\ loc' = [loc EXCEPT !.shares = compress(rows, job.layout)]
    /\ Goto("packed")
    /\ UNCHANGED <<rows, pm>>

DecompressBits ==
    /\ phase = "packed" /\ job.op = "pack"
    /\ rows' = decompress(job.target, loc.shares, job.layout)
    /\ Goto("done")
    /\ UNCHANGED <<loc, pm>>

DecomposeBits ==
    /\ Starts("decompose")
    /\ loc' = [loc EXCEPT !.shares = bit_decomposition(rows)]
    /\ rows' = [k \in 1 .. n |-> 0]
    /\ Goto("packed")
    /\ UNCHANGED pm

UnpackBit ==
    /\ phase = "packed" /\ job.op = "decompose"
    /\ rows' = unpack_from(rows, loc.shares[loc.i + 1], loc.i)
    /\ loc' = [loc EXCEPT !.i = @ + 1]
    /\ Goto(IF loc'.i = WORD_BITS THEN "done" ELSE "packed")
    /\ UNCHANGED pm

Next ==
    \/ NextJob
    \/ SortWithNetwork \/ NetworkRound \/ NetworkEnds
    \/ TableSort \/ VectorSort \/ SortColumn \/ ShuffleColumn \/ PartitionColumn \/ SortBit
    \/ UnpadColumn \/ ComposeColumn \/ ApplyToColumns \/ RadixSortCcs \/ SortBitCcs
    \/ ShuffleColumns
    \/ ApplyDMShardedPerm \/ ReceiverMasks \/ SenderPermutes
    \/ ApplyHMShardedPerm \/ GroupStep
    \/ GeneratePermutation \/ DrawElement
    \/ TumblingWindow \/ GapWindow \/ ThresholdWindow
    \/ tree_prefix_sum \/ PrefixLevel \/ CartesianJoin
    \/ CompressBits \/ DecompressBits \/ DecomposeBits \/ UnpackBit

Spec == Init /\ [][Next]_vars

(***************************************************************************)
(* Properties.                                                             *)
(***************************************************************************)
Phases == {"start", "network", "column", "shuffle", "partition", "bits", "unpad", "compose",
           "apply", "ccs", "dm_send", "dm_receive", "groups", "draw", "prefix",
           "packed", "done"}

\* Locals and the manager keep their form; permutations are permutations.
TypeOK ==
    /\ at \in 1 .. Len(program) /\ phase \in Phases
    /\ loc.C \in 0 .. Len(job.spec)
    /\ loc.sort_permutation = <<>> \/ IsPermutation(loc.sort_permutation)
    /\ loc.permutation = <<>> \/ IsPermutation(loc.permutation)
    /\ pm.perms \in Nat /\ pm.pairs \in Nat /\ pm.size \in Nat

Ended(ops) == phase = "done" /\ job.op \in ops

Input == TableOf(job.rows)

Bag(s) == [r \in {s[k] : k \in 1 .. Len(s)} |-> Cardinality({k \in 1 .. Len(s) : s[k] = r})]

\* All algorithms put a table in the order asked for, with its columns together; those the
\* queries use also leave equal rows in the order they had, as EncodedTable.sort says.
TablesAreSorted ==
    Ended({"network", "table_sort"}) =>
        IF job.protocol \in {"NETWORK", "QUICKSORT", "RADIXSORT"}
        THEN rows = sort(Input, job.spec).rows
        ELSE /\ SortedRows(rows, job.spec, 1, n)
             /\ Bag(rows) = Bag(IF job.protocol = "BITONICSORT" THEN Padding(job.rows)
                               ELSE job.rows)

\* The permutation a vector sort returns takes the input to the sorted vector it leaves, and
\* equal elements keep their order in both directions.
PermutationSorts ==
    Ended({"vector_sort", "radix_sort_ccs"}) =>
        LET sorted == sort([cols |-> Input.cols \cup {ID}, rows |-> WithIds(job.rows)], job.spec)
        IN  \A k \in 1 .. n : /\ loc.permutation[sorted.rows[k][ID] + 1] = k - 1
                              /\ loc.col.v[k] = sorted.rows[k][job.spec[1][1]]

\* Every sorting algorithm sorts, on tables and on vectors.
SortsCorrectly == TablesAreSorted /\ PermutationSorts

\* A round of quicksort settles at least one element: the loop ends.
QuicksortEnds == phase \in {"partition", "unpad"} => Len(loc.col.opened) <= n

\* What quicksort opens is as likely for this vector as for one of zeros: of the shuffles,
\* equally many lead to it.
OpenedTellsNothing ==
    Ended({"vector_sort"}) /\ job.protocol = "QUICKSORT" =>
        LET leading(v) ==
                {pi \in AllPermutations(n) :
                    Transcript(pad_input(v, Reversed), pi) = loc.col.opened}
        IN  Cardinality(leading(Values(Key))) = Cardinality(leading([k \in 1 .. n |-> 0]))

\* What table_sort reserves ahead is what its columns use: nothing is left over, and nothing
\* has to be made while it runs.
ReservedIsUsed ==
    Ended({"table_sort", "vector_sort"}) /\ at = 1 =>
        pm.perms = 0 /\ pm.pairs = 0 /\ pm.late = 0

\* Whatever earlier operations left over, a permutation has the size of its vector.
PermutationsFit == pm.misfits = 0

\* The permutation manager serves its users: permutations fit, those reserved are used, and
\* what sorting and shuffling make of them are permutations.
PermutationsServed == TypeOK /\ PermutationsFit /\ ReservedIsUsed

\* A shuffle keeps the rows whole.
ShuffleKeepsRows == Ended({"shuffle"}) => Bag(rows) = Bag(job.rows)

Opened(x) == AddVectors(job.encoding, x[0], x[1])

\* A sharded permutation moves the shared values by all its parts in turn, its inverse takes
\* them back, and the replicas of the parties agree in between.
ShardedPermutes ==
    /\ job.op = "dm" /\ phase = "dm_send" /\ loc.i = 2 =>
          Opened(loc.shares) =
              local_apply_perm(local_apply_perm(rows, job.tuples[0].pi), job.tuples[1].pi)
    /\ Ended({"dm"}) => Opened(loc.shares) = rows
    /\ job.op = "hm" /\ phase # "start" =>
          \A p, q \in DOMAIN loc.shares : loc.shares[p] = loc.shares[q]
    /\ Ended({"hm"}) => loc.shares[0] = rows

\* No shuffle tears rows, loses values or leaves replicas that differ.
ShufflesKeepRows == ShuffleKeepsRows /\ ShardedPermutes

\* gen_perm draws every permutation from exactly one sequence of accepted draws.
DrawnUniformly ==
    Ended({"gen_perm"}) =>
        /\ IsPermutation(loc.permutation)
        /\ {d \in AcceptedDraws(n) : gen_perm(n, d) = loc.permutation} = {loc.draws}

\* In a gap window of one key every row has the time of the start of its session; a threshold
\* window whose rows above the threshold follow each other keeps the row at which they start.
SessionsFound ==
    LET time(i) == rows[i]["[T]"]
        starts == {j \in 1 .. n : j = 1 \/ time(j) - time(j - 1) > job.width}
        above == {j \in 1 .. n : rows[j]["[F]"] > job.width}
        run == above # {} /\ above = Min(above) .. Max(above)
    IN  /\ Ended({"gap"}) =>
              \A i \in 1 .. n : rows[i]["[W]"] = time(Max({j \in starts : j <= i}))
        /\ Ended({"threshold"}) /\ run /\ 1 \notin above =>
              \A i \in 1 .. n : /\ (rows[i][V] = 1) = (i = Min(above))
                                /\ rows[i][V] = 1 => rows[i]["[W]"] = time(i)

\* Whatever the order of its levels, a prefix network adds every element before a place, and
\* its own, exactly once.
PrefixesAdded ==
    Ended({"prefix"}) =>
        LET summed == inclusive_scan(IF job.reversed THEN reversed_view(job.rows) ELSE job.rows)
        IN  rows = IF job.reversed THEN reversed_view(summed) ELSE summed

ValidRows(rs, cs) ==
    LET valid == SelectSeq(rs, LAMBDA r : r[V] = 1)
    IN  Bag([k \in 1 .. Len(valid) |-> [c \in cs |-> valid[k][c]]])

\* The valid rows of a cartesian join are those of the inner join by sorting and aggregating,
\* wherever that one may be used: no key twice on the left.
CartesianIsInner ==
    Ended({"cartesian"}) =>
        LET l == TableOf(job.rows)
            r == TableOf(job.right)
            joined == join("inner", l, r, <<"[K]">>, <<<<"[L]", "[L]", "copy">>>>)
        IN  ValidRows(rows, {"[K]", "[L]", "[R]"}) = ValidRows(joined.rows, {"[K]", "[L]", "[R]"})

\* Packed bits come back to the elements and places they were taken from, and the other bits
\* of the vector they come back to are as before.
PackedBitsReturn ==
    /\ Ended({"pack"}) =>
          \A e \in 1 .. n, b \in 0 .. WORD_BITS - 1 :
              getBit(rows[e], b) = getBit(IF b \in job.chosen THEN job.rows[e] ELSE job.target[e], b)
    /\ Ended({"decompose"}) => rows = job.rows

\* The operators that compute level by level, view by view or bit by bit give what their plain
\* definitions give: sessions, prefix sums, joins and packed bits.
AgreesWithReference == SessionsFound /\ PrefixesAdded /\ CartesianIsInner /\ PackedBitsReturn
=============================================================================
