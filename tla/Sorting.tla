------------------------------ MODULE Sorting -------------------------------
(***************************************************************************)
(* Quicksort and radix sort of a vector, which return the permutation that *)
(* sorts it, and what table_sort reserves for them.                        *)
(***************************************************************************)
EXTENDS Integers, Sequences, FiniteSets, Shuffling, PermutationManager

CONSTANT INDEX      \* 2^32 in the code: where the value begins above the index

ASSUME IndexAssumption == INDEX \in Nat \ {0} /\ INDEX = 2 * (INDEX \div 2)

bit(b) == IF b THEN 1 ELSE 0

(***************************************************************************)
(* Padding.  The index of an element below its value makes all elements    *)
(* different, and the sort stable; for DESC the indices run backwards.     *)
(***************************************************************************)
pad_input(v, reversed) ==
    LET padded == [i \in 1 .. Len(v) |-> v[i] * INDEX + (IF reversed THEN INDEX - i ELSE i - 1)]
    IN  IF reversed THEN reversed_view(padded) ELSE padded

\* The low bits as a signed number.
LowBits(x) == LET u == x % INDEX IN IF u >= INDEX \div 2 THEN u - INDEX ELSE u

\* What remove_padding leaves: the values, and the permutation back to the input.
Unpadded(padded) == [i \in 1 .. Len(padded) |-> padded[i] \div INDEX]

remove_padding(padded, reversed, parties, pi) ==
    LET low == b2a([i \in 1 .. Len(padded) |-> LowBits(padded[i])], parties, pi)
    IN  IF reversed THEN negate(low) ELSE low

(***************************************************************************)
(* Quicksort of a shuffled vector.  pivots[i] is i - 1 at the start of     *)
(* every segment still to be sorted, -1 elsewhere.                         *)
(***************************************************************************)
\* Mutant of QuickStart: the vector is not shuffled.
QuickUnshuffled(v, pi) ==
    [v |-> v, opened |-> <<>>, pivots |-> [i \in 1 .. Len(v) |-> IF i = 1 THEN 0 ELSE -1]]

QuickStart(v, pi) ==
    [v |-> local_apply_perm(v, pi), opened |-> <<>>,
     pivots |-> [i \in 1 .. Len(v) |-> IF i = 1 THEN 0 ELSE -1]]

\* Mutant of partition: the segment to the right of the pivot gets no pivot of its own.
PartitionLeftOnly(st, comparisons, start, end) ==
    LET move[j \in start .. end] ==
            IF j = start THEN [v |-> st.v, i |-> start]
            ELSE LET m == move[j - 1]
                 IN  IF comparisons[j + 1] # 0 THEN m
                     ELSE [v |-> SwapAt(m.v, j + 1, m.i + 2), i |-> m.i + 1]
        i == move[end].i
    IN  [st EXCEPT !.v = SwapAt(move[end].v, start + 1, i + 1), !.pivots[i + 1] = i]

partition(st, comparisons, start, end) ==
    LET move[j \in start .. end] ==
            IF j = start THEN [v |-> st.v, i |-> start]
            ELSE LET m == move[j - 1]
                 IN  IF comparisons[j + 1] # 0 THEN m
                     ELSE [v |-> SwapAt(m.v, j + 1, m.i + 2), i |-> m.i + 1]
        i == move[end].i
        pivots == [st.pivots EXCEPT ![i + 1] = i]
    IN  [st EXCEPT !.v = SwapAt(move[end].v, start + 1, i + 1),
                   !.pivots = IF i + 1 <= end THEN [pivots EXCEPT ![i + 2] = i + 1] ELSE pivots]

\* One round: every element but the pivots is compared with the pivot before it, the
\* results are opened, and every segment is partitioned.
QuickRound(st) ==
    LET n == Len(st.v)
        pivot(i) == Max({st.pivots[k] : k \in 1 .. i})
        non_pivots == [i \in 1 .. n |-> bit(st.pivots[i] < 0)]
        comparisons == [i \in 1 .. n |-> bit(st.v[i] > st.v[pivot(i) + 1])]
        opened == [st EXCEPT !.opened = Append(@, included_reference(comparisons, non_pivots))]
        walk[p \in 0 .. n] ==
            IF p = 0 THEN [st |-> opened, index |-> -1]
            ELSE LET w == walk[p - 1] IN
                 IF w.st.pivots[p] < 0 THEN w
                 ELSE IF (p - 1) - w.index = 1 THEN [w EXCEPT !.index = @ + 1]
                 ELSE [st |-> partition(w.st, comparisons, w.index, p - 2), index |-> p - 1]
    IN  partition(walk[n].st, comparisons, walk[n].index, n - 1)

QuickDone(st) == \A i \in 1 .. Len(st.v) : st.pivots[i] >= 0

\* All the parties learn of a quicksort whose shuffle was pi.
Transcript(v, pi) ==
    LET after[k \in 0 .. Len(v)] ==
            IF k = 0 THEN QuickStart(v, pi)
            ELSE IF k > 1 /\ QuickDone(after[k - 1]) THEN after[k - 1]
            ELSE QuickRound(after[k - 1])
    IN  after[Len(v)].opened

(***************************************************************************)
(* Radix sort.  The sign bit of a full-width key counts the other way.     *)
(***************************************************************************)
KeyBit(x, i, bits, full_width) ==
    LET b == (x \div 2 ^ i) % 2
    IN  IF full_width /\ i = bits - 1 THEN 1 - b ELSE b

\* Where a stable sort by the bits f1 puts each element.
BitPermutation(f1) ==
    LET n == Len(f1)
        ones == [i \in 1 .. 2 * n |-> IF i <= n THEN 1 - f1[i] ELSE f1[i - n]]
        s == inclusive_scan([ones EXCEPT ![1] = @ - 1])
    IN  [i \in 1 .. n |-> s[i] + f1[i] * (s[n + i] - s[i])]

\* radix_sort_body, one bit of the padded vector.
RadixRound(v, i, bits, full_width, pi) ==
    oblivious_apply_elementwise_perm(v,
        BitPermutation([k \in 1 .. Len(v) |-> KeyBit(v[k] \div INDEX, i, bits, full_width)]), pi)

(***************************************************************************)
(* How many permutations and pairs table_sort reserves for nk keys, ns     *)
(* keys of a single bit, and nc other columns.                             *)
(***************************************************************************)
get_perm_counts(nk, ns, nc, bits, protocol, parties) ==
    [perms |-> nk + ns - 1 + (IF protocol = "QUICKSORT" THEN nk ELSE 0)
               + (IF parties # 2 THEN nk + ns ELSE 0),
     pairs |-> 4 * ns + 3 * nk + nc - 1 + (IF protocol = "RADIXSORT" THEN nk * bits ELSE 0)]
=============================================================================
