-------------------------- MODULE SortingNetworks ---------------------------
(***************************************************************************)
(* Sorting and merging networks.  Rows are functions from columns to       *)
(* values; the columns of a row always move together, as the bits of one   *)
(* comparison swap all of them.                                            *)
(***************************************************************************)
EXTENDS Integers, Sequences, Vectors

(***************************************************************************)
(* Comparing and swapping.  A specification is a sequence of               *)
(* <<column, "ASC" or "DESC">>.                                            *)
(***************************************************************************)
compare_rows(spec, r, u) ==
    LET key(k, x) == IF spec[k][2] = "ASC" THEN x[spec[k][1]] ELSE -x[spec[k][1]]
    IN  \E k \in 1 .. Len(spec) : /\ key(k, r) > key(k, u)
                                  /\ \A m \in 1 .. k - 1 : key(m, r) = key(m, u)

\* A round of a network: the rows at x are compared with those at y.
Round(x, y) == [x |-> x, y |-> y, reversed |-> FALSE]

\* A round may first reverse, in place, the rows at y.
Prepared(rows, round) ==
    LET right == [k \in 1 .. Len(round.y) |-> rows[round.y[k]]]
    IN  IF round.reversed THEN Assign(rows, round.y, reversed_view(right)) ELSE rows

\* Mutant of CompareRound: the comparison of a round is one row off.
CompareRoundShifted(rows, spec, round) ==
    LET r == Prepared(rows, round)
        at(p) == {k \in 1 .. Len(round.x) : p \in {round.x[k], round.y[k]}}
        from(p) == LET k == CHOOSE k \in at(p) : TRUE
                       j == IF k = Len(round.x) THEN 1 ELSE k + 1
                   IN  IF compare_rows(spec, r[round.x[j]], r[round.y[j]])
                       THEN (IF p = round.x[k] THEN round.y[k] ELSE round.x[k]) ELSE p
    IN  [p \in 1 .. Len(rows) |-> r[IF at(p) = {} THEN p ELSE from(p)]]

CompareRound(rows, spec, round) ==
    LET r == Prepared(rows, round)
        at(p) == {k \in 1 .. Len(round.x) : p \in {round.x[k], round.y[k]}}
        from(p) == LET k == CHOOSE k \in at(p) : TRUE
                   IN  IF compare_rows(spec, r[round.x[k]], r[round.y[k]])
                       THEN (IF p = round.x[k] THEN round.y[k] ELSE round.x[k]) ELSE p
    IN  [p \in 1 .. Len(rows) |-> r[IF at(p) = {} THEN p ELSE from(p)]]

Blocks(s, d) == alternating_subset_reference(s, d, d)

\* Blocks at distance d, from the front and from d on.
DistanceRound(n, d) == Round(Blocks(Positions(n), d), Blocks(From(Positions(n), d), d))

Concatenation(ss) ==
    LET upto[k \in 0 .. Len(ss)] == IF k = 0 THEN <<>> ELSE upto[k - 1] \o ss[k]
    IN  upto[Len(ss)]

log2(n) == bit_width(n) - 1

\* Within stage i, round j; the first round of a stage reverses all its right blocks.
bitonic_sort(n) ==
    LET round(i, j) == [DistanceRound(n, 2 ^ (i - j)) EXCEPT !.reversed = (j = 0)]
    IN  Concatenation([i \in 1 .. log2(n) |-> [j \in 1 .. i |-> round(i - 1, j - 1)]])

bitonic_merge_reverse_second_half(s) ==
    LET half == Len(s) \div 2
    IN  slice(s, 0, half) \o reversed_view(From(s, half))

\* After the second half was reversed.
bitonic_merge_rounds(n) == [k \in 1 .. log2(n) |-> DistanceRound(n, n \div 2 ^ k)]

odd_even_merge(n) ==
    LET P == Positions(n)
        half == n \div 2
        round(d) == Round(Blocks(slice(P, d, n - d), d), Blocks(slice(P, 2 * d, n), d))
    IN  <<Round(slice(P, 0, n - half), slice(P, n - half, n))>>
        \o [k \in 1 .. log2(n \div 2) |-> round(n \div 2 ^ (k + 1))]

(***************************************************************************)
(* The pairwise network, for any number of rows.                           *)
(***************************************************************************)
pw_comparisons(n) ==
    LET m == bit_width(n - 1)
        first == [k \in 1 .. m |-> [start_left |-> 0, start_right |-> 2 ^ (k - 1), step |-> 2 ^ (k - 1)]]
        second(k) == LET a == 2 ^ (m - 1 - k)
                         e == 2 ^ k - 1
                     IN  [q \in 1 .. k |-> [start_left |-> a, step |-> a,
                                            start_right |-> ((e \div 2 ^ (q - 1)) + 1) * a]]
    IN  SelectSeq(first \o Concatenation([k \in 1 .. Most(0, m - 1) |-> second(k)]),
                  LAMBDA c : c.start_right < n)

pairwise_sort(n) ==
    LET P == Positions(n)
        cs == pw_comparisons(n)
        round(c) == Round(Blocks(slice(P, c.start_left, n - (c.start_right - c.start_left)), c.step),
                          Blocks(From(P, c.start_right), c.step))
    IN  [k \in 1 .. Len(cs) |-> round(cs[k])]
=============================================================================
