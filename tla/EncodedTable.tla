---------------------------- MODULE EncodedTable ----------------------------
(***************************************************************************)
(* Tables of secret-shared columns, on the values the columns stand for.   *)
(* A table is [cols, rows]: the names of its columns, and its rows as      *)
(* functions from these names to integers.  A row whose valid bit is 0 is  *)
(* not part of the relation; the number of rows is public.                 *)
(***************************************************************************)
EXTENDS Integers, Sequences, FiniteSets, TLC, SortingNetworks

CONSTANT MASK_VALUE     \* what finalize() leaves of a row that is not valid

PAD == "[##PAD]"
TID == "[##TID]"            \* ENC_TABLE_JOIN_ID
V == "[##V]"                \* ENC_TABLE_VALID
UNIQ == "[##UNIQ]"
LABEL == "##LABEL"
RESERVED_COLUMNS == {PAD, TID, V, UNIQ, LABEL}

size(t) == Len(t.rows)

\* The name of a column of boolean shares is in brackets.
isBShared(c) == SubSeq(c, 1, 1) = "["

Column(t, c) == [i \in 1 .. size(t) |-> t.rows[i][c]]

\* t[c] = v
SetColumn(t, c, v) ==
    [t EXCEPT !.rows = [i \in 1 .. size(t) |-> [t.rows[i] EXCEPT ![c] = v[i]]]]

\* A new column is zero.
addColumns(t, cs) ==
    LET widen(r) == [c \in t.cols \cup cs |-> IF c \in t.cols THEN r[c] ELSE 0]
    IN  [cols |-> t.cols \cup cs,
         rows |-> [i \in 1 .. size(t) |-> widen(t.rows[i])]]

Keep(t, cs) ==
    LET narrow(r) == [c \in t.cols \cap cs |-> r[c]]
    IN  [cols |-> t.cols \cap cs,
         rows |-> [i \in 1 .. size(t) |-> narrow(t.rows[i])]]

deleteColumns(t, cs) == Keep(t, t.cols \ cs)

project(t, cs) == Keep(t, cs \cup RESERVED_COLUMNS)

configureValid(t) ==
    LET added(u) == SetColumn(u, V, [i \in 1 .. size(u) |-> 1])
    IN  added(IF V \in t.cols THEN t ELSE addColumns(t, {V}))

\* Mutant of filter: the bits are added.
FilterAdding(t, bits) ==
    SetColumn(t, V, [i \in 1 .. size(t) |-> t.rows[i][V] + bits[i]])

\* Mutant of filter: rows that are not selected go.
FilterRemoving(t, bits) == [t EXCEPT !.rows = included_reference(@, bits)]

filter(t, bits) ==
    SetColumn(t, V, [i \in 1 .. size(t) |-> t.rows[i][V] * bits[i]])

ZeroRow(cs) == [c \in cs |-> 0]

\* Every column is cut or filled up with zeros.
resize(t, n) ==
    [t EXCEPT !.rows = [i \in 1 .. n |-> IF i <= size(t) THEN t.rows[i]
                                                         ELSE ZeroRow(t.cols)]]
head(t, n) == resize(t, n)

tail(t, n) ==
    [t EXCEPT !.rows = [i \in 1 .. n |-> t.rows[size(t) - n + i]]]

PowerOfTwoAbove(n) == 2 ^ bit_width(n - 1)

pad_power_of_two(t) == resize(t, PowerOfTwoAbove(size(t)))

zero(t, cs) ==
    [t EXCEPT !.rows = [i \in 1 .. size(t) |->
        [c \in t.cols |-> IF c \in cs THEN 0 ELSE t.rows[i][c]]]]

renameColumn(t, old, new) ==
    LET name(c) == IF c = new THEN old ELSE c
        cs == (t.cols \ {old}) \cup {new}
    IN  IF old \notin t.cols \/ new \in t.cols THEN t
        ELSE [cols |-> cs, rows |-> [i \in 1 .. size(t) |->
                                        [c \in cs |-> t.rows[i][name(c)]]]]

prefix_sum(t, c) ==
    LET sum[i \in 0 .. size(t)] == IF i = 0 THEN 0 ELSE sum[i - 1] + t.rows[i][c]
    IN  SetColumn(t, c, [i \in 1 .. size(t) |-> sum[i]])

\* The low bit of each value in all its bits.
extend_lsb(t, c) == SetColumn(t, c, [i \in 1 .. size(t) |-> -(t.rows[i][c] % 2)])

\* t[to].slice(0, n - 1) = t[from].slice(1)
NextRows(t, from, to) ==
    SetColumn(t, to, [i \in 1 .. size(t) |-> IF i < size(t) THEN t.rows[i + 1][from]
                                                            ELSE t.rows[i][to]])

(***************************************************************************)
(* Order.  A specification is a sequence of <<column, "ASC" or "DESC">>.   *)
(* The sorting protocols of the queries leave equal rows in the order they *)
(* had: module Operators runs the algorithms themselves against sort.      *)
(***************************************************************************)
Before(t, spec, i, j) ==
    LET key(k, r) == IF spec[k][2] = "ASC" THEN t.rows[r][spec[k][1]]
                     ELSE -t.rows[r][spec[k][1]]
        same(n) == \A k \in 1 .. n : key(k, i) = key(k, j)
    IN  \/ \E k \in 1 .. Len(spec) : same(k - 1) /\ key(k, i) < key(k, j)
        \/ same(Len(spec)) /\ i < j

sort(t, spec) ==
    LET p == SortSeq([i \in 1 .. size(t) |-> i], LAMBDA i, j : Before(t, spec, i, j))
    IN  [t EXCEPT !.rows = [i \in 1 .. size(t) |-> t.rows[p[i]]]]

All(cs, order) == [k \in 1 .. Len(cs) |-> <<cs[k], order>>]

\* operators::distinct: 1 at the first row of every run of equal keys.
distinct(t, keys, res) ==
    LET first(i) == i = 1 \/ \E k \in 1 .. Len(keys) :
                                t.rows[i][keys[k]] # t.rows[i - 1][keys[k]]
    IN  SetColumn(t, res, [i \in 1 .. size(t) |-> IF first(i) THEN 1 ELSE 0])

distinctKeys(t, keys) ==
    LET sorted == sort(t, All(<<V>> \o keys, "ASC"))
        marked == distinct(addColumns(sorted, {UNIQ}), keys, UNIQ)
    IN  deleteColumns(filter(marked, Column(marked, UNIQ)), {UNIQ})

(***************************************************************************)
(* Aggregation.  aggs is a sequence of <<data, result, function>>.         *)
(***************************************************************************)
isAggregation(f) == f \notin {"copy", "valid"}

\* The aggregation functions: the result a of a row, the one b of an earlier row.
Aggregator(f, group, a, b) ==
    CASE f \in {"sum", "count"} -> a + group * b
      [] f = "bit_or"           -> IF group = 1 THEN BitOr(a, b) ELSE a
      [] f = "max"              -> IF group = 1 /\ b > a THEN b ELSE a
      [] f = "min"              -> IF group = 1 /\ b <= a THEN b ELSE a
      [] f = "copy"             -> IF group = 1 THEN b ELSE a
      [] f = "valid"            -> IF group = 1 THEN a * b ELSE a

\* The network starts from the data, a count from 1 or from the table id.
StartAggregates(t, aggs, sel) ==
    LET start(r, c) ==
            LET s == {k \in 1 .. Len(aggs) : aggs[k][2] = c} IN
            IF s = {} THEN r[c]
            ELSE LET g == aggs[CHOOSE k \in s : TRUE] IN
                 IF g[3] # "count" THEN r[g[1]]
                 ELSE IF sel = "" THEN 1 ELSE r[sel]
    IN  [t EXCEPT !.rows = [i \in 1 .. size(t) |->
            [c \in t.cols |-> start(t.rows[i], c)]]]

\* One level of the prefix network: pairs <<a, b>> of rows, a flows into b.
AggregateLevel(t, keys, aggs, sel, pairs) ==
    LET bit(b) == IF b THEN 1 ELSE 0
        same(i, j) == \A k \in 1 .. Len(keys) : t.rows[i][keys[k]] = t.rows[j][keys[k]]
        group(f, i, j) ==
            bit(same(i, j) /\ (f = "copy" \/ sel = "" \/ t.rows[i][sel] = t.rows[j][sel]))
        value(i, j, c) ==
            LET s == {k \in 1 .. Len(aggs) : aggs[k][2] = c} IN
            IF s = {} THEN t.rows[j][c]
            ELSE LET f == aggs[CHOOSE k \in s : TRUE][3] IN
                 Aggregator(f, group(f, i, j), t.rows[j][c], t.rows[i][c])
        from == [j \in 1 .. size(t) |-> {p[1] : p \in {q \in pairs : q[2] = j}}]
        row(j) == IF from[j] = {} THEN t.rows[j]
                  ELSE LET i == CHOOSE i \in from[j] : TRUE
                       IN  [c \in t.cols |-> value(i, j, c)]
    IN  [t EXCEPT !.rows = [j \in 1 .. size(t) |-> row(j)]]

\* aggregators::aggregate
AggregateRows(t, keys, aggs, reverse, sel) ==
    LET n == size(t)
        through[l \in 0 .. BrentKungDepth(n)] ==
            IF l = 0 THEN StartAggregates(t, aggs, sel)
            ELSE AggregateLevel(through[l - 1], keys, aggs, sel,
                                BrentKungLevel(n, reverse, l - 1))
    IN  through[BrentKungDepth(n)]

\* Mutant of MarkGroups: always the first row of a group, where only reversed ones end.
MarkFirst(t, reverse) == filter(t, [i \in 1 .. size(t) |-> t.rows[i][UNIQ]])

\* One row of a group stays valid: its first when reversed, else its last.
MarkGroups(t, reverse) ==
    LET n == size(t)
        bit(i) == IF reverse THEN t.rows[i][UNIQ]
                  ELSE IF i = n THEN 1 ELSE t.rows[i + 1][UNIQ]
    IN  filter(t, [i \in 1 .. n |-> bit(i)])

\* opt = [reverse, do_sort, mark_valid, table_id]
AggregationOptions == [reverse |-> FALSE, do_sort |-> TRUE, mark_valid |-> TRUE,
                       table_id |-> ""]

\* Mutant of aggregate: the marks stay in the table.
AggregateKeepsMarks(t, by, aggs, opt) ==
    LET keys == IF opt.do_sort THEN <<V>> \o by ELSE by
        sorted == IF opt.do_sort THEN sort(t, All(keys, "ASC")) ELSE t
        marked == distinct(addColumns(pad_power_of_two(sorted), {UNIQ}), keys, UNIQ)
    IN  MarkGroups(resize(AggregateRows(marked, keys, aggs, opt.reverse, opt.table_id), size(t)),
                   opt.reverse)

aggregate(t, by, aggs, opt) ==
    LET keys == IF opt.do_sort THEN <<V>> \o by ELSE by
        sorted == IF opt.do_sort THEN sort(t, All(keys, "ASC")) ELSE t
        padded == pad_power_of_two(sorted)
        marked == IF opt.mark_valid THEN distinct(addColumns(padded, {UNIQ}), keys, UNIQ)
                  ELSE padded
        done == resize(AggregateRows(marked, keys, aggs, opt.reverse,
                            IF opt.mark_valid THEN opt.table_id ELSE ""), size(t))
        any == \E k \in 1 .. Len(aggs) : isAggregation(aggs[k][3])
    IN  IF ~opt.mark_valid THEN done
        ELSE deleteColumns(IF any THEN MarkGroups(done, opt.reverse) ELSE done, {UNIQ})

(***************************************************************************)
(* Two tables.                                                             *)
(***************************************************************************)
concatenate(t, u) ==
    LET cs == {TID, V} \cup t.cols \cup u.cols
        from(r, known) ==
            [c \in cs |-> IF c \in known THEN r[c] ELSE IF c = V THEN 1 ELSE 0]
    IN  [cols |-> cs,
         rows |-> [i \in 1 .. size(t) |-> from(t.rows[i], t.cols)]
             \o [i \in 1 .. size(u) |-> [from(u.rows[i], u.cols) EXCEPT ![TID] = 1]]]

JoinOptions == [left_outer |-> FALSE, right_outer |-> FALSE, anti |-> FALSE,
                trim_invalid |-> TRUE, merge |-> FALSE]

TEMP == "[##VALID_TEMP]"

\* Which rows of the sorted concatenation the kind of join keeps at first.
JoinValid(t, opt) ==
    LET n == size(t)
        at(i, c) == t.rows[i][c] = 1
        valid(i) ==
            IF opt.left_outer
            THEN \/ opt.right_outer
                 \/ /\ ~(at(i, TID) /\ at(i, UNIQ))
                    /\ i = n \/ at(i, TID) \/ at(i + 1, UNIQ)
            ELSE IF opt.right_outer THEN at(i, TID) ELSE ~at(i, UNIQ)
    IN  SetColumn(t, TEMP, [i \in 1 .. n |-> IF at(i, V) /\ valid(i) THEN 1 ELSE 0])

\* Bits of a share, in the estimate of what trimming costs.
SHARE_BITS == 64

TrimWorthwhile(L, R, columns) ==
    R < (L * (SHARE_BITS + columns - 1)) \div (columns + 2)

_join(left, right, by, aggs, opt) ==
    LET named == UNION {{aggs[k][1], aggs[k][2]} : k \in 1 .. Len(aggs)}
        outputs == Range(by) \cup right.cols \cup named
                   \cup (IF opt.left_outer THEN left.cols ELSE {})
        keys == <<V>> \o by
        sorted == sort(project(concatenate(left, right), outputs),
                       All(keys \o <<TID>>, "ASC"))
        wide == addColumns(sorted, {UNIQ, TEMP})
        marked == JoinValid(IF opt.right_outer THEN wide ELSE distinct(wide, keys, UNIQ), opt)
        spec == aggs \o (IF opt.right_outer THEN <<>> ELSE <<<<TEMP, TEMP, "valid">>>>)
                     \o (IF opt.anti THEN <<<<TEMP, TEMP, "copy">>>> ELSE <<>>)
        done == aggregate(deleteColumns(marked, {UNIQ}), keys, spec,
                    [AggregationOptions EXCEPT !.do_sort = FALSE, !.table_id = TID])
        joined == deleteColumns(filter(done, Column(done, TEMP)), {TEMP, TID})
    IN  IF /\ opt.trim_invalid /\ ~opt.left_outer
           /\ TrimWorthwhile(size(left), size(right), Cardinality(left.cols) - 1)
        THEN head(sort(joined, <<<<V, "DESC">>>>), size(right))
        ELSE joined

(***************************************************************************)
(* The kinds of join: their options, and for semi and anti joins, which    *)
(* are joins of the right table with the left one, that the columns of the *)
(* left one stay.                                                          *)
(***************************************************************************)
inner_join == JoinOptions
left_outer_join == [JoinOptions EXCEPT !.left_outer = TRUE]
right_outer_join == [JoinOptions EXCEPT !.right_outer = TRUE]
full_outer_join == [JoinOptions EXCEPT !.left_outer = TRUE, !.right_outer = TRUE]
semi_join == JoinOptions
anti_join == [JoinOptions EXCEPT !.right_outer = TRUE, !.anti = TRUE]

\* Join of tables whose keys are unique: two rows of a key follow each other.
KeyedPairs(t, by) ==
    LET n == size(t)
        pair(i) == i > 1 /\ \A k \in 1 .. Len(by) : t.rows[i - 1][by[k]] = t.rows[i][by[k]]
    IN  filter(t, [i \in 1 .. n |-> IF pair(i) THEN 1 ELSE 0])

\* Every row takes a column's value of the row before it.
FromRowBefore(t, cs) ==
    [t EXCEPT !.rows = [i \in 1 .. size(t) |->
        [c \in t.cols |-> IF c \in cs /\ i > 1 THEN t.rows[i - 1][c] ELSE t.rows[i][c]]]]

(***************************************************************************)
(* Merging two sorted halves: the second is reversed, then rows at         *)
(* halving distances are put in order.                                     *)
(***************************************************************************)
bitonic_merge(t, spec) ==
    LET rounds == bitonic_merge_rounds(size(t))
        after[k \in 0 .. Len(rounds)] ==
            IF k = 0 THEN bitonic_merge_reverse_second_half(t.rows)
            ELSE CompareRound(after[k - 1], spec, rounds[k])
    IN  [t EXCEPT !.rows = after[Len(rounds)]]

SortedRows(rows, spec, from, to) ==
    \A i \in from + 1 .. to : ~compare_rows(spec, rows[i - 1], rows[i])

SortedHalves(t, spec) ==
    LET half == size(t) \div 2
    IN  SortedRows(t.rows, spec, 1, half) /\ SortedRows(t.rows, spec, half + 1, size(t))

\* BITONICMERGE also sorts by the table of a row.
UuMergeSpec(by) == All(by \o <<TID>>, "ASC")

uu_join(l, r, by, aggs, opt) ==
    LET both == concatenate(l, r)
        sorted == IF opt.merge THEN bitonic_merge(both, UuMergeSpec(by))
                  ELSE sort(both, All(by, "ASC"))
        copied == {aggs[k][1] : k \in 1 .. Len(aggs)}
        joined == deleteColumns(project(FromRowBefore(KeyedPairs(sorted, by), copied),
                                        r.cols \cup copied), {TID})
    IN  IF opt.trim_invalid
        THEN head(sort(joined, <<<<V, "DESC">>>>), Least(size(l), size(r)))
        ELSE joined

\* Every left row with every right row; a column of both tables is the right one's.
cartesian_join(l, r, key) ==
    LET left == repeated_subset_reference(l.rows, size(r))
        right == cyclic_subset_reference(r.rows, size(l))
        valid(i) == IF left[i][key] = right[i][key] THEN left[i][V] * right[i][V] ELSE 0
        value(i, c) == IF c = V THEN valid(i)
                       ELSE IF c \in r.cols /\ c # key THEN right[i][c] ELSE left[i][c]
    IN  [cols |-> l.cols \cup r.cols,
         rows |-> [i \in 1 .. Len(left) |-> [c \in l.cols \cup r.cols |-> value(i, c)]]]

JoinKinds ==
    [inner |-> inner_join, left_outer |-> left_outer_join, right_outer |-> right_outer_join,
     full_outer |-> full_outer_join, semi |-> semi_join, anti |-> anti_join,
     uu |-> JoinOptions, uu_all |-> [JoinOptions EXCEPT !.trim_invalid = FALSE],
     uu_merge |-> [JoinOptions EXCEPT !.trim_invalid = FALSE, !.merge = TRUE]]

\* The join of the given kind, with the options the queries give it.
join(kind, l, r, by, aggs) ==
    LET filters == kind \in {"semi", "anti"}
        joined == _join(IF filters THEN r ELSE l, IF filters THEN l ELSE r, by, aggs,
                        JoinKinds[kind])
    IN  IF kind \in {"uu", "uu_all", "uu_merge"} THEN uu_join(l, r, by, aggs, JoinKinds[kind])
        ELSE IF filters THEN project(joined, l.cols) ELSE joined

(***************************************************************************)
(* Output.                                                                 *)
(***************************************************************************)
\* All columns are permuted alike (module Shuffling has the protocol).
shuffle(t, perm) == [t EXCEPT !.rows = [i \in 1 .. size(t) |-> t.rows[perm[i]]]]

mask(t) ==
    LET seen(r, c) == IF c = V \/ r[V] = 1 THEN r[c] ELSE MASK_VALUE
    IN  [t EXCEPT !.rows = [i \in 1 .. size(t) |->
            [c \in t.cols |-> seen(t.rows[i], c)]]]

\* Mutant of finalize: nothing is masked.
FinalizeUnmasked(t, perm) == shuffle(t, perm)

finalize(t, perm) == mask(shuffle(t, perm))

\* The opened columns, a row a tuple.
open_with_schema(t, cs, remove_invalid) ==
    LET tuple(i) == [k \in 1 .. Len(cs) |-> t.rows[i][cs[k]]]
        all == [i \in 1 .. size(t) |-> tuple(i)]
    IN  IF remove_invalid THEN extract_valid(all, Column(t, V)) ELSE all

-----------------------------------------------------------------------------
(***************************************************************************)
(* Windows over the rows of a table in the order of their timestamps.      *)
(***************************************************************************)

tumbling_window(t, time, window_size, res) ==
    SetColumn(t, res, [i \in 1 .. size(t) |-> Quot(t.rows[i][time], window_size)])

\* The rows are sorted by their time before their keys.
SortedByTime(t, keys, time) ==
    sort(t, All(<<time>> \o SelectSeq(keys, LAMBDA k : k # time), "ASC"))

\* A start of a session has its time for an id, another row -1.
StartTimes(t, time, window_id, started) ==
    SetColumn(t, window_id, [i \in 1 .. size(t) |-> IF started[i] THEN t.rows[i][time] ELSE -1])

mark_gap_session(t, time, gap, i) == i = 1 \/ t.rows[i - 1][time] + gap - t.rows[i][time] < 0

gap_session_window(t, keys, time, window_id, gap) ==
    LET sorted == SortedByTime(t, keys, time)
        marked == StartTimes(sorted, time, window_id,
                             [i \in 1 .. size(t) |-> mark_gap_session(sorted, time, gap, i)])
    IN  AggregateRows(marked, keys, <<<<window_id, window_id, "max">>>>, FALSE, "")

WINDOW == "[##WINDOW]"      \* potential_window

\* The first row keeps the bit its window id had.
mark_threshold_session(t, window_id, i) ==
    IF i = 1 THEN t.rows[i][window_id] % 2 = 1
    ELSE t.rows[i][WINDOW] = 1 /\ t.rows[i - 1][WINDOW] = 0

threshold_session_window(t, keys, function_res, time, window_id, threshold, mark_valid) ==
    LET sorted == addColumns(SortedByTime(t, keys, time), {WINDOW})
        above == SetColumn(sorted, WINDOW, [i \in 1 .. size(t) |->
                    IF sorted.rows[i][function_res] > threshold THEN 1 ELSE 0])
        marked == StartTimes(above, time, window_id,
                             [i \in 1 .. size(t) |-> mark_threshold_session(above, window_id, i)])
        done == deleteColumns(AggregateRows(marked, keys,
                    <<<<window_id, window_id, "max">>>>, TRUE, WINDOW), {WINDOW})
    IN  IF mark_valid
        THEN filter(done, [i \in 1 .. size(t) |-> IF done.rows[i][window_id] > 0 THEN 1 ELSE 0])
        ELSE done
=============================================================================
