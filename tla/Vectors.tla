------------------------------ MODULE Vectors -------------------------------
(***************************************************************************)
(* Views of a vector.  A Vector is an array and, optionally, a mapping:    *)
(* a sequence of positions of that array.  Taking a view composes the      *)
(* mapping and copies nothing, so a view is the same function of positions *)
(* whether it is applied to a vector or to another view; here it is an     *)
(* operator on sequences, and the mapping is its value on Positions(n).    *)
(* Indices are those of the code, from 0; positions of sequences from 1.   *)
(***************************************************************************)
EXTENDS Integers, Sequences, FiniteSetsExt

bit_width(n) == CHOOSE w \in 0 .. 31 : /\ (w = 0) = (n = 0)
                                       /\ w > 0 => 2 ^ (w - 1) <= n /\ n \div 2 < 2 ^ (w - 1)

div_ceil(a, b) == (a + b - 1) \div b

Least(a, b) == IF a < b THEN a ELSE b
Most(a, b) == IF a > b THEN a ELSE b

\* The operators & and | on numbers of at most 31 bits; of negative ones, only -1.
CommonBits(a, b) ==
    LET w == bit_width(Least(a, b))
        and[i \in 0 .. w] ==
            IF i = 0 THEN 0
            ELSE 2 * and[i - 1] + ((a \div 2 ^ (w - i)) % 2) * ((b \div 2 ^ (w - i)) % 2)
    IN  and[w]

BitAnd(a, b) == IF a < 0 THEN b ELSE IF b < 0 THEN a ELSE CommonBits(a, b)
BitOr(a, b) == a + b - CommonBits(a, b)

\* C++ division of a number by a positive one truncates towards zero.
Quot(a, c) == IF a < 0 THEN -((-a) \div c) ELSE a \div c

Positions(n) == [i \in 1 .. n |-> i]

slice(s, start, end) ==
    [i \in 1 .. Least(end - start, Len(s)) |-> s[start + i]]

From(s, start) == slice(s, start, Len(s))

simple_subset_reference(s, start, step, end) ==
    IF step = 1 THEN slice(s, start, end + 1)
    ELSE [i \in 1 .. Least(Len(s), Quot(end - start, step) + 1) |-> s[start + (i - 1) * step + 1]]

subset(s, start, step) ==
    simple_subset_reference(s, start, step, Most(0, Len(s) - 1))

included_reference(s, flag) ==
    LET n == Least(Len(s), Len(flag))
        taken[i \in 0 .. n] ==
            IF i = 0 THEN <<>>
            ELSE taken[i - 1] \o (IF flag[i] # 0 THEN <<s[i]>> ELSE <<>>)
    IN  taken[n]

\* -1 excluded elements stand for all but the included ones.
Excluded(s, included, excluded) == IF excluded = -1 THEN Len(s) - included ELSE excluded

alternating_subset_reference(s, included, excluded_size) ==
    LET chunk == included + Excluded(s, included, excluded_size)
        n == (Len(s) \div chunk) * included + Least(included, Len(s) % chunk)
    IN  [i \in 1 .. n |-> s[((i - 1) \div included) * chunk + ((i - 1) % included) + 1]]

repeated_subset_reference(s, times) ==
    [i \in 1 .. Len(s) * times |-> s[(i - 1) \div times + 1]]

cyclic_subset_reference(s, cycles) ==
    [i \in 1 .. Len(s) * cycles |-> s[((i - 1) % Len(s)) + 1]]

directed_subset_reference(s, direction) ==
    IF direction = -1 THEN [i \in 1 .. Len(s) |-> s[Len(s) + 1 - i]] ELSE s

reversed_view(s) == directed_subset_reference(s, -1)

mapping_reference(s, map) == [i \in 1 .. Len(map) |-> s[map[i] + 1]]

\* Writing vals through a view whose mapping is map.
Assign(s, map, vals) ==
    [p \in 1 .. Len(s) |->
        LET at == {i \in 1 .. Len(map) : map[i] = p}
        IN  IF at = {} THEN s[p] ELSE vals[Max(at)]]

extract_valid(s, valid) == included_reference(s, valid)

inclusive_scan(s) ==
    LET sum[i \in 0 .. Len(s)] == IF i = 0 THEN 0 ELSE sum[i - 1] + s[i]
    IN  [i \in 1 .. Len(s) |-> sum[i]]

(***************************************************************************)
(* Prefix networks: at every level a set of pairs <<a, b>> of positions;   *)
(* the value at a flows into the one at b.  Reversed networks run over the *)
(* reversed view.                                                          *)
(***************************************************************************)
Pairs(a, b) == {<<a[i], b[i]>> : i \in 1 .. Len(b)}

Directed(n, reversed) == directed_subset_reference(Positions(n), IF reversed THEN -1 ELSE 1)

HillisSteeleDepth(n) == bit_width(n - 1)

HillisSteeleLevel(n, reversed, i) ==
    LET gap == IF reversed THEN i + 1 ELSE HillisSteeleDepth(n) - i
        s == n - n \div 2 ^ gap
        v == Directed(n, reversed)
    IN  Pairs(slice(v, 0, s), From(v, n - s))

half_depth(n) == bit_width(n - 1)

BrentKungDepth(n) == 2 * half_depth(n) - 1

BrentKungLevel(n, reversed, i) ==
    LET up == i < half_depth(n)
        gap == 2 ^ (IF up THEN i ELSE 2 * half_depth(n) - 2 - i)
        v == Directed(n, reversed)
    IN  IF up THEN Pairs(subset(v, gap - 1, 2 * gap), subset(v, 2 * gap - 1, 2 * gap))
        ELSE Pairs(subset(v, 2 * gap - 1, 2 * gap), subset(v, 3 * gap - 1, 2 * gap))

\* Mutant of TreeLevel: the distances start at the whole vector and end at two.
TreeLevelOffByOne(n, reversed, i) ==
    LET d == n \div 2 ^ (i - 1)
        v == Directed(n, reversed)
    IN  Pairs(slice(v, 0, n - d), From(v, d))

\* tree_prefix_sum: half the vector apart first, neighbours last.
TreeLevel(n, reversed, i) ==
    LET d == n \div 2 ^ i
        v == Directed(n, reversed)
    IN  Pairs(slice(v, 0, n - d), From(v, d))
=============================================================================
