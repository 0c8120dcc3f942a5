----------------------------- MODULE MCOperators ----------------------------
(***************************************************************************)
(* Small inputs for the operators.  A network that sorts zeros and ones    *)
(* sorts everything, so the networks get longer vectors of these.          *)
(***************************************************************************)
EXTENDS Operators

ASC == "ASC"
DESC == "DESC"

Job(op, rs, spec, protocol, parties) ==
    [op |-> op, rows |-> rs, spec |-> spec, protocol |-> protocol, parties |-> parties]

\* Rows with a key each, and their number as data.
Keyed(ks) == [k \in 1 .. Len(ks) |-> ("[K]" :> ks[k]) @@ ("D" :> k)]

Vectors_(m, S) == [1 .. m -> S]

Ascending(ks) == \A k \in 2 .. Len(ks) : ks[k - 1] <= ks[k]

Halves(m) == {ks \in Vectors_(m, {0, 1}) : /\ Ascending(SubSeq(ks, 1, m \div 2))
                                           /\ Ascending(SubSeq(ks, m \div 2 + 1, m))}

Networks ==
    {Job("network", Keyed(ks), <<<<"[K]", o>>>>, "NETWORK", 1) :
        ks \in UNION {Vectors_(m, {0, 1}) : m \in 1 .. 6}, o \in {ASC, DESC}}
    \cup {Job("network", Keyed(ks), <<<<"[K]", o>>>>, "BITONICSORT", 1) :
        ks \in UNION {Vectors_(m, {0, 1}) : m \in {1, 2, 3, 8}}, o \in {ASC, DESC}}
    \cup {Job("network", Keyed(ks), <<<<"[K]", ASC>>>>, "BITONICMERGE", 1) :
        ks \in UNION {Halves(m) : m \in {2, 4, 8}}}
    \cup {Job("network", [k \in 1 .. Len(ks) |-> "[K]" :> ks[k]], <<<<"[K]", ASC>>>>, "ODDEVEN", 1) :
        ks \in UNION {Halves(m) : m \in {2, 4, 8}}}

Keys == -2 .. 1

VectorSorts ==
    {Job("vector_sort", Keyed(ks), <<<<"[K]", o>>>>, protocol, parties) :
        ks \in UNION {Vectors_(m, Keys) : m \in 1 .. 2} \cup Vectors_(3, {-2, 0, 1})
               \cup {<<0, -1, 0, 1>>, <<1, 1, 0, 0>>, <<-2, -2, -2, -2>>},
        o \in {ASC, DESC}, protocol \in {"QUICKSORT", "RADIXSORT"}, parties \in {2, 3}}
    \cup {Job("radix_sort_ccs", Keyed(ks), <<<<"[K]", ASC>>>>, "RADIXSORT", parties) :
        ks \in Vectors_(3, {-2, 0, 1}), parties \in {2, 3}}

TableRow(v, k, l) == (V :> v) @@ ("[K]" :> k) @@ ("[L]" :> l) @@ ("D" :> 3 * k - l)

TableSpecs == {<<<<V, ASC>>, <<"[K]", ASC>>, <<"[L]", DESC>>>>,
               <<<<V, DESC>>, <<"[K]", DESC>>, <<"[L]", ASC>>>>,
               <<<<"[L]", DESC>>, <<"[K]", DESC>>>>}

TableRows(m) == [1 .. m -> {TableRow(0, 0, 1), TableRow(1, -2, 1), TableRow(1, 0, -1), TableRow(1, 0, 1)}]

TableSorts ==
    {Job("table_sort", rs, spec, protocol, parties) :
        rs \in TableRows(3), spec \in TableSpecs,
        protocol \in {"QUICKSORT", "RADIXSORT"}, parties \in {2, 3}}

ShuffleJob(m, parties) == Job("shuffle", Keyed([k \in 1 .. m |-> k]), <<>>, "", parties)
SortJob(m, parties) == Job("table_sort", Keyed([k \in 1 .. m |-> 1 - k]), <<<<"[K]", ASC>>>>,
                           "QUICKSORT", parties)
CcsJob(m, parties) == Job("radix_sort_ccs", Keyed([k \in 1 .. m |-> 0]), <<<<"[K]", ASC>>>>,
                          "RADIXSORT", parties)

\* Operations on tables of different sizes, after one that leaves permutations over.
Mixed == {<<CcsJob(3, p), ShuffleJob(2, p), SortJob(3, p)>> : p \in {2, 3}}
         \cup {<<CcsJob(3, p), SortJob(2, p), ShuffleJob(3, p)>> : p \in {2, 3}}
         \cup {<<ShuffleJob(3, p), CcsJob(3, p), SortJob(3, p), ShuffleJob(2, p)>> : p \in {2, 3}}

DMJobs ==
    {Job("dm", rs, <<>>, "", 2) @@
        [encoding |-> enc, share |-> sh,
         tuples |-> [s \in {0, 1} |-> PermutationTuple(enc, IF s = 0 THEN p ELSE q, a, b)]] :
        rs \in {<<0, 1, 3>>, <<2, 2, 1>>}, enc \in {"A", "B"}, sh \in {<<0, 3, 1>>},
        p \in AllPermutations(3), q \in AllPermutations(3), a \in {<<1, 2, 3>>}, b \in {<<3, 0, 2>>}}

HMJobs ==
    {Job("hm", <<7, 8, 9>>, <<>>, "", parties) @@
        [perms |-> [g \in 1 .. Len(getGroups(parties)) |-> IF g % 2 = 1 THEN p ELSE q]] :
        parties \in {3, 4}, p \in AllPermutations(3), q \in AllPermutations(3)}

GenJobs == {Job("gen_perm", Identity(m), <<>>, "", 1) : m \in 1 .. 4}

TimedRow(k, t, f) == ("[K]" :> k) @@ ("[T]" :> t) @@ ("[F]" :> f) @@ ("[W]" :> 0) @@ (V :> 1)
                     @@ ("T" :> t) @@ ("W" :> 0)

WindowJobs ==
    {Job(op, [k \in 1 .. 4 |-> TimedRow(1, ts[k], fs[k])], <<>>, "", 1) @@ [width |-> 2] :
        op \in {"tumbling", "gap", "threshold"},
        ts \in {<<1, 3, 6, 7>>, <<7, 1, 4, 3>>, <<2, 5, 9, 9>>}, fs \in Vectors_(4, {1, 3})}

Powers(m) == [k \in 1 .. m |-> 2 ^ (k - 1)]

PrefixJobs ==
    {Job("prefix", Powers(m), <<>>, protocol, 1) @@ [reversed |-> r] :
        m \in {2, 4, 8, 16}, protocol \in {"TREE", "HILLISSTEELE", "BRENTKUNG"}, r \in BOOLEAN}

\* Left tables have every valid key at most once.
LeftRow(v, k) == (V :> v) @@ ("[K]" :> k) @@ ("[L]" :> 10 + k)
RightRow(v, k, d) == (V :> v) @@ ("[K]" :> k) @@ ("[R]" :> d)

CartesianJobs ==
    {Job("cartesian", l, <<>>, "", 1) @@ [right |-> r] :
        l \in {<<LeftRow(1, 1)>>, <<LeftRow(1, 2), LeftRow(1, 1)>>, <<LeftRow(1, 2), LeftRow(0, 1)>>,
               <<LeftRow(1, 3), LeftRow(1, 1), LeftRow(1, 2)>>},
        r \in [1 .. 3 -> {RightRow(1, 1, 20), RightRow(1, 2, 21), RightRow(0, 1, 22)}]}

Words == {[k \in 1 .. m |-> (7 * k + o) % 16] : m \in 1 .. 5, o \in {0, 3, 10}}

\* The bits each layout is documented to take.
SimpleJobs ==
    {Job("pack", x, <<>>, "", 1) @@
        [layout |-> SimpleLayout(a[1], a[2], a[3], rep), target |-> [k \in 1 .. Len(x) |-> 9],
         chosen |-> {b \in a[1] .. a[3] : (b - a[1]) % a[2] = 0}] :
        x \in Words, rep \in {1, 2},
        a \in {<<0, 1, 0>>, <<2, 1, 2>>, <<0, 1, 3>>, <<1, 1, 3>>, <<0, 2, 3>>, <<1, 2, 2>>}}

AlternatingJobs ==
    {Job("pack", x, <<>>, "", 1) @@
        [layout |-> AlternatingLayout(a[1], a[2], a[3], a[4], dir),
         target |-> [k \in 1 .. Len(x) |-> 6],
         chosen |-> {b \in a[1] .. 3 : LET o == (b - a[1]) % (a[3] + a[4])
                                       IN  o < a[3] /\ (IF dir = 1 THEN o ELSE a[3] - 1 - o) % a[2] = 0}] :
        x \in Words, dir \in {1, -1},
        a \in {<<0, 1, 1, 1>>, <<0, 1, 2, 2>>, <<0, 2, 2, 2>>, <<1, 1, 2, 1>>, <<0, 1, 4, 0>>}}
    \* A last chunk that is cut short, forwards only.
    \cup {Job("pack", x, <<>>, "", 1) @@
        [layout |-> AlternatingLayout(0, 1, 2, 1, 1), target |-> [k \in 1 .. Len(x) |-> 6],
         chosen |-> {0, 1, 3}] : x \in Words}

PackJobs == SimpleJobs \cup AlternatingJobs
            \cup {Job("decompose", x, <<>>, "", 1) : x \in Words}

AllPrograms ==
    {<<j>> : j \in Networks \cup VectorSorts \cup TableSorts \cup DMJobs \cup HMJobs \cup GenJobs
                   \cup WindowJobs \cup PrefixJobs \cup CartesianJobs \cup PackJobs}
    \cup Mixed

Rotation(m) == [k \in 1 .. m |-> k % m]
Backwards(m) == [k \in 1 .. m |-> m - k]

SomeShuffles(j, m) ==
    IF j.op = "vector_sort" THEN AllPermutations(m) ELSE {Rotation(m), Backwards(m)}

SomeMask(parties, m) == IF parties = 2 THEN Rotation(m) ELSE Backwards(m)
=============================================================================
