--------------------------- MODULE QueryLanguage ----------------------------
(***************************************************************************)
(* A query program is a straight line of calls on tables.  It is written   *)
(* as a sequence of instructions, one per call, and an expression over     *)
(* columns as a tuple headed by its operator.                              *)
(***************************************************************************)
EXTENDS Integers, Sequences, EncodedTable

(***************************************************************************)
(* Expressions.                                                            *)
(***************************************************************************)
Col(c) == <<"col", c>>
Of(t, c) == <<"of", t, c>>          \* a column of another table
Final(c) == <<"final", c>>          \* the last row's value, repeated
Lit(n) == <<"lit", n>>
Add(a, b) == <<"+", a, b>>
Sub(a, b) == <<"-", a, b>>
Mul(a, b) == <<"*", a, b>>
Neg(a) == <<"neg", a>>
Per(a, n) == <<"per", a, n>>        \* division by a public number
Div(a, b) == <<"/", a, b>>          \* division by a secret column
Eq(a, b) == <<"==", a, b>>
Neq(a, b) == <<"!=", a, b>>
Lt(a, b) == <<"<", a, b>>
Leq(a, b) == <<"<=", a, b>>
Gt(a, b) == <<"<", b, a>>
Geq(a, b) == <<"<=", b, a>>
Ltz(a) == <<"ltz", a>>
Not(a) == <<"!", a>>
And(a, b) == <<"&", a, b>>
Or(a, b) == <<"|", a, b>>
Low(a, n) == <<"low", a, n>>        \* a & (2^n - 1)
Shl(a, n) == <<"<<", a, n>>
Opened(a) == <<"opened", a>>        \* opened, and shared again by the party that selects

bit(b) == IF b THEN 1 ELSE 0

\* BSharedVector / BSharedVector: a zero divisor leaves every quotient bit set.
Divide(a, b) == IF b = 0 THEN -1 ELSE a \div b

\* The value of e in row i of table t.
RECURSIVE Eval(_, _, _, _)
Eval(e, tabs, t, i) ==
    LET a == Eval(e[2], tabs, t, i)
        b == Eval(e[3], tabs, t, i)
    IN  CASE e[1] = "col"   -> tabs[t].rows[i][e[2]]
          [] e[1] = "of"    -> tabs[e[2]].rows[i][e[3]]
          [] e[1] = "final" -> tabs[t].rows[size(tabs[t])][e[2]]
          [] e[1] = "lit"   -> e[2]
          [] e[1] = "+"     -> a + b
          [] e[1] = "-"     -> a - b
          [] e[1] = "*"     -> a * b
          [] e[1] = "neg"   -> -a
          [] e[1] = "per"   -> Quot(a, e[3])
          [] e[1] = "/"     -> Divide(a, b)
          [] e[1] = "=="    -> bit(a = b)
          [] e[1] = "!="    -> bit(a # b)
          [] e[1] = "<"     -> bit(a < b)
          [] e[1] = "<="    -> bit(a <= b)
          [] e[1] = "ltz"   -> bit(a < 0)
          [] e[1] = "!"     -> 1 - a
          [] e[1] = "&"     -> BitAnd(a, b)
          [] e[1] = "|"     -> BitOr(a, b)
          [] e[1] = "low"   -> a % 2 ^ e[3]
          [] e[1] = "<<"    -> a * 2 ^ e[3]
          [] e[1] = "opened" -> a

\* The encoding of an expression: "A", "B", "public", or "none" where an assertion fails.
RECURSIVE Encoding(_, _, _)
Encoding(e, tabs, t) ==
    LET named(u, c) == IF u \in DOMAIN tabs /\ c \in tabs[u].cols
                       THEN IF isBShared(c) THEN "B" ELSE "A" ELSE "none"
        a == Encoding(e[2], tabs, t)
        b == Encoding(e[3], tabs, t)
        both == IF b \in {a, "public"} THEN a ELSE IF a = "public" THEN b ELSE "none"
        only(x, enc) == IF x = enc THEN enc ELSE "none"
    IN  CASE e[1] \in {"col", "final"}  -> named(t, e[2])
          [] e[1] = "of"                -> named(e[2], e[3])
          [] e[1] = "lit"               -> "public"
          [] e[1] \in {"+", "-"}        -> both
          [] e[1] = "*"                 -> only(both, "A")
          [] e[1] \in {"neg", "per"}    -> only(a, "A")
          [] e[1] = "/"                 -> IF "none" \in {a, b} THEN "none" ELSE "B"
          [] e[1] \in {"==", "!=", "<", "<=", "&", "|"} -> only(both, "B")
          [] e[1] \in {"ltz", "!", "low", "<<"} -> only(a, "B")
          [] e[1] = "opened"            -> IF a = "none" THEN "none" ELSE "A"

(***************************************************************************)
(* Instructions.                                                           *)
(***************************************************************************)
Load(t, source) == [op |-> "load", t |-> t, source |-> source]
Project(t, cs) == [op |-> "project", t |-> t, cs |-> cs]
AddColumns(t, cs) == [op |-> "addColumns", t |-> t, cs |-> cs, rows |-> t]
AddColumnsOf(t, cs, u) == [op |-> "addColumns", t |-> t, cs |-> cs, rows |-> u]
DeleteColumns(t, cs) == [op |-> "deleteColumns", t |-> t, cs |-> cs]
RenameColumn(t, old, new) == [op |-> "renameColumn", t |-> t, old |-> old, new |-> new]
DeepCopy(out, t) == [op |-> "deepcopy", out |-> out, t |-> t]
DeleteTable(t) == [op |-> "deleteTable", t |-> t]
ConfigureValid(t) == [op |-> "configureValid", t |-> t]
Filter(t, e) == [op |-> "filter", t |-> t, e |-> e]
Set(t, c, e) == [op |-> "set", t |-> t, c |-> c, e |-> e]
ConvertA2B(t, a, b) == [op |-> "convert_a2b", t |-> t, from |-> a, to |-> b]
ConvertB2ABit(t, b, a) == [op |-> "convert_b2a_bit", t |-> t, from |-> b, to |-> a]
ExtendLsb(t, c) == [op |-> "extend_lsb", t |-> t, c |-> c]
PrefixSum(t, c) == [op |-> "prefix_sum", t |-> t, c |-> c]
Sort(t, spec) == [op |-> "sort", t |-> t, spec |-> spec]
DistinctKeys(t, keys) == [op |-> "distinct", t |-> t, keys |-> keys, res |-> ""]
Distinct(t, keys, res) == [op |-> "distinct", t |-> t, keys |-> keys, res |-> res]
Aggregate(t, by, aggs, opt) ==
    [op |-> "aggregate", t |-> t, by |-> by, aggs |-> aggs, opt |-> opt]
Join(out, kind, l, r, by, aggs) ==
    [op |-> "join", kind |-> kind, out |-> out, t |-> l, r |-> r, by |-> by, aggs |-> aggs]
Head_(t, n) == [op |-> "head", t |-> t, n |-> n]
Tail_(t, n) == [op |-> "tail", t |-> t, n |-> n, rows |-> ""]
TailOf(t, u) == [op |-> "tail", t |-> t, n |-> 0, rows |-> u]
Shuffle(t) == [op |-> "shuffle", t |-> t]
Mask(t) == [op |-> "mask", t |-> t]
NextRow(t, from, to) == [op |-> "nextRow", t |-> t, from |-> from, to |-> to]

InnerJoin(out, l, r, by, aggs) == Join(out, "inner", l, r, by, aggs)

ASC(c) == <<c, "ASC">>
DESC(c) == <<c, "DESC">>
sum(a, b) == <<a, b, "sum">>
count(a, b) == <<a, b, "count">>
min(a, b) == <<a, b, "min">>
max(a, b) == <<a, b, "max">>
copy(a, b) == <<a, b, "copy">>
bit_or(a, b) == <<a, b, "bit_or">>
copies(cs) == [k \in 1 .. Len(cs) |-> copy(cs[k], cs[k])]
Default == AggregationOptions

(***************************************************************************)
(* A plan ends in opening columns of a table, with or without its invalid  *)
(* rows.  A build that only measures (QUERY_PROFILE) opens nothing: it     *)
(* ends by finalizing the table before the step finalizeAt (0: it does     *)
(* not).                                                                   *)
(***************************************************************************)
Plan(steps, t, columns) ==
    [steps |-> steps, t |-> t, columns |-> columns, remove_invalid |-> TRUE,
     finalizeAt |-> Len(steps) + 1]
ScalarPlan(steps, t, columns) ==
    [steps |-> steps, t |-> t, columns |-> columns, remove_invalid |-> FALSE, finalizeAt |-> 0]
Unfinalized(plan) == [plan EXCEPT !.finalizeAt = 0]
Finalized(plan) == [plan EXCEPT !.finalizeAt = Len(plan.steps) + 1]

(***************************************************************************)
(* SQL: an answer is a bag of tuples, an order and a limit (0: none); null *)
(* says that its only value is NULL.                                       *)
(***************************************************************************)
Bagged(ids, F(_)) ==
    [r \in {F(x) : x \in ids} |-> Cardinality({x \in ids : F(x) = r})]

Sum(ids, F(_)) == FoldSet(LAMBDA x, acc : F(x) + acc, 0, ids)

Indices(rows) == DOMAIN rows

Sql(bag, order, limit) == [bag |-> bag, order |-> order, limit |-> limit, null |-> FALSE]

\* A query without group by has one row; the sum of no rows is NULL, which reads as 0.
SqlScalar(n) == Sql(<<n>> :> 1, <<>>, 0)

\* sqlite divides by zero with NULL, where a program opens a quotient with every bit set.
SqlQuotient(a, b) == IF b = 0 THEN [SqlScalar(-1) EXCEPT !.null = TRUE]
                     ELSE SqlScalar(a \div b)

\* What a program reads of an answer (sqlite3_column_int, _double): a NULL as 0.
SqlRead(sql) == IF sql.null THEN SqlScalar(0) ELSE sql

\* A program that does not compare itself, and of which nothing is expected here.
SqlUnstated == Sql(<<>>, <<>>, -1)

BagSize(bag) == Sum(DOMAIN bag, LAMBDA r : bag[r])

Precedes(r, u, order) ==
    LET key(x, k) == IF order[k][2] = "ASC" THEN x[order[k][1]] ELSE -x[order[k][1]]
    IN  \E k \in 1 .. Len(order) : /\ key(r, k) < key(u, k)
                                   /\ \A m \in 1 .. k - 1 : key(r, m) = key(u, m)

BagOf(out) == [r \in Range(out) |-> Cardinality({i \in DOMAIN out : out[i] = r})]

\* Rows of the answer, in its order, perhaps not all.
IsPartOfAnswer(out, sql) ==
    /\ \A i, j \in DOMAIN out : i < j => ~Precedes(out[j], out[i], sql.order)
    /\ \A r \in Range(out) : r \in DOMAIN sql.bag /\ BagOf(out)[r] <= sql.bag[r]

IsAnswer(out, sql) ==
    sql.limit # -1 =>
    /\ IsPartOfAnswer(out, sql)
    /\ IF sql.limit = 0 \/ BagSize(sql.bag) <= sql.limit THEN BagOf(out) = sql.bag
       ELSE /\ Len(out) = sql.limit
            /\ \A r \in DOMAIN sql.bag :
                  (r \notin Range(out) \/ BagOf(out)[r] < sql.bag[r])
                      => ~Precedes(r, out[Len(out)], sql.order)
=============================================================================
