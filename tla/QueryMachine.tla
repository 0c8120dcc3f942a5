---------------------------- MODULE QueryMachine ----------------------------
(***************************************************************************)
(* The query programs run step by step.  Every table operation is one      *)
(* action: the engine runs it to its end before the program goes on.       *)
(*                                                                         *)
(* A program is run on a database and, for the seeds in Shadowed, at the   *)
(* same time on a second one with as many rows that are all zero: what the *)
(* parties see of a run (the shapes of the tables) may not tell the two    *)
(* apart.                                                                  *)
(***************************************************************************)
EXTENDS Integers, Sequences, FiniteSets, TLC, QueryLanguage

CONSTANTS PlanOf,           \* the programs, by name
          SchemaOf,         \* the shared columns of a source
          Rows(_, _, _),    \* the rows of a query's source, by seed
          SqlOf(_, _),      \* what sqlite answers to a query, by seed
          ChecksPass(_, _, _),  \* whether a program's assertions, by SQL answer, hold of opened rows
          Misjudges(_, _),      \* whether they reject the right answer, by SQL answer
          Queries,          \* the queries run
          Seeds,            \* the databases of each
          Shadowed          \* the seeds whose run has a second database

ASSUME QueriesKnown == Queries \subseteq DOMAIN PlanOf /\ Shadowed \subseteq Seeds

VARIABLES query, seed,
          pc,           \* the next step of the plan
          tables,       \* the tables of a world, by name
          opened,       \* what the parties learn
          ending,       \* how the program ended: "" while it runs
          misuse        \* what an operation requires and was not given

vars == <<query, seed, pc, tables, opened, ending, misuse>>

plan == PlanOf[query]
step == plan.steps[pc]

Worlds == IF seed \in Shadowed THEN {"data", "zero"} ELSE {"data"}

Running(op) == ending = "" /\ pc <= Len(plan.steps) /\ step.op = op

\* In every world, out becomes what New makes of the world's tables.
Put(out, New(_, _)) ==
    /\ tables' = [w \in Worlds |-> (out :> New(w, tables[w])) @@ tables[w]]
    /\ pc' = pc + 1
    /\ UNCHANGED <<query, seed, opened, ending>>

Update(New(_)) ==
    /\ Put(step.t, LAMBDA w, T : New(T[step.t]))
    /\ UNCHANGED misuse

Attribute(c) == IF c = "[C_Name]" THEN "Name"
                ELSE IF isBShared(c) THEN SubSeq(c, 2, Len(c) - 1) ELSE c

\* Engine::secret_share_table
secret_share_table(rows, cs) ==
    configureValid([cols |-> cs,
        rows |-> [i \in 1 .. Len(rows) |-> [c \in cs |-> rows[i][Attribute(c)]]]])

Init ==
    /\ query \in Queries
    /\ seed \in Seeds
    /\ pc = 1
    /\ tables = [w \in Worlds |-> [t \in {} |-> {}]]
    /\ opened = <<>>
    /\ ending = ""
    /\ misuse = {}

LoadTable ==
    /\ Running("load")
    /\ LET shared == secret_share_table(Rows(query, step.source, seed), SchemaOf[step.source])
       IN  Put(step.t, LAMBDA w, T : IF w = "data" THEN shared ELSE zero(shared, shared.cols \ {V}))
    /\ UNCHANGED misuse

ProjectTable == Running("project") /\ Update(LAMBDA t : project(t, step.cs))

AddColumnsTo == Running("addColumns") /\ Update(LAMBDA t : addColumns(t, step.cs))

DeleteColumnsOf == Running("deleteColumns") /\ Update(LAMBDA t : deleteColumns(t, step.cs))

Rename == Running("renameColumn") /\ Update(LAMBDA t : renameColumn(t, step.old, step.new))

CopyTable ==
    /\ Running("deepcopy")
    /\ Put(step.out, LAMBDA w, T : T[step.t])
    /\ UNCHANGED misuse

DropTable ==
    /\ Running("deleteTable")
    /\ tables' = [w \in Worlds |->
                    [t \in DOMAIN tables[w] \ {step.t} |-> tables[w][t]]]
    /\ pc' = pc + 1
    /\ UNCHANGED <<query, seed, opened, ending, misuse>>

Revalidate == Running("configureValid") /\ Update(configureValid)

Each(e, T) == [i \in 1 .. size(T[step.t]) |-> Eval(e, T, step.t, i)]

FilterTable ==
    /\ Running("filter")
    /\ Put(step.t, LAMBDA w, T : filter(T[step.t], Each(step.e, T)))
    /\ UNCHANGED misuse

AssignColumn ==
    /\ Running("set")
    /\ Put(step.t, LAMBDA w, T : SetColumn(T[step.t], step.c, Each(step.e, T)))
    /\ UNCHANGED misuse

Convert ==
    /\ Running("convert_a2b") \/ Running("convert_b2a_bit")
    /\ Update(LAMBDA t : SetColumn(t, step.to, Column(t, step.from)))

Extend == Running("extend_lsb") /\ Update(LAMBDA t : extend_lsb(t, step.c))

PrefixSumColumn == Running("prefix_sum") /\ Update(LAMBDA t : prefix_sum(t, step.c))

NextRowColumn == Running("nextRow") /\ Update(LAMBDA t : NextRows(t, step.from, step.to))

SortTable == Running("sort") /\ Update(LAMBDA t : sort(t, step.spec))

\* A row that is not valid stands for a later row of its keys that is.
Conflates(t, keys, pairs) ==
    \E p \in pairs : /\ \A k \in 1 .. Len(keys) : t.rows[p[1]][keys[k]] = t.rows[p[2]][keys[k]]
                     /\ t.rows[p[1]][V] = 0 /\ t.rows[p[2]][V] = 1

\* What distinct compares, and what aggregate does: there, also the last row counts.
Neighbours(n) == {<<i - 1, i>> : i \in 2 .. n}
Network(n, reverse) ==
    LET hops == UNION {BrentKungLevel(n, reverse, l) : l \in 0 .. BrentKungDepth(n) - 1}
    IN  hops \cup {<<h[2], h[1]>> : h \in hops}

Note(broken, what) == misuse' = IF broken THEN misuse \cup {what} ELSE misuse

DistinctRows ==
    /\ Running("distinct")
    /\ Put(step.t, LAMBDA w, T : IF step.res = "" THEN distinctKeys(T[step.t], step.keys)
                                 ELSE distinct(T[step.t], step.keys, step.res))
    /\ LET t == tables["data"][step.t]
           sorted == IF step.res = "" THEN sort(t, All(<<V>> \o step.keys, "ASC")) ELSE t
       IN  Note(Conflates(sorted, step.keys, Neighbours(size(t))), "validity")

AggregateTable ==
    /\ Running("aggregate")
    /\ Put(step.t, LAMBDA w, T : aggregate(T[step.t], step.by, step.aggs, step.opt))
    /\ LET t == pad_power_of_two(tables["data"][step.t])
       IN  Note(/\ ~step.opt.do_sort
                /\ Conflates(t, step.by, Network(size(t), step.opt.reverse)), "validity")

\* bitonic_merge asserts that its halves are equal, and powers of two.
EvenHalves(n) == n > 0 /\ PowerOfTwoAbove(n) = n

UnevenMerge == /\ step.kind = "uu_merge"
               /\ ~EvenHalves(size(tables["data"][step.t]) + size(tables["data"][step.r]))

AbortMerge ==
    /\ Running("join") /\ UnevenMerge
    /\ ending' = "aborted"
    /\ misuse' = misuse \cup {"sizes"}
    /\ UNCHANGED <<query, seed, pc, tables, opened>>

JoinTables ==
    /\ Running("join") /\ ~UnevenMerge
    /\ Put(step.out, LAMBDA w, T : join(step.kind, T[step.t], T[step.r], step.by, step.aggs))
    /\ LET both == concatenate(tables["data"][step.t], tables["data"][step.r])
       IN  Note(step.kind = "uu_merge" /\ ~SortedHalves(both, UuMergeSpec(step.by)), "halves")

HeadTable == Running("head") /\ Update(LAMBDA t : head(t, step.n))

TailTable ==
    /\ Running("tail")
    /\ Put(step.t, LAMBDA w, T : tail(T[step.t], IF step.rows = "" THEN step.n
                                                 ELSE size(T[step.rows])))
    /\ UNCHANGED misuse

\* A random permutation of n rows: some of them.
Permutations_(n) ==
    {[i \in 1 .. n |-> i], [i \in 1 .. n |-> n + 1 - i], [i \in 1 .. n |-> (i % n) + 1]}

ShuffleTable ==
    /\ Running("shuffle")
    /\ \E perm \in Permutations_(size(tables["data"][step.t])) :
          Update(LAMBDA t : shuffle(t, perm))

MaskTable == Running("mask") /\ Update(mask)

\* The build that checks itself opens the output.
Open ==
    /\ ending = "" /\ pc = Len(plan.steps) + 1
    /\ opened' = open_with_schema(tables["data"][plan.t], plan.columns, plan.remove_invalid)
    /\ ending' = "opened"
    /\ UNCHANGED <<query, seed, pc, tables, misuse>>

\* The build that only measures finalizes it: a party that gets the shares sees all rows.
Finalize ==
    /\ ending = "" /\ pc = plan.finalizeAt
    /\ \E perm \in Permutations_(size(tables["data"][plan.t])) :
          LET t == finalize(tables["data"][plan.t], perm)
          IN  /\ tables' = [tables EXCEPT !["data"] = (plan.t :> t) @@ @]
              /\ opened' = open_with_schema(t, plan.columns, TRUE)
    /\ ending' = "finalized"
    /\ UNCHANGED <<query, seed, pc, misuse>>

Next ==
    \/ LoadTable \/ ProjectTable \/ AddColumnsTo \/ DeleteColumnsOf \/ Rename \/ CopyTable
    \/ DropTable \/ Revalidate \/ FilterTable \/ AssignColumn \/ Convert \/ Extend
    \/ PrefixSumColumn \/ NextRowColumn \/ SortTable \/ DistinctRows \/ AggregateTable
    \/ JoinTables \/ AbortMerge \/ HeadTable \/ TailTable \/ ShuffleTable \/ MaskTable
    \/ Open \/ Finalize

Spec == Init /\ [][Next]_vars

(***************************************************************************)
(* Properties.                                                             *)
(***************************************************************************)
\* Every row has the table's columns, and a valid bit is a bit.
TypeOK ==
    /\ query \in Queries /\ seed \in Seeds
    /\ pc \in 1 .. Len(plan.steps) + 1
    /\ ending \in {"", "opened", "finalized", "aborted"}
    /\ misuse \subseteq {"validity", "halves", "sizes"}
    /\ \A w \in Worlds : \A t \in DOMAIN tables[w] : \A i \in 1 .. size(tables[w][t]) :
          /\ DOMAIN tables[w][t].rows[i] = tables[w][t].cols
          /\ V \in tables[w][t].cols => tables[w][t].rows[i][V] \in {0, 1}

\* The opened rows answer, and the program's comparison says so unless it is mistaken.
Answers(sql) ==
    IF misuse = {}
    THEN /\ IsAnswer(opened, sql)
         /\ ChecksPass(query, sql, opened) <=> ~Misjudges(query, sql)
    ELSE query \in {"q2", "q20", "rcdiff", "distinct_patients"} => IsPartOfAnswer(opened, sql)

\* What a program opens is an answer to its SQL text: the rows, as often, in the order asked
\* for, cut to the limit; for a quotient of which sqlite makes NULL, every bit set.  The
\* program's own comparison with sqlite passes, except exactly where it is mistaken (Misjudges).
\* A run in which an operation was given rows it is not made for (misuse) may answer wrongly;
\* NeverAborts says in which programs there are such runs.  Those of them that are asked for
\* rows lose some (distinct(keys), q2), and show none that is not in the answer.
AnswersTheQuery == ending = "opened" => Answers(SqlOf(query, seed))

\* Finalizing leaves nothing of a row that is not valid, and of the valid rows the answer, though
\* not its order.  Programs whose answer is one number (q14, q17, market-share) have it in the
\* last row, which need not be valid: then it is not kept, and only then.
FinalizedIsTheAnswer ==
    ending = "finalized" =>
        LET t == tables["data"][plan.t]
            valid == {i \in 1 .. size(t) : t.rows[i][V] = 1}
        IN  /\ \A i \in 1 .. size(t) \ valid : \A c \in t.cols \ {V} : t.rows[i][c] = MASK_VALUE
            /\ misuse = {} /\ (plan.remove_invalid \/ valid # {}) =>
                   IsAnswer(opened, [SqlOf(query, seed) EXCEPT !.order = <<>>])

Shape(T) == [t \in DOMAIN T |-> [cols |-> T[t].cols, rows |-> size(T[t])]]

\* Which tables there are, their columns and their numbers of rows do not depend on the data,
\* whatever trims, filters, joins and groups came before.
Oblivious == \A w \in Worlds : Shape(tables[w]) = Shape(tables["data"])

(***************************************************************************)
(* What the next operation asserts, or exits without.                      *)
(***************************************************************************)
B(t, cs) == \A k \in 1 .. Len(cs) : isBShared(cs[k]) /\ cs[k] \in t.cols

Accepted(i, T) ==
    LET t == T[i.t]
        enc == Encoding(i.e, T, i.t)
        own(c) == IF isBShared(c) THEN "B" ELSE "A"
        aggregated(u) == \A k \in 1 .. Len(i.aggs) :
                            /\ {i.aggs[k][1], i.aggs[k][2]} \subseteq u.cols
                            /\ isBShared(i.aggs[k][1]) = isBShared(i.aggs[k][2])
    IN  CASE i.op = "addColumns" -> /\ i.cs \cap t.cols = {}
                                    /\ size(T[i.rows]) = size(t)
          [] i.op = "filter" -> enc = "B"
          [] i.op = "set" -> i.c \in t.cols /\ enc \in {own(i.c), "public"}
          [] i.op \in {"convert_a2b", "convert_b2a_bit"} ->
                {i.from, i.to} \subseteq t.cols /\ isBShared(i.from) # isBShared(i.to)
          [] i.op = "nextRow" ->
                {i.from, i.to} \subseteq t.cols /\ isBShared(i.from) = isBShared(i.to)
          [] i.op \in {"extend_lsb", "prefix_sum"} -> i.c \in t.cols
          [] i.op = "sort" -> B(t, [k \in 1 .. Len(i.spec) |-> i.spec[k][1]])
          [] i.op = "distinct" -> /\ B(t, i.keys) /\ i.res \notin Range(i.keys)
                                  /\ IF i.res = "" THEN UNIQ \notin t.cols ELSE i.res \in t.cols
          [] i.op = "aggregate" -> /\ B(t, i.by) /\ aggregated(t)
                                   /\ i.opt.mark_valid => UNIQ \notin t.cols
          [] i.op = "join" -> /\ B(t, i.by) /\ B(T[i.r], i.by)
                              /\ aggregated(concatenate(t, T[i.r]))
                              /\ {UNIQ, TEMP} \cap (t.cols \cup T[i.r].cols) = {}
          [] i.op = "tail" -> (IF i.rows = "" THEN i.n ELSE size(T[i.rows])) <= size(t)
          [] OTHER -> TRUE

\* No program meets an assertion, a missing or doubled column, a table that is gone or too
\* short, or columns of two encodings; at its end the columns to open are there.  Only merges
\* of two parties' data stop, at AbortMerge, when one party has much more of it.  And only they,
\* distinct(keys), q2 and two variants of sf-q1 have an operation meet rows it is not made for:
\* every other program groups its rows by validity, too, or has no invalid ones there.
NeverAborts ==
    /\ ending = "aborted" => query \in {"sf_q12_merge", "sf_q14_merge"}
    /\ misuse # {} =>
          query \in {"q2", "q4", "q16", "q20", "rcdiff", "distinct_patients", "sf_q1_mod",
                    "sf_q1_mod_obliv", "sf_q12_merge", "sf_q14_merge"}
    /\ ending = "" =>
        IF pc > Len(plan.steps)
        THEN Range(plan.columns) \subseteq tables["data"][plan.t].cols
        ELSE step.op # "load" => /\ step.t \in DOMAIN tables["data"]
                                 /\ Accepted(step, tables["data"])
=============================================================================
