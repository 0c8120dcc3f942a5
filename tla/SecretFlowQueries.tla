------------------------- MODULE SecretFlowQueries --------------------------
(***************************************************************************)
(* The queries of bench/queries/secretflow.  Two parties each reduce their *)
(* own table in plain SQL and share only what is left of it; the lengths   *)
(* of the reduced tables are public.  A source named here is such a        *)
(* reduced table.                                                          *)
(***************************************************************************)
EXTENDS Integers, Sequences, FiniteSets, TLC, QueryLanguage, Databases, TPCHQueries

LOCAL Seqs == INSTANCE SequencesExt

MaxID == 2147483647         \* maxIDValue: larger than every key

(***************************************************************************)
(* SecretFlow Q1: each party adds up its own groups, and the sums are      *)
(* added row by row.                                                       *)
(***************************************************************************)
SFLOW_Q1_SHIP_DATE == 37
SFLOW_Q1_ROWS == 6

Charged(l) == (Discounted(l) * (100 + l.Tax)) \div 100

FlagStatus(l) == <<l.ReturnFlag, l.LineStatus>>

\* The groups of the rows shipped by the date, in sqlite's order.
GroupsBy(L, date) ==
    LET keys == {FlagStatus(l) : l \in {r \in Range(L) : r.ShipDate <= date}}
        less(a, b) == a[1] < b[1] \/ (a[1] = b[1] /\ a[2] < b[2])
    IN  Seqs!SetToSortSeq(keys, less)

GroupTotals(L, date, k) ==
    LET g == {i \in DOMAIN L : L[i].ShipDate <= date /\ FlagStatus(L[i]) = k}
    IN  [ReturnFlag |-> k[1], LineStatus |-> k[2],
         SumQuantity |-> Sum(g, LAMBDA i : L[i].Quantity),
         SumExtendedPrice |-> Sum(g, LAMBDA i : L[i].ExtendedPrice),
         SumDiscountedPrice |-> Sum(g, LAMBDA i : Discounted(L[i])),
         SumCharge |-> Sum(g, LAMBDA i : Charged(L[i])),
         SumDiscount |-> Sum(g, LAMBDA i : L[i].Discount),
         Count |-> Cardinality(g)]

\* The groups of one party, filled up with rows of zeros.
sf_q1_local(L) ==
    LET groups == GroupsBy(L, SFLOW_Q1_SHIP_DATE)
    IN  [i \in 1 .. SFLOW_Q1_ROWS |->
            IF i <= Len(groups) THEN GroupTotals(L, SFLOW_Q1_SHIP_DATE, groups[i])
            ELSE [c \in {"ReturnFlag", "LineStatus", "SumQuantity", "SumExtendedPrice",
                         "SumDiscountedPrice", "SumCharge", "SumDiscount", "Count"} |-> 0]]

Accumulate(t, u, c) == Set(t, c, Add(Col(c), Of(u, c)))

sf_q1 == Unfinalized(Plan(<<
    Load("main", "SF1_LOCAL"),
    Load("other", "SF1_OTHER"),
    Accumulate("main", "other", "SumQuantity"),
    Accumulate("main", "other", "SumExtendedPrice"),
    Accumulate("main", "other", "SumDiscountedPrice"),
    Accumulate("main", "other", "SumCharge"),
    Accumulate("main", "other", "SumDiscount"),
    Accumulate("main", "other", "Count")>>,
    "main", <<"ReturnFlag", "LineStatus", "SumQuantity", "SumExtendedPrice",
              "SumDiscountedPrice", "SumCharge", "SumDiscount", "Count">>))

\* One table of both parties' rows.  The rows add up only where both have the same groups.
sf_q1_sql(db) ==
    LET A == db.SFLOW_LINEITEM
        B == db.SFLOW_OTHER
        groups == GroupsBy(A, SFLOW_Q1_SHIP_DATE)
        row(k) == LET g == GroupTotals(A \o B, SFLOW_Q1_SHIP_DATE, k)
                  IN  <<g.ReturnFlag, g.LineStatus, g.SumQuantity, g.SumExtendedPrice,
                        g.SumDiscountedPrice, g.SumCharge, g.SumDiscount, g.Count>>
    IN  IF GroupsBy(B, SFLOW_Q1_SHIP_DATE) # groups THEN SqlUnstated
        ELSE Sql(Bagged(Range(groups), row)
                 @@ ([c \in 1 .. 8 |-> 0] :> SFLOW_Q1_ROWS - Len(groups)), <<>>, 0)

SFScope(focus) == [Scope(focus) EXCEPT !.rows = 4]

sf_q1_scope == SFScope([SL_Quantity |-> <<1, 2>>, SL_Day |-> <<5, 37, 38>>])

(***************************************************************************)
(* SecretFlow Q1, modified: one party holds the flags, the other the       *)
(* status of an order.                                                     *)
(***************************************************************************)
SFLOW_Q1_MOD_SHIP_DATE == 328

sf_q1_mod_local(L) ==
    LET shipped == SelectSeq(L, LAMBDA l : l.ShipDate <= SFLOW_Q1_MOD_SHIP_DATE)
        row(l) == [ReturnFlag |-> l.ReturnFlag, OrderKey |-> l.OrderKey,
                   Quantity |-> l.Quantity, ExtendedPrice |-> l.ExtendedPrice,
                   Discount |-> l.Discount, DiscPrice |-> Discounted(l),
                   Charge |-> Charged(l)]
    IN  [i \in 1 .. Len(shipped) |-> row(shipped[i])]

WhereValid(t, c) == Set(t, c, Mul(Col(c), Col("VA")))

sf_q1_mod == Plan(<<
    Load("Bob", "SFLOW_LINEITEM"),
    Project("Bob", {"[OrderKey]", "[LineStatus]"}),
    Load("main", "SF1M_LOCAL"),
    Join("C", "uu", "Bob", "main", <<"[OrderKey]">>, copies(<<"[LineStatus]">>)),
    AddColumns("C", {"[Key]"}),
    Set("C", "[Key]", Or(Shl(Col("[ReturnFlag]"), 1), Col("[LineStatus]"))),
    Sort("C", <<ASC("[Key]")>>),
    AddColumns("C", {"SumDiscPrice", "SumCharge", "SumQuantity", "SumPrice", "SumDisc",
                     "[AvgQuantity]", "[AvgPrice]", "[AvgDisc]", "Count", "VA"}),
    ConvertB2ABit("C", V, "VA"),
    WhereValid("C", "Quantity"), WhereValid("C", "ExtendedPrice"),
    WhereValid("C", "Discount"), WhereValid("C", "DiscPrice"), WhereValid("C", "Charge"),
    Aggregate("C", <<"[Key]">>,
        <<sum("Quantity", "SumQuantity"), sum("ExtendedPrice", "SumPrice"),
          sum("Discount", "SumDisc"), sum("VA", "Count"), sum("DiscPrice", "SumDiscPrice"),
          sum("Charge", "SumCharge")>>,
        [Default EXCEPT !.reverse = TRUE, !.do_sort = FALSE]),
    DeleteColumns("C", {"Quantity", "Discount", "ExtendedPrice", "Charge", "DiscPrice", "VA"}),
    Mask("C")>>,
    "C", <<"[ReturnFlag]", "[LineStatus]", "Count", "SumQuantity", "SumPrice", "SumDiscPrice",
           "SumCharge", "SumDisc">>)

TotalsBy(L, date) ==
    LET row(k) == LET g == GroupTotals(L, date, k)
                  IN  <<g.ReturnFlag, g.LineStatus, g.Count, g.SumQuantity, g.SumExtendedPrice,
                        g.SumDiscountedPrice, g.SumCharge, g.SumDiscount>>
    IN  Sql(Bagged(Range(GroupsBy(L, date)), row), <<>>, 0)

sf_q1_mod_sql(db) == TotalsBy(db.SFLOW_LINEITEM, SFLOW_Q1_MOD_SHIP_DATE)

sf_q1_mod_scope == SFScope([SL_Quantity |-> <<1, 2>>, SL_Day |-> <<5, 167, 169, 328, 329>>])

(***************************************************************************)
(* SecretFlow Q1, modified, without local reduction.                       *)
(***************************************************************************)
SFLOW_Q1_OBLIV_SHIP_DATE == 110

sf_q1_mod_obliv == Unfinalized(Plan(<<
    Load("Alice", "SFLOW_LINEITEM"),
    DeepCopy("Bob", "Alice"),
    Project("Alice", {"[ShipDate]", "[OrderKey]", "[ReturnFlag]", "ExtendedPrice", "Discount",
                      "Tax", "Quantity"}),
    Project("Bob", {"[OrderKey]", "[LineStatus]"}),
    Filter("Alice", Leq(Col("[ShipDate]"), Lit(SFLOW_Q1_OBLIV_SHIP_DATE))),
    Join("L", "uu", "Bob", "Alice", <<"[OrderKey]">>, copies(<<"[LineStatus]">>)),
    Sort("L", All(<<V, "[ReturnFlag]", "[LineStatus]">>, "ASC")),
    AddColumns("L", {"DiscPrice", "Charge", "SumDiscPrice", "SumCharge", "CountOrder",
                     "SumQuantity", "SumPrice", "SumDisc", "CountQuantity", "CountPrice",
                     "CountDisc", "[AvgQuantity]", "[AvgPrice]", "[AvgDisc]"}),
    Set("L", "DiscPrice", DiscountedPrice),
    Set("L", "Charge", Per(Mul(Col("DiscPrice"), Add(Col("Tax"), Lit(100))), 100)),
    Aggregate("L", <<"[ReturnFlag]", "[LineStatus]">>,
        <<sum("Quantity", "SumQuantity"), count("Quantity", "CountQuantity"),
          sum("ExtendedPrice", "SumPrice"), count("ExtendedPrice", "CountPrice"),
          sum("Discount", "SumDisc"), count("Discount", "CountDisc"),
          sum("DiscPrice", "SumDiscPrice"), sum("Charge", "SumCharge"),
          count("CountOrder", "CountOrder")>>,
        [Default EXCEPT !.reverse = TRUE, !.do_sort = FALSE]),
    DeleteColumns("L", {"Quantity", "Discount", "ExtendedPrice", "Charge", "DiscPrice"}),
    Sort("L", <<ASC(V)>>),
    Tail_("L", 6),
    Set("L", "[AvgQuantity]", Div(Col("SumQuantity"), Col("CountQuantity"))),
    Set("L", "[AvgPrice]", Div(Col("SumPrice"), Col("CountPrice"))),
    Set("L", "[AvgDisc]", Div(Col("SumDisc"), Col("CountDisc")))>>,
    "L", <<"[ReturnFlag]", "[LineStatus]", "CountOrder", "SumQuantity", "SumPrice",
           "SumDiscPrice", "SumCharge", "SumDisc">>))

sf_q1_mod_obliv_sql(db) == TotalsBy(db.SFLOW_LINEITEM, SFLOW_Q1_OBLIV_SHIP_DATE)

sf_q1_mod_obliv_scope ==
    [SFScope([SL_Quantity |-> <<1, 2>>, SL_Day |-> <<5, 110, 111, 168, 169>>]) EXCEPT !.rows = 6]

(***************************************************************************)
(* SecretFlow Q12: orders by mode of shipping and priority.  The sums of a *)
(* mode are taken over the opened column of modes.                         *)
(***************************************************************************)
SFLOW_Q12_DATE == 37
SHIP_MODES == 0 .. 2

sf_q12_lines(L) ==
    LET late(l) == /\ l.ShipMode \in SHIP_MODES
                   /\ l.CommitDate < l.ReceiptDate /\ l.ShipDate < l.CommitDate
                   /\ Between(l.ReceiptDate, SFLOW_Q12_DATE, SFLOW_Q12_DATE + 365)
        kept == SelectSeq(L, late)
    IN  [i \in 1 .. Len(kept) |-> [OrderKey |-> kept[i].OrderKey, ShipMode |-> kept[i].ShipMode]]

sf_q12_orders(O) ==
    [i \in 1 .. Len(O) |->
        LET high == bit(O[i].OrderPriority \in {1, 2}) IN
        [OrderKey |-> O[i].OrderKey, HighLineCount |-> high, LowLineCount |-> 1 - high]]

\* Rows after the last, with the largest key, up to a power of two.
PadForMerge(rows, key) ==
    LET n == Len(rows)
        pad == [c \in DOMAIN rows[1] |-> IF c = key THEN MaxID ELSE 0]
    IN  [i \in 1 .. PowerOfTwoAbove(n) |-> IF i <= n THEN rows[i] ELSE pad]

\* The table of lines that is merged: sorted by order, and padded.
sf_q12_merge_lines(L) == PadForMerge(sf_q12_lines(L), "OrderKey")

\* The table of orders that is merged.
sf_q12_merge_orders(O) == PadForMerge(sf_q12_orders(O), "OrderKey")

SelectedSum(c, mode, out) ==
    <<Set("J", out, Mul(Col(c), Opened(Eq(Col("[ShipMode]"), Lit(mode))))), PrefixSum("J", out)>>

\* From the join to the sums; the names of the six sums.
SFLOW_Q12_SUMS == <<"High0", "Low0", "High1", "Low1", "High2", "Low2">>

sf_q12_after(lines, orders, kind, modified) == ScalarPlan(<<
    Load("L2", lines),
    Load("O2", orders),
    Join("J", kind, "O2", "L2", <<"[OrderKey]">>, copies(<<"HighLineCount", "LowLineCount">>)),
    DeleteColumns("J", {"[OrderKey]"}),
    AddColumns("J", {"V"}),
    ConvertB2ABit("J", V, "V"),
    Set("J", "HighLineCount", Mul(Col("HighLineCount"), Col("V"))),
    Set("J", "LowLineCount", Mul(Col("LowLineCount"), Col("V")))>>
    \o modified \o
    <<Shuffle("J"),
      AddColumns("J", Range(SFLOW_Q12_SUMS))>>
    \o SelectedSum("HighLineCount", 0, "High0") \o SelectedSum("LowLineCount", 0, "Low0")
    \o SelectedSum("HighLineCount", 1, "High1") \o SelectedSum("LowLineCount", 1, "Low1")
    \o SelectedSum("HighLineCount", 2, "High2") \o SelectedSum("LowLineCount", 2, "Low2")
    \o <<Tail_("J", 1)>>,
    "J", SFLOW_Q12_SUMS)

sf_q12 == sf_q12_after("SF12_LINES", "SF12_ORDERS", "uu_all", <<DeleteColumns("J", {"V"})>>)

\* The tables are padded, and sorted by merging.
sf_q12_merge == sf_q12_after("SF12_LINES_PADDED", "SF12_ORDERS_PADDED", "uu_merge", <<>>)

sf_q12_sql(db) ==
    LET L == sf_q12_lines(db.SFLOW_LINEITEM)
        O == db.SFLOW_ORDERS
        joined(mode, high) ==
            {p \in Indices(L) \X Indices(O) :
                /\ L[p[1]].OrderKey = O[p[2]].OrderKey /\ L[p[1]].ShipMode = mode
                /\ (O[p[2]].OrderPriority \in {1, 2}) = high}
        n(mode, high) == Cardinality(joined(mode, high))
    IN  Sql(<<n(0, TRUE), n(0, FALSE), n(1, TRUE), n(1, FALSE), n(2, TRUE), n(2, FALSE)>> :> 1,
            <<>>, 0)

\* Padding rows are no rows of the database: the same answer.
sf_q12_merge_sql(db) == sf_q12_sql(db)

sf_q12_scope == SFScope([SL_Day |-> <<34, 35, 36>>, SL_ShipMode |-> <<0, 1, 2>>])

\* At most one of four rows is left out: the padded halves have one length.
sf_q12_merge_scope == SFScope([SL_Day |-> <<35, 36, 34, 35, 36, 35, 37>>])

(***************************************************************************)
(* SecretFlow Q14: the share of promotion parts in the revenue.            *)
(***************************************************************************)
SFLOW_Q14_DATE == 36
SFLOW_Q14_INTERVAL == 365

\* The revenue of each part, in the order a hash map gives: as inserted, or reversed.
\* The generator gives every line a part of its own.
sf_q14_lines(L, forward) ==
    LET sold == SelectSeq(L, LAMBDA l : Between(l.ShipDate, SFLOW_Q14_DATE,
                                                SFLOW_Q14_DATE + SFLOW_Q14_INTERVAL))
        n == Len(sold)
        row(l) == [PartKey |-> l.PartKey, KeyedPromoRevenue |-> 100 * Discounted(l),
                   PromoRevenue |-> Discounted(l)]
    IN  [i \in 1 .. n |-> row(sold[IF forward THEN i ELSE n + 1 - i])]

sf_q14_parts(P) ==
    [i \in 1 .. Len(P) |-> [PartKey |-> P[i].PartKey, HasPromo |-> bit(P[i].Type = 1)]]

\* The table of lines that is merged: padded, in the order of the hash map.
sf_q14_merge_lines(L, forward) == PadForMerge(sf_q14_lines(L, forward), "PartKey")

\* The table of parts that is merged.
sf_q14_merge_parts(P) == PadForMerge(sf_q14_parts(P), "PartKey")

sf_q14_after(lines, parts, kind) == ScalarPlan(<<
    Load("LineItem2", lines),
    Load("Part2", parts),
    Join("J", kind, "Part2", "LineItem2", <<"[PartKey]">>, copies(<<"HasPromo">>)),
    AddColumns("J", {"VA"}),
    ConvertB2ABit("J", V, "VA"),
    WhereValid("J", "PromoRevenue"),
    Set("J", "KeyedPromoRevenue",
        Mul(Mul(Col("KeyedPromoRevenue"), Col("HasPromo")), Col("VA"))),
    PrefixSum("J", "KeyedPromoRevenue"),
    PrefixSum("J", "PromoRevenue"),
    Tail_("J", 1),
    AddColumns("J", {"[output]"}),
    Set("J", "[output]", Div(Col("KeyedPromoRevenue"), Col("PromoRevenue")))>>,
    "J", <<"[output]">>)

sf_q14 == sf_q14_after("SF14_LINES", "SF14_PARTS", "uu_all")

sf_q14_merge == sf_q14_after("SF14_LINES_PADDED", "SF14_PARTS_PADDED", "uu_merge")

sf_q14_sql(db) ==
    LET L == db.SFLOW_LINEITEM
        P == db.SFLOW_PART
        sold == {i \in DOMAIN L : Between(L[i].ShipDate, SFLOW_Q14_DATE, SFLOW_Q14_DATE + SFLOW_Q14_INTERVAL)}
        promo == {i \in sold : \E p \in Range(P) : p.PartKey = L[i].PartKey /\ p.Type = 1}
        revenue(s) == Sum(s, LAMBDA i : Discounted(L[i]))
    IN  SqlQuotient(100 * revenue(promo), revenue(sold))

\* Padding rows are no rows of the database: the same answer.
sf_q14_merge_sql(db) == sf_q14_sql(db)

sf_q14_scope == SFScope([SL_Quantity |-> <<1, 2>>, SL_Day |-> <<35, 36, 364>>, SP_Type |-> <<1, 2>>])

sf_q14_merge_scope ==
    SFScope([SL_Quantity |-> <<1, 2>>, SL_Day |-> <<36, 100, 35, 300, 364, 200, 90>>,
             SP_Type |-> <<1, 2>>])
=============================================================================
