---------------------------- MODULE TPCHQueries -----------------------------
(***************************************************************************)
(* The 22 TPC-H queries: the plan of each, the SQL text it is checked      *)
(* against, and the bounds of the databases it is run on.                  *)
(***************************************************************************)
EXTENDS Integers, Sequences, FiniteSets, QueryLanguage, Databases

DefaultScope ==
    [customers |-> 3, orders |-> 3, parts |-> 2, suppliers |-> 3, nations |-> <<0, 1>>,
     rows |-> 4, focus |-> [L_PerOrder |-> <<1, 2>>, L_Price |-> <<90, 101>>,
                            L_Quantity |-> <<1, 3>>, L_Discount |-> <<0, 7>>]]

Scope(focus) == [DefaultScope EXCEPT !.focus = focus @@ DefaultScope.focus]

\* ExtendedPrice * (100 - Discount) / 100
DiscountedPrice == Per(Mul(Col("ExtendedPrice"), Add(Neg(Col("Discount")), Lit(100))), 100)
Discounted(l) == (l.ExtendedPrice * (100 - l.Discount)) \div 100

Between(x, from, to) == from <= x /\ x < to
Within(c, from, to) == And(Geq(Col(c), Lit(from)), Lt(Col(c), Lit(to)))

(***************************************************************************)
(* Q1: totals of the line items shipped early, by flag and status.         *)
(***************************************************************************)
SHIP_DATE == 60

q1 == Plan(<<
    Load("L", "LINEITEM"),
    Project("L", {"[ShipDate]", "[ReturnFlag]", "[LineStatus]", "ExtendedPrice", "Discount",
                  "Tax", "Quantity"}),
    Filter("L", Leq(Col("[ShipDate]"), Lit(SHIP_DATE))),
    Sort("L", All(<<V, "[ReturnFlag]", "[LineStatus]">>, "ASC")),
    AddColumns("L", {"DiscPrice", "Charge", "SumDiscPrice", "SumCharge", "CountOrder",
                     "SumQuantity", "SumPrice", "SumDisc", "CountQuantity", "CountPrice",
                     "CountDisc", "[AvgQuantity]", "[AvgPrice]", "[AvgDisc]"}),
    Set("L", "DiscPrice", DiscountedPrice),
    Set("L", "Charge", Per(Mul(Col("DiscPrice"), Add(Col("Tax"), Lit(100))), 100)),
    Aggregate("L", <<V, "[ReturnFlag]", "[LineStatus]">>,
        <<sum("Quantity", "SumQuantity"), count("Quantity", "CountQuantity"),
          sum("ExtendedPrice", "SumPrice"), count("ExtendedPrice", "CountPrice"),
          sum("Discount", "SumDisc"), count("Discount", "CountDisc"),
          sum("DiscPrice", "SumDiscPrice"), sum("Charge", "SumCharge"),
          count("CountOrder", "CountOrder")>>,
        [Default EXCEPT !.reverse = TRUE, !.do_sort = FALSE]),
    DeleteColumns("L", {"Quantity", "Discount", "ExtendedPrice", "Tax", "Charge", "DiscPrice",
                        "[ShipDate]"}),
    Sort("L", <<ASC(V)>>),
    Tail_("L", 6),
    Set("L", "[AvgQuantity]", Div(Col("SumQuantity"), Col("CountQuantity"))),
    Set("L", "[AvgPrice]", Div(Col("SumPrice"), Col("CountPrice"))),
    Set("L", "[AvgDisc]", Div(Col("SumDisc"), Col("CountDisc"))),
    DeleteColumns("L", {"SumQuantity", "SumPrice", "SumDisc", "CountQuantity", "CountPrice",
                        "CountDisc"})>>,
    "L", <<"[ReturnFlag]", "[LineStatus]", "CountOrder", "SumCharge", "SumDiscPrice",
           "[AvgDisc]", "[AvgPrice]", "[AvgQuantity]">>)

q1_sql(db) ==
    LET L == db.LINEITEM
        shipped == {i \in DOMAIN L : L[i].ShipDate <= SHIP_DATE}
        charge(l) == (Discounted(l) * (100 + l.Tax)) \div 100
        row(k) ==
            LET g == {i \in shipped : <<L[i].ReturnFlag, L[i].LineStatus>> = k}
                n == Cardinality(g)
            IN  <<k[1], k[2], n, Sum(g, LAMBDA i : charge(L[i])),
                  Sum(g, LAMBDA i : Discounted(L[i])),
                  Sum(g, LAMBDA i : L[i].Discount) \div n,
                  Sum(g, LAMBDA i : L[i].ExtendedPrice) \div n,
                  Sum(g, LAMBDA i : L[i].Quantity) \div n>>
    IN  Sql(Bagged({<<L[i].ReturnFlag, L[i].LineStatus>> : i \in shipped}, row), <<>>, 0)

q1_scope == [Scope([L_PerOrder |-> <<2, 3>>, L_ShipDate |-> <<59, 60, 61>>,
                    L_Tax |-> <<0, 5>>]) EXCEPT !.orders = 3]

(***************************************************************************)
(* Q2: the cheapest suppliers of a kind of part, within a region.          *)
(***************************************************************************)
Q2_SIZE == 4
Q2_TYPE == 5
Q2_REGION == 1

q2 == Plan(<<
    Load("Part", "PART"), Load("Supplier", "SUPPLIER"), Load("PartSupp", "PARTSUPP"),
    Load("Nation", "NATION"), Load("Region", "REGION"),
    Project("Part", {"[PartKey]", "[Size]", "[Type]"}),
    Project("Supplier", {"[SuppKey]", "[NationKey]", "[AcctBal]", "[Name]"}),
    Project("PartSupp", {"[PartKey]", "[SuppKey]", "[SupplyCost]"}),
    Project("Nation", {"[NationKey]", "[RegionKey]", "[Name]"}),
    Project("Region", {"[RegionKey]", "[Name]"}),
    Filter("Part", And(Eq(Col("[Size]"), Lit(Q2_SIZE)), Eq(Col("[Type]"), Lit(Q2_TYPE)))),
    DeleteColumns("Part", {"[Size]", "[Type]"}),
    Filter("Region", Eq(Col("[Name]"), Lit(Q2_REGION))),
    InnerJoin("SelectedNations", "Region", "Nation", <<"[RegionKey]">>, <<>>),
    Project("SelectedNations", {"[NationKey]", "[Name]"}),
    AddColumnsOf("SelectedNations", {"[N_Name]"}, "Nation"),
    InnerJoin("SelectedSuppliers", "SelectedNations", "Supplier", <<"[NationKey]">>,
              <<copy("[Name]", "[N_Name]")>>),
    DeleteColumns("SelectedSuppliers", {"[NationKey]"}),
    InnerJoin("SelectedPartSupplies", "SelectedSuppliers", "PartSupp", <<"[SuppKey]">>,
              copies(<<"[N_Name]", "[Name]", "[AcctBal]">>)),
    DeleteColumns("SelectedPartSupplies", {"[SuppKey]"}),
    InnerJoin("GroupedByPart", "Part", "SelectedPartSupplies", <<"[PartKey]">>, <<>>),
    Sort("GroupedByPart", <<DESC(V)>>),
    AddColumns("GroupedByPart", {"[MinSupplyCost]"}),
    Aggregate("GroupedByPart", <<"[PartKey]">>, <<min("[SupplyCost]", "[MinSupplyCost]")>>,
        [Default EXCEPT !.do_sort = FALSE, !.mark_valid = FALSE]),
    Aggregate("GroupedByPart", <<"[PartKey]">>, copies(<<"[MinSupplyCost]">>),
        [Default EXCEPT !.reverse = TRUE, !.do_sort = FALSE]),
    Filter("GroupedByPart", Eq(Col("[SupplyCost]"), Col("[MinSupplyCost]"))),
    DeleteColumns("GroupedByPart", {"[SupplyCost]", "[MinSupplyCost]"}),
    Sort("GroupedByPart", <<DESC(V), DESC("[AcctBal]"), ASC("[N_Name]"), ASC("[Name]"),
                            ASC("[PartKey]")>>),
    Head_("GroupedByPart", 100)>>,
    "GroupedByPart", <<"[AcctBal]", "[Name]", "[N_Name]", "[PartKey]">>)

q2_sql(db) ==
    LET P == db.PART S == db.SUPPLIER PS == db.PARTSUPP N == db.NATION R == db.REGION
        inRegion == {<<x, s, n>> \in Indices(PS) \X Indices(S) \X Indices(N) :
                        /\ S[s].SuppKey = PS[x].SuppKey /\ S[s].NationKey = N[n].NationKey
                        /\ \E r \in DOMAIN R : /\ N[n].RegionKey = R[r].RegionKey
                                               /\ R[r].Name = Q2_REGION}
        offers(p) == {j \in inRegion : PS[j[1]].PartKey = P[p].PartKey}
        cost(j) == PS[j[1]].SupplyCost
        chosen == {<<p, j>> \in Indices(P) \X inRegion :
                      /\ P[p].Size = Q2_SIZE /\ P[p].Type = Q2_TYPE
                      /\ j \in offers(p) /\ \A k \in offers(p) : cost(j) <= cost(k)}
        row(x) == <<S[x[2][2]].AcctBal, S[x[2][2]].Name, N[x[2][3]].Name, P[x[1]].PartKey>>
    IN  Sql(Bagged(chosen, row), <<DESC(1), ASC(3), ASC(2), ASC(4)>>, 100)

q2_scope == [Scope([P_Size |-> <<4, 4, 5>>, P_Type |-> <<5, 5, 6>>,
                    PS_SupplyCost |-> <<10, 11, 12>>, S_AcctBal |-> <<-5, 7>>])
                EXCEPT !.suppliers = 5]

(***************************************************************************)
(* Q3: the open orders of a market segment with the largest revenue.       *)
(***************************************************************************)
Q3_DATE == 100
Q3_SEGMENT == 1

q3 == Plan(<<
    Load("LineItem", "LINEITEM"), Load("Orders", "ORDERS"), Load("Customers", "CUSTOMER"),
    Project("LineItem", {"[OrderKey]", "[ShipDate]", "ExtendedPrice", "Discount"}),
    Project("Orders", {"[OrderKey]", "[CustKey]", "[OrderDate]"}),
    Project("Customers", {"[CustKey]", "[MktSegment]"}),
    Filter("Customers", Eq(Col("[MktSegment]"), Lit(Q3_SEGMENT))),
    DeleteColumns("Customers", {"[MktSegment]"}),
    Filter("Orders", Lt(Col("[OrderDate]"), Lit(Q3_DATE))),
    Filter("LineItem", Gt(Col("[ShipDate]"), Lit(Q3_DATE))),
    DeleteColumns("LineItem", {"[ShipDate]"}),
    AddColumns("LineItem", {"Revenue"}),
    Set("LineItem", "Revenue", DiscountedPrice),
    DeleteColumns("LineItem", {"ExtendedPrice", "Discount"}),
    InnerJoin("CO", "Customers", "Orders", <<"[CustKey]">>, <<>>),
    DeleteColumns("CO", {"[CustKey]"}),
    AddColumns("CO", {"GroupRevenue"}),
    InnerJoin("COL", "CO", "LineItem", <<"[OrderKey]">>,
              <<sum("Revenue", "GroupRevenue"), copy("[OrderDate]", "[OrderDate]")>>),
    DeleteColumns("COL", {"Revenue"}),
    AddColumns("COL", {"[GroupRevenue]"}),
    ConvertA2B("COL", "GroupRevenue", "[GroupRevenue]"),
    DeleteColumns("COL", {"GroupRevenue"}),
    Sort("COL", <<DESC(V), DESC("[GroupRevenue]"), ASC("[OrderDate]")>>),
    Head_("COL", 10)>>,
    "COL", <<"[OrderKey]", "[GroupRevenue]", "[OrderDate]">>)

q3_sql(db) ==
    LET C == db.CUSTOMER O == db.ORDERS L == db.LINEITEM
        orders == {o \in DOMAIN O : O[o].OrderDate < Q3_DATE /\ \E c \in DOMAIN C :
                      C[c].CustKey = O[o].CustKey /\ C[c].MktSegment = Q3_SEGMENT}
        items(o) == {l \in DOMAIN L : L[l].OrderKey = O[o].OrderKey /\ L[l].ShipDate > Q3_DATE}
        row(o) == <<O[o].OrderKey, Sum(items(o), LAMBDA l : Discounted(L[l])), O[o].OrderDate>>
    IN  Sql(Bagged({o \in orders : items(o) # {}}, row), <<DESC(2), ASC(3)>>, 10)

q3_scope == Scope([C_MktSegment |-> <<1, 1, 2>>, O_OrderDate |-> <<98, 99, 100>>,
                   L_ShipDate |-> <<100, 101>>])

(***************************************************************************)
(* Q4: orders of an interval with a late line item, by priority.           *)
(***************************************************************************)
DATE == 100
DATE_INTERVAL == 10

q4 == Plan(<<
    Load("LineItem", "LINEITEM"), Load("Orders", "ORDERS"),
    Project("LineItem", {"[OrderKey]", "[CommitDate]", "[ReceiptDate]"}),
    Project("Orders", {"[OrderKey]", "[OrderPriority]", "[OrderDate]"}),
    Filter("Orders", Geq(Col("[OrderDate]"), Lit(DATE))),
    Filter("Orders", Lt(Col("[OrderDate]"), Lit(DATE + DATE_INTERVAL))),
    Filter("LineItem", Lt(Col("[CommitDate]"), Col("[ReceiptDate]"))),
    InnerJoin("Join", "Orders", "LineItem", <<"[OrderKey]">>, copies(<<"[OrderPriority]">>)),
    DistinctKeys("Join", <<"[OrderKey]">>),
    AddColumns("Join", {"OrderCount"}),
    Aggregate("Join", <<"[OrderPriority]">>, <<count("OrderCount", "OrderCount")>>, Default),
    DeleteColumns("Join", {"[CommitDate]", "[OrderDate]", "[OrderKey]", "[ReceiptDate]"})>>,
    "Join", <<"[OrderPriority]", "OrderCount">>)

q4_sql(db) ==
    LET O == db.ORDERS L == db.LINEITEM
        late == {o \in DOMAIN O :
                    /\ Between(O[o].OrderDate, DATE, DATE + DATE_INTERVAL)
                    /\ \E l \in DOMAIN L : /\ L[l].OrderKey = O[o].OrderKey
                                           /\ L[l].CommitDate < L[l].ReceiptDate}
        row(p) == <<p, Cardinality({o \in late : O[o].OrderPriority = p})>>
    IN  Sql(Bagged({O[o].OrderPriority : o \in late}, row), <<>>, 0)

q4_scope == Scope([O_OrderDate |-> <<99, 100, 109, 110>>, O_OrderPriority |-> <<1, 2>>,
                   L_ShipDate |-> <<30>>, L_CommitDate |-> <<40>>, L_Receipt |-> <<10, 11>>])

(***************************************************************************)
(* Q5: revenue of local suppliers, by nation of a region.                  *)
(***************************************************************************)
Q5_REGION == 1

q5 == Plan(<<
    Load("Customer", "CUSTOMER"), Load("Orders", "ORDERS"), Load("Lineitem", "LINEITEM"),
    Load("Supplier", "SUPPLIER"), Load("Nation", "NATION"), Load("Region", "REGION"),
    Project("Customer", {"[CustKey]", "[NationKey]"}),
    Project("Orders", {"[OrderKey]", "[CustKey]", "[OrderDate]"}),
    Project("Lineitem", {"[OrderKey]", "[LineNumber]", "[SuppKey]", "ExtendedPrice",
                         "Discount"}),
    Project("Supplier", {"[SuppKey]", "[NationKey]"}),
    Project("Nation", {"[NationKey]", "[RegionKey]", "[Name]"}),
    Project("Region", {"[RegionKey]", "[Name]"}),
    Filter("Orders", Within("[OrderDate]", DATE, DATE + DATE_INTERVAL)),
    DeleteColumns("Orders", {"[OrderDate]"}),
    Filter("Region", Eq(Col("[Name]"), Lit(Q5_REGION))),
    InnerJoin("SelectedNations", "Region", "Nation", <<"[RegionKey]">>, <<>>),
    Project("SelectedNations", {"[NationKey]", "[Name]"}),
    AddColumns("Lineitem", {"Revenue"}),
    Set("Lineitem", "Revenue", DiscountedPrice),
    DeleteColumns("Lineitem", {"ExtendedPrice", "Discount"}),
    InnerJoin("NS", "SelectedNations", "Supplier", <<"[NationKey]">>, copies(<<"[Name]">>)),
    InnerJoin("ItemsBySupplier", "NS", "Lineitem", <<"[SuppKey]">>, copies(<<"[Name]">>)),
    DeleteColumns("ItemsBySupplier", {"[NationKey]", "[SuppKey]"}),
    DeleteTable("Supplier"),
    InnerJoin("NC", "Nation", "Customer", <<"[NationKey]">>, copies(<<"[Name]">>)),
    InnerJoin("NCO", "NC", "Orders", <<"[CustKey]">>, copies(<<"[Name]">>)),
    InnerJoin("ItemsByCustomer", "NCO", "Lineitem", <<"[OrderKey]">>, copies(<<"[Name]">>)),
    DeleteColumns("ItemsByCustomer", {"[NationKey]", "[CustKey]", "[SuppKey]"}),
    DeleteTable("Customer"), DeleteTable("Orders"), DeleteTable("Lineitem"),
    InnerJoin("FinalItems", "ItemsByCustomer", "ItemsBySupplier",
              <<"[OrderKey]", "[LineNumber]", "[Name]">>, <<>>),
    DeleteColumns("FinalItems", {"[OrderKey]", "[LineNumber]"}),
    DeleteTable("ItemsByCustomer"), DeleteTable("ItemsBySupplier"),
    Aggregate("FinalItems", <<"[Name]">>, <<sum("Revenue", "Revenue")>>, Default),
    Sort("FinalItems", <<ASC(V)>>),
    TailOf("FinalItems", "Nation"),
    AddColumns("FinalItems", {"[Revenue]"}),
    ConvertA2B("FinalItems", "Revenue", "[Revenue]"),
    DeleteColumns("FinalItems", {"Revenue"}),
    Sort("FinalItems", <<DESC("[Revenue]")>>)>>,
    "FinalItems", <<"[Name]", "[Revenue]">>)

q5_sql(db) ==
    LET C == db.CUSTOMER O == db.ORDERS L == db.LINEITEM S == db.SUPPLIER
        N == {n \in Range(db.NATION) : \E r \in Range(db.REGION) :
                    r.RegionKey = n.RegionKey /\ r.Name = Q5_REGION}
        sold(n) == {l \in DOMAIN L :
            /\ \E s \in Range(S) : s.SuppKey = L[l].SuppKey /\ s.NationKey = n.NationKey
            /\ \E o \in Range(O) :
                  /\ o.OrderKey = L[l].OrderKey /\ Between(o.OrderDate, DATE, DATE + DATE_INTERVAL)
                  /\ \E c \in Range(C) : c.CustKey = o.CustKey /\ c.NationKey = n.NationKey}
        row(n) == <<n.Name, Sum(sold(n), LAMBDA l : Discounted(L[l]))>>
    IN  Sql(Bagged({n \in N : sold(n) # {}}, row), <<DESC(2)>>, 0)

q5_scope == [Scope([O_OrderDate |-> <<100, 109, 110>>]) EXCEPT !.nations = <<0, 1, 5>>]

(***************************************************************************)
(* Q6: revenue a discount cost, from columns the owners adjusted before    *)
(* sharing them.                                                           *)
(***************************************************************************)
\* sum(c) over the valid rows, left in the last row as column s.
TotalOf(t, c, s) == <<
    ConvertB2ABit(t, V, s), Set(t, s, Mul(Col(s), Col(c))), PrefixSum(t, s), Tail_(t, 1)>>

q6 == ScalarPlan(<<
    Load("LineItem", "LINEITEM"),
    Project("LineItem", {"[ShipDateAdj]", "[ShipDateAdjInterval]", "ExtendedPrice", "Discount",
                         "[DiscountHigh]", "[DiscountLow]", "[QuantityAdj]"}),
    AddColumns("LineItem", {"Revenue", "SumRevenue"}),
    Filter("LineItem", Not(Ltz(Col("[ShipDateAdj]")))),
    Filter("LineItem", Ltz(Col("[ShipDateAdjInterval]"))),
    Filter("LineItem", Not(Ltz(Col("[DiscountHigh]")))),
    Filter("LineItem", Ltz(Col("[DiscountLow]"))),
    Filter("LineItem", Ltz(Col("[QuantityAdj]"))),
    Set("LineItem", "Revenue", Mul(Col("ExtendedPrice"), Col("Discount")))>>
    \o TotalOf("LineItem", "Revenue", "SumRevenue")
    \o <<DeleteColumns("LineItem", {"Discount", "ExtendedPrice", "Revenue"})>>,
    "LineItem", <<"SumRevenue">>)

q6_sql(db) ==
    LET L == db.LINEITEM
        T == TPCH_DISCOUNT_THRESHOLD
        sold == {i \in DOMAIN L :
            /\ Between(L[i].ShipDate, TPCH_DATE_THRESHOLD, TPCH_DATE_THRESHOLD + TPCH_DATE_INTERVAL)
            /\ Between(L[i].Discount, T - 1, T + 2) /\ L[i].Quantity < TPCH_QUANTITY_THRESHOLD}
    IN  SqlScalar(Sum(sold, LAMBDA i : L[i].ExtendedPrice * L[i].Discount))

q6_scope == Scope([L_ShipDate |-> <<99, 100, 109, 110>>, L_Discount |-> <<3, 4, 6, 7>>,
                   L_Quantity |-> <<39, 39, 40>>])

(***************************************************************************)
(* Q7: trade between two nations, by year.                                 *)
(***************************************************************************)
DATE_START == 100
DATE_END == 110
DATE_MID == 105
NATION_1 == 9
NATION_2 == 31

OneOf(c, a, b) == Or(Eq(Col(c), Lit(a)), Eq(Col(c), Lit(b)))

q7 == Plan(<<
    Load("Supplier", "SUPPLIER"), Load("LineItem", "LINEITEM"), Load("Orders", "ORDERS"),
    Load("Customer", "CUSTOMER"), Load("Nation1", "NATION"), DeepCopy("Nation2", "Nation1"),
    Project("Supplier", {"[SuppKey]", "[NationKey]"}),
    Project("LineItem", {"[ShipDate]", "ExtendedPrice", "Discount", "[SuppKey]", "[OrderKey]"}),
    Project("Orders", {"[OrderKey]", "[CustKey]"}),
    Project("Customer", {"[CustKey]", "[NationKey]"}),
    Project("Nation1", {"[NationKey]", "[Name]"}),
    Project("Nation2", {"[NationKey]", "[Name]"}),
    RenameColumn("Nation1", "[Name]", "[N1_Name]"),
    RenameColumn("Nation2", "[Name]", "[N2_Name]"),
    Filter("LineItem", Geq(Col("[ShipDate]"), Lit(DATE_START))),
    Filter("LineItem", Lt(Col("[ShipDate]"), Lit(DATE_END))),
    AddColumns("LineItem", {"[Year]"}),
    Set("LineItem", "[Year]", Geq(Col("[ShipDate]"), Lit(DATE_MID))),
    DeleteColumns("LineItem", {"[ShipDate]"}),
    AddColumns("LineItem", {"Volume"}),
    Set("LineItem", "Volume", DiscountedPrice),
    DeleteColumns("LineItem", {"ExtendedPrice", "Discount"}),
    InnerJoin("SL", "Supplier", "LineItem", <<"[SuppKey]">>, copies(<<"[NationKey]">>)),
    InnerJoin("OSL", "Orders", "SL", <<"[OrderKey]">>, copies(<<"[CustKey]">>)),
    InnerJoin("NOSL", "Nation1", "OSL", <<"[NationKey]">>, copies(<<"[N1_Name]">>)),
    InnerJoin("CNOSL", "Customer", "NOSL", <<"[CustKey]">>, copies(<<"[NationKey]">>)),
    InnerJoin("FinalJoin", "Nation2", "CNOSL", <<"[NationKey]">>, copies(<<"[N2_Name]">>)),
    Sort("FinalJoin", <<ASC(V)>>),
    TailOf("FinalJoin", "LineItem"),
    Filter("FinalJoin", OneOf("[N1_Name]", NATION_1, NATION_2)),
    Filter("FinalJoin", And(OneOf("[N2_Name]", NATION_1, NATION_2),
                            Neq(Col("[N1_Name]"), Col("[N2_Name]")))),
    Aggregate("FinalJoin", <<"[N1_Name]", "[N2_Name]", "[Year]">>, <<sum("Volume", "Volume")>>,
              Default),
    RenameColumn("FinalJoin", "Volume", "Revenue")>>,
    "FinalJoin", <<"[N1_Name]", "[N2_Name]", "[Year]", "Revenue">>)

\* The nation's row of a key.
Keyed(rows, attribute, k) == CHOOSE r \in Range(rows) : r[attribute] = k
HasKey(rows, attribute, k) == \E r \in Range(rows) : r[attribute] = k

q7_sql(db) ==
    LET L == db.LINEITEM
        supplier(l) == Keyed(db.SUPPLIER, "SuppKey", l.SuppKey)
        customer(l) == Keyed(db.CUSTOMER, "CustKey", Keyed(db.ORDERS, "OrderKey", l.OrderKey).CustKey)
        nation(x) == Keyed(db.NATION, "NationKey", x.NationKey).Name
        group(l) == <<nation(supplier(l)), nation(customer(l)), bit(l.ShipDate >= DATE_MID)>>
        shipped == {i \in DOMAIN L :
            /\ HasKey(db.ORDERS, "OrderKey", L[i].OrderKey)
            /\ Between(L[i].ShipDate, DATE_START, DATE_END)
            /\ <<group(L[i])[1], group(L[i])[2]>> \in {<<NATION_1, NATION_2>>, <<NATION_2, NATION_1>>}}
        row(g) == Append(g, Sum({i \in shipped : group(L[i]) = g}, LAMBDA i : Discounted(L[i])))
    IN  Sql(Bagged({group(L[i]) : i \in shipped}, row), <<ASC(1), ASC(2), ASC(3)>>, 0)

q7_scope == [Scope([L_ShipDate |-> <<99, 104, 105, 109, 110>>]) EXCEPT !.nations = <<4, 15, 1>>]

(***************************************************************************)
(* Q8: a nation's share of a market, by year.                              *)
(***************************************************************************)
Q8_NATION == 9
Q8_REGION == 7
PART_TYPE == 4

q8 == Plan(<<
    Load("Part", "PART"), Load("Supplier", "SUPPLIER"), Load("LineItem", "LINEITEM"),
    Load("Orders", "ORDERS"), Load("Customer", "CUSTOMER"), Load("Nation1", "NATION"),
    DeepCopy("Nation2", "Nation1"), Load("Region", "REGION"),
    Project("Part", {"[PartKey]", "[Type]"}),
    Project("Supplier", {"[SuppKey]", "[NationKey]"}),
    Project("LineItem", {"ExtendedPrice", "Discount", "[PartKey]", "[SuppKey]", "[OrderKey]"}),
    Project("Orders", {"[OrderKey]", "[CustKey]", "[OrderDate]"}),
    Project("Customer", {"[CustKey]", "[NationKey]"}),
    Project("Nation1", {"[NationKey]", "[RegionKey]", "[Name]"}),
    Project("Nation2", {"[NationKey]", "[RegionKey]", "[Name]"}),
    Project("Region", {"[RegionKey]", "[Name]"}),
    Filter("Part", Eq(Col("[Type]"), Lit(PART_TYPE))),
    DeleteColumns("Part", {"[Type]"}),
    Filter("Region", Eq(Col("[Name]"), Lit(Q8_REGION))),
    DeleteColumns("Region", {"[Name]"}),
    Filter("Orders", Geq(Col("[OrderDate]"), Lit(DATE_START))),
    Filter("Orders", Lt(Col("[OrderDate]"), Lit(DATE_END))),
    AddColumns("Orders", {"[Year]"}),
    Set("Orders", "[Year]", Geq(Col("[OrderDate]"), Lit(DATE_MID))),
    DeleteColumns("Orders", {"[OrderDate]"}),
    AddColumns("LineItem", {"Volume"}),
    Set("LineItem", "Volume", DiscountedPrice),
    DeleteColumns("LineItem", {"ExtendedPrice", "Discount"}),
    InnerJoin("PL", "Part", "LineItem", <<"[PartKey]">>, <<>>),
    DeleteColumns("PL", {"[PartKey]"}),
    InnerJoin("OPL", "Orders", "PL", <<"[OrderKey]">>, copies(<<"[CustKey]", "[Year]">>)),
    DeleteColumns("OPL", {"[OrderKey]"}),
    InnerJoin("COPL", "Customer", "OPL", <<"[CustKey]">>, copies(<<"[NationKey]">>)),
    DeleteColumns("COPL", {"[CustKey]"}),
    InnerJoin("NCOPL", "Nation1", "COPL", <<"[NationKey]">>, copies(<<"[RegionKey]">>)),
    DeleteColumns("NCOPL", {"[NationKey]"}),
    InnerJoin("RNCOPL", "Region", "NCOPL", <<"[RegionKey]">>, <<>>),
    DeleteColumns("RNCOPL", {"[RegionKey]"}),
    InnerJoin("SRNCOPL", "Supplier", "RNCOPL", <<"[SuppKey]">>, copies(<<"[NationKey]">>)),
    DeleteColumns("SRNCOPL", {"[SuppKey]"}),
    InnerJoin("FinalJoin", "Nation2", "SRNCOPL", <<"[NationKey]">>, copies(<<"[Name]">>)),
    AddColumns("FinalJoin", {"[ValidNation]", "ValidNation", "VolumeFiltered"}),
    Set("FinalJoin", "[ValidNation]", Eq(Col("[Name]"), Lit(Q8_NATION))),
    ConvertB2ABit("FinalJoin", "[ValidNation]", "ValidNation"),
    Set("FinalJoin", "VolumeFiltered", Mul(Col("Volume"), Col("ValidNation"))),
    AddColumns("FinalJoin", {"VolumeSum", "VolumeFilteredSum"}),
    Aggregate("FinalJoin", <<"[Year]">>,
        <<sum("Volume", "VolumeSum"), sum("VolumeFiltered", "VolumeFilteredSum")>>, Default),
    Sort("FinalJoin", <<ASC(V)>>),
    TailOf("FinalJoin", "Orders"),
    AddColumns("FinalJoin", {"[MarketShare]"}),
    Set("FinalJoin", "VolumeFilteredSum", Mul(Col("VolumeFilteredSum"), Lit(100))),
    Set("FinalJoin", "[MarketShare]", Div(Col("VolumeFilteredSum"), Col("VolumeSum")))>>,
    "FinalJoin", <<"[Year]", "[MarketShare]">>)

q8_sql(db) ==
    LET L == db.LINEITEM
        order(l) == Keyed(db.ORDERS, "OrderKey", l.OrderKey)
        customer(l) == Keyed(db.CUSTOMER, "CustKey", order(l).CustKey)
        nation(x) == Keyed(db.NATION, "NationKey", x.NationKey)
        region(l) == Keyed(db.REGION, "RegionKey", nation(customer(l)).RegionKey)
        local(l) == nation(Keyed(db.SUPPLIER, "SuppKey", l.SuppKey)).Name = Q8_NATION
        sold == {i \in DOMAIN L :
            /\ HasKey(db.ORDERS, "OrderKey", L[i].OrderKey)
            /\ Keyed(db.PART, "PartKey", L[i].PartKey).Type = PART_TYPE
            /\ Between(order(L[i]).OrderDate, DATE_START, DATE_END)
            /\ region(L[i]).Name = Q8_REGION}
        year(l) == bit(order(l).OrderDate >= DATE_MID)
        volume(ids) == Sum(ids, LAMBDA i : Discounted(L[i]))
        row(y) == LET g == {i \in sold : year(L[i]) = y}
                  IN  <<y, (100 * volume({i \in g : local(L[i])})) \div volume(g)>>
    IN  Sql(Bagged({year(L[i]) : i \in sold}, row), <<ASC(1)>>, 0)

q8_scope == [Scope([O_OrderDate |-> <<100, 104, 105, 110>>, P_Type |-> <<4, 4, 5>>])
                EXCEPT !.nations = <<4, 6>>]

(***************************************************************************)
(* Q9: profit on a kind of part, by nation and date.                       *)
(***************************************************************************)
P_NAME_COLOR == 1

q9 == Plan(<<
    Load("Part", "PART"), Load("Supplier", "SUPPLIER"), Load("LineItem", "LINEITEM"),
    Load("PartSupp", "PARTSUPP"), Load("Orders", "ORDERS"), Load("Nation", "NATION"),
    Project("Part", {"[Name]", "[PartKey]"}),
    Project("Supplier", {"[NationKey]", "[SuppKey]"}),
    Project("LineItem", {"[SuppKey]", "[PartKey]", "[OrderKey]", "ExtendedPrice", "Discount",
                         "Quantity"}),
    Project("PartSupp", {"[PartKey]", "[SuppKey]", "SupplyCost"}),
    Project("Orders", {"[OrderKey]", "[OrderDate]"}),
    Project("Nation", {"[NationKey]", "[Name]"}),
    Filter("Part", Eq(Col("[Name]"), Lit(P_NAME_COLOR))),
    AddColumns("Supplier", {"[NationName]"}),
    InnerJoin("NS", "Nation", "Supplier", <<"[NationKey]">>, <<copy("[Name]", "[NationName]")>>),
    DeleteTable("Supplier"),
    InnerJoin("NSL", "NS", "LineItem", <<"[SuppKey]">>, copies(<<"[NationName]">>)),
    DeleteTable("NS"), DeleteTable("LineItem"),
    InnerJoin("PNSL", "Part", "NSL", <<"[PartKey]">>, <<>>),
    DeleteTable("Part"), DeleteTable("NSL"),
    InnerJoin("OPNSL", "Orders", "PNSL", <<"[OrderKey]">>, copies(<<"[OrderDate]">>)),
    DeleteTable("Orders"), DeleteTable("PNSL"),
    InnerJoin("FinalJoin", "PartSupp", "OPNSL", <<"[PartKey]", "[SuppKey]">>,
              copies(<<"SupplyCost">>)),
    DeleteTable("PartSupp"), DeleteTable("OPNSL"),
    Project("FinalJoin", {"[NationName]", "[OrderDate]", "ExtendedPrice", "Discount",
                          "Quantity", "SupplyCost"}),
    AddColumns("FinalJoin", {"Amount", "SumProfit"}),
    Set("FinalJoin", "Amount", Sub(DiscountedPrice, Mul(Col("SupplyCost"), Col("Quantity")))),
    Aggregate("FinalJoin", <<"[NationName]", "[OrderDate]">>, <<sum("Amount", "SumProfit")>>,
              Default),
    Sort("FinalJoin", <<ASC("[NationName]"), DESC("[OrderDate]")>>)>>,
    "FinalJoin", <<"[NationName]", "[OrderDate]", "SumProfit">>)

q9_sql(db) ==
    LET L == db.LINEITEM PS == db.PARTSUPP
        nation(l) == Keyed(db.NATION, "NationKey", Keyed(db.SUPPLIER, "SuppKey", l.SuppKey).NationKey)
        sales == {<<i, x>> \in Indices(L) \X Indices(PS) :
            /\ PS[x].SuppKey = L[i].SuppKey /\ PS[x].PartKey = L[i].PartKey
            /\ HasKey(db.ORDERS, "OrderKey", L[i].OrderKey)
            /\ Keyed(db.PART, "PartKey", L[i].PartKey).Name = P_NAME_COLOR}
        group(s) == <<nation(L[s[1]]).Name, Keyed(db.ORDERS, "OrderKey", L[s[1]].OrderKey).OrderDate>>
        profit(s) == Discounted(L[s[1]]) - PS[s[2]].SupplyCost * L[s[1]].Quantity
        row(g) == Append(g, Sum({s \in sales : group(s) = g}, profit))
    IN  Sql(Bagged({group(s) : s \in sales}, row), <<ASC(1), DESC(2)>>, 0)

q9_scope == [Scope([P_Name |-> <<1, 1, 2>>, L_SuppKey |-> <<1, 3, 4>>]) EXCEPT !.suppliers = 5]

(***************************************************************************)
(* Q10: what the returned items of an interval cost, by customer.          *)
(***************************************************************************)
RETURNFLAG == 0

q10 == Plan(<<
    Load("Customers", "CUSTOMER"), Load("Orders", "ORDERS"), Load("LineItem", "LINEITEM"),
    Load("Nations", "NATION"),
    Project("Customers", {"[CustKey]", "[C_Name]", "[AcctBal]", "[Phone]", "[Address]",
                          "[Comment]", "[NationKey]"}),
    Project("Orders", {"[OrderKey]", "[CustKey]", "[OrderDate]"}),
    Project("LineItem", {"[OrderKey]", "[ReturnFlag]", "ExtendedPrice", "Discount"}),
    Project("Nations", {"[NationKey]", "[Name]"}),
    Filter("LineItem", Eq(Col("[ReturnFlag]"), Lit(RETURNFLAG))),
    DeleteColumns("LineItem", {"[ReturnFlag]"}),
    Filter("Orders", Geq(Col("[OrderDate]"), Lit(DATE))),
    Filter("Orders", Lt(Col("[OrderDate]"), Lit(DATE + DATE_INTERVAL))),
    DeleteColumns("Orders", {"[OrderDate]"}),
    AddColumns("LineItem", {"Revenue"}),
    Set("LineItem", "Revenue", DiscountedPrice),
    DeleteColumns("LineItem", {"ExtendedPrice", "Discount"}),
    InnerJoin("OL", "Orders", "LineItem", <<"[OrderKey]">>, copies(<<"[CustKey]">>)),
    InnerJoin("COL", "Customers", "OL", <<"[CustKey]">>,
        copies(<<"[C_Name]", "[AcctBal]", "[Phone]", "[Address]", "[Comment]", "[NationKey]">>)),
    InnerJoin("FinalJoin", "Nations", "COL", <<"[NationKey]">>, copies(<<"[Name]">>)),
    Aggregate("FinalJoin", <<"[CustKey]">>, <<sum("Revenue", "Revenue")>>, Default),
    AddColumns("FinalJoin", {"[Revenue]"}),
    ConvertA2B("FinalJoin", "Revenue", "[Revenue]"),
    DeleteColumns("FinalJoin", {"Revenue"}),
    Sort("FinalJoin", <<DESC("[Revenue]")>>)>>,
    "FinalJoin", <<"[CustKey]", "[C_Name]", "[Revenue]", "[AcctBal]", "[Name]", "[Address]",
                   "[Phone]", "[Comment]">>)

q10_sql(db) ==
    LET L == db.LINEITEM
        order(l) == Keyed(db.ORDERS, "OrderKey", l.OrderKey)
        returned == {i \in DOMAIN L :
            /\ L[i].ReturnFlag = RETURNFLAG /\ HasKey(db.ORDERS, "OrderKey", L[i].OrderKey)
            /\ Between(order(L[i]).OrderDate, DATE, DATE + DATE_INTERVAL)}
        bought(c) == {i \in returned : order(L[i]).CustKey = c.CustKey}
        row(c) == <<c.CustKey, c.Name, Sum(bought(c), LAMBDA i : Discounted(L[i])), c.AcctBal,
                    Keyed(db.NATION, "NationKey", c.NationKey).Name, c.Address, c.Phone, c.Comment>>
    IN  Sql(Bagged({c \in Range(db.CUSTOMER) : bought(c) # {}}, row), <<DESC(3)>>, 0)

q10_scope == Scope([O_OrderDate |-> <<99, 100, 109, 110>>, L_ReturnFlag |-> <<0, 0, 1>>])

(***************************************************************************)
(* Q11: parts that hold a large share of a nation's stock.                 *)
(***************************************************************************)
Q11_NATION == 3
DIVIDE == 3     \* 1 / FRACTION, which grows with the scale factor

q11 == Plan(<<
    Load("PartSupp", "PARTSUPP"), Load("Supplier", "SUPPLIER"), Load("Nation", "NATION"),
    Project("PartSupp", {"[SuppKey]", "[PartKey]", "[SupplyCost]", "SupplyCost", "AvailQty"}),
    Project("Supplier", {"[SuppKey]", "[NationKey]"}),
    Project("Nation", {"[NationKey]", "[Name]"}),
    Filter("Nation", Eq(Col("[Name]"), Lit(Q11_NATION))),
    InnerJoin("NationSupplier", "Nation", "Supplier", <<"[NationKey]">>, <<>>),
    InnerJoin("MainQuery", "NationSupplier", "PartSupp", <<"[SuppKey]">>, <<>>),
    AddColumns("MainQuery", {"Value"}),
    Set("MainQuery", "Value", Mul(Col("SupplyCost"), Col("AvailQty"))),
    DeepCopy("SubQuery", "MainQuery"),
    AddColumns("SubQuery", {"SumValue", "SumFraction", "[SumFraction]"})>>
    \o TotalOf("SubQuery", "Value", "SumValue") \o <<
    Set("SubQuery", "SumFraction", Per(Col("SumValue"), DIVIDE)),
    ConvertA2B("SubQuery", "SumFraction", "[SumFraction]"),
    Project("SubQuery", {"SumValue", "[SumFraction]"}),
    ConfigureValid("SubQuery"),
    AddColumns("MainQuery", {"SumValue", "[SumValue]"}),
    Aggregate("MainQuery", <<"[PartKey]">>, <<sum("Value", "SumValue")>>, Default),
    ConvertA2B("MainQuery", "SumValue", "[SumValue]"),
    Project("MainQuery", {"[PartKey]", "[SumValue]"}),
    InnerJoin("CompoundQuery", "SubQuery", "MainQuery", <<>>, copies(<<"[SumFraction]">>)),
    Filter("CompoundQuery", Gt(Col("[SumValue]"), Col("[SumFraction]"))),
    Sort("CompoundQuery", <<DESC("[SumValue]")>>)>>,
    "CompoundQuery", <<"[PartKey]", "[SumValue]">>)

q11_sql(db) ==
    LET PS == db.PARTSUPP
        stocked == {x \in DOMAIN PS : \E s \in Range(db.SUPPLIER) :
            /\ s.SuppKey = PS[x].SuppKey
            /\ Keyed(db.NATION, "NationKey", s.NationKey).Name = Q11_NATION}
        value(ids) == Sum(ids, LAMBDA x : PS[x].SupplyCost * PS[x].AvailQty)
        of(p) == {x \in stocked : PS[x].PartKey = p}
        row(p) == <<p, value(of(p))>>
    IN  Sql(Bagged({p \in {PS[x].PartKey : x \in stocked} :
                        value(of(p)) > value(stocked) \div DIVIDE}, row), <<DESC(2)>>, 0)

q11_scope == [Scope([PS_SupplyCost |-> <<1, 2, 5>>, PS_AvailQty |-> <<1, 3>>])
                 EXCEPT !.suppliers = 5]

-----------------------------------------------------------------------------
(***************************************************************************)
(* Q12: late shipments by mode and urgency.  The program opens a row for   *)
(* each mode and urgency that occur, where the SQL text has one row for    *)
(* each mode with both counts.                                             *)
(***************************************************************************)
SHIPMODE1 == 3
SHIPMODE2 == 4
DATE_INPUT == 15

q12 == Plan(<<
    Load("L", "LINEITEM"), Load("O", "ORDERS"),
    Project("L", {"[ShipMode]", "[CommitDate]", "[ReceiptDate]", "[ShipDate]", "[OrderKey]"}),
    Project("O", {"[OrderPriority]", "[OrderKey]"}),
    Filter("L", OneOf("[ShipMode]", SHIPMODE1, SHIPMODE2)),
    Filter("L", Lt(Col("[CommitDate]"), Col("[ReceiptDate]"))),
    Filter("L", Lt(Col("[ShipDate]"), Col("[CommitDate]"))),
    Filter("L", Geq(Col("[ReceiptDate]"), Lit(DATE_INPUT))),
    Filter("L", Lt(Col("[ReceiptDate]"), Lit(DATE_INPUT + 365))),
    DeleteColumns("L", {"[CommitDate]", "[ReceiptDate]", "[ShipDate]"}),
    AddColumns("O", {"[HighLine]"}),
    Set("O", "[HighLine]", OneOf("[OrderPriority]", 1, 2)),
    DeleteColumns("O", {"[OrderPriority]"}),
    InnerJoin("T", "O", "L", <<"[OrderKey]">>, copies(<<"[HighLine]">>)),
    DeleteColumns("T", {"[OrderKey]"}),
    AddColumns("T", {"LineCount"}),
    Aggregate("T", <<"[ShipMode]", "[HighLine]">>, <<count("LineCount", "LineCount")>>,
              Default)>>,
    "T", <<"[ShipMode]", "[HighLine]", "LineCount">>)

LateLines(db) ==
    {l \in DOMAIN db.LINEITEM :
        LET line == db.LINEITEM[l] IN
        /\ HasKey(db.ORDERS, "OrderKey", line.OrderKey)
        /\ line.ShipMode \in {SHIPMODE1, SHIPMODE2}
        /\ line.CommitDate < line.ReceiptDate /\ line.ShipDate < line.CommitDate
        /\ Between(line.ReceiptDate, DATE_INPUT, DATE_INPUT + 365)}

ModeAndUrgency(db, l) ==
    LET line == db.LINEITEM[l]
    IN  <<line.ShipMode,
          bit(Keyed(db.ORDERS, "OrderKey", line.OrderKey).OrderPriority \in {1, 2})>>

LineCount(db, g) == Cardinality({l \in LateLines(db) : ModeAndUrgency(db, l) = g})

\* The counts of the SQL text that are not 0, a row each.
q12_sql(db) ==
    Sql(Bagged({ModeAndUrgency(db, l) : l \in LateLines(db)},
               LAMBDA g : Append(g, LineCount(db, g))), <<>>, 0)

\* The opened rows become a map, in which a missing group counts 0.  Each mode's counts have to
\* be those in the map, and the modes half as many as the opened rows.
q12_checks(sql, opened) ==
    LET modes == {r[1] : r \in DOMAIN sql.bag}
        counted(rows, g) == {r[3] : r \in {u \in rows : <<u[1], u[2]>> = g}} \ {0}
    IN  /\ \A g \in modes \X {0, 1} : counted(Range(opened), g) = counted(DOMAIN sql.bag, g)
        /\ Cardinality(modes) = Len(opened) \div 2

q12_scope == Scope([L_ShipMode |-> <<3, 4, 5>>, L_ShipDate |-> <<29, 30>>, L_Receipt |-> <<1, 2, 9>>,
                    L_CommitDate |-> <<30, 31>>, O_OrderPriority |-> <<1, 2, 3>>])

(***************************************************************************)
(* Q13: how many customers have how many orders.                           *)
(***************************************************************************)
q13 == Plan(<<
    Load("C", "CUSTOMER"), Load("O", "ORDERS"),
    Project("C", {"[CustKey]"}),
    Project("O", {"[CustKey]", "[Comment]"}),
    AddColumns("O", {"Count"}),
    Filter("O", Neq(Col("[Comment]"), Lit(0))),
    DeleteColumns("O", {"[Comment]"}),
    Join("T", "left_outer", "C", "O", <<"[CustKey]">>, <<count("Count", "Count")>>),
    AddColumns("T", {"[Count]", "CustDist"}),
    ConvertA2B("T", "Count", "[Count]"),
    Aggregate("T", <<"[Count]">>, <<count("CustDist", "CustDist")>>,
              [Default EXCEPT !.reverse = TRUE]),
    AddColumns("T", {UNIQ, "[CustDist]"}),
    Distinct("T", <<"[Count]">>, UNIQ),
    Filter("T", Col(UNIQ)),
    ConvertA2B("T", "CustDist", "[CustDist]"),
    DeleteColumns("T", {"[CustKey]", "Count", UNIQ, "CustDist"}),
    Sort("T", <<DESC("[CustDist]"), DESC("[Count]")>>)>>,
    "T", <<"[Count]", "[CustDist]">>)

q13_sql(db) ==
    LET orders(c) == Cardinality({o \in DOMAIN db.ORDERS :
            db.ORDERS[o].CustKey = c.CustKey /\ db.ORDERS[o].Comment # 0})
        C == Range(db.CUSTOMER)
        row(n) == <<n, Cardinality({c \in C : orders(c) = n})>>
    IN  Sql(Bagged({orders(c) : c \in C}, row), <<DESC(2), DESC(1)>>, 0)

q13_scope == [Scope([O_Comment |-> <<0, 1, 15>>]) EXCEPT !.customers = 5, !.orders = 6]

(***************************************************************************)
(* Q14: the part of an interval's revenue that promotions brought.         *)
(***************************************************************************)
q14 == Finalized(ScalarPlan(<<
    Load("LineItem", "LINEITEM"), Load("Part", "PART"),
    Project("LineItem", {"[ShipDate]", "[PartKey]", "Discount", "ExtendedPrice"}),
    Project("Part", {"[PartKey]", "[Type]"}),
    Filter("LineItem", Geq(Col("[ShipDate]"), Lit(DATE))),
    Filter("LineItem", Lt(Col("[ShipDate]"), Lit(DATE + DATE_INTERVAL))),
    InnerJoin("Join", "Part", "LineItem", <<"[PartKey]">>, copies(<<"[Type]">>)),
    DeepCopy("Case1", "Join"),
    AddColumns("Case1", {"Sum", "[Divide]"}),
    Filter("Case1", Eq(Col("[Type]"), Lit(1))),
    Set("Case1", "ExtendedPrice", DiscountedPrice)>> \o TotalOf("Case1", "ExtendedPrice", "Sum") \o <<
    DeepCopy("Case2", "Join"),
    AddColumns("Case2", {"Sum", "[Divide]"}),
    Set("Case2", "ExtendedPrice", DiscountedPrice)>> \o TotalOf("Case2", "ExtendedPrice", "Sum") \o <<
    Set("Case1", "Sum", Mul(Col("Sum"), Lit(100))),
    Set("Case1", "[Divide]", Div(Col("Sum"), Of("Case2", "Sum")))>>,
    "Case1", <<"[Divide]">>))

q14_sql(db) ==
    LET L == db.LINEITEM
        shipped == {i \in DOMAIN L : Between(L[i].ShipDate, DATE, DATE + DATE_INTERVAL)}
        promoted == {i \in shipped : Keyed(db.PART, "PartKey", L[i].PartKey).Type = 1}
        revenue(ids) == Sum(ids, LAMBDA i : Discounted(L[i]))
    IN  SqlQuotient(100 * revenue(promoted), revenue(shipped))

q14_scope == Scope([L_ShipDate |-> <<99, 100, 109, 110>>, P_Type |-> <<1, 2>>])

(***************************************************************************)
(* Q15: the suppliers with the largest revenue.                            *)
(***************************************************************************)
Q15_DATE == 80
Q15_INTERVAL == 20

q15 == Plan(<<
    Load("LineItem", "LINEITEM"), Load("Supplier", "SUPPLIER"),
    Project("LineItem", {"[SuppKey]", "ExtendedPrice", "Discount", "[ShipDate]"}),
    Project("Supplier", {"[SuppKey]", "[Name]", "[Address]", "[Phone]"}),
    Filter("LineItem", Geq(Col("[ShipDate]"), Lit(Q15_DATE))),
    Filter("LineItem", Lt(Col("[ShipDate]"), Lit(Q15_DATE + Q15_INTERVAL))),
    AddColumns("LineItem", {"Revenue", "TotalRevenue"}),
    Set("LineItem", "Revenue", DiscountedPrice),
    Aggregate("LineItem", <<"[SuppKey]">>, <<sum("Revenue", "TotalRevenue")>>, Default),
    AddColumns("LineItem", {"[TotalRevenue]"}),
    ConvertA2B("LineItem", "TotalRevenue", "[TotalRevenue]"),
    Project("LineItem", {"[SuppKey]", "[TotalRevenue]"}),
    Sort("LineItem", All(<<V, "[TotalRevenue]">>, "ASC")),
    AddColumns("LineItem", {"[MaxTotalRevenue]"}),
    Set("LineItem", "[MaxTotalRevenue]", Final("[TotalRevenue]")),
    Filter("LineItem", Eq(Col("[TotalRevenue]"), Col("[MaxTotalRevenue]"))),
    DeleteColumns("LineItem", {"[MaxTotalRevenue]"}),
    InnerJoin("SupLine", "Supplier", "LineItem", <<"[SuppKey]">>,
              copies(<<"[Name]", "[Address]", "[Phone]">>)),
    Sort("SupLine", <<ASC("[SuppKey]")>>)>>,
    "SupLine", <<"[SuppKey]", "[Name]", "[Address]", "[Phone]", "[TotalRevenue]">>)

q15_sql(db) ==
    LET L == db.LINEITEM
        sold(k) == {i \in DOMAIN L : L[i].SuppKey = k
                        /\ Between(L[i].ShipDate, Q15_DATE, Q15_DATE + Q15_INTERVAL)}
        revenue(k) == Sum(sold(k), LAMBDA i : Discounted(L[i]))
        S == {s \in Range(db.SUPPLIER) : sold(s.SuppKey) # {}}
        best == {s \in S : \A u \in S : revenue(u.SuppKey) <= revenue(s.SuppKey)}
        row(s) == <<s.SuppKey, s.Name, s.Address, s.Phone, revenue(s.SuppKey)>>
    IN  Sql(Bagged(best, row), <<ASC(1)>>, 0)

q15_scope == Scope([L_ShipDate |-> <<79, 80, 99, 100>>, L_Price |-> <<100>>, L_Discount |-> <<0>>])

(***************************************************************************)
(* Q16: how many suppliers can deliver parts of a kind.                    *)
(***************************************************************************)
BRAND == 10
TYPE == 10
COMMENT == 0
SIZES == 1 .. 8

AnyOf(c, values) ==
    LET some[k \in 1 .. Len(values)] ==
            IF k = 1 THEN Eq(Col(c), Lit(values[1]))
            ELSE Or(some[k - 1], Eq(Col(c), Lit(values[k])))
    IN  some[Len(values)]

q16 == Plan(<<
    Load("Part", "PART"), Load("PartSupp", "PARTSUPP"), Load("Supplier", "SUPPLIER"),
    Project("Part", {"[PartKey]", "[Brand]", "[Type]", "[Size]"}),
    Project("PartSupp", {"[SuppKey]", "[PartKey]"}),
    Project("Supplier", {"[SuppKey]", "[Comment]"}),
    Filter("Supplier", Eq(Col("[Comment]"), Lit(COMMENT))),
    DeleteColumns("Supplier", {"[Comment]"}),
    Join("PSS", "anti", "PartSupp", "Supplier", <<"[SuppKey]">>, <<>>),
    Filter("Part", AnyOf("[Size]", [k \in SIZES |-> k])),
    Filter("Part", Neq(Col("[Brand]"), Lit(BRAND))),
    Filter("Part", Neq(Col("[Type]"), Lit(TYPE))),
    InnerJoin("PPS", "Part", "PSS", <<"[PartKey]">>, copies(<<"[Brand]", "[Type]", "[Size]">>)),
    DeleteColumns("PPS", {"[PartKey]"}),
    DistinctKeys("PPS", <<"[Brand]", "[Type]", "[Size]", "[SuppKey]">>),
    AddColumns("PPS", {"SupplierCount"}),
    Aggregate("PPS", <<"[Brand]", "[Type]", "[Size]">>,
              <<count("SupplierCount", "SupplierCount")>>, Default),
    AddColumns("PPS", {"[SupplierCount]"}),
    ConvertA2B("PPS", "SupplierCount", "[SupplierCount]"),
    DeleteColumns("PPS", {"SupplierCount"}),
    Sort("PPS", <<DESC("[SupplierCount]")>>)>>,
    "PPS", <<"[Brand]", "[Type]", "[Size]", "[SupplierCount]">>)

q16_sql(db) ==
    LET offers == {<<p, x>> \in Range(db.PART) \X Range(db.PARTSUPP) :
            /\ p.PartKey = x.PartKey /\ p.Brand # BRAND /\ p.Type # TYPE /\ p.Size \in SIZES
            /\ \A s \in Range(db.SUPPLIER) : s.Comment = COMMENT => s.SuppKey # x.SuppKey}
        group(o) == <<o[1].Brand, o[1].Type, o[1].Size>>
        row(g) == Append(g, Cardinality({o[2].SuppKey : o \in {x \in offers : group(x) = g}}))
    IN  Sql(Bagged({group(o) : o \in offers}, row), <<DESC(4), ASC(1), ASC(2), ASC(3)>>, 0)

q16_scope == [Scope([P_Brand |-> <<9, 9, 10>>, P_Type |-> <<9, 9, 10>>, P_Size |-> <<1, 8, 9>>,
                     S_Comment |-> <<0, 1, 2>>]) EXCEPT !.suppliers = 5, !.parts = 3]

(***************************************************************************)
(* Q17: revenue lost without small orders.                                 *)
(***************************************************************************)
CONTAINER == 10

q17 == Finalized(ScalarPlan(<<
    Load("LineItem", "LINEITEM"), Load("Part", "PART"),
    Project("LineItem", {"[PartKey]", "Quantity", "ExtendedPrice"}),
    Project("Part", {"[PartKey]", "[Brand]", "[Container]"}),
    InnerJoin("PL", "Part", "LineItem", <<"[PartKey]">>, copies(<<"[Brand]", "[Container]">>)),
    DeepCopy("SubQuery", "PL"),
    Filter("PL", Eq(Col("[Brand]"), Lit(BRAND))),
    Filter("PL", Eq(Col("[Container]"), Lit(CONTAINER))),
    AddColumns("SubQuery", {"SumQuantity", "CountQuantity", "[AvgQuantity]"}),
    Aggregate("SubQuery", <<"[PartKey]">>,
        <<sum("Quantity", "SumQuantity"), count("Quantity", "CountQuantity")>>, Default),
    Sort("SubQuery", <<ASC(V)>>),
    TailOf("SubQuery", "Part"),
    Set("SubQuery", "SumQuantity", Per(Col("SumQuantity"), 5)),
    Set("SubQuery", "[AvgQuantity]", Div(Col("SumQuantity"), Col("CountQuantity"))),
    InnerJoin("PSQ", "SubQuery", "PL", <<"[PartKey]">>, copies(<<"[AvgQuantity]">>)),
    AddColumns("PSQ", {"[Quantity]", "SumExtendedPrice"}),
    ConvertA2B("PSQ", "Quantity", "[Quantity]"),
    Filter("PSQ", Lt(Col("[Quantity]"), Col("[AvgQuantity]")))>>
    \o TotalOf("PSQ", "ExtendedPrice", "SumExtendedPrice")
    \o <<Set("PSQ", "SumExtendedPrice", Per(Col("SumExtendedPrice"), 7))>>,
    "PSQ", <<"SumExtendedPrice">>))

q17_sql(db) ==
    LET L == db.LINEITEM
        of(k) == {i \in DOMAIN L : L[i].PartKey = k}
        \* cast(0.2 * avg(Quantity) as integer)
        limit(k) == Sum(of(k), LAMBDA i : L[i].Quantity) \div (5 * Cardinality(of(k)))
        small == {i \in DOMAIN L :
            /\ LET p == Keyed(db.PART, "PartKey", L[i].PartKey)
               IN  p.Brand = BRAND /\ p.Container = CONTAINER
            /\ L[i].Quantity < limit(L[i].PartKey)}
    IN  SqlScalar(Sum(small, LAMBDA i : L[i].ExtendedPrice) \div 7)

q17_scope == Scope([P_Brand |-> <<10, 10, 11>>, P_Container |-> <<10, 10, 11>>,
                    L_Quantity |-> <<1, 10, 50>>])

(***************************************************************************)
(* Q18: large orders.                                                      *)
(***************************************************************************)
QUANTITY == 180

q18 == Plan(<<
    Load("Customer", "CUSTOMER"), Load("Order", "ORDERS"), Load("LineItem", "LINEITEM"),
    Project("Customer", {"[CustKey]", "[C_Name]"}),
    Project("Order", {"[OrderKey]", "[CustKey]", "[OrderDate]", "[TotalPrice]"}),
    Project("LineItem", {"[OrderKey]", "Quantity"}),
    AddColumns("LineItem", {"SumQuantity", "[SumQuantity]"}),
    Aggregate("LineItem", <<"[OrderKey]">>, <<sum("Quantity", "SumQuantity")>>, Default),
    ConvertA2B("LineItem", "SumQuantity", "[SumQuantity]"),
    Filter("LineItem", Gt(Col("[SumQuantity]"), Lit(QUANTITY))),
    Project("LineItem", {"[OrderKey]", "SumQuantity"}),
    InnerJoin("FilteredOrders", "Order", "LineItem", <<"[OrderKey]">>,
              copies(<<"[CustKey]", "[OrderDate]", "[TotalPrice]">>)),
    InnerJoin("FinalJoin", "Customer", "FilteredOrders", <<"[CustKey]">>, copies(<<"[C_Name]">>)),
    AddColumns("FinalJoin", {"FinalSum"}),
    Aggregate("FinalJoin", <<"[CustKey]", "[OrderKey]">>, <<sum("SumQuantity", "FinalSum")>>,
              Default),
    Sort("FinalJoin", <<DESC("[TotalPrice]"), ASC("[OrderDate]")>>)>>,
    "FinalJoin", <<"[C_Name]", "[CustKey]", "[OrderKey]", "[OrderDate]", "[TotalPrice]",
                   "FinalSum">>)

q18_sql(db) ==
    LET L == db.LINEITEM
        quantity(o) == Sum({i \in DOMAIN L : L[i].OrderKey = o.OrderKey}, LAMBDA i : L[i].Quantity)
        row(o) == <<Keyed(db.CUSTOMER, "CustKey", o.CustKey).Name, o.CustKey, o.OrderKey,
                    o.OrderDate, o.TotalPrice, quantity(o)>>
    IN  Sql(Bagged({o \in Range(db.ORDERS) : quantity(o) > QUANTITY}, row),
            <<DESC(5), ASC(4)>>, 0)

q18_scope == Scope([L_PerOrder |-> <<4, 4, 3>>, L_Quantity |-> <<45, 45, 46>>])

(***************************************************************************)
(* Q19: revenue of three kinds of parts.                                   *)
(***************************************************************************)
\* brand, container, least quantity, largest size
KINDS == <<<<5, 0, 8, 5>>, <<12, 1, 19, 10>>, <<24, 2, 22, 15>>>>

OfKind(k) ==
    And(And(And(And(Eq(Col("[Brand]"), Lit(k[1])), Eq(Col("[Container]"), Lit(k[2]))),
                Geq(Col("[Quantity]"), Lit(k[3]))),
            Leq(Col("[Quantity]"), Lit(k[3] + 10))),
        Leq(Col("[Size]"), Lit(k[4])))

q19 == ScalarPlan(<<
    Load("L", "LINEITEM"), Load("P", "PART"),
    Project("L", {"[ShipMode]", "[ShipInstruct]", "[PartKey]", "ExtendedPrice", "Discount",
                  "Quantity"}),
    Project("P", {"[Size]", "[PartKey]", "[Brand]", "[Container]"}),
    Filter("L", And(Eq(Col("[ShipMode]"), Lit(1)), Eq(Col("[ShipInstruct]"), Lit(0)))),
    Filter("P", Geq(Col("[Size]"), Lit(1))),
    DeleteColumns("L", {"[ShipMode]", "[ShipInstruct]"}),
    InnerJoin("PL", "P", "L", <<"[PartKey]">>, copies(<<"[Brand]", "[Container]", "[Size]">>)),
    AddColumns("PL", {"[OrFilter]", "Revenue", "[Quantity]", "SumRevenue"}),
    ConvertA2B("PL", "Quantity", "[Quantity]"),
    Set("PL", "[Container]", Low(Col("[Container]"), 2)),
    Set("PL", "[OrFilter]", Or(Or(OfKind(KINDS[1]), OfKind(KINDS[2])), OfKind(KINDS[3]))),
    Filter("PL", Col("[OrFilter]")),
    Set("PL", "Revenue", DiscountedPrice),
    DeleteColumns("PL", {"ExtendedPrice", "Discount", "[Brand]", "[Container]", "Quantity",
                         "[Quantity]", "[Size]", "[OrFilter]", "[PartKey]"})>>
    \o TotalOf("PL", "Revenue", "SumRevenue"),
    "PL", <<"SumRevenue">>)

q19_sql(db) ==
    LET L == db.LINEITEM
        sold == {i \in DOMAIN L : L[i].ShipMode = 1 /\ L[i].ShipInstruct = 0 /\
            LET p == Keyed(db.PART, "PartKey", L[i].PartKey) IN
            \E k \in Range(KINDS) :
                /\ p.Brand = k[1] /\ p.Container % 4 = k[2] /\ p.Size \in 1 .. k[4]
                /\ L[i].Quantity \in k[3] .. k[3] + 10}
    IN  SqlScalar(Sum(sold, LAMBDA i : Discounted(L[i])))

q19_scope == Scope([L_ShipMode |-> <<1, 1, 2>>, L_ShipInstruct |-> <<0>>, P_Brand |-> <<5, 12, 24>>,
                    P_Container |-> <<4, 5, 6>>, P_Size |-> <<5, 6, 11>>,
                    L_Quantity |-> <<7, 8, 18, 19, 22>>])

(***************************************************************************)
(* Q20: suppliers with parts to spare.                                     *)
(***************************************************************************)
NATION == 7
COLOR == 11
Q20_DATE == 42
Q20_INTERVAL == 17

q20 == Plan(<<
    Load("S", "SUPPLIER"), Load("PS", "PARTSUPP"), Load("P", "PART"), Load("N", "NATION"),
    Load("L", "LINEITEM"),
    Project("S", {"[SuppKey]", "[Name]", "[NationKey]", "[Address]"}),
    Project("PS", {"AvailQty", "[PartKey]", "[SuppKey]"}),
    Project("L", {"[ShipDate]", "[PartKey]", "[SuppKey]", "Quantity"}),
    Project("P", {"[Name]", "[PartKey]"}),
    Project("N", {"[NationKey]", "[Name]"}),
    Filter("P", Eq(Col("[Name]"), Lit(COLOR))),
    Project("P", {"[PartKey]"}),
    Filter("L", Geq(Col("[ShipDate]"), Lit(Q20_DATE))),
    Filter("L", Lt(Col("[ShipDate]"), Lit(Q20_DATE + Q20_INTERVAL))),
    DeleteColumns("L", {"[ShipDate]"}),
    Filter("N", Eq(Col("[Name]"), Lit(NATION))),
    Project("N", {"[NationKey]"}),
    InnerJoin("PSL", "PS", "L", <<"[PartKey]", "[SuppKey]">>,
              <<copy("AvailQty", "AvailQty"), sum("Quantity", "Quantity")>>),
    AddColumns("PSL", {"[Quantity]", "[AvailQty]"}),
    ConvertA2B("PSL", "Quantity", "[Quantity]"),
    ConvertA2B("PSL", "AvailQty", "[AvailQty]"),
    DeleteColumns("PSL", {"AvailQty", "Quantity"}),
    Set("PSL", "[AvailQty]", Shl(Col("[AvailQty]"), 1)),
    Filter("PSL", Gt(Col("[AvailQty]"), Col("[Quantity]"))),
    Join("SN", "semi", "S", "N", <<"[NationKey]">>, <<>>),
    DeleteColumns("SN", {"[NationKey]"}),
    Join("T1", "semi", "PSL", "P", <<"[PartKey]">>, <<>>),
    Project("T1", {"[SuppKey]"}),
    DistinctKeys("T1", <<"[SuppKey]">>),
    Join("T2", "semi", "SN", "T1", <<"[SuppKey]">>, <<>>),
    DeleteColumns("T2", {"[SuppKey]"}),
    Sort("T2", <<ASC("[Name]")>>)>>,
    "T2", <<"[Name]", "[Address]">>)

q20_sql(db) ==
    LET sold(x) == {i \in DOMAIN db.LINEITEM :
            LET l == db.LINEITEM[i] IN
            /\ l.PartKey = x.PartKey /\ l.SuppKey = x.SuppKey
            /\ Between(l.ShipDate, Q20_DATE, Q20_DATE + Q20_INTERVAL)}
        spare(x) == /\ \E p \in Range(db.PART) : p.PartKey = x.PartKey /\ p.Name = COLOR
                    /\ sold(x) # {}     \* else the comparison is with NULL
                    /\ 2 * x.AvailQty > Sum(sold(x), LAMBDA i : db.LINEITEM[i].Quantity)
        S == {s \in Range(db.SUPPLIER) :
            /\ Keyed(db.NATION, "NationKey", s.NationKey).Name = NATION
            /\ \E x \in Range(db.PARTSUPP) : x.SuppKey = s.SuppKey /\ spare(x)}
        row(s) == <<s.Name, s.Address>>
    IN  Sql(Bagged(S, row), <<ASC(1)>>, 0)

q20_scope == [Scope([P_Name |-> <<11, 11, 12>>, L_SuppKey |-> <<1, 3, 4>>, PS_AvailQty |-> <<1, 2, 3>>,
                     L_Quantity |-> <<2, 3, 4>>, L_ShipDate |-> <<41, 42, 58, 59>>])
                 EXCEPT !.suppliers = 5, !.nations = <<3, 0>>]

(***************************************************************************)
(* Q21: suppliers who alone kept an order waiting.                         *)
(***************************************************************************)
Q21_NATION == 9

q21 == Plan(<<
    Load("S", "SUPPLIER"), Load("L1", "LINEITEM"), DeepCopy("L2", "L1"), Load("O", "ORDERS"),
    Load("N", "NATION"),
    Project("S", {"[Name]", "[SuppKey]", "[NationKey]"}),
    Project("L1", {"[SuppKey]", "[OrderKey]", "[ReceiptDate]", "[CommitDate]"}),
    Project("L2", {"[SuppKey]", "[OrderKey]", "[ReceiptDate]", "[CommitDate]"}),
    Project("O", {"[OrderKey]", "[OrderStatus]"}),
    Project("N", {"[NationKey]", "[Name]"}),
    Filter("L1", Gt(Col("[ReceiptDate]"), Col("[CommitDate]"))),
    Filter("O", Eq(Col("[OrderStatus]"), Lit(0))),
    Filter("N", Eq(Col("[Name]"), Lit(Q21_NATION))),
    Project("L1", {"[SuppKey]", "[OrderKey]"}),
    Project("O", {"[OrderKey]"}),
    Project("N", {"[NationKey]"}),
    Project("S", {"[Name]", "[SuppKey]", "[NationKey]"}),
    InnerJoin("OL", "O", "L1", <<"[OrderKey]">>, <<>>),
    InnerJoin("NS", "N", "S", <<"[NationKey]">>, <<>>),
    InnerJoin("NSOL", "NS", "OL", <<"[SuppKey]">>, copies(<<"[NationKey]", "[Name]">>)),
    DeleteColumns("NSOL", {"[NationKey]"}),
    AddColumns("NSOL", {"OrderCount"}),
    Aggregate("NSOL", <<"[OrderKey]", "[SuppKey]">>, <<count("OrderCount", "OrderCount")>>,
              Default),
    AddColumns("L2", {"[Late]"}),
    Set("L2", "[Late]", Gt(Col("[ReceiptDate]"), Col("[CommitDate]"))),
    Project("L2", {"[Late]", "[SuppKey]", "[OrderKey]"}),
    Sort("L2", All(<<V, "[OrderKey]", "[SuppKey]">>, "ASC")),
    AddColumns("L2", {"[AnyLate]"}),
    Aggregate("L2", <<"[OrderKey]", "[SuppKey]">>, <<bit_or("[Late]", "[AnyLate]")>>,
              [Default EXCEPT !.do_sort = FALSE]),
    AddColumns("L2", {"NumLate", "CountSupp", "AnyLate"}),
    ConvertB2ABit("L2", "[AnyLate]", "AnyLate"),
    ExtendLsb("L2", "[AnyLate]"),
    Set("L2", "[SuppKey]", And(Col("[SuppKey]"), Col("[AnyLate]"))),
    DeleteColumns("L2", {"[AnyLate]"}),
    Aggregate("L2", <<"[OrderKey]">>,
        <<sum("AnyLate", "NumLate"), count("CountSupp", "CountSupp"),
          bit_or("[SuppKey]", "[SuppKey]")>>, Default),
    AddColumns("L2", {"[CountSupp]", "[NumLate]"}),
    ConvertA2B("L2", "CountSupp", "[CountSupp]"),
    ConvertA2B("L2", "NumLate", "[NumLate]"),
    Filter("L2", And(Eq(Col("[NumLate]"), Lit(1)), Gt(Col("[CountSupp]"), Lit(1)))),
    Project("L2", {"[OrderKey]", "[SuppKey]"}),
    InnerJoin("W", "L2", "NSOL", <<"[OrderKey]", "[SuppKey]">>, <<>>),
    AddColumns("W", {"NumWait", "[NumWait]"}),
    Aggregate("W", <<"[Name]">>, <<sum("OrderCount", "NumWait")>>, Default),
    Sort("W", <<ASC(V)>>),
    TailOf("W", "S"),
    DeleteColumns("W", {"OrderCount"}),
    ConvertA2B("W", "NumWait", "[NumWait]"),
    Project("W", {"[NumWait]", "[Name]"}),
    Sort("W", <<DESC("[NumWait]"), ASC("[Name]")>>)>>,
    "W", <<"[Name]", "[NumWait]">>)

q21_sql(db) ==
    LET L == db.LINEITEM
        late(i) == L[i].ReceiptDate > L[i].CommitDate
        others(i) == {j \in DOMAIN L : L[j].OrderKey = L[i].OrderKey /\ L[j].SuppKey # L[i].SuppKey}
        waited(s) == {i \in DOMAIN L :
            /\ L[i].SuppKey = s.SuppKey /\ late(i)
            /\ others(i) # {} /\ \A j \in others(i) : ~late(j)
            /\ \E o \in Range(db.ORDERS) : o.OrderKey = L[i].OrderKey /\ o.OrderStatus = 0}
        S == {s \in Range(db.SUPPLIER) :
                 /\ Keyed(db.NATION, "NationKey", s.NationKey).Name = Q21_NATION
                 /\ waited(s) # {}}
        row(s) == <<s.Name, Cardinality(waited(s))>>
    IN  Sql(Bagged(S, row), <<DESC(2), ASC(1)>>, 0)

q21_scope == [Scope([L_PerOrder |-> <<2, 3>>, L_ShipDate |-> <<40>>, L_CommitDate |-> <<45>>,
                     L_Receipt |-> <<5, 5, 6>>, O_OrderStatus |-> <<0, 0, 1>>])
                 EXCEPT !.nations = <<4, 0>>]

(***************************************************************************)
(* Q22: customers with money and no orders, by country code.               *)
(***************************************************************************)
CODES == <<13, 31, 23, 29, 30, 18, 17>>

q22 == Plan(<<
    Load("Customer", "CUSTOMER"), Load("Order", "ORDERS"),
    Project("Customer", {"[CustKey]", "[CntryCode]", "[AcctBal]", "AcctBal"}),
    Project("Order", {"[CustKey]"}),
    Filter("Customer", AnyOf("[CntryCode]", CODES)),
    Filter("Customer", Gt(Col("[AcctBal]"), Lit(0))),
    AddColumns("Customer", {"TotalAcctBal", "CountAcctBal"}),
    Aggregate("Customer", <<>>,
        <<sum("AcctBal", "TotalAcctBal"), count("AcctBal", "CountAcctBal")>>,
        [Default EXCEPT !.mark_valid = FALSE]),
    Aggregate("Customer", <<V>>, copies(<<"TotalAcctBal", "CountAcctBal">>),
        [Default EXCEPT !.reverse = TRUE, !.do_sort = FALSE, !.mark_valid = FALSE]),
    AddColumns("Customer", {"[AvgAcctBal]"}),
    Set("Customer", "[AvgAcctBal]", Div(Final("TotalAcctBal"), Final("CountAcctBal"))),
    Filter("Customer", Gt(Col("[AcctBal]"), Col("[AvgAcctBal]"))),
    Project("Customer", {"[CustKey]", "[CntryCode]", "AcctBal"}),
    Join("CustomerAJ", "anti", "Customer", "Order", <<"[CustKey]">>, <<>>),
    AddColumns("CustomerAJ", {"NumCust", "TotAcctBal"}),
    Aggregate("CustomerAJ", <<"[CntryCode]">>,
        <<count("AcctBal", "NumCust"), sum("AcctBal", "TotAcctBal")>>, Default),
    Project("CustomerAJ", {"[CntryCode]", "NumCust", "TotAcctBal"})>>,
    "CustomerAJ", <<"[CntryCode]", "NumCust", "TotAcctBal">>)

q22_sql(db) ==
    LET C == {c \in Range(db.CUSTOMER) : c.CntryCode \in Range(CODES)}
        rich == {c \in C : c.AcctBal > 0}
        total == Sum(rich, LAMBDA c : c.AcctBal)
        chosen == {c \in C : /\ rich # {} /\ c.AcctBal * Cardinality(rich) > total
                             /\ ~HasKey(db.ORDERS, "CustKey", c.CustKey)}
        row(k) == LET g == {c \in chosen : c.CntryCode = k}
                  IN  <<k, Cardinality(g), Sum(g, LAMBDA c : c.AcctBal)>>
    IN  Sql(Bagged({c.CntryCode : c \in chosen}, row), <<ASC(1)>>, 0)

q22_scope == [Scope([C_Phone |-> <<1300000, 3100000, 3200000>>, C_AcctBal |-> <<-5, 0, 7, 12, 20>>])
                 EXCEPT !.customers = 6, !.orders = 2]
=============================================================================
