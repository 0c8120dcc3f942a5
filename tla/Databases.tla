----------------------------- MODULE Databases ------------------------------
(***************************************************************************)
(* The generated databases, first that of the TPC-H queries.  A table is a *)
(* sequence of records, the rows sqlite is given; the queries work on the  *)
(* same rows, secret-shared.                                               *)
(*                                                                         *)
(* A scope sc bounds the database: the number of rows of each table (the   *)
(* program derives them from the scale factor), the nations kept of the    *)
(* 25, and for each random column a few values of its range that matter to *)
(* the query at hand.  A seed decides which of them are drawn.             *)
(***************************************************************************)
EXTENDS Integers, Sequences, FiniteSets, Vectors

PARTSUPP_PER_PART == 4
NATION_SIZE == 25
REGION_SIZE == 5
COMMENTS == 16              \* 1 << COMMENT_BITS
TPCH_DATE_THRESHOLD == 100
TPCH_DATE_INTERVAL == 10
TPCH_DISCOUNT_THRESHOLD == 5
TPCH_QUANTITY_THRESHOLD == 40

customersSize(sc) == sc.customers
ordersSize(sc) == sc.orders
partSize(sc) == sc.parts
supplierSize(sc) == sc.suppliers
partSuppSize(sc) == PARTSUPP_PER_PART * sc.parts

\* CUSTOMER_ORDER_FRACTION of the customers may have orders (rounded).
CustomersWithOrders(sc) == (4 * customersSize(sc) + 3) \div 6

(***************************************************************************)
(* The random columns: the least value and the first value beyond.         *)
(***************************************************************************)
Ranges(sc) ==
    [C_NationKey |-> <<0, NATION_SIZE>>, C_Address |-> <<0, customersSize(sc)>>,
     C_Phone |-> <<1000000, 9999999>>, C_AcctBal |-> <<-99999, 1000000>>,
     C_MktSegment |-> <<1, 6>>, C_Comment |-> <<0, COMMENTS>>,
     L_PerOrder |-> <<1, 8>>, L_SuppKey |-> <<0, supplierSize(sc)>>,
     L_ReturnFlag |-> <<0, 3>>, L_LineStatus |-> <<0, 2>>, L_Quantity |-> <<1, 51>>,
     L_Price |-> <<90, 111>>, L_Discount |-> <<0, 10>>, L_Tax |-> <<0, 8>>,
     L_ShipDate |-> <<1, 121>>, L_CommitDate |-> <<30, 90>>, L_Receipt |-> <<1, 30>>,
     L_ShipMode |-> <<0, 7>>, L_PartKey |-> <<0, partSize(sc)>>, L_ShipInstruct |-> <<0, 4>>,
     O_CustKey |-> <<0, CustomersWithOrders(sc)>>, O_Comment |-> <<0, COMMENTS>>,
     O_OrderPriority |-> <<1, 6>>, O_OrderDate |-> <<1, 121>>, O_TotalPrice |-> <<90, 111>>,
     O_OrderStatus |-> <<0, 3>>, R_Comment |-> <<0, COMMENTS>>, N_Comment |-> <<0, COMMENTS>>,
     P_Brand |-> <<1, 26>>, P_Container |-> <<1, 41>>, P_Type |-> <<1, 11>>,
     P_Size |-> <<1, 51>>, P_Name |-> <<0, 21>>, S_NationKey |-> <<0, NATION_SIZE>>,
     S_AcctBal |-> <<-1000, 10001>>, S_Comment |-> <<0, COMMENTS>>,
     S_Address |-> <<0, 100001>>, S_Phone |-> <<1000000000, 2000000001>>,
     PS_SupplyCost |-> <<1, 1001>>, PS_AvailQty |-> <<1, 10000>>,
     SL_Quantity |-> <<1, 51>>, SL_Discount |-> <<4, 6>>, SL_Tax |-> <<0, 8>>,
     SL_Day |-> <<0, 365>>, SL_ReturnFlag |-> <<1, 3>>, SL_ShipMode |-> <<0, 3>>,
     SP_Type |-> <<1, 7>>, SO_OrderPriority |-> <<1, 5>>]

KeyColumns == {"L_SuppKey", "L_PartKey", "O_CustKey"}

EveryKey(r) == [k \in 1 .. r[2] - r[1] |-> r[1] + k - 1]
Ends(r) == <<r[1], r[2] - 1>>

\* The values of a column that are drawn: those of the scope, else every key, else the ends.
Drawable(r, keyed) == IF keyed THEN EveryKey(r) ELSE Ends(r)

Values(sc, c) ==
    IF c \in DOMAIN sc.focus THEN sc.focus[c]
    ELSE IF c \in {"C_NationKey", "S_NationKey"} THEN sc.nations
    ELSE Drawable(Ranges(sc)[c], c \in KeyColumns)

ScopeInRange(sc) ==
    \A c \in DOMAIN Ranges(sc) : \A k \in 1 .. Len(Values(sc, c)) :
        LET v == Values(sc, c)[k] r == Ranges(sc)[c] IN r[1] <= v /\ v < r[2]

\* A fixed scrambling of the seed, the column's number and the row.
Scramble(s, k, i) ==
    LET x == (s * 911 + k * 131 + i * 3571 + s * k * i) % 9973
    IN  ((x * (x + 7) + 31 * s) % 9973) \div 13

Pick(vs, n) == vs[(n % Len(vs)) + 1]

randomColumn(s, sc, k, c, i) ==
    Pick(Values(sc, c), Scramble(s, k, i))

counterColumn(i) == i - 1

(***************************************************************************)
(* The tables.                                                             *)
(***************************************************************************)
getCustomersTable(s, sc) ==
    [i \in 1 .. customersSize(sc) |->
        LET phone == randomColumn(s, sc, 3, "C_Phone", i) IN
        [CustKey |-> counterColumn(i), Name |-> counterColumn(i),
         NationKey |-> randomColumn(s, sc, 1, "C_NationKey", i),
         Address |-> randomColumn(s, sc, 2, "C_Address", i),
         Phone |-> phone, CntryCode |-> phone \div 100000,
         AcctBal |-> randomColumn(s, sc, 4, "C_AcctBal", i),
         MktSegment |-> randomColumn(s, sc, 5, "C_MktSegment", i),
         Comment |-> randomColumn(s, sc, 6, "C_Comment", i)]]

\* Line items up to and including those of order i; one more follows the last.
LineItemsThrough(s, sc) ==
    LET sum[i \in 0 .. ordersSize(sc)] ==
            IF i = 0 THEN 0 ELSE sum[i - 1] + randomColumn(s, sc, 7, "L_PerOrder", i)
    IN  sum

lineitemsSize(s, sc) == LineItemsThrough(s, sc)[ordersSize(sc)] + 1

getLineitemTable(s, sc) ==
    LET through == LineItemsThrough(s, sc)
        draw(k, c, i) == randomColumn(s, sc, k, c, i)
    IN  [i \in 1 .. lineitemsSize(s, sc) |->
            LET quantity == draw(10, "L_Quantity", i)
                shipDate == draw(14, "L_ShipDate", i)
            IN  [OrderKey |-> Cardinality({o \in 1 .. ordersSize(sc) : through[o] < i}),
                 LineNumber |-> counterColumn(i) % 7,
                 SuppKey |-> draw(8, "L_SuppKey", i),
                 ReturnFlag |-> draw(9, "L_ReturnFlag", i),
                 LineStatus |-> draw(20, "L_LineStatus", i),
                 Quantity |-> quantity,
                 ExtendedPrice |-> draw(11, "L_Price", i) * quantity,
                 Discount |-> draw(12, "L_Discount", i),
                 Tax |-> draw(13, "L_Tax", i),
                 ShipDate |-> shipDate,
                 CommitDate |-> draw(15, "L_CommitDate", i),
                 ReceiptDate |-> shipDate + draw(16, "L_Receipt", i),
                 ShipMode |-> draw(17, "L_ShipMode", i),
                 PartKey |-> draw(18, "L_PartKey", i),
                 ShipInstruct |-> draw(19, "L_ShipInstruct", i),
                 \* the columns of proactive sharing
                 ShipDateAdj |-> shipDate - TPCH_DATE_THRESHOLD,
                 ShipDateAdjInterval |-> shipDate - (TPCH_DATE_THRESHOLD + TPCH_DATE_INTERVAL),
                 DiscountHigh |-> draw(12, "L_Discount", i) - (TPCH_DISCOUNT_THRESHOLD - 1),
                 DiscountLow |-> draw(12, "L_Discount", i) - (TPCH_DISCOUNT_THRESHOLD + 2),
                 QuantityAdj |-> quantity - TPCH_QUANTITY_THRESHOLD]]

getOrdersTable(s, sc) ==
    [i \in 1 .. ordersSize(sc) |->
        [OrderKey |-> counterColumn(i),
         CustKey |-> randomColumn(s, sc, 21, "O_CustKey", i),
         Comment |-> randomColumn(s, sc, 22, "O_Comment", i),
         OrderPriority |-> randomColumn(s, sc, 23, "O_OrderPriority", i),
         OrderDate |-> randomColumn(s, sc, 24, "O_OrderDate", i),
         TotalPrice |-> randomColumn(s, sc, 25, "O_TotalPrice", i),
         OrderStatus |-> randomColumn(s, sc, 26, "O_OrderStatus", i)]]

getRegionTable(s, sc) ==
    [i \in 1 .. REGION_SIZE |->
        [RegionKey |-> counterColumn(i), Name |-> counterColumn(i) * 2 + 1,
         Comment |-> randomColumn(s, sc, 27, "R_Comment", i)]]

regionKey == <<0, 1, 1, 1, 4, 0, 3, 3, 2, 2, 4, 4, 2, 4, 0, 0, 0, 1, 2, 3, 4, 2, 3, 3, 1>>

getNationTable(s, sc) ==
    [i \in 1 .. Len(sc.nations) |->
        LET key == sc.nations[i] IN
        [NationKey |-> key, Name |-> key * 2 + 1, RegionKey |-> regionKey[key + 1],
         Comment |-> randomColumn(s, sc, 28, "N_Comment", i)]]

getPartTable(s, sc) ==
    [i \in 1 .. partSize(sc) |->
        [PartKey |-> counterColumn(i),
         Brand |-> randomColumn(s, sc, 29, "P_Brand", i),
         Container |-> randomColumn(s, sc, 30, "P_Container", i),
         Type |-> randomColumn(s, sc, 31, "P_Type", i),
         Size |-> randomColumn(s, sc, 32, "P_Size", i),
         Name |-> randomColumn(s, sc, 33, "P_Name", i)]]

getSupplierTable(s, sc) ==
    [i \in 1 .. supplierSize(sc) |->
        [SuppKey |-> counterColumn(i), Name |-> counterColumn(i) * 2 + 1,
         NationKey |-> randomColumn(s, sc, 34, "S_NationKey", i),
         AcctBal |-> randomColumn(s, sc, 35, "S_AcctBal", i),
         Comment |-> randomColumn(s, sc, 36, "S_Comment", i),
         Address |-> randomColumn(s, sc, 37, "S_Address", i),
         Phone |-> randomColumn(s, sc, 38, "S_Phone", i)]]

\* 2^64 modulo m
WordModulo(m) ==
    LET power[n \in 0 .. 64] == IF n = 0 THEN 1 % m ELSE (2 * power[n - 1]) % m
    IN  power[64]

\* (p - 1) / n of size_t, modulo n: p = 0 wraps around to 2^64 - 1.
UnsignedQuotient(p, n) ==
    IF p > 0 THEN ((p - 1) \div n) % n
    ELSE ((WordModulo(n * n) + n * n - 1) % (n * n)) \div n

getPartSuppTable(s, sc) ==
    LET n == supplierSize(sc)
        supplier(p, i) == ((p + i * (n \div 4 + UnsignedQuotient(p, n))) % n) + 1
    IN  [r \in 1 .. partSuppSize(sc) |->
            LET p == counterColumn(r) \div PARTSUPP_PER_PART IN
            [PartKey |-> p, SuppKey |-> supplier(p, counterColumn(r) % 4),
             SupplyCost |-> randomColumn(s, sc, 39, "PS_SupplyCost", r),
             AvailQty |-> randomColumn(s, sc, 40, "PS_AvailQty", r)]]

(***************************************************************************)
(* The smaller tables of the SecretFlow queries.                           *)
(***************************************************************************)
getLineitemTableSecretFlow(s, sc) ==
    [i \in 1 .. sc.rows |->
        LET key == counterColumn(i)
            quantity == randomColumn(s, sc, 41, "SL_Quantity", i)
            shipDate == randomColumn(s, sc, 44, "SL_Day", i)
            retailPrice == 90000 + ((key \div 10) % 20001) + 100 * (key % 1000)
        IN  [OrderKey |-> key, PartKey |-> key, Quantity |-> quantity,
             Discount |-> randomColumn(s, sc, 42, "SL_Discount", i),
             Tax |-> randomColumn(s, sc, 43, "SL_Tax", i),
             ExtendedPrice |-> retailPrice * quantity,
             ShipDate |-> shipDate, CommitDate |-> shipDate + 1, ReceiptDate |-> shipDate + 2,
             ReturnFlag |-> IF shipDate + 2 > 168 THEN 0
                            ELSE randomColumn(s, sc, 45, "SL_ReturnFlag", i),
             LineStatus |-> IF shipDate > 168 THEN 0 ELSE 1,
             ShipMode |-> randomColumn(s, sc, 46, "SL_ShipMode", i)]]

getPartTableSecretFlow(s, sc) ==
    [i \in 1 .. sc.rows |-> [PartKey |-> counterColumn(i),
                             Type |-> randomColumn(s, sc, 47, "SP_Type", i)]]

getOrdersTableSecretFlow(s, sc) ==
    [i \in 1 .. sc.rows |-> [OrderKey |-> counterColumn(i),
                             OrderPriority |-> randomColumn(s, sc, 48, "SO_OrderPriority", i)]]

-----------------------------------------------------------------------------
(***************************************************************************)
(* The generated tables of the queries that are not TPC-H.  As for the     *)
(* TPC-H tables a scope bounds them: sc.n gives the rows of each table,    *)
(* sc.keys the number of people, patients, users or ids (the program       *)
(* derives it from the number of rows), sc.focus the values drawn of the   *)
(* other columns.                                                          *)
(***************************************************************************)

MAX_TIME == 10000
N_DISEASE == 100
N_DISEASE_CLASS == 16
MAX_COST == 10000
NUM_COMPANIES == 1000
DIAGNOSIS_TYPE_COUNT == 1000
CODE_TYPES == 500
DIAG_TYPES == 500
MED_TYPES == 50

SecrecyRanges ==
    [time |-> <<0, MAX_TIME>>, diag |-> <<0, 10>>,
     med |-> <<0, 10>>, company |-> <<0, NUM_COMPANIES>>,
     fare |-> <<0, 100>>, type |-> <<0, 20>>, coinsurance |-> <<0, 100>>, state |-> <<0, 50>>,
     disease |-> <<0, N_DISEASE>>, cost |-> <<0, MAX_COST>>, class |-> <<0, N_DISEASE_CLASS>>,
     agency |-> <<0, 10>>, year |-> <<2020, 2030>>, cs |-> <<300, 850>>,
     cohortDiag |-> <<0, DIAGNOSIS_TYPE_COUNT>>, code |-> <<0, CODE_TYPES>>,
     patientDiag |-> <<0, DIAG_TYPES>>, patientMed |-> <<0, MED_TYPES>>]

SecrecyScopeInRange(sc) ==
    \A c \in DOMAIN sc.focus : \A k \in 1 .. Len(sc.focus[c]) :
        /\ SecrecyRanges[c][1] <= sc.focus[c][k]
        /\ sc.focus[c][k] < SecrecyRanges[c][2]

Drawn(s, sc, k, c, i) ==
    LET vs == IF c \in DOMAIN sc.focus THEN sc.focus[c]
              ELSE <<SecrecyRanges[c][1], SecrecyRanges[c][2] - 1>>
    IN  vs[(Scramble(s, k, i) % Len(vs)) + 1]

\* A key below the given number.
DrawnKey(s, n, k, i) == Scramble(s, k, i) % n

getSecrecyRTable(s, sc) ==
    [i \in 1 .. sc.n |-> [id |-> DrawnKey(s, sc.keys, 1, i), ak |-> DrawnKey(s, sc.keys, 2, i)]]

getSecrecySTable(s, sc) == [i \in 1 .. sc.n |-> [id |-> DrawnKey(s, sc.keys, 3, i)]]

getDiagnosisTable(s, sc) ==
    [i \in 1 .. sc.n |->
        [pid |-> DrawnKey(s, sc.keys, 4, i), time |-> Drawn(s, sc, 5, "time", i),
         diagnosis |-> Drawn(s, sc, 6, "diag", i)]]

getMedicationTable(s, sc) ==
    [i \in 1 .. sc.n |->
        [pid |-> DrawnKey(s, sc.keys, 7, i), time |-> Drawn(s, sc, 8, "time", i),
         med |-> Drawn(s, sc, 9, "med", i)]]

\* There are fewer passwords than users.
getPasswordTable(s, sc) ==
    [i \in 1 .. sc.n |->
        [ID |-> DrawnKey(s, sc.keys, 10, i), Password |-> DrawnKey(s, 2, 11, i)]]

\* The distribution of companies is biased.
getTaxiTable(s, sc) ==
    [i \in 1 .. sc.n |->
        LET company == Drawn(s, sc, 12, "company", i) IN
        [Company |-> (company * company) % NUM_COMPANIES, Fare |-> Drawn(s, sc, 13, "fare", i),
         Type |-> Drawn(s, sc, 14, "type", i)]]

getSecrecyT1Table(s, sc) ==
    [i \in 1 .. sc.n |->
        [person |-> DrawnKey(s, sc.keys, 15, i),
         coinsurance |-> Drawn(s, sc, 16, "coinsurance", i),
         state |-> Drawn(s, sc, 17, "state", i)]]

getSecrecyT2Table(s, sc) ==
    [i \in 1 .. sc.n |->
        [person |-> DrawnKey(s, sc.keys, 18, i), disease |-> Drawn(s, sc, 19, "disease", i),
         cost |-> Drawn(s, sc, 20, "cost", i)]]

getSecrecyT3Table(s, sc) ==
    [i \in 1 .. sc.n |->
        [disease |-> Drawn(s, sc, 21, "disease", i), class_ |-> Drawn(s, sc, 22, "class", i)]]

getCreditScoreTable(s, sc) ==
    [i \in 1 .. sc.n |->
        [UID |-> DrawnKey(s, sc.keys, 23, i), AGENCY |-> Drawn(s, sc, 24, "agency", i),
         YEAR |-> Drawn(s, sc, 25, "year", i), CS |-> Drawn(s, sc, 26, "cs", i)]]

(***************************************************************************)
(* The tables of the comorbidity and distinct patients queries.            *)
(***************************************************************************)
getCohortTable(sc) == [i \in 1 .. sc.keys |-> [pid |-> counterColumn(i)]]

\* Half of the patients that may have a diagnosis are in the cohort.
getCohortDiagnosisTable(s, sc) ==
    [i \in 1 .. sc.n |->
        [pid |-> DrawnKey(s, 2 * sc.keys, 27, i), diag |-> Drawn(s, sc, 28, "cohortDiag", i)]]

getDemographicTable(s, sc) == [i \in 1 .. sc.keys |-> [pid |-> DrawnKey(s, sc.keys, 29, i)]]

getPatientDiagnosisTable(s, sc) ==
    [i \in 1 .. sc.n |->
        [code |-> Drawn(s, sc, 30, "code", i), diag |-> Drawn(s, sc, 31, "patientDiag", i)]]

getPatientMedicationTable(s, sc) ==
    [i \in 1 .. sc.n |->
        [pid |-> DrawnKey(s, sc.n, 32, i), code |-> Drawn(s, sc, 33, "code", i),
         med |-> Drawn(s, sc, 34, "patientMed", i)]]
=============================================================================
