----------------------------- MODULE MCQueries ------------------------------
(***************************************************************************)
(* All query programs, their databases and the SQL text each is checked    *)
(* against.                                                                *)
(***************************************************************************)
EXTENDS QueryMachine, TLC, TPCHQueries, OtherQueries, SecretFlowQueries

Plans ==
    [q1 |-> q1, q2 |-> q2, q3 |-> q3, q4 |-> q4, q5 |-> q5, q6 |-> q6, q7 |-> q7,
     q8 |-> q8, q9 |-> q9, q10 |-> q10, q11 |-> q11, q12 |-> q12, q13 |-> q13, q14 |-> q14,
     q15 |-> q15, q16 |-> q16, q17 |-> q17, q18 |-> q18, q19 |-> q19, q20 |-> q20,
     q21 |-> q21, q22 |-> q22, pwd_reuse |-> pwd_reuse, secrecy_q2 |-> secrecy_q2,
     aspirin |-> aspirin, credit_score |-> credit_score, rcdiff |-> rcdiff,
     market_share |-> market_share, custom_agg |-> custom_agg, comorbidity |-> comorbidity,
     distinct_patients |-> distinct_patients, sf_q1 |-> sf_q1, sf_q1_mod |-> sf_q1_mod,
     sf_q1_mod_obliv |-> sf_q1_mod_obliv, sf_q12 |-> sf_q12, sf_q12_merge |-> sf_q12_merge,
     sf_q14 |-> sf_q14, sf_q14_merge |-> sf_q14_merge]

ScopeOf ==
    [q1 |-> q1_scope, q2 |-> q2_scope, q3 |-> q3_scope, q4 |-> q4_scope, q5 |-> q5_scope,
     q6 |-> q6_scope, q7 |-> q7_scope, q8 |-> q8_scope, q9 |-> q9_scope, q10 |-> q10_scope,
     q11 |-> q11_scope, q12 |-> q12_scope, q13 |-> q13_scope, q14 |-> q14_scope,
     q15 |-> q15_scope, q16 |-> q16_scope, q17 |-> q17_scope, q18 |-> q18_scope,
     q19 |-> q19_scope, q20 |-> q20_scope, q21 |-> q21_scope, q22 |-> q22_scope,
     pwd_reuse |-> pwd_reuse_scope, secrecy_q2 |-> secrecy_q2_scope,
     aspirin |-> aspirin_scope, credit_score |-> credit_score_scope,
     rcdiff |-> rcdiff_scope, market_share |-> market_share_scope,
     custom_agg |-> custom_agg_scope, comorbidity |-> comorbidity_scope,
     distinct_patients |-> distinct_patients_scope, sf_q1 |-> sf_q1_scope,
     sf_q1_mod |-> sf_q1_mod_scope, sf_q1_mod_obliv |-> sf_q1_mod_obliv_scope,
     sf_q12 |-> sf_q12_scope, sf_q12_merge |-> sf_q12_merge_scope, sf_q14 |-> sf_q14_scope,
     sf_q14_merge |-> sf_q14_merge_scope]

SqlText(q, db) ==
    CASE q = "q1" -> q1_sql(db)
      [] q = "q2" -> q2_sql(db)
      [] q = "q3" -> q3_sql(db)
      [] q = "q4" -> q4_sql(db)
      [] q = "q5" -> q5_sql(db)
      [] q = "q6" -> q6_sql(db)
      [] q = "q7" -> q7_sql(db)
      [] q = "q8" -> q8_sql(db)
      [] q = "q9" -> q9_sql(db)
      [] q = "q10" -> q10_sql(db)
      [] q = "q11" -> q11_sql(db)
      [] q = "q12" -> q12_sql(db)
      [] q = "q13" -> q13_sql(db)
      [] q = "q14" -> q14_sql(db)
      [] q = "q15" -> q15_sql(db)
      [] q = "q16" -> q16_sql(db)
      [] q = "q17" -> q17_sql(db)
      [] q = "q18" -> q18_sql(db)
      [] q = "q19" -> q19_sql(db)
      [] q = "q20" -> q20_sql(db)
      [] q = "q21" -> q21_sql(db)
      [] q = "q22" -> q22_sql(db)
      [] q = "pwd_reuse" -> pwd_reuse_sql(db)
      [] q = "secrecy_q2" -> secrecy_q2_sql(db)
      [] q = "aspirin" -> aspirin_sql(db)
      [] q = "credit_score" -> credit_score_sql(db)
      [] q = "rcdiff" -> rcdiff_sql(db)
      [] q = "market_share" -> market_share_sql(db)
      [] q = "custom_agg" -> custom_agg_sql(db)
      [] q = "comorbidity" -> comorbidity_sql(db)
      [] q = "distinct_patients" -> distinct_patients_sql(db)
      [] q = "sf_q1" -> sf_q1_sql(db)
      [] q = "sf_q1_mod" -> sf_q1_mod_sql(db)
      [] q = "sf_q1_mod_obliv" -> sf_q1_mod_obliv_sql(db)
      [] q = "sf_q12" -> sf_q12_sql(db)
      [] q = "sf_q12_merge" -> sf_q12_merge_sql(db)
      [] q = "sf_q14" -> sf_q14_sql(db)
      [] q = "sf_q14_merge" -> sf_q14_merge_sql(db)

TPCH == {"q1", "q2", "q3", "q4", "q5", "q6", "q7", "q8", "q9", "q10", "q11", "q12", "q13",
         "q14", "q15", "q16", "q17", "q18", "q19", "q20", "q21", "q22"}
SecretFlow == {"sf_q1", "sf_q1_mod", "sf_q1_mod_obliv", "sf_q12", "sf_q12_merge", "sf_q14",
               "sf_q14_merge"}

ASSUME ScopesInRange ==
    /\ \A q \in TPCH \cup SecretFlow : ScopeInRange(ScopeOf[q])
    /\ \A q \in DOMAIN Plans \ (TPCH \cup SecretFlow) : SecrecyScopeInRange(ScopeOf[q])

(***************************************************************************)
(* The tables: rows by source, seed and scope, and the shared columns.     *)
(***************************************************************************)
TPCHRows(source, s, sc) ==
    CASE source = "CUSTOMER" -> getCustomersTable(s, sc)
      [] source = "LINEITEM" -> getLineitemTable(s, sc)
      [] source = "ORDERS" -> getOrdersTable(s, sc)
      [] source = "REGION" -> getRegionTable(s, sc)
      [] source = "NATION" -> getNationTable(s, sc)
      [] source = "PART" -> getPartTable(s, sc)
      [] source = "SUPPLIER" -> getSupplierTable(s, sc)
      [] source = "PARTSUPP" -> getPartSuppTable(s, sc)

OtherRows(source, s, sc) ==
    CASE source = "PASSWORD" -> getPasswordTable(s, sc)
      [] source = "SECRECY_R" -> getSecrecyRTable(s, sc)
      [] source = "SECRECY_S" -> getSecrecySTable(s, sc)
      [] source = "DIAGNOSIS" -> getDiagnosisTable(s, sc)
      [] source = "MEDICATION" -> getMedicationTable(s, sc)
      [] source = "CREDIT" -> getCreditScoreTable(s, sc)
      [] source = "TAXIDATA" -> getTaxiTable(s, sc)
      [] source = "T1" -> getSecrecyT1Table(s, sc)
      [] source = "T2" -> getSecrecyT2Table(s, sc)
      [] source = "T3" -> getSecrecyT3Table(s, sc)
      [] source = "COHORT" -> getCohortTable(sc)
      [] source = "COHORT_DIAGNOSIS" -> getCohortDiagnosisTable(s, sc)
      [] source = "DEMOGRAPHIC" -> getDemographicTable(s, sc)
      [] source = "PATIENT_DIAGNOSIS" -> getPatientDiagnosisTable(s, sc)
      [] source = "PATIENT_MEDICATION" -> getPatientMedicationTable(s, sc)

\* Each party draws its own rows: the other party's seed is another one.
OtherSeed(s) == s + 1000

SecretFlowTable(table, s, sc) ==
    CASE table = "SFLOW_LINEITEM" -> getLineitemTableSecretFlow(s, sc)
      [] table = "SFLOW_OTHER" -> getLineitemTableSecretFlow(OtherSeed(s), sc)
      [] table = "SFLOW_PART" -> getPartTableSecretFlow(s, sc)
      [] table = "SFLOW_ORDERS" -> getOrdersTableSecretFlow(s, sc)

SecretFlowTables == {"SFLOW_LINEITEM", "SFLOW_OTHER", "SFLOW_PART", "SFLOW_ORDERS"}

\* The table that a source reduces.
TableOf(source) ==
    IF source \in SecretFlowTables THEN source
    ELSE IF source = "SF1_OTHER" THEN "SFLOW_OTHER"
    ELSE IF source \in {"SF14_PARTS", "SF14_PARTS_PADDED"} THEN "SFLOW_PART"
    ELSE IF source \in {"SF12_ORDERS", "SF12_ORDERS_PADDED"} THEN "SFLOW_ORDERS"
    ELSE "SFLOW_LINEITEM"

Reduced(source, rows, s) ==
    CASE source \in SecretFlowTables -> rows
      [] source \in {"SF1_LOCAL", "SF1_OTHER"} -> sf_q1_local(rows)
      [] source = "SF1M_LOCAL" -> sf_q1_mod_local(rows)
      [] source = "SF12_LINES" -> sf_q12_lines(rows)
      [] source = "SF12_ORDERS" -> sf_q12_orders(rows)
      [] source = "SF12_LINES_PADDED" -> sf_q12_merge_lines(rows)
      [] source = "SF12_ORDERS_PADDED" -> sf_q12_merge_orders(rows)
      [] source = "SF14_LINES" -> sf_q14_lines(rows, TRUE)
      [] source = "SF14_PARTS" -> sf_q14_parts(rows)
      [] source = "SF14_LINES_PADDED" -> sf_q14_merge_lines(rows, s % 2 = 0)
      [] source = "SF14_PARTS_PADDED" -> sf_q14_merge_parts(rows)

SourceRows(q, source, s) ==
    IF q \in TPCH THEN TPCHRows(source, s, ScopeOf[q])
    ELSE IF q \in SecretFlow
    THEN Reduced(source, SecretFlowTable(TableOf(source), s, ScopeOf[q]), s)
    ELSE OtherRows(source, s, ScopeOf[q])

SourceSchema ==
    [CUSTOMER |-> {"[CustKey]", "[C_Name]", "[Address]", "[NationKey]", "[Phone]",
                   "[CntryCode]", "[AcctBal]", "AcctBal", "[MktSegment]", "[Comment]"},
     LINEITEM |-> {"[OrderKey]", "[ReturnFlag]", "[LineStatus]", "Quantity", "[Quantity]",
                   "ExtendedPrice", "Discount", "[Discount]", "Tax", "[ShipDate]",
                   "[CommitDate]", "[ReceiptDate]", "[ShipMode]", "[PartKey]",
                   "[ShipInstruct]", "[LineNumber]", "[SuppKey]", "[ShipDateAdj]",
                   "[ShipDateAdjInterval]", "[DiscountHigh]", "[DiscountLow]",
                   "[QuantityAdj]"},
     ORDERS |-> {"[OrderKey]", "[CustKey]", "[Comment]", "[OrderPriority]", "[OrderDate]",
                 "[TotalPrice]", "[OrderStatus]"},
     REGION |-> {"[RegionKey]", "[Name]", "[Comment]"},
     NATION |-> {"[NationKey]", "[Name]", "[RegionKey]", "[Comment]"},
     PART |-> {"[PartKey]", "[Brand]", "[Container]", "[Type]", "[Size]", "[Name]"},
     SUPPLIER |-> {"[SuppKey]", "[NationKey]", "[AcctBal]", "[Name]", "[Address]",
                   "[Phone]", "[Comment]"},
     PARTSUPP |-> {"[SuppKey]", "[PartKey]", "[SupplyCost]", "SupplyCost", "AvailQty"},
     PASSWORD |-> {"[ID]", "[Password]"},
     SECRECY_R |-> {"[id]", "[ak]"}, SECRECY_S |-> {"[id]"},
     DIAGNOSIS |-> {"[pid]", "[time]", "[diagnosis]"},
     MEDICATION |-> {"[pid]", "[time]", "[med]"},
     CREDIT |-> {"[UID]", "[AGENCY]", "[YEAR]", "[CS]"},
     TAXIDATA |-> {"[Company]", "Fare", "[Type]"},
     T1 |-> {"[person]", "coinsurance", "[state]"}, T2 |-> {"[person]", "[disease]", "cost"},
     T3 |-> {"[disease]", "[class_]"},
     COHORT |-> {"[pid]"}, COHORT_DIAGNOSIS |-> {"[pid]", "[diag]"},
     DEMOGRAPHIC |-> {"[pid]"}, PATIENT_DIAGNOSIS |-> {"[code]", "[diag]"},
     PATIENT_MEDICATION |-> {"[pid]", "[code]", "[med]"},
     SFLOW_LINEITEM |-> {"[OrderKey]", "[ReturnFlag]", "[LineStatus]", "Quantity",
                   "ExtendedPrice", "Discount", "Tax", "[ShipDate]"},
     SF1_LOCAL |-> {"ReturnFlag", "LineStatus", "SumQuantity", "SumExtendedPrice",
                    "SumDiscountedPrice", "SumCharge", "SumDiscount", "Count"},
     SF1_OTHER |-> {"ReturnFlag", "LineStatus", "SumQuantity", "SumExtendedPrice",
                    "SumDiscountedPrice", "SumCharge", "SumDiscount", "Count"},
     SF1M_LOCAL |-> {"[ReturnFlag]", "[OrderKey]", "Quantity", "ExtendedPrice", "Discount",
                     "DiscPrice", "Charge"},
     SF12_LINES |-> {"[OrderKey]", "[ShipMode]"},
     SF12_ORDERS |-> {"[OrderKey]", "HighLineCount", "LowLineCount"},
     SF12_LINES_PADDED |-> {"[OrderKey]", "[ShipMode]"},
     SF12_ORDERS_PADDED |-> {"[OrderKey]", "HighLineCount", "LowLineCount"},
     SF14_LINES |-> {"[PartKey]", "KeyedPromoRevenue", "PromoRevenue"},
     SF14_PARTS |-> {"[PartKey]", "HasPromo"},
     SF14_LINES_PADDED |-> {"[PartKey]", "KeyedPromoRevenue", "PromoRevenue"},
     SF14_PARTS_PADDED |-> {"[PartKey]", "HasPromo"}]

\* The database sqlite was given.
LoadedBy(steps) == {steps[k].source : k \in {n \in DOMAIN steps : steps[n].op = "load"}}

Database(q, s) ==
    [t \in IF q \in SecretFlow THEN SecretFlowTables ELSE LoadedBy(Plans[q].steps) |->
        SourceRows(q, t, s)]

SqlAnswer(q, s) == SqlText(q, Database(q, s))

\* Most programs compare the opened rows with sqlite's one by one; among rows that tie, or
\* without an order, any order of sqlite's is one to pass with.  sf-q1 and sf-q1-mod-obliv
\* compare nothing.
SelfCheck(q, sql, out) ==
    CASE q \in {"sf_q1", "sf_q1_mod_obliv"} -> TRUE
      [] q = "q12" -> q12_checks(sql, out)
      [] OTHER -> IsAnswer(out, SqlRead(sql))

\* Where the comparison rejects a right answer: q12 takes every mode for one with urgent and
\* other lines (q12.cpp:210), and a NULL is read as 0 (q14.cpp:217, market-share.cpp:147).
Misjudged(q, sql) ==
    \/ sql.null
    \/ /\ q = "q12"
       /\ \E r \in DOMAIN sql.bag : \A u \in DOMAIN sql.bag : u[1] = r[1] => u[2] = r[2]
=============================================================================
