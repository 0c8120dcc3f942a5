---------------------------- MODULE OtherQueries ----------------------------
(***************************************************************************)
(* The queries of bench/queries/other: the plan of each, the SQL text it   *)
(* is checked against, and the bounds of the databases it is run on.       *)
(***************************************************************************)
EXTENDS Integers, Sequences, FiniteSets, QueryLanguage, Databases

SecrecyScope(n, keys, focus) == [n |-> n, keys |-> keys, focus |-> focus]

Values_(rows, F(_)) == {F(rows[i]) : i \in DOMAIN rows}

(***************************************************************************)
(* Password reuse: users that have one password in several places.         *)
(***************************************************************************)
pwd_reuse == Plan(<<
    Load("R", "PASSWORD"),
    AddColumns("R", {"Count"}),
    Aggregate("R", <<"[ID]", "[Password]">>, <<count("Count", "Count")>>, Default),
    AddColumns("R", {"[Count]"}),
    ConvertA2B("R", "Count", "[Count]"),
    Filter("R", Gt(Col("[Count]"), Lit(1))),
    Project("R", {"[ID]"})>>,
    "R", <<"[ID]">>)

pwd_reuse_sql(db) ==
    LET P == db.PASSWORD
        same(k) == {i \in DOMAIN P : <<P[i].ID, P[i].Password>> = k}
        groups == {k \in Values_(P, LAMBDA r : <<r.ID, r.Password>>) : Cardinality(same(k)) > 1}
    IN  Sql(Bagged(groups, LAMBDA k : <<k[1]>>), <<>>, 0)

pwd_reuse_scope == SecrecyScope(5, 2, [cs |-> <<300>>])

(***************************************************************************)
(* Secrecy Q2: matches of two tables, counted by an attribute of one.      *)
(***************************************************************************)
secrecy_q2 == Unfinalized(Plan(<<
    Load("R", "SECRECY_R"),
    Load("S", "SECRECY_S"),
    AddColumns("S", {"CNT"}),
    Aggregate("S", <<"[id]">>, <<count("CNT", "CNT")>>, Default),
    InnerJoin("RJ", "S", "R", <<"[id]">>, <<copy("CNT", "CNT")>>),
    Project("RJ", {"[ak]", "CNT"}),
    Aggregate("RJ", <<"[ak]">>, <<sum("CNT", "CNT")>>, Default)>>,
    "RJ", <<"[ak]", "CNT">>))

secrecy_q2_sql(db) ==
    LET R == db.SECRECY_R
        S == db.SECRECY_S
        joined == {p \in Indices(R) \X Indices(S) : R[p[1]].id = S[p[2]].id}
        row(k) == <<k, Cardinality({p \in joined : R[p[1]].ak = k})>>
    IN  Sql(Bagged({R[p[1]].ak : p \in joined}, row), <<>>, 0)

secrecy_q2_scope == SecrecyScope(4, 3, [cs |-> <<300>>])

(***************************************************************************)
(* Aspirin count: patients given a medicine after a diagnosis.             *)
(***************************************************************************)
Q_ASPIRIN_DIAG == 3
Q_ASPIRIN_MED == 5

aspirin == ScalarPlan(<<
    Load("D", "DIAGNOSIS"),
    Load("M", "MEDICATION"),
    Filter("D", Eq(Col("[diagnosis]"), Lit(Q_ASPIRIN_DIAG))),
    DeleteColumns("D", {"[diagnosis]"}),
    Filter("M", Eq(Col("[med]"), Lit(Q_ASPIRIN_MED))),
    DeleteColumns("M", {"[med]"}),
    RenameColumn("D", "[time]", "[d.time]"),
    RenameColumn("M", "[time]", "[m.time]"),
    Aggregate("D", <<"[pid]">>, <<min("[d.time]", "[d.time]")>>, Default),
    Aggregate("M", <<"[pid]">>, <<max("[m.time]", "[m.time]")>>, Default),
    InnerJoin("T", "D", "M", <<"[pid]">>, <<copy("[d.time]", "[d.time]")>>),
    Filter("T", Leq(Col("[d.time]"), Col("[m.time]"))),
    Project("T", {"[pid]"}),
    AddColumns("T", {"Count"}),
    ConvertB2ABit("T", V, "Count"),
    PrefixSum("T", "Count"),
    Project("T", {"Count"}),
    Tail_("T", 1)>>,
    "T", <<"Count">>)

aspirin_sql(db) ==
    LET D == db.DIAGNOSIS
        M == db.MEDICATION
        match == {p \in Indices(D) \X Indices(M) :
                    LET d == D[p[1]] m == M[p[2]] IN
                    /\ d.pid = m.pid /\ d.time <= m.time
                    /\ d.diagnosis = Q_ASPIRIN_DIAG /\ m.med = Q_ASPIRIN_MED}
    IN  SqlScalar(Cardinality({D[p[1]].pid : p \in match}))

aspirin_scope == SecrecyScope(5, 2, [time |-> <<10, 20, 30>>, diag |-> <<3, 4>>, med |-> <<5, 6>>])

(***************************************************************************)
(* Credit score: users whose scores of a year differ too much.             *)
(***************************************************************************)
TARGET_YEAR == 2023
CREDIT_THRESHOLD == 150

credit_score == Plan(<<
    Load("R", "CREDIT"),
    Filter("R", Eq(Col("[YEAR]"), Lit(TARGET_YEAR))),
    AddColumns("R", {"[CS_MIN]", "[CS_MAX]"}),
    Aggregate("R", <<"[UID]">>, <<min("[CS]", "[CS_MIN]"), max("[CS]", "[CS_MAX]")>>, Default),
    Filter("R", Gt(Sub(Col("[CS_MAX]"), Col("[CS_MIN]")), Lit(CREDIT_THRESHOLD))),
    Project("R", {"[UID]"})>>,
    "R", <<"[UID]">>)

credit_score_sql(db) ==
    LET C == db.CREDIT
        of(u) == {C[i].CS : i \in {j \in DOMAIN C : C[j].UID = u /\ C[j].YEAR = TARGET_YEAR}}
        apart(u) == \E a, b \in of(u) : a - b > CREDIT_THRESHOLD
    IN  Sql(Bagged({u \in Values_(C, LAMBDA r : r.UID) : apart(u)}, LAMBDA u : <<u>>), <<>>, 0)

credit_score_scope ==
    SecrecyScope(6, 2, [year |-> <<2022, 2023, 2023>>, cs |-> <<300, 450, 451, 600>>])

(***************************************************************************)
(* Recurrent C. diff: patients diagnosed again within some weeks.          *)
(***************************************************************************)
Q_RCDIFF_DIAG == 8
T_MIN == 15
T_MAX == 56

rcdiff == Unfinalized(Plan(<<
    Load("D", "DIAGNOSIS"),
    Filter("D", Eq(Col("[diagnosis]"), Lit(Q_RCDIFF_DIAG))),
    DeleteColumns("D", {"[diagnosis]"}),
    Sort("D", All(<<V, "[pid]", "[time]">>, "ASC")),
    AddColumns("D", {"[time2]", "[pid2]", "[delta]"}),
    NextRow("D", "[time]", "[time2]"),
    NextRow("D", "[pid]", "[pid2]"),
    Set("D", "[delta]", Sub(Col("[time2]"), Col("[time]"))),
    Filter("D", And(And(Geq(Col("[delta]"), Lit(T_MIN)), Leq(Col("[delta]"), Lit(T_MAX))),
                    Eq(Col("[pid2]"), Col("[pid]")))),
    DeleteColumns("D", {"[pid2]", "[time]", "[time2]", "[delta]"}),
    DistinctKeys("D", <<"[pid]">>)>>,
    "D", <<"[pid]">>))

\* Rows of one patient at one time follow each other in either order: their difference is 0.
rcdiff_sql(db) ==
    LET D == db.DIAGNOSIS
        rcd == {i \in DOMAIN D : D[i].diagnosis = Q_RCDIFF_DIAG}
        before(i, j) == D[i].time < D[j].time \/ (D[i].time = D[j].time /\ i < j)
        consecutive(i, j) == /\ before(i, j)
                             /\ ~\E k \in rcd : D[k].pid = D[i].pid /\ before(i, k) /\ before(k, j)
        again(p) == \E i, j \in rcd :
                        /\ D[i].pid = p /\ D[j].pid = p /\ consecutive(i, j)
                        /\ D[j].time - D[i].time \in T_MIN .. T_MAX
    IN  Sql(Bagged({p \in Values_(D, LAMBDA r : r.pid) : again(p)}, LAMBDA p : <<p>>),
            <<<<1, "ASC">>>>, 0)

rcdiff_scope == SecrecyScope(6, 2, [time |-> <<10, 25, 40, 81>>, diag |-> <<8, 8, 9>>])

(***************************************************************************)
(* Market share: the Herfindahl index of the taxi companies.               *)
(***************************************************************************)
AIRPORT == 0

market_share == Finalized(ScalarPlan(<<
    Load("T", "TAXIDATA"),
    Filter("T", Eq(Col("[Type]"), Lit(AIRPORT))),
    DeleteColumns("T", {"[Type]"}),
    AddColumns("T", {"CompanyRevenue"}),
    Aggregate("T", <<"[Company]">>, <<sum("Fare", "CompanyRevenue")>>, Default),
    DeleteColumns("T", {"[Company]", "Fare"}),
    AddColumns("T", {"Valid", "TotalRevenue", "SumSq"}),
    ConvertB2ABit("T", V, "Valid"),
    Set("T", "TotalRevenue", Mul(Col("Valid"), Col("CompanyRevenue"))),
    PrefixSum("T", "TotalRevenue"),
    Set("T", "SumSq", Mul(Mul(Col("Valid"), Col("CompanyRevenue")), Col("CompanyRevenue"))),
    PrefixSum("T", "SumSq"),
    Tail_("T", 1),
    Set("T", "TotalRevenue", Mul(Col("TotalRevenue"), Col("TotalRevenue"))),
    AddColumns("T", {"[HHI]"}),
    Set("T", "[HHI]", Div(Mul(Col("SumSq"), Lit(10000)), Col("TotalRevenue"))),
    Project("T", {"[HHI]"})>>,
    "T", <<"[HHI]">>))

market_share_sql(db) ==
    LET X == db.TAXIDATA
        airport == {i \in DOMAIN X : X[i].Type = AIRPORT}
        revenue(c) == Sum({i \in airport : X[i].Company = c}, LAMBDA i : X[i].Fare)
        companies == {X[i].Company : i \in airport}
        total == Sum(companies, revenue)
    IN  SqlQuotient(Sum(companies, LAMBDA c : 10000 * revenue(c) * revenue(c)), total * total)

market_share_scope ==
    SecrecyScope(5, 2, [company |-> <<1, 2, 999>>, fare |-> <<0, 3, 20>>, type |-> <<0, 0, 1>>])

(***************************************************************************)
(* Custom aggregation: what insurances pay, by class of disease.           *)
(***************************************************************************)
custom_agg == Plan(<<
    Load("T1", "T1"),
    Project("T1", {"[person]", "coinsurance"}),
    Load("T2", "T2"),
    Load("T3", "T3"),
    AddColumns("T1", {"percentage"}),
    Set("T1", "percentage", Add(Neg(Col("coinsurance")), Lit(100))),
    Project("T1", {"[person]", "percentage"}),
    Aggregate("T1", <<"[person]">>, <<sum("percentage", "percentage")>>, Default),
    InnerJoin("T12", "T1", "T2", <<"[person]">>, <<copy("percentage", "percentage")>>),
    AddColumns("T12", {"insCost"}),
    Set("T12", "insCost", Mul(Col("percentage"), Col("cost"))),
    Project("T12", {"[disease]", "insCost"}),
    Aggregate("T12", <<"[disease]">>, <<sum("insCost", "insCost")>>, Default),
    InnerJoin("T123", "T12", "T3", <<"[disease]">>, <<copy("insCost", "insCost")>>),
    Project("T123", {"[class_]", "insCost"}),
    Aggregate("T123", <<"[class_]">>, <<sum("insCost", "insCost")>>, Default),
    Set("T123", "insCost", Per(Col("insCost"), 100))>>,
    "T123", <<"[class_]", "insCost">>)

custom_agg_sql(db) ==
    LET A == db.T1
        B == db.T2
        C == db.T3
        joined == {p \in Indices(A) \X Indices(B) \X Indices(C) :
                    A[p[1]].person = B[p[2]].person /\ B[p[2]].disease = C[p[3]].disease}
        cost(p) == B[p[2]].cost * (100 - A[p[1]].coinsurance)
        row(k) == <<k, Sum({p \in joined : C[p[3]].class_ = k}, cost) \div 100>>
    IN  Sql(Bagged({C[p[3]].class_ : p \in joined}, row), <<>>, 0)

custom_agg_scope ==
    SecrecyScope(4, 2, [coinsurance |-> <<0, 33, 99>>, disease |-> <<1, 2>>, cost |-> <<1, 50>>,
                        class |-> <<0, 1>>])

(***************************************************************************)
(* Comorbidity: the most frequent diagnoses of a cohort.  The build that   *)
(* only measures finalizes before the order of the check.                  *)
(***************************************************************************)
comorbidity == [Plan(<<
    Load("C", "COHORT"),
    Load("D", "COHORT_DIAGNOSIS"),
    Join("F", "semi", "D", "C", <<"[pid]">>, <<>>),
    AddColumns("F", {"DiagCount"}),
    Aggregate("F", <<"[diag]">>, <<count("DiagCount", "DiagCount")>>, Default),
    AddColumns("F", {"[DiagCount]"}),
    ConvertA2B("F", "DiagCount", "[DiagCount]"),
    Sort("F", All(<<V, "[DiagCount]">>, "DESC")),
    Sort("F", All(<<V, "[DiagCount]", "[diag]">>, "DESC")),
    Head_("F", 10)>>,
    "F", <<"[diag]", "[DiagCount]">>) EXCEPT !.finalizeAt = 9]

comorbidity_sql(db) ==
    LET D == db.COHORT_DIAGNOSIS
        cohort == Values_(db.COHORT, LAMBDA r : r.pid)
        of == {i \in DOMAIN D : D[i].pid \in cohort}
        row(k) == <<k, Cardinality({i \in of : D[i].diag = k})>>
    IN  Sql(Bagged({D[i].diag : i \in of}, row), <<<<2, "DESC">>, <<1, "DESC">>>>, 10)

comorbidity_scope == SecrecyScope(6, 2, [cohortDiag |-> <<0, 1, 999>>])

(***************************************************************************)
(* Distinct patients with a diagnosis and a medicine.                      *)
(***************************************************************************)
Q_PATIENT_DIAG == 0
Q_PATIENT_MED == 0

distinct_patients == Plan(<<
    Load("P", "DEMOGRAPHIC"),
    Load("D", "PATIENT_DIAGNOSIS"),
    Load("M", "PATIENT_MEDICATION"),
    Filter("D", Eq(Col("[diag]"), Lit(Q_PATIENT_DIAG))),
    Project("D", {"[code]"}),
    Filter("M", Eq(Col("[med]"), Lit(Q_PATIENT_MED))),
    Project("M", {"[code]", "[pid]"}),
    InnerJoin("MD", "D", "M", <<"[code]">>, <<>>),
    Project("MD", {"[pid]"}),
    InnerJoin("J", "MD", "P", <<"[pid]">>, <<>>),
    DistinctKeys("J", <<"[pid]">>)>>,
    "J", <<"[pid]">>)

distinct_patients_sql(db) ==
    LET P == db.DEMOGRAPHIC
        D == db.PATIENT_DIAGNOSIS
        M == db.PATIENT_MEDICATION
        with(p) == \E d \in DOMAIN D, m \in DOMAIN M :
                       /\ D[d].diag = Q_PATIENT_DIAG /\ M[m].med = Q_PATIENT_MED
                       /\ D[d].code = M[m].code /\ M[m].pid = p
    IN  Sql(Bagged({p \in Values_(P, LAMBDA r : r.pid) : with(p)}, LAMBDA p : <<p>>),
            <<<<1, "ASC">>>>, 0)

distinct_patients_scope ==
    SecrecyScope(4, 4, [code |-> <<1, 2>>, patientDiag |-> <<0, 0, 1>>, patientMed |-> <<0, 0, 1>>])
=============================================================================
