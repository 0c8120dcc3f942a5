SPECIFICATION Spec
CONSTANTS
    PlanOf <- Plans
    SchemaOf <- SourceSchema
    Rows <- SourceRows
    SqlOf <- SqlAnswer
    ChecksPass <- SelfCheck
    Misjudges <- Misjudged
    MASK_VALUE = 2147483647
    Queries = {
        "q1", "q2", "q3", "q4", "q5", "q6", "q7", "q8", "q9", "q10", "q11", "q12", "q13",
        "q14", "q15", "q16", "q17", "q18", "q19", "q20", "q21", "q22", "pwd_reuse",
        "secrecy_q2", "aspirin", "credit_score", "rcdiff", "market_share", "custom_agg",
        "comorbidity", "distinct_patients", "sf_q1", "sf_q1_mod", "sf_q1_mod_obliv",
        "sf_q12", "sf_q12_merge", "sf_q14", "sf_q14_merge"}
    Seeds = {1, 2, 3, 4, 5, 6, 7, 8, 9, 10, 11, 12, 13, 14, 17}
    Shadowed = {1, 2}
INVARIANTS TypeOK NeverAborts Oblivious AnswersTheQuery FinalizedIsTheAnswer
CHECK_DEADLOCK FALSE
