----------------------------- MODULE MCBatching -----------------------------
(* Batch sizes for model-checking Batching; a configuration file cannot    *)
(* write the negative ones, which ask for equal division.                  *)
EXTENDS Batching

AllSizes == {1, 2, 3, 5, -1, -2, -3}
DefaultDivision == {-12}   \* the default of --batch-size
=============================================================================
