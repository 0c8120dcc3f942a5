------------------------------ MODULE Batching ------------------------------
(***************************************************************************)
(* An engine call's elements and who processes them: the call cuts its     *)
(* operand into one task per worker (Partition), the workers run the       *)
(* batches of their tasks concurrently (Task::execute).  What a batch      *)
(* computes is left out; what matters is which elements it touches.        *)
(***************************************************************************)
EXTENDS Partition

CONSTANTS
    BatchSizes,     \* values the user may configure
    Lengths,        \* operand lengths of element-wise calls
    GroupedLengths, \* operand lengths of aggregator and matrix calls
    Divisors        \* aggregation sizes, matrix instance sizes

ASSUME BatchSizesAssumption == BatchSizes \subseteq Int \ {0}
ASSUME LengthsAssumption == Lengths \subseteq Nat
ASSUME GroupedLengthsAssumption == GroupedLengths \subseteq Nat
ASSUME DivisorsAssumption == Divisors \subseteq Nat \ {0}

VARIABLES
    batch_size,  \* RunTime::batch_size
    state,       \* "idle", "running", "returned" or "crashed"
    kind,        \* the kind of call
    total,       \* its operand's length
    divisor,     \* the size of its groups (1: none)
    tasks,       \* each worker's Task: start, end, batch_size
    next,        \* Task::execute's loop variable i
    batches,     \* how many times each worker has called sub_execute
    hits         \* how often each element has been processed

callVars == <<batch_size, kind, total, divisor, tasks>>
vars == <<callVars, state, next, batches, hits>>

-----------------------------------------------------------------------------
(* The constructor of Task: equal division is resolved for its own range.  *)
Task(start, end, batch) ==
    [start |-> start, end |-> end,
     batch |-> IF batch < 0 THEN compute_equal_batches(end - start, batch) ELSE batch]

(* One task per thread: ranges dealt out in the given unit, and the batch  *)
(* size passed to each thread's task.                                      *)
TasksOf(n, unit, batchOf) ==
    [t \in Threads |->
        Task(ThreadStart(n, unit, t), ThreadEnd(n, unit, t), batchOf[t])]

Same(batch) == [t \in Threads |-> batch]
WholeRange(n, unit) ==
    [t \in Threads |-> ThreadEnd(n, unit, t) - ThreadStart(n, unit, t)]

Begin(k, n, d, newTasks) ==
    /\ state = "idle"
    /\ state' = "running"
    /\ kind' = k /\ total' = n /\ divisor' = d
    /\ tasks' = newTasks
    /\ next' = [t \in Threads |-> newTasks[t].start]
    /\ batches' = [t \in Threads |-> 0]
    /\ hits' = [x \in 0 .. n - 1 |-> 0]
    /\ UNCHANGED batch_size

Init ==
    /\ batch_size \in BatchSizes
    /\ state = "idle" /\ kind = "none" /\ total = 0 /\ divisor = 1
    /\ tasks = [t \in Threads |-> [start |-> 0, end |-> 0, batch |-> 1]]
    /\ next = [t \in Threads |-> 0]
    /\ batches = [t \in Threads |-> 0]
    /\ hits = [x \in {} |-> 0]

(* execute_parallel, modify_parallel, generate_parallel and the            *)
(* eval_protocol functions without groups.                                 *)
CallElementwise(n) ==
    Begin("elementwise", n, 1,
          TasksOf(n, BoundaryUnit(batch_size), Same(batch_size)))

(* execute_parallel_unsafe (unit 1), reserve_triples (unit -1) and          *)
(* evaluate_oprf: the task's batch is its whole range.                     *)
CallWhole(n, batch) ==
    LET unit == BoundaryUnit(batch)
    IN Begin("whole", n, 1, TasksOf(n, unit, WholeRange(n, unit)))

(* eval_protocol_aggregator_2arg and eval_protocol_matrix_2arg.  The       *)
(* adjusted batch size lives until the tasks are built; dividing by it     *)
(* when it is 0 ends the process.                                          *)
CallGrouped(n, d) ==
    LET b == makeBatchSizeDivisibleBy(n, d, batch_size)
    IN /\ n % d = 0
       /\ IF b # 0
            THEN Begin("grouped", n, d, TasksOf(n, b, Same(b)))
            ELSE /\ state = "idle" /\ state' = "crashed"
                 /\ UNCHANGED <<callVars, next, batches, hits>>

(* One round of Task::execute's loop: sub_execute on [i, min(i + b, end)).  *)
Batch(t) ==
    LET task == tasks[t]
        i == next[t]
        end_ == LesserOf(i + task.batch, task.end)
    IN /\ state = "running" /\ i < task.end
       /\ hits' = [x \in DOMAIN hits |-> IF i <= x /\ x < end_ THEN hits[x] + 1 ELSE hits[x]]
       /\ next' = [next EXCEPT ![t] = i + task.batch]
       /\ batches' = [batches EXCEPT ![t] = @ + 1]
       /\ UNCHANGED <<callVars, state>>

\* Mutant of Return: the loop is over only when i hits end exactly.
Return_Exact ==
    /\ state = "running"
    /\ \A t \in Threads : next[t] = tasks[t].end
    /\ state' = "returned"
    /\ UNCHANGED <<callVars, next, batches, hits>>

(* main_thread_wait: all tasks have run to their end.                      *)
Return ==
    /\ state = "running"
    /\ \A t \in Threads : next[t] >= tasks[t].end
    /\ state' = "returned"
    /\ UNCHANGED <<callVars, next, batches, hits>>

(* The caller goes on to its next operation.                               *)
Proceed ==
    /\ state = "returned"
    /\ state' = "idle"
    /\ UNCHANGED <<callVars, next, batches, hits>>

Next ==
    \/ \E n \in Lengths : CallElementwise(n)
    \/ \E n \in Lengths : \E batch \in {1, -1, OprfUnit(n)} : CallWhole(n, batch)
    \/ \E n \in GroupedLengths, d \in Divisors : CallGrouped(n, d)
    \/ \E t \in Threads : Batch(t)
    \/ Return
    \/ Proceed

Spec == Init /\ [][Next]_vars
FairSpec == Spec /\ WF_vars(Return) /\ \A t \in Threads : WF_vars(Batch(t))

-----------------------------------------------------------------------------
TypeOK ==
    /\ batch_size \in BatchSizes
    /\ state \in {"idle", "running", "returned", "crashed"}
    /\ kind \in {"none", "elementwise", "whole", "grouped"}
    /\ total \in Nat /\ divisor \in Nat \ {0}
    /\ tasks \in [Threads -> [start : Nat, end : Nat, batch : Nat]]
    /\ next \in [Threads -> Nat]
    /\ batches \in [Threads -> Nat]
    /\ hits \in [0 .. total - 1 -> Nat]

(* No element is processed by two batches (the workers write disjoint      *)
(* parts of the result, so they need no lock), and when the call returns   *)
(* every element has been processed.  The record of it is well-typed.      *)
EachElementOnce ==
    /\ TypeOK
    /\ \A x \in DOMAIN hits : hits[x] <= 1
    /\ state = "returned" => \A x \in DOMAIN hits : hits[x] = 1

(* "ensuring that the dot product is computed in batches of size divisible *)
(* by aggSize elements": no batch starts or ends inside a group, so the    *)
(* result's range start/agg .. end/agg is exact.                           *)
GroupsNotSplit ==
    state = "running" =>
        \A t \in Threads :
            /\ tasks[t].end % divisor = 0
            /\ next[t] < tasks[t].end => next[t] % divisor = 0

(* "negative batch size specifies number of chunks instead": a thread runs *)
(* at most that many batches; and for the OPRF and the reservation of      *)
(* triples "each thread receives at most one chunk".                       *)
BatchCountBounded ==
    \A t \in Threads :
        /\ kind = "elementwise" /\ batch_size < 0 => batches[t] <= -batch_size
        /\ kind = "whole" => batches[t] <= 1

(* Every call returns: no task's loop stands still.                        *)
CallsReturn == (state = "running") ~> (state = "returned")

(* "which must assign batches of the proper size to each thread": the      *)
(* adjusted batch size is one a vector can be divided by.                  *)
ProperBatchSize == state # "crashed"
=============================================================================
