------------------------------- MODULE Runtime -------------------------------
(***************************************************************************)
(* One party's execution engine: the main thread and the worker threads of *)
(* backend/common/runtime.h and backend/common/worker.h, synchronised by   *)
(* one std::barrier of num_threads + 1 participants and, per worker, by a  *)
(* task queue under a mutex with a condition variable.                     *)
(*                                                                         *)
(* A critical section under a worker's mutex is one step; notify_all(),    *)
(* which the code calls after the mutex is released, is a step of its own. *)
(* The barrier is external (std::barrier): arriving and being let through  *)
(* are two steps, so a slow thread may still be leaving a phase while      *)
(* others have arrived for the next one.                                   *)
(***************************************************************************)
EXTENDS Partition, Sequences

CONSTANTS
    MaxOps,      \* bound: how many engine calls the program makes
    OprfLengths  \* input lengths evaluate_oprf is called with ({}: never)

ASSUME MaxOpsAssumption == MaxOps \in Nat
ASSUME OprfLengthsAssumption == OprfLengths \subseteq Nat

Main == -1
Participants == Threads \cup {Main}

VARIABLES
    mpc,         \* main: "setup", "idle", "add", "notify", "barrier",
                 \* "stop", "stopNotify", "join" or "done"
    mt,          \* the worker main's current loop is at
    op,          \* number of engine calls made
    targets,     \* the workers the current call has tasks for
    wpc,         \* worker: "unborn", "top", "barrier", "lock", "sleep",
                 \* "exec" or "exit"
    q,           \* q_: each worker's task queue (tasks are named by their op)
    terminate_,  \* Worker::terminate_
    task,        \* the task a worker has taken
    finished,    \* number of tasks each worker has executed
    phase,       \* the barrier: number of completed phases,
    arrived,     \* who has arrived in the current one,
    token        \* and the phase each participant last arrived in

mainVars == <<mpc, mt, op, targets>>
barrierVars == <<phase, arrived, token>>
rvars == <<mainVars, wpc, q, terminate_, task, finished, barrierVars>>

-----------------------------------------------------------------------------
(* std::barrier::arrive_and_wait: the arrival, which completes the phase   *)
(* if it is the last one, and the condition on which the wait is over.     *)
Arrive(p) ==
    /\ token' = [token EXCEPT ![p] = phase]
    /\ IF arrived \cup {p} = Participants
         THEN phase' = phase + 1 /\ arrived' = {}
         ELSE phase' = phase /\ arrived' = arrived \cup {p}
LetThrough(p) == phase # token[p]

(* notify_all on worker t's condition variable.                            *)
Notify(t) == wpc' = [wpc EXCEPT ![t] = IF wpc[t] = "sleep" THEN "lock" ELSE @]

Init ==
    /\ mpc = "setup" /\ mt = 0 /\ op = 0 /\ targets = Threads
    /\ wpc = [t \in Threads |-> "unborn"]
    /\ q = [t \in Threads |-> <<>>]
    /\ terminate_ = [t \in Threads |-> FALSE]
    /\ task = [t \in Threads |-> 0]
    /\ finished = [t \in Threads |-> 0]
    /\ phase = 0 /\ arrived = {} /\ token = [p \in Participants |-> -1]

-----------------------------------------------------------------------------
(* The main thread.                                                        *)

(* setup_workers: the loop that creates and starts the workers ...         *)
StartWorker ==
    /\ mpc = "setup" /\ mt < NumThreads
    /\ wpc' = [wpc EXCEPT ![mt] = "top"]
    /\ mt' = mt + 1
    /\ UNCHANGED <<mpc, op, targets, q, terminate_, task, finished, barrierVars>>

(* ... and its wait until all of them are up.                              *)
SetupDone ==
    /\ mpc = "setup" /\ mt = NumThreads
    /\ mpc' = "barrier"
    /\ Arrive(Main)
    /\ UNCHANGED <<mt, op, targets, wpc, q, terminate_, task, finished>>

BeginCall(workersWithTask) ==
    /\ mpc = "idle" /\ op < MaxOps
    /\ mpc' = "add" /\ mt' = 0 /\ op' = op + 1
    /\ targets' = workersWithTask
    /\ UNCHANGED <<wpc, q, terminate_, task, finished, barrierVars>>

(* execute_parallel, modify_parallel, generate_parallel, eval_protocol_*,  *)
(* generate_permutations, reserve_triples: one task for every worker.      *)
CallEngine == BeginCall(Threads)

(* evaluate_oprf: only workers with a non-empty range get a task.          *)
OprfTargets(length) ==
    LET per_thread == OprfUnit(length)
    IN {t \in Threads : ThreadStart(length, per_thread, t)
                            < ThreadEnd(length, per_thread, t)}
evaluate_oprf == \E length \in OprfLengths : BeginCall(OprfTargets(length))

(* RunTime::addTask, Worker::addTask: push the task under the mutex ...    *)
AddTask ==
    /\ mpc = "add" /\ mt < NumThreads /\ mt \in targets
    /\ q' = [q EXCEPT ![mt] = Append(@, op)]
    /\ mpc' = "notify"
    /\ UNCHANGED <<mt, op, targets, wpc, terminate_, task, finished, barrierVars>>

\* Mutant of AddTaskNotify: the worker is not woken up.
AddTaskNotify_Lost ==
    /\ mpc = "notify"
    /\ mpc' = "add" /\ mt' = mt + 1
    /\ UNCHANGED <<op, targets, wpc, q, terminate_, task, finished, barrierVars>>

(* ... then wake the worker up.                                            *)
AddTaskNotify ==
    /\ mpc = "notify"
    /\ Notify(mt)
    /\ mpc' = "add" /\ mt' = mt + 1
    /\ UNCHANGED <<op, targets, q, terminate_, task, finished, barrierVars>>

(* evaluate_oprf's continue.                                               *)
SkipWorker ==
    /\ mpc = "add" /\ mt < NumThreads /\ mt \notin targets
    /\ mt' = mt + 1
    /\ UNCHANGED <<mpc, op, targets, wpc, q, terminate_, task, finished,
                   barrierVars>>

(* main_thread_wait: arrive at the barrier ...                             *)
MainArrive ==
    /\ mpc = "add" /\ mt = NumThreads
    /\ mpc' = "barrier"
    /\ Arrive(Main)
    /\ UNCHANGED <<mt, op, targets, wpc, q, terminate_, task, finished>>

\* Mutant of MainReturn: the main thread arrives without waiting.
MainReturn_NoWait ==
    /\ mpc = "barrier"
    /\ mpc' = "idle"
    /\ UNCHANGED <<mt, op, targets, wpc, q, terminate_, task, finished, barrierVars>>

(* ... and return from the engine call (or from setup_workers).            *)
MainReturn ==
    /\ mpc = "barrier" /\ LetThrough(Main)
    /\ mpc' = "idle"
    /\ UNCHANGED <<mt, op, targets, wpc, q, terminate_, task, finished, barrierVars>>

\* Mutant of Destroy: the runtime can go away while a call is being waited for.
Destroy_DuringCall ==
    /\ mpc \in {"idle", "barrier"}
    /\ mpc' = "stop" /\ mt' = 0
    /\ UNCHANGED <<op, targets, wpc, q, terminate_, task, finished, barrierVars>>

(* The runtime is destroyed; the workers are destroyed one after another:  *)
(* ~Worker calls stop() ...                                                *)
Destroy ==
    /\ mpc = "idle"
    /\ mpc' = "stop" /\ mt' = 0
    /\ UNCHANGED <<op, targets, wpc, q, terminate_, task, finished, barrierVars>>

Stop ==
    /\ mpc = "stop" /\ mt < NumThreads
    /\ terminate_' = [terminate_ EXCEPT ![mt] = TRUE]
    /\ mpc' = "stopNotify"
    /\ UNCHANGED <<mt, op, targets, wpc, q, task, finished, barrierVars>>

\* Mutant of StopNotify: terminate_ is set, but nobody is told.
StopNotify_Lost ==
    /\ mpc = "stopNotify"
    /\ mpc' = "join"
    /\ UNCHANGED <<mt, op, targets, wpc, q, terminate_, task, finished, barrierVars>>

StopNotify ==
    /\ mpc = "stopNotify"
    /\ Notify(mt)
    /\ mpc' = "join"
    /\ UNCHANGED <<mt, op, targets, q, terminate_, task, finished, barrierVars>>

(* ... and joins the thread.                                               *)
Join ==
    /\ mpc = "join" /\ wpc[mt] = "exit"
    /\ mpc' = IF mt = NumThreads - 1 THEN "done" ELSE "stop"
    /\ mt' = mt + 1
    /\ UNCHANGED <<op, targets, wpc, q, terminate_, task, finished, barrierVars>>

MainStep ==
    \/ StartWorker \/ SetupDone \/ CallEngine \/ evaluate_oprf
    \/ AddTask \/ AddTaskNotify \/ SkipWorker \/ MainArrive \/ MainReturn
    \/ Destroy \/ Stop \/ StopNotify \/ Join

-----------------------------------------------------------------------------
(* A worker: the loop of Worker::run.                                      *)

(* The test of terminate_ outside the mutex, and the arrival.              *)
WorkerTop(t) ==
    /\ wpc[t] = "top"
    /\ IF terminate_[t]
         THEN /\ wpc' = [wpc EXCEPT ![t] = "exit"]
              /\ UNCHANGED barrierVars
         ELSE /\ wpc' = [wpc EXCEPT ![t] = "barrier"]
              /\ Arrive(t)
    /\ UNCHANGED <<mainVars, q, terminate_, task, finished>>

WorkerLetThrough(t) ==
    /\ wpc[t] = "barrier" /\ LetThrough(t)
    /\ wpc' = [wpc EXCEPT ![t] = "lock"]
    /\ UNCHANGED <<mainVars, q, terminate_, task, finished, barrierVars>>

(* Under the mutex: cv_->wait goes to sleep while there is nothing to do,  *)
WorkerSleep(t) ==
    /\ wpc[t] = "lock" /\ q[t] = <<>> /\ ~terminate_[t]
    /\ wpc' = [wpc EXCEPT ![t] = "sleep"]
    /\ UNCHANGED <<mainVars, q, terminate_, task, finished, barrierVars>>

(* and may wake up without having been notified;                           *)
SpuriousWakeup(t) ==
    /\ wpc[t] = "sleep"
    /\ wpc' = [wpc EXCEPT ![t] = "lock"]
    /\ UNCHANGED <<mainVars, q, terminate_, task, finished, barrierVars>>

(* terminate_ is tested before the queue;                                  *)
WorkerBreak(t) ==
    /\ wpc[t] = "lock" /\ terminate_[t]
    /\ wpc' = [wpc EXCEPT ![t] = "exit"]
    /\ UNCHANGED <<mainVars, q, terminate_, task, finished, barrierVars>>

\* Mutant of WorkerTake: the task stays at the front of the queue.
WorkerTake_NoPop(t) ==
    /\ wpc[t] = "lock" /\ q[t] # <<>> /\ ~terminate_[t]
    /\ task' = [task EXCEPT ![t] = Head(q[t])]
    /\ wpc' = [wpc EXCEPT ![t] = "exec"]
    /\ UNCHANGED <<mainVars, q, terminate_, finished, barrierVars>>

(* otherwise the worker takes the first task.                              *)
WorkerTake(t) ==
    /\ wpc[t] = "lock" /\ q[t] # <<>> /\ ~terminate_[t]
    /\ task' = [task EXCEPT ![t] = Head(q[t])]
    /\ q' = [q EXCEPT ![t] = Tail(@)]
    /\ wpc' = [wpc EXCEPT ![t] = "exec"]
    /\ UNCHANGED <<mainVars, terminate_, finished, barrierVars>>

(* t->execute() returns.                                                   *)
WorkerExecute(t) ==
    /\ wpc[t] = "exec"
    /\ finished' = [finished EXCEPT ![t] = @ + 1]
    /\ wpc' = [wpc EXCEPT ![t] = "top"]
    /\ UNCHANGED <<mainVars, q, terminate_, task, barrierVars>>

WorkerProgress(t) ==
    \/ WorkerTop(t) \/ WorkerLetThrough(t) \/ WorkerSleep(t) \/ WorkerBreak(t)
    \/ WorkerTake(t) \/ WorkerExecute(t)

Next == MainStep \/ (\E t \in Threads : WorkerProgress(t) \/ SpuriousWakeup(t))

Spec == Init /\ [][Next]_rvars

(* The scheduler runs every thread that can run; the program need not make *)
(* another call or shut down, and spurious wakeups need not happen.        *)
MainInCall ==
    \/ StartWorker \/ SetupDone \/ AddTask \/ AddTaskNotify \/ SkipWorker
    \/ MainArrive \/ MainReturn \/ Stop \/ StopNotify \/ Join
FairSpec ==
    /\ Spec
    /\ WF_rvars(MainInCall)
    /\ \A t \in Threads : WF_rvars(WorkerProgress(t))
-----------------------------------------------------------------------------
TypeOK ==
    /\ mpc \in {"setup", "idle", "add", "notify", "barrier", "stop",
                "stopNotify", "join", "done"}
    /\ mt \in 0 .. NumThreads
    /\ op \in 0 .. MaxOps
    /\ targets \subseteq Threads
    /\ wpc \in [Threads -> {"unborn", "top", "barrier", "lock", "sleep",
                            "exec", "exit"}]
    /\ q \in [Threads -> Seq(1 .. MaxOps)]
    /\ terminate_ \in [Threads -> BOOLEAN]
    /\ task \in [Threads -> 0 .. MaxOps]
    /\ finished \in [Threads -> Nat]
    /\ phase \in Nat
    /\ arrived \subseteq Participants
    /\ token \in [Participants -> Int]

(* What makes the engine correct, inductively.                             *)

AtBarrier(p) == IF p = Main THEN mpc = "barrier" ELSE wpc[p] = "barrier"

(* Whoever has arrived is waiting for the current phase; whoever is at the *)
(* barrier without having arrived in it is being let through.              *)
BarrierInv ==
    /\ arrived # Participants
    /\ \A p \in Participants :
         /\ p \in arrived => AtBarrier(p) /\ token[p] = phase
         /\ AtBarrier(p) /\ p \notin arrived => token[p] = phase - 1

(* The barrier's phase tells how far the main thread is: call number op    *)
(* runs during phase op.                                                   *)
MainInv ==
    /\ mpc = "setup" => phase = 0 /\ op = 0
    /\ mpc \in {"add", "notify"} => phase = op /\ op >= 1
    /\ mpc = "barrier" => phase = (IF Main \in arrived THEN op ELSE op + 1)
    /\ mpc \in {"idle", "stop", "stopNotify", "join", "done"} => phase = op + 1
    /\ mpc \in {"notify", "stopNotify", "join"} => mt \in Threads

(* A worker between the barrier and its task: it has run the tasks of all  *)
(* earlier phases and may have this phase's task in its queue.             *)
Waiting(t) ==
    /\ phase >= 1 /\ finished[t] = phase - 1
    /\ q[t] = <<>> \/ (q[t] = <<op>> /\ op = phase)

(* A worker that has run the task of this phase.                           *)
RoundDone(t) == phase = op /\ finished[t] = op /\ q[t] = <<>>

WorkerInv(t) ==
    /\ mpc = "setup" /\ t >= mt => wpc[t] = "unborn"
    /\ wpc[t] = "unborn" => mpc = "setup" /\ t >= mt /\ RoundDone(t)
    /\ wpc[t] = "top" => RoundDone(t)
    /\ wpc[t] = "barrier" => IF t \in arrived THEN RoundDone(t) ELSE Waiting(t)
    /\ wpc[t] \in {"lock", "sleep"} => Waiting(t)
    /\ wpc[t] = "exec" => /\ phase = op /\ op >= 1 /\ task[t] = op
                          /\ finished[t] = op - 1 /\ q[t] = <<>>
    /\ wpc[t] = "exit" => terminate_[t] /\ Waiting(t) /\ q[t] = <<>>
    /\ terminate_[t] => mpc \in {"stop", "stopNotify", "join", "done"}

(* Workers the loop of addTask has not reached yet are without a task.     *)
NotReached(t) ==
    /\ wpc[t] \in {"barrier", "lock", "sleep"}
    /\ q[t] = <<>> /\ finished[t] = op - 1
AddInv ==
    \A t \in Threads :
        (mpc = "add" /\ t >= mt) \/ (mpc = "notify" /\ t > mt) => NotReached(t)

(* The inductive invariant of the engine.                                  *)
EngineInv ==
    /\ TypeOK /\ BarrierInv /\ MainInv /\ AddInv
    /\ \A t \in Threads : WorkerInv(t)

(* When an engine call has returned, every worker has executed its task of *)
(* that call and of every call before it, and holds no other: the program  *)
(* may read the result, and the closures the tasks captured by reference   *)
(* may go out of scope.                                                    *)
CallFinished ==
    mpc \in {"idle", "stop", "stopNotify", "join", "done"} =>
        \A t \in Threads : finished[t] = op /\ q[t] = <<>> /\ wpc[t] # "exec"

(* Workers never run ahead: two workers that execute at the same time work *)
(* on the same operation, the one the main thread is waiting for.          *)
Lockstep == \A t \in Threads : wpc[t] = "exec" => task[t] = op

(* The test of terminate_ at the top of Worker::run is not under the       *)
(* mutex, but no worker is there once stop() has been called: nobody leaves *)
(* the loop before the barrier and leaves the others waiting for it, and no *)
(* queued task is dropped by the exit.                                     *)
TerminateNotRaced ==
    \A t \in Threads : terminate_[t] => wpc[t] \notin {"top", "exec"} /\ q[t] = <<>>

(* Every engine call that has a task for each worker returns ...           *)
CallsReturn == (mpc = "add" /\ targets = Threads) ~> (mpc = "idle")

(* ... and the destructor joins every worker.                              *)
DestructorReturns == (mpc = "stop") ~> (mpc = "done")

(* The engine implements the fork-join contract.                           *)
FJ == INSTANCE ForkJoin WITH
        inCall <- mpc \in {"add", "notify", "barrier"} /\ op > 0,
        doneBy <- {t \in Threads : finished[t] = op}
ImplementsForkJoin == FJ!Spec

(* The comment in evaluate_oprf, "Skip threads that have no work (possible  *)
(* when |input| < num_threads)": such a call, too, returns.                *)
OprfReturns == (mpc = "add" /\ targets # Threads) ~> (mpc = "idle")
=============================================================================
