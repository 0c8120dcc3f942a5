--------------------------- MODULE RuntimeProofs ---------------------------
(***************************************************************************)
(* The engine's fork-join discipline, for every number of workers, every   *)
(* number of calls and every length of an OPRF input.                      *)
(***************************************************************************)
EXTENDS Runtime, TLAPS

(* Main is not one of the workers.                                         *)
LEMMA MainFacts ==
    /\ NumThreads \in Nat /\ NumThreads >= 1
    /\ Main \notin Threads /\ Main \in Participants
    /\ \A t \in Threads : t \in Participants /\ t # Main /\ t \in Int
BY NumThreadsAssumption DEF Main, Threads, Participants

(* Initially only the main thread exists.                                  *)
LEMMA EngineInvInit == Init => EngineInv
<1> SUFFICES ASSUME Init PROVE EngineInv
  OBVIOUS
<1>1. TypeOK
  BY MainFacts, MaxOpsAssumption DEF Init, TypeOK
<1>2. BarrierInv
  BY MainFacts DEF Init, BarrierInv, AtBarrier
<1>3. MainInv /\ AddInv
  BY DEF Init, MainInv, AddInv
<1>4. \A t \in Threads : WorkerInv(t)
  BY DEF Init, WorkerInv, RoundDone, Threads
<1>5. QED
  BY <1>1, <1>2, <1>3, <1>4 DEF EngineInv

(* An arrival keeps the barrier's book-keeping: p was not at the barrier   *)
(* and is now.                                                             *)
LEMMA ArrivePreserves ==
    ASSUME BarrierInv, TypeOK, NEW p \in Participants, ~AtBarrier(p), Arrive(p),
           AtBarrier(p)',
           \A r \in Participants \ {p} : AtBarrier(r)' = AtBarrier(r)
    PROVE  /\ BarrierInv'
           /\ phase' \in Nat /\ arrived' \subseteq Participants
           /\ token' \in [Participants -> Int]
           /\ \/ phase' = phase /\ arrived' = arrived \cup {p}
              \/ /\ phase' = phase + 1 /\ arrived' = {}
                 /\ \A r \in Participants \ {p} : r \in arrived /\ AtBarrier(r)
<1>1. phase \in Nat /\ arrived \subseteq Participants /\ token \in [Participants -> Int]
  BY DEF TypeOK
<1>2. p \notin arrived
  BY DEF BarrierInv
<1>3. CASE arrived \cup {p} = Participants
  <2>1. phase' = phase + 1 /\ arrived' = {} /\ token' = [token EXCEPT ![p] = phase]
    BY <1>3 DEF Arrive
  <2>2. \A r \in Participants \ {p} : r \in arrived /\ AtBarrier(r) /\ token[r] = phase
    BY <1>3 DEF BarrierInv
  <2>3. \A r \in Participants : token'[r] = phase' - 1
    BY <1>1, <2>1, <2>2
  <2>4. BarrierInv'
    BY <2>1, <2>3, MainFacts DEF BarrierInv
  <2>5. QED
    BY <1>1, <2>1, <2>2, <2>4
<1>4. CASE arrived \cup {p} # Participants
  <2>1. /\ phase' = phase /\ arrived' = arrived \cup {p}
        /\ token' = [token EXCEPT ![p] = phase]
    BY <1>4 DEF Arrive
  <2>2. \A r \in Participants :
            /\ r \in arrived' => AtBarrier(r)' /\ token'[r] = phase'
            /\ AtBarrier(r)' /\ r \notin arrived' => token'[r] = phase' - 1
    BY <1>1, <2>1 DEF BarrierInv
  <2>3. BarrierInv'
    BY <1>4, <2>1, <2>2 DEF BarrierInv
  <2>4. QED
    BY <1>1, <2>1, <2>3
<1>5. QED
  BY <1>3, <1>4

(* The main thread's steps preserve the invariant.                         *)
LEMMA StartWorkerPreserves ==
    ASSUME EngineInv, StartWorker
    PROVE  EngineInv'
<1> USE DEF StartWorker, barrierVars
<1>0. mt \in Threads /\ wpc[mt] = "unborn" /\ mt + 1 \in 0 .. NumThreads
  BY MainFacts DEF EngineInv, StartWorker, TypeOK, WorkerInv, Threads
<1>1. TypeOK'
  BY <1>0, MainFacts DEF EngineInv, TypeOK
<1>2. BarrierInv'
  BY <1>0, MainFacts DEF EngineInv, BarrierInv, AtBarrier, TypeOK
<1>3. MainInv'
  BY <1>0, MainFacts DEF EngineInv, MainInv, TypeOK
<1>4. AddInv'
  BY <1>0, MainFacts DEF EngineInv, AddInv, NotReached, TypeOK
<1>5. \A t \in Threads : WorkerInv(t)'
  BY <1>0, MainFacts DEF EngineInv, WorkerInv, Waiting, RoundDone, TypeOK, MainInv
<1>6. QED
  BY <1>1, <1>2, <1>3, <1>4, <1>5 DEF EngineInv

LEMMA SetupDonePreserves ==
    ASSUME EngineInv, SetupDone
    PROVE  EngineInv'
<1> USE DEF SetupDone
<1>1. ~AtBarrier(Main) /\ AtBarrier(Main)' /\ Main \notin arrived
  BY MainFacts DEF EngineInv, BarrierInv, AtBarrier
<1>2. \A r \in Participants \ {Main} : AtBarrier(r)' = AtBarrier(r)
  BY DEF AtBarrier
<1>3. /\ BarrierInv'
      /\ phase' \in Nat /\ arrived' \subseteq Participants
      /\ token' \in [Participants -> Int]
      /\ \/ phase' = phase /\ arrived' = arrived \cup {Main}
         \/ /\ phase' = phase + 1 /\ arrived' = {}
            /\ \A r \in Participants \ {Main} : r \in arrived /\ AtBarrier(r)
  BY <1>1, <1>2, MainFacts, ArrivePreserves DEF EngineInv
<1>4. TypeOK'
  BY <1>3 DEF EngineInv, TypeOK
<1>5. MainInv' /\ AddInv'
  BY <1>3 DEF EngineInv, MainInv, AddInv, TypeOK
<1>6. \A t \in Threads : WorkerInv(t)'
  <2> SUFFICES ASSUME NEW t \in Threads PROVE WorkerInv(t)'
    OBVIOUS
  <2>1. t \in Participants \ {Main} /\ t \in Int /\ t < NumThreads
    BY MainFacts DEF Threads
  <2>2. CASE phase' = phase /\ arrived' = arrived \cup {Main}
    BY <2>1, <2>2 DEF EngineInv, WorkerInv, Waiting, RoundDone, TypeOK
  <2>3. CASE phase' = phase + 1 /\ arrived' = {} /\ t \in arrived /\ AtBarrier(t)
    BY <2>1, <2>3 DEF EngineInv, WorkerInv, Waiting, RoundDone, AtBarrier, TypeOK
  <2>4. QED
    BY <1>3, <2>1, <2>2, <2>3
<1>7. QED
  BY <1>3, <1>4, <1>5, <1>6 DEF EngineInv

LEMMA BeginCallPreserves ==
    ASSUME EngineInv, NEW ws \in SUBSET Threads, BeginCall(ws)
    PROVE  EngineInv'
<1> USE DEF BeginCall, barrierVars
<1>1. TypeOK'
  BY MainFacts, MaxOpsAssumption DEF EngineInv, TypeOK
<1>2. BarrierInv'
  BY MainFacts DEF EngineInv, BarrierInv, AtBarrier, TypeOK
<1>3. MainInv'
  BY MainFacts DEF EngineInv, MainInv, TypeOK
<1>4. AddInv'
  BY MainFacts DEF EngineInv, AddInv, NotReached, TypeOK, MainInv, WorkerInv, Waiting, RoundDone, Threads
<1>5. \A t \in Threads : WorkerInv(t)'
  BY MainFacts DEF EngineInv, WorkerInv, Waiting, RoundDone, TypeOK, MainInv
<1>6. QED
  BY <1>1, <1>2, <1>3, <1>4, <1>5 DEF EngineInv

LEMMA AddTaskPreserves ==
    ASSUME EngineInv, AddTask
    PROVE  EngineInv'
<1> USE DEF AddTask, barrierVars
<1>0. mt \in Threads /\ NotReached(mt) /\ op \in 1 .. MaxOps /\ phase = op
  BY MainFacts, MaxOpsAssumption DEF EngineInv, TypeOK, AddInv, MainInv, Threads
<1>1. TypeOK'
  BY <1>0, MainFacts DEF EngineInv, TypeOK
<1>2. BarrierInv'
  BY <1>0, MainFacts DEF EngineInv, BarrierInv, AtBarrier, TypeOK
<1>3. MainInv'
  BY <1>0, MainFacts DEF EngineInv, MainInv, TypeOK
<1>4. AddInv'
  <2>1. SUFFICES ASSUME NEW t \in Threads, t > mt
                 PROVE  NotReached(t)'
    BY DEF AddInv
  <2>2. t >= mt /\ t # mt /\ mpc = "add"
    BY <1>0, <2>1, MainFacts
  <2>3. NotReached(t)
    BY <2>2 DEF EngineInv, AddInv
  <2>4. QED
    BY <2>2, <2>3 DEF EngineInv, TypeOK, NotReached
<1>5. \A t \in Threads : WorkerInv(t)'
  BY <1>0, MainFacts DEF EngineInv, WorkerInv, Waiting, RoundDone, TypeOK, NotReached
<1>6. QED
  BY <1>1, <1>2, <1>3, <1>4, <1>5 DEF EngineInv

LEMMA AddTaskNotifyPreserves ==
    ASSUME EngineInv, AddTaskNotify
    PROVE  EngineInv'
<1> USE DEF AddTaskNotify, Notify, barrierVars
<1>0. mt \in Threads /\ mt + 1 \in 0 .. NumThreads
  BY MainFacts DEF EngineInv, MainInv, Threads
<1>1. TypeOK'
  BY <1>0, MainFacts DEF EngineInv, TypeOK
<1>2. BarrierInv'
  BY <1>0, MainFacts DEF EngineInv, BarrierInv, AtBarrier, TypeOK
<1>3. MainInv'
  BY <1>0, MainFacts DEF EngineInv, MainInv, TypeOK
<1>4. AddInv'
  BY <1>0, MainFacts DEF EngineInv, AddInv, NotReached, TypeOK, Threads
<1>5. \A t \in Threads : WorkerInv(t)'
  BY <1>0, MainFacts DEF EngineInv, WorkerInv, Waiting, RoundDone, TypeOK
<1>6. QED
  BY <1>1, <1>2, <1>3, <1>4, <1>5 DEF EngineInv

LEMMA SkipWorkerPreserves ==
    ASSUME EngineInv, SkipWorker
    PROVE  EngineInv'
<1> USE DEF SkipWorker, barrierVars
<1>1. TypeOK'
  BY MainFacts DEF EngineInv, TypeOK
<1>2. BarrierInv'
  BY MainFacts DEF EngineInv, BarrierInv, AtBarrier, TypeOK
<1>3. MainInv'
  BY MainFacts DEF EngineInv, MainInv, TypeOK
<1>4. AddInv'
  <2>1. SUFFICES ASSUME NEW t \in Threads, t >= mt + 1
                 PROVE  NotReached(t)'
    BY DEF AddInv
  <2>2. t >= mt /\ mpc = "add"
    BY <2>1, MainFacts DEF EngineInv, TypeOK
  <2>3. QED
    BY <2>2 DEF EngineInv, AddInv, NotReached
<1>5. \A t \in Threads : WorkerInv(t)'
  BY MainFacts DEF EngineInv, WorkerInv, Waiting, RoundDone, TypeOK
<1>6. QED
  BY <1>1, <1>2, <1>3, <1>4, <1>5 DEF EngineInv

LEMMA MainArrivePreserves ==
    ASSUME EngineInv, MainArrive
    PROVE  EngineInv'
<1> USE DEF MainArrive
<1>1. ~AtBarrier(Main) /\ AtBarrier(Main)' /\ Main \notin arrived
  BY MainFacts DEF EngineInv, BarrierInv, AtBarrier
<1>2. \A r \in Participants \ {Main} : AtBarrier(r)' = AtBarrier(r)
  BY DEF AtBarrier
<1>3. /\ BarrierInv'
      /\ phase' \in Nat /\ arrived' \subseteq Participants
      /\ token' \in [Participants -> Int]
      /\ \/ phase' = phase /\ arrived' = arrived \cup {Main}
         \/ /\ phase' = phase + 1 /\ arrived' = {}
            /\ \A r \in Participants \ {Main} : r \in arrived /\ AtBarrier(r)
  BY <1>1, <1>2, MainFacts, ArrivePreserves DEF EngineInv
<1>4. TypeOK'
  BY <1>3 DEF EngineInv, TypeOK
<1>5. MainInv' /\ AddInv'
  BY <1>3 DEF EngineInv, MainInv, AddInv, TypeOK
<1>6. \A t \in Threads : WorkerInv(t)'
  <2> SUFFICES ASSUME NEW t \in Threads PROVE WorkerInv(t)'
    OBVIOUS
  <2>1. t \in Participants \ {Main} /\ t \in Int /\ t < NumThreads
    BY MainFacts DEF Threads
  <2>2. CASE phase' = phase /\ arrived' = arrived \cup {Main}
    BY <2>1, <2>2 DEF EngineInv, WorkerInv, Waiting, RoundDone, TypeOK
  <2>3. CASE phase' = phase + 1 /\ arrived' = {} /\ t \in arrived /\ AtBarrier(t)
    BY <2>1, <2>3 DEF EngineInv, WorkerInv, Waiting, RoundDone, AtBarrier, TypeOK
  <2>4. QED
    BY <1>3, <2>1, <2>2, <2>3
<1>7. QED
  BY <1>3, <1>4, <1>5, <1>6 DEF EngineInv

LEMMA MainReturnPreserves ==
    ASSUME EngineInv, MainReturn
    PROVE  EngineInv'
<1> USE DEF MainReturn, LetThrough, barrierVars
<1>1. TypeOK'
  BY MainFacts DEF EngineInv, TypeOK
<1>2. BarrierInv'
  BY MainFacts DEF EngineInv, BarrierInv, AtBarrier, TypeOK
<1>3. MainInv'
  BY MainFacts DEF EngineInv, MainInv, TypeOK, BarrierInv, AtBarrier
<1>4. AddInv'
  BY MainFacts DEF EngineInv, AddInv, NotReached, TypeOK
<1>5. \A t \in Threads : WorkerInv(t)'
  BY MainFacts DEF EngineInv, WorkerInv, Waiting, RoundDone, TypeOK
<1>6. QED
  BY <1>1, <1>2, <1>3, <1>4, <1>5 DEF EngineInv

LEMMA DestroyPreserves ==
    ASSUME EngineInv, Destroy
    PROVE  EngineInv'
<1> USE DEF Destroy, barrierVars
<1>1. TypeOK'
  BY MainFacts DEF EngineInv, TypeOK
<1>2. BarrierInv'
  BY MainFacts DEF EngineInv, BarrierInv, AtBarrier, TypeOK
<1>3. MainInv'
  BY MainFacts DEF EngineInv, MainInv, TypeOK
<1>4. AddInv'
  BY MainFacts DEF EngineInv, AddInv, NotReached, TypeOK
<1>5. \A t \in Threads : WorkerInv(t)'
  BY MainFacts DEF EngineInv, WorkerInv, Waiting, RoundDone, TypeOK
<1>6. QED
  BY <1>1, <1>2, <1>3, <1>4, <1>5 DEF EngineInv

LEMMA StopPreserves ==
    ASSUME EngineInv, Stop
    PROVE  EngineInv'
<1> USE DEF Stop, barrierVars
<1>1. TypeOK'
  BY MainFacts DEF EngineInv, TypeOK
<1>2. BarrierInv'
  BY MainFacts DEF EngineInv, BarrierInv, AtBarrier, TypeOK
<1>3. MainInv'
  BY MainFacts DEF EngineInv, MainInv, TypeOK, Threads
<1>4. AddInv'
  BY MainFacts DEF EngineInv, AddInv, NotReached, TypeOK
<1>5. \A t \in Threads : WorkerInv(t)'
  BY MainFacts DEF EngineInv, WorkerInv, Waiting, RoundDone, TypeOK, MainInv, Threads
<1>6. QED
  BY <1>1, <1>2, <1>3, <1>4, <1>5 DEF EngineInv

LEMMA StopNotifyPreserves ==
    ASSUME EngineInv, StopNotify
    PROVE  EngineInv'
<1> USE DEF StopNotify, Notify, barrierVars
<1>1. TypeOK'
  BY MainFacts DEF EngineInv, TypeOK
<1>2. BarrierInv'
  BY MainFacts DEF EngineInv, BarrierInv, AtBarrier, TypeOK
<1>3. MainInv'
  BY MainFacts DEF EngineInv, MainInv, TypeOK
<1>4. AddInv'
  BY MainFacts DEF EngineInv, AddInv, NotReached, TypeOK
<1>5. \A t \in Threads : WorkerInv(t)'
  BY MainFacts DEF EngineInv, WorkerInv, Waiting, RoundDone, TypeOK
<1>6. QED
  BY <1>1, <1>2, <1>3, <1>4, <1>5 DEF EngineInv

LEMMA JoinPreserves ==
    ASSUME EngineInv, Join
    PROVE  EngineInv'
<1> USE DEF Join, barrierVars
<1>0. mt \in Threads /\ mt + 1 \in 0 .. NumThreads
  BY MainFacts DEF EngineInv, MainInv, Join, Threads
<1>1. TypeOK'
  BY <1>0, MainFacts DEF EngineInv, TypeOK
<1>2. BarrierInv'
  BY <1>0, MainFacts DEF EngineInv, BarrierInv, AtBarrier, TypeOK
<1>3. MainInv'
  BY <1>0, MainFacts DEF EngineInv, MainInv, TypeOK
<1>4. AddInv'
  BY <1>0, MainFacts DEF EngineInv, AddInv, NotReached, TypeOK
<1>5. \A t \in Threads : WorkerInv(t)'
  BY <1>0, MainFacts DEF EngineInv, WorkerInv, Waiting, RoundDone, TypeOK
<1>6. QED
  BY <1>1, <1>2, <1>3, <1>4, <1>5 DEF EngineInv

(* The workers' steps preserve the invariant.                              *)
LEMMA WorkerTopPreserves ==
    ASSUME EngineInv, NEW w \in Threads, WorkerTop(w)
    PROVE  EngineInv'
<1> USE DEF WorkerTop, mainVars
<1>0. ~terminate_[w]
  BY DEF EngineInv, WorkerInv, RoundDone, MainInv, TypeOK
<1>1. ~AtBarrier(w) /\ AtBarrier(w)' /\ w \notin arrived /\ w \in Participants
  BY <1>0, MainFacts DEF EngineInv, BarrierInv, AtBarrier, TypeOK
<1>2. \A r \in Participants \ {w} : AtBarrier(r)' = AtBarrier(r)
  BY <1>0, MainFacts DEF AtBarrier, EngineInv, TypeOK, Participants
<1>3. /\ BarrierInv'
      /\ phase' \in Nat /\ arrived' \subseteq Participants
      /\ token' \in [Participants -> Int]
      /\ \/ phase' = phase /\ arrived' = arrived \cup {w}
         \/ /\ phase' = phase + 1 /\ arrived' = {}
            /\ \A r \in Participants \ {w} : r \in arrived /\ AtBarrier(r)
  BY <1>0, <1>1, <1>2, ArrivePreserves DEF EngineInv
<1>4. TypeOK'
  BY <1>0, <1>3 DEF EngineInv, TypeOK
<1>5. MainInv'
  BY <1>3, MainFacts DEF EngineInv, MainInv, TypeOK, AtBarrier
<1>6. AddInv'
  BY <1>0, MainFacts DEF EngineInv, AddInv, NotReached, TypeOK
<1>7. \A t \in Threads : WorkerInv(t)'
  <2> SUFFICES ASSUME NEW t \in Threads PROVE WorkerInv(t)'
    OBVIOUS
  <2>1. t \in Participants /\ t # Main
    BY MainFacts
  <2>2. CASE phase' = phase /\ arrived' = arrived \cup {w}
    BY <1>0, <2>1, <2>2 DEF EngineInv, WorkerInv, Waiting, RoundDone, TypeOK
  <2>3. CASE phase' = phase + 1 /\ arrived' = {} /\ (t # w => t \in arrived /\ AtBarrier(t))
    BY <1>0, <2>1, <2>3 DEF EngineInv, WorkerInv, Waiting, RoundDone, AtBarrier, TypeOK
  <2>4. QED
    BY <1>3, <2>1, <2>2, <2>3
<1>8. QED
  BY <1>3, <1>4, <1>5, <1>6, <1>7 DEF EngineInv

LEMMA WorkerLetThroughPreserves ==
    ASSUME EngineInv, NEW w \in Threads, WorkerLetThrough(w)
    PROVE  EngineInv'
<1> USE DEF WorkerLetThrough, LetThrough, mainVars, barrierVars
<1>1. TypeOK'
  BY MainFacts DEF EngineInv, TypeOK
<1>2. BarrierInv'
  BY MainFacts DEF EngineInv, BarrierInv, AtBarrier, TypeOK
<1>3. MainInv'
  BY MainFacts DEF EngineInv, MainInv, TypeOK
<1>4. AddInv'
  BY MainFacts DEF EngineInv, AddInv, NotReached, TypeOK
<1>5. \A t \in Threads : WorkerInv(t)'
  BY MainFacts DEF EngineInv, WorkerInv, Waiting, RoundDone, TypeOK, BarrierInv, AtBarrier
<1>6. QED
  BY <1>1, <1>2, <1>3, <1>4, <1>5 DEF EngineInv

LEMMA WorkerSleepPreserves ==
    ASSUME EngineInv, NEW w \in Threads, WorkerSleep(w)
    PROVE  EngineInv'
<1> USE DEF WorkerSleep, mainVars, barrierVars
<1>1. TypeOK'
  BY MainFacts DEF EngineInv, TypeOK
<1>2. BarrierInv'
  BY MainFacts DEF EngineInv, BarrierInv, AtBarrier, TypeOK
<1>3. MainInv'
  BY MainFacts DEF EngineInv, MainInv, TypeOK
<1>4. AddInv'
  BY MainFacts DEF EngineInv, AddInv, NotReached, TypeOK
<1>5. \A t \in Threads : WorkerInv(t)'
  BY MainFacts DEF EngineInv, WorkerInv, Waiting, RoundDone, TypeOK
<1>6. QED
  BY <1>1, <1>2, <1>3, <1>4, <1>5 DEF EngineInv

LEMMA SpuriousWakeupPreserves ==
    ASSUME EngineInv, NEW w \in Threads, SpuriousWakeup(w)
    PROVE  EngineInv'
<1> USE DEF SpuriousWakeup, mainVars, barrierVars
<1>1. TypeOK'
  BY MainFacts DEF EngineInv, TypeOK
<1>2. BarrierInv'
  BY MainFacts DEF EngineInv, BarrierInv, AtBarrier, TypeOK
<1>3. MainInv'
  BY MainFacts DEF EngineInv, MainInv, TypeOK
<1>4. AddInv'
  BY MainFacts DEF EngineInv, AddInv, NotReached, TypeOK
<1>5. \A t \in Threads : WorkerInv(t)'
  BY MainFacts DEF EngineInv, WorkerInv, Waiting, RoundDone, TypeOK
<1>6. QED
  BY <1>1, <1>2, <1>3, <1>4, <1>5 DEF EngineInv

LEMMA WorkerBreakPreserves ==
    ASSUME EngineInv, NEW w \in Threads, WorkerBreak(w)
    PROVE  EngineInv'
<1> USE DEF WorkerBreak, mainVars, barrierVars
<1>1. TypeOK'
  BY MainFacts DEF EngineInv, TypeOK
<1>2. BarrierInv'
  BY MainFacts DEF EngineInv, BarrierInv, AtBarrier, TypeOK
<1>3. MainInv'
  BY MainFacts DEF EngineInv, MainInv, TypeOK
<1>4. AddInv'
  BY MainFacts DEF EngineInv, AddInv, NotReached, TypeOK, WorkerInv
<1>5. \A t \in Threads : WorkerInv(t)'
  BY MainFacts DEF EngineInv, WorkerInv, Waiting, RoundDone, TypeOK, MainInv
<1>6. QED
  BY <1>1, <1>2, <1>3, <1>4, <1>5 DEF EngineInv

LEMMA WorkerTakePreserves ==
    ASSUME EngineInv, NEW w \in Threads, WorkerTake(w)
    PROVE  EngineInv'
<1> USE DEF WorkerTake, mainVars, barrierVars
<1>0. q[w] = <<op>> /\ op = phase /\ Head(q[w]) = op /\ Tail(q[w]) = <<>> /\ op >= 1
  <2>1. WorkerInv(w) /\ wpc[w] = "lock" /\ q[w] # <<>>
    BY DEF EngineInv
  <2>2. q[w] = <<op>> /\ op = phase /\ phase >= 1
    BY <2>1 DEF WorkerInv, Waiting
  <2>3. op \in 0 .. MaxOps
    BY DEF EngineInv, TypeOK
  <2>4. Head(<<op>>) = op /\ Tail(<<op>>) = <<>>
    BY <2>3
  <2>5. QED
    BY <2>2, <2>4
<1>1. TypeOK'
  BY <1>0, MainFacts DEF EngineInv, TypeOK
<1>2. BarrierInv'
  BY <1>0, MainFacts DEF EngineInv, BarrierInv, AtBarrier, TypeOK
<1>3. MainInv'
  BY <1>0, MainFacts DEF EngineInv, MainInv, TypeOK
<1>4. AddInv'
  BY <1>0, MainFacts DEF EngineInv, AddInv, NotReached, TypeOK
<1>5. \A t \in Threads : WorkerInv(t)'
  BY <1>0, MainFacts DEF EngineInv, WorkerInv, Waiting, RoundDone, TypeOK
<1>6. QED
  BY <1>1, <1>2, <1>3, <1>4, <1>5 DEF EngineInv

LEMMA WorkerExecutePreserves ==
    ASSUME EngineInv, NEW w \in Threads, WorkerExecute(w)
    PROVE  EngineInv'
<1> USE DEF WorkerExecute, mainVars, barrierVars
<1>1. TypeOK'
  BY MainFacts DEF EngineInv, TypeOK
<1>2. BarrierInv'
  BY MainFacts DEF EngineInv, BarrierInv, AtBarrier, TypeOK
<1>3. MainInv'
  BY MainFacts DEF EngineInv, MainInv, TypeOK
<1>4. AddInv'
  BY MainFacts DEF EngineInv, AddInv, NotReached, TypeOK
<1>5. \A t \in Threads : WorkerInv(t)'
  BY MainFacts DEF EngineInv, WorkerInv, Waiting, RoundDone, TypeOK, MainInv
<1>6. QED
  BY <1>1, <1>2, <1>3, <1>4, <1>5 DEF EngineInv

(* The invariant is inductive.                                             *)
LEMMA EngineInvStep == EngineInv /\ [Next]_rvars => EngineInv'
<1> SUFFICES ASSUME EngineInv, [Next]_rvars PROVE EngineInv'
  OBVIOUS
<1>1. ASSUME MainStep PROVE EngineInv'
  <2>1. CASE StartWorker \/ SetupDone
    BY <2>1, StartWorkerPreserves, SetupDonePreserves
  <2>2. CASE CallEngine \/ evaluate_oprf
    BY <2>2, BeginCallPreserves DEF CallEngine, evaluate_oprf, OprfTargets
  <2>3. CASE AddTask \/ AddTaskNotify \/ SkipWorker \/ MainArrive \/ MainReturn
    BY <2>3, AddTaskPreserves, AddTaskNotifyPreserves, SkipWorkerPreserves,
       MainArrivePreserves, MainReturnPreserves
  <2>4. CASE Destroy \/ Stop \/ StopNotify \/ Join
    BY <2>4, DestroyPreserves, StopPreserves, StopNotifyPreserves, JoinPreserves
  <2>5. QED
    BY <1>1, <2>1, <2>2, <2>3, <2>4 DEF MainStep
<1>2. ASSUME NEW w \in Threads, WorkerProgress(w) \/ SpuriousWakeup(w)
      PROVE  EngineInv'
  BY <1>2, WorkerTopPreserves, WorkerLetThroughPreserves, WorkerSleepPreserves,
     WorkerBreakPreserves, WorkerTakePreserves, WorkerExecutePreserves,
     SpuriousWakeupPreserves DEF WorkerProgress
<1>3. CASE UNCHANGED rvars
  BY <1>3 DEF rvars, mainVars, barrierVars, EngineInv, TypeOK, BarrierInv, AtBarrier,
              MainInv, AddInv, NotReached, WorkerInv, Waiting, RoundDone
<1>4. QED
  BY <1>1, <1>2, <1>3 DEF Next

-----------------------------------------------------------------------------
(* Every reachable state of the engine satisfies its inductive invariant.  *)
THEOREM EngineCorrect == Spec => []EngineInv
BY EngineInvInit, EngineInvStep, PTL DEF Spec

(* An engine call returns only after every worker has run its task.        *)
THEOREM CallsFinish == Spec => []CallFinished
<1>1. EngineInv => CallFinished
  BY DEF EngineInv, CallFinished, WorkerInv, Waiting, RoundDone, MainInv, TypeOK
<1>2. QED
  BY <1>1, EngineCorrect, PTL

(* Workers only ever work on the call the main thread is waiting for.      *)
THEOREM WorkersInLockstep == Spec => []Lockstep
<1>1. EngineInv => Lockstep
  BY DEF EngineInv, Lockstep, WorkerInv
<1>2. QED
  BY <1>1, EngineCorrect, PTL

(* The unprotected read of terminate_ never meets the write.               *)
THEOREM TerminationIsClean == Spec => []TerminateNotRaced
<1>1. EngineInv => TerminateNotRaced
  BY DEF EngineInv, TerminateNotRaced, WorkerInv, Waiting, RoundDone, MainInv, TypeOK
<1>2. QED
  BY <1>1, EngineCorrect, PTL

-----------------------------------------------------------------------------
(* What the contract sees of a step: the number of the call, whether the   *)
(* main thread is in it, and who has run its share.                        *)
InCall == mpc \in {"add", "notify", "barrier"} /\ op > 0
DoneBy == {t \in Threads : finished[t] = op}

(* A step that changes none of the three is a stuttering step of ForkJoin. *)
LEMMA HiddenStep ==
    ASSUME op' = op, finished' = finished, InCall' = InCall
    PROVE  UNCHANGED FJ!fvars
BY DEF FJ!fvars, InCall

(* A new call finds every worker done with the previous one.               *)
LEMMA BeginCallRefines ==
    ASSUME EngineInv, NEW ws, BeginCall(ws)
    PROVE  FJ!Call
<1>1. /\ mpc = "idle" /\ op \in Nat /\ op < MaxOps /\ op' = op + 1
      /\ mpc' = "add" /\ finished' = finished
  BY MaxOpsAssumption DEF BeginCall, EngineInv, TypeOK
<1>2. \A t \in Threads : finished[t] = op
  BY <1>1 DEF EngineInv, WorkerInv, Waiting, RoundDone, MainInv, TypeOK
<1>3. {t \in Threads : finished'[t] = op'} = {}
  BY <1>1, <1>2
<1>4. QED
  BY <1>1, <1>3 DEF FJ!Call

(* The main thread leaves the barrier: of a call, with everybody done, or  *)
(* of the set-up, which the contract does not see.                         *)
LEMMA MainReturnRefines ==
    ASSUME EngineInv, EngineInv', MainReturn
    PROVE  FJ!Return \/ UNCHANGED FJ!fvars
<1>1. mpc = "barrier" /\ mpc' = "idle" /\ op' = op /\ finished' = finished /\ op \in Nat
  BY MaxOpsAssumption DEF MainReturn, EngineInv, TypeOK
<1>2. \A t \in Threads : finished'[t] = op'
  BY <1>1 DEF EngineInv, WorkerInv, Waiting, RoundDone, MainInv, TypeOK
<1>3. CASE op = 0
  BY <1>1, <1>3, HiddenStep DEF InCall
<1>4. CASE op > 0
  <2>1. {t \in Threads : finished[t] = op} = Threads
    BY <1>1, <1>2
  <2>2. QED
    BY <1>1, <1>4, <2>1 DEF FJ!Return
<1>5. QED
  BY <1>1, <1>3, <1>4

(* A worker runs its task during the call and for the first time.          *)
LEMMA WorkerExecuteRefines ==
    ASSUME EngineInv, NEW w \in Threads, WorkerExecute(w)
    PROVE  FJ!RunShare(w)
<1>1. /\ wpc[w] = "exec" /\ op' = op /\ mpc' = mpc
      /\ finished \in [Threads -> Nat] /\ finished' = [finished EXCEPT ![w] = finished[w] + 1]
  BY DEF WorkerExecute, mainVars, EngineInv, TypeOK
<1>2. phase = op /\ op >= 1 /\ op \in Nat /\ finished[w] = op - 1
  BY <1>1, MaxOpsAssumption DEF EngineInv, WorkerInv, TypeOK
<1>3. mpc \in {"add", "notify", "barrier"}
  BY <1>2 DEF EngineInv, MainInv, TypeOK
<1>4. w \notin DoneBy /\ DoneBy' = DoneBy \cup {w}
  BY <1>1, <1>2 DEF DoneBy
<1>5. QED
  BY <1>1, <1>2, <1>3, <1>4 DEF FJ!RunShare, DoneBy

(* Every other step of the main thread is hidden.                          *)
LEMMA MainStepRefines ==
    ASSUME EngineInv, EngineInv', MainStep
    PROVE  [FJ!Next]_(FJ!fvars)
<1>1. CASE CallEngine \/ evaluate_oprf
  BY <1>1, BeginCallRefines DEF CallEngine, evaluate_oprf, FJ!Next
<1>2. CASE MainReturn
  BY <1>2, MainReturnRefines DEF FJ!Next
<1>3. CASE StartWorker \/ SetupDone
  <2>1. mpc = "setup" /\ op' = op /\ finished' = finished
    BY <1>3 DEF StartWorker, SetupDone
  <2>2. op = 0
    BY <2>1 DEF EngineInv, MainInv
  <2>3. QED
    BY <2>1, <2>2, HiddenStep DEF InCall
<1>4. CASE AddTask \/ AddTaskNotify \/ SkipWorker \/ MainArrive
  <2>1. op' = op /\ finished' = finished /\ InCall' = InCall
    BY <1>4 DEF AddTask, AddTaskNotify, SkipWorker, MainArrive, InCall
  <2>2. QED
    BY <2>1, HiddenStep
<1>5. CASE Destroy \/ Stop \/ StopNotify \/ Join
  <2>1. op' = op /\ finished' = finished /\ InCall' = InCall
    BY <1>5 DEF Destroy, Stop, StopNotify, Join, InCall
  <2>2. QED
    BY <2>1, HiddenStep
<1>6. QED
  BY <1>1, <1>2, <1>3, <1>4, <1>5 DEF MainStep

(* Of a worker's steps the contract sees only the execution of a task.     *)
LEMMA WorkerStepRefines ==
    ASSUME EngineInv, NEW w \in Threads, WorkerProgress(w) \/ SpuriousWakeup(w)
    PROVE  [FJ!Next]_(FJ!fvars)
<1>1. CASE WorkerExecute(w)
  BY <1>1, WorkerExecuteRefines DEF FJ!Next
<1>2. CASE \/ WorkerTop(w) \/ WorkerLetThrough(w) \/ WorkerSleep(w) \/ WorkerBreak(w)
           \/ WorkerTake(w) \/ SpuriousWakeup(w)
  <2>1. op' = op /\ finished' = finished /\ mpc' = mpc
    BY <1>2 DEF WorkerTop, WorkerLetThrough, WorkerSleep, WorkerBreak, WorkerTake,
                SpuriousWakeup, mainVars
  <2>2. QED
    BY <2>1, HiddenStep DEF InCall
<1>3. QED
  BY <1>1, <1>2 DEF WorkerProgress

(* The engine implements the fork-join contract for any number of workers  *)
(* and calls, OPRF calls that leave workers without a task included: every *)
(* worker runs its share of a call exactly once, between the call and its  *)
(* return, and no two calls overlap.                                       *)
THEOREM EngineIsForkJoin == Spec => ImplementsForkJoin
<1>1. Init => FJ!Init
  BY DEF Init, FJ!Init
<1>2. EngineInv /\ EngineInv' /\ [Next]_rvars => [FJ!Next]_(FJ!fvars)
  <2> SUFFICES ASSUME EngineInv, EngineInv', [Next]_rvars
               PROVE  [FJ!Next]_(FJ!fvars)
    OBVIOUS
  <2>1. CASE UNCHANGED rvars
    BY <2>1, HiddenStep DEF rvars, mainVars, InCall
  <2>2. QED
    BY <2>1, MainStepRefines, WorkerStepRefines DEF Next
<1>3. QED
  BY <1>1, <1>2, EngineCorrect, PTL DEF Spec, ImplementsForkJoin, FJ!Spec
=============================================================================
