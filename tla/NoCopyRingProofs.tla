-------------------------- MODULE NoCopyRingProofs --------------------------
(***************************************************************************)
(* The ring is safe for every ring size, every mix of vector lengths,      *)
(* every number of vectors per call and every number of calls.             *)
(***************************************************************************)
EXTENDS NoCopyRing, ModLemmas

(* The constants, in the form the lemmas on remainders want them.          *)
LEMMA RingFacts == RingSize \in Nat /\ RingSize > 0 /\ RingSize >= 2
BY RingSizeAssumption

(* A remainder is a slot of the ring.                                      *)
LEMMA SlotOf == ASSUME NEW k \in Nat PROVE k % RingSize \in Slots
BY RingFacts, DivMod DEF Slots

(* Counting an index on is counting the number of pushes or pops on.       *)
LEMMA NextIndexOf ==
    ASSUME NEW k \in Nat
    PROVE  nextIndex(k % RingSize) = (k + 1) % RingSize
BY RingFacts, ModStep DEF nextIndex

(* Initially nothing has been pushed.                                      *)
LEMMA RingInvInit == Init => RingInv
<1> SUFFICES ASSUME Init PROVE RingInv
  OBVIOUS
<1> USE DEF Init, Slots, Buffers
<1>1. TypeOK
  <2>1. 0 \in Slots /\ 0 \in 0 .. MaxPushes /\ 0 \in 0 .. MaxPerCall
    BY RingFacts, MaxPushesAssumption, MaxPerCallAssumption
  <2>2. wire \in Seq(Buffers \X Nat)
    OBVIOUS
  <2>3. entry \in Entries \cup {NoEntry} /\ bytes_sent <= entry.buffer_size
    BY DEF NoEntry
  <2>4. ring_array \in [Slots -> Entries \cup {NoEntry}]
    OBVIOUS
  <2>5. pushIndices \in [Buffers -> Slots]
    BY <2>1
  <2>6. writeIndex \in Slots /\ readIndex \in Slots /\ waited \in 0 .. pushed
        /\ released \in 0 .. pushed
    BY <2>1
  <2> HIDE DEF Slots, Buffers
  <2>7. QED
    BY <2>1, <2>2, <2>3, <2>4, <2>5, <2>6 DEF TypeOK
<1>2. 0 % RingSize = 0
  BY RingFacts, ModSmall
<1>3. IndexInv
  BY <1>2, RingFacts DEF IndexInv
<1>4. SlotInv
  BY MaxPushesAssumption DEF SlotInv
<1>5. CallInv /\ SenderInv
  BY MaxPushesAssumption DEF CallInv, SenderInv
<1>6. QED
  BY <1>1, <1>3, <1>4, <1>5 DEF RingInv

(* The worker's steps preserve the invariant.                              *)
LEMMA CallSendPreserves ==
    ASSUME RingInv, NEW n \in 1 .. MaxPerCall, CallSend(n)
    PROVE  RingInv'
<1> USE DEF RingInv, CallSend, senderVars
<1>1. TypeOK'
  BY MaxPerCallAssumption DEF TypeOK
<1>2. IndexInv' /\ SlotInv'
  BY DEF IndexInv, SlotInv
<1>3. CallInv' /\ SenderInv'
  BY MaxPerCallAssumption DEF CallInv, SenderInv, TypeOK
<1>4. QED
  BY <1>1, <1>2, <1>3

LEMMA PushWritePreserves ==
    ASSUME RingInv, NEW size \in Sizes, PushWrite(size)
    PROVE  RingInv'
<1> USE DEF RingInv, PushWrite, senderVars
<1>0. /\ pushed \in Nat /\ popped \in Nat /\ pushed \in Buffers
      /\ writeIndex \in Slots /\ readIndex \in Slots
      /\ [buffer |-> pushed, buffer_size |-> size] \in Entries
  BY MaxPushesAssumption, MaxPerCallAssumption
  DEF TypeOK, CallInv, Buffers, Entries
<1>1. TypeOK'
  BY <1>0 DEF TypeOK
<1>2. pushed - popped < RingSize - 1
  <2>1. SUFFICES ASSUME pushed - popped = RingSize - 1 PROVE FALSE
    BY <1>0, RingFacts DEF IndexInv
  <2>2. nextIndex(writeIndex) = (pushed + 1) % RingSize
    BY <1>0, NextIndexOf DEF IndexInv
  <2>3. (pushed + 1) % RingSize = popped % RingSize
    <3> DEFINE q == popped \div RingSize
               r == popped % RingSize
    <3>1. q \in Int /\ r \in 0 .. RingSize - 1 /\ popped = RingSize * q + r
      BY <1>0, RingFacts, DivMod
    <3> HIDE DEF q, r
    <3>2. (RingSize * (q + 1) + r) % RingSize = r
      BY <3>1, RingFacts, DivModUnique
    <3>3. RingSize * (q + 1) + r = pushed + 1
      BY <3>1, <2>1, <1>0, RingFacts
    <3>4. QED
      BY <3>2, <3>3 DEF r
  <2>4. QED
    BY <2>2, <2>3 DEF isRingFull, IndexInv
<1>3. IndexInv'
  BY <1>2 DEF IndexInv
<1>4. \A k \in Buffers : popped <= k /\ k < pushed => k % RingSize # writeIndex
  <2>1. SUFFICES ASSUME NEW k \in Buffers, popped <= k, k < pushed,
                        k % RingSize = pushed % RingSize
                 PROVE  FALSE
    BY DEF IndexInv
  <2>2. k \in Nat /\ k <= pushed /\ pushed < k + RingSize
    BY <2>1, <1>0, <1>2, RingFacts, MaxPushesAssumption DEF Buffers
  <2>3. k % RingSize = pushed % RingSize
    BY <2>1
  <2>4. k = pushed
    BY <2>2, <2>3, <1>0, RingFacts, ModInjective, Zenon
  <2>5. QED
    BY <2>4, <2>1, <2>2, <1>0
<1>5. SlotInv'
  <2>1. ring_array'[writeIndex'].buffer = pushed'
    BY <1>0 DEF TypeOK
  <2>2. ASSUME NEW k \in Buffers, popped <= k, k < pushed,
               ~(k = popped /\ spc = "advance")
        PROVE  ring_array'[k % RingSize].buffer = k
    <3>1. k % RingSize \in Slots /\ k % RingSize # writeIndex
      BY <2>2, <1>4, SlotOf, MaxPushesAssumption DEF Buffers
    <3>2. QED
      BY <3>1, <2>2 DEF SlotInv, TypeOK
  <2>3. QED
    BY <2>1, <2>2 DEF SlotInv
<1>6. CallInv'
  BY DEF CallInv
<1>7. SenderInv'
  <2>1. spc = "send" => readIndex # writeIndex
    <3>1. SUFFICES ASSUME spc = "send" PROVE readIndex # writeIndex
      OBVIOUS
    <3>2. popped \in Buffers /\ popped < pushed
      BY <3>1, <1>0, MaxPushesAssumption DEF SenderInv, Buffers
    <3>3. QED
      BY <3>2, <1>0, <1>4 DEF IndexInv
  <2>2. QED
    BY <2>1, <1>0 DEF SenderInv, TypeOK
<1>8. QED
  BY <1>1, <1>3, <1>5, <1>6, <1>7

LEMMA PushPublishPreserves ==
    ASSUME RingInv, PushPublish
    PROVE  RingInv'
<1> USE DEF RingInv, PushPublish, senderVars
<1>0. /\ pushed \in Nat /\ popped \in Nat /\ pushed \in Buffers
      /\ toPush \in Nat /\ toPush >= 1 /\ pushed + toPush <= MaxPushes
      /\ nextIndex(writeIndex) = (pushed + 1) % RingSize
  <2>1. /\ pushed \in Nat /\ popped \in Nat /\ pushed \in Buffers
        /\ toPush \in Nat /\ toPush >= 1 /\ pushed + toPush <= MaxPushes
    BY MaxPushesAssumption, MaxPerCallAssumption DEF TypeOK, CallInv, Buffers
  <2>2. QED
    BY <2>1, NextIndexOf DEF IndexInv
<1>1. TypeOK'
  <2>1. (pushed + 1) % RingSize \in Slots
    BY <1>0, SlotOf
  <2>2. pushIndices' \in [Buffers -> Slots]
    BY <1>0 DEF TypeOK
  <2>3. toPush' \in 0 .. MaxPerCall /\ pushed' \in 0 .. MaxPushes
    BY <1>0, MaxPerCallAssumption, MaxPushesAssumption DEF TypeOK
  <2>4. waited' \in 0 .. pushed' /\ released' \in 0 .. pushed'
    BY <1>0 DEF TypeOK
  <2>5. QED
    BY <2>1, <2>2, <2>3, <2>4, <1>0 DEF TypeOK
<1>2. IndexInv'
  BY <1>0, RingFacts DEF IndexInv
<1>3. SlotInv'
  BY <1>0, MaxPushesAssumption DEF SlotInv, IndexInv, Buffers
<1>4. CallInv'
  <2>1. \A k \in Buffers : k < pushed' => pushIndices'[k] = k % RingSize
    BY <1>0, MaxPushesAssumption DEF CallInv, IndexInv, TypeOK, Buffers
  <2>2. waited <= pushed /\ waited \in Nat
    BY <1>0 DEF TypeOK
  <2>3. QED
    BY <1>0, <2>1, <2>2 DEF CallInv
<1>5. SenderInv'
  BY <1>0 DEF SenderInv
<1>6. QED
  BY <1>1, <1>2, <1>3, <1>4, <1>5

(* The step everything hinges on: wait() returns only for an entry that    *)
(* has been popped, although it compares remainders.                       *)
LEMMA WaitPreserves ==
    ASSUME RingInv, Wait
    PROVE  RingInv'
<1> USE DEF RingInv, Wait, senderVars
<1>0. /\ waited \in Nat /\ popped \in Nat /\ pushed \in Nat /\ waited \in Buffers
      /\ waited < pushed /\ waited <= popped /\ released <= waited /\ released \in Nat
  BY MaxPushesAssumption DEF TypeOK, CallInv, Buffers
<1>1. popped % RingSize = (waited + 1) % RingSize
  <2>1. pushIndices[waited] = waited % RingSize
    BY <1>0 DEF CallInv
  <2>2. QED
    BY <1>0, <2>1, NextIndexOf DEF WaitOver, IndexInv
<1>2. waited + 1 <= popped
  <2>1. SUFFICES ASSUME waited = popped PROVE FALSE
    BY <1>0
  <2>2. waited % RingSize = (waited + 1) % RingSize
    BY <1>1, <2>1
  <2>3. waited + 1 \in Nat /\ waited <= waited + 1 /\ waited + 1 < waited + RingSize
    BY <1>0, RingFacts
  <2>4. waited = waited + 1
    BY <2>2, <2>3, <1>0, RingFacts, ModInjective, Zenon
  <2>5. QED
    BY <2>4, <1>0
<1>3. TypeOK'
  BY <1>0 DEF TypeOK
<1>4. IndexInv' /\ SlotInv'
  BY DEF IndexInv, SlotInv
<1>5. CallInv'
  BY <1>0, <1>2 DEF CallInv, IndexInv
<1>6. SenderInv'
  BY <1>0, <1>2 DEF SenderInv
<1>7. QED
  BY <1>3, <1>4, <1>5, <1>6

(* The send thread's steps preserve the invariant.                         *)
LEMMA PollPreserves ==
    ASSUME RingInv, Poll
    PROVE  RingInv'
<1> USE DEF RingInv, Poll, workerVars
<1>0. pushed \in Nat /\ popped \in Nat /\ popped < pushed /\ popped \in Buffers
  BY MaxPushesAssumption DEF TypeOK, IndexInv, isRingEmpty, Buffers
<1>1. ring_array[readIndex].buffer = popped
  BY <1>0 DEF SlotInv, IndexInv
<1>2. ring_array[readIndex] \in Entries
  <2>1. ring_array[readIndex] \in Entries \cup {NoEntry}
    BY DEF TypeOK
  <2>2. ring_array[readIndex] # NoEntry
    BY <1>0, <1>1 DEF NoEntry
  <2>3. QED
    BY <2>1, <2>2
<1>3. TypeOK'
  <2>1. entry'.buffer_size \in Nat
    BY <1>2, SizesAssumption DEF Entries
  <2>2. QED
    BY <1>2, <2>1 DEF TypeOK
<1>4. IndexInv' /\ SlotInv' /\ CallInv'
  BY DEF IndexInv, SlotInv, CallInv
<1>5. SenderInv'
  BY <1>0 DEF SenderInv
<1>6. QED
  BY <1>3, <1>4, <1>5

LEMMA SendSomePreserves ==
    ASSUME RingInv, SendSome
    PROVE  RingInv'
<1> USE DEF RingInv, SendSome, workerVars
<1>0. /\ entry \in Entries /\ entry.buffer_size \in Nat
      /\ <<entry.buffer, bytes_sent>> \in Buffers \X Nat
  <2>1. entry # NoEntry
    BY DEF TypeOK, NoEntry
  <2>2. entry \in Entries /\ bytes_sent \in Nat
    BY <2>1 DEF TypeOK
  <2>3. entry.buffer \in Buffers /\ entry.buffer_size \in Nat
    BY <2>2, SizesAssumption DEF Entries
  <2>4. QED
    BY <2>2, <2>3
<1>1. TypeOK'
  <2>1. wire' \in Seq(Buffers \X Nat)
    BY <1>0 DEF TypeOK
  <2>2. bytes_sent' \in Nat /\ bytes_sent' <= entry'.buffer_size
    BY <1>0 DEF TypeOK
  <2>3. QED
    BY <2>1, <2>2 DEF TypeOK
<1>2. IndexInv' /\ SlotInv' /\ CallInv' /\ SenderInv'
  BY DEF IndexInv, SlotInv, CallInv, SenderInv
<1>3. QED
  BY <1>1, <1>2

LEMMA PopClearPreserves ==
    ASSUME RingInv, PopClear
    PROVE  RingInv'
<1> USE DEF RingInv, PopClear, workerVars
<1>0. /\ pushed \in Nat /\ popped \in Nat /\ popped < pushed
      /\ pushed - popped < RingSize /\ readIndex \in Slots
  BY DEF TypeOK, SenderInv, IndexInv
<1>1. TypeOK'
  BY <1>0 DEF TypeOK
<1>2. IndexInv' /\ CallInv' /\ SenderInv'
  BY DEF IndexInv, CallInv, SenderInv
<1>3. SlotInv'
  <2>1. ASSUME NEW k \in Buffers, popped < k, k <= pushed, k < popped + RingSize
        PROVE  k % RingSize # readIndex /\ k % RingSize \in Slots
    <3>1. k \in Nat /\ popped <= k
      BY <2>1, <1>0, MaxPushesAssumption DEF Buffers
    <3>2. ASSUME popped % RingSize = k % RingSize PROVE FALSE
      <4>1. popped = k
        BY <3>1, <3>2, <2>1, <1>0, RingFacts, ModInjective, Zenon
      <4>2. QED
        BY <4>1, <2>1, <3>1, <1>0
    <3>3. QED
      BY <3>1, <3>2, SlotOf DEF IndexInv
  <2>2. ASSUME NEW k \in Buffers, popped < k, k < pushed
        PROVE  ring_array'[k % RingSize].buffer = k
    <3>1. k % RingSize # readIndex /\ k % RingSize \in Slots
      BY <2>1, <2>2, <1>0, RingFacts, MaxPushesAssumption DEF Buffers
    <3>2. QED
      BY <3>1, <2>2, <1>0, MaxPushesAssumption DEF SlotInv, TypeOK, Buffers
  <2>3. ASSUME wpc = "publish" PROVE ring_array'[writeIndex].buffer = pushed
    <3>1. pushed \in Buffers /\ pushed < popped + RingSize
      BY <2>3, <1>0, RingFacts, MaxPushesAssumption, MaxPerCallAssumption
      DEF CallInv, Buffers, TypeOK
    <3>2. writeIndex # readIndex /\ writeIndex \in Slots
      BY <3>1, <2>1, <1>0 DEF IndexInv
    <3>3. QED
      BY <3>2, <2>3 DEF SlotInv, TypeOK
  <2>4. QED
    BY <2>2, <2>3, <1>0, MaxPushesAssumption DEF SlotInv, Buffers
<1>4. QED
  BY <1>1, <1>2, <1>3

LEMMA PopAdvancePreserves ==
    ASSUME RingInv, PopAdvance
    PROVE  RingInv'
<1> USE DEF RingInv, PopAdvance, workerVars
<1>0. /\ pushed \in Nat /\ popped \in Nat /\ popped < pushed /\ pushed <= MaxPushes
      /\ nextIndex(readIndex) = (popped + 1) % RingSize
      /\ (popped + 1) % RingSize \in Slots
  <2>1. pushed \in Nat /\ popped \in Nat /\ popped < pushed /\ pushed <= MaxPushes
    BY MaxPushesAssumption DEF TypeOK, SenderInv
  <2>2. QED
    BY <2>1, NextIndexOf, SlotOf DEF IndexInv
<1>1. TypeOK'
  BY <1>0, MaxPushesAssumption DEF TypeOK
<1>2. IndexInv'
  BY <1>0, RingFacts DEF IndexInv
<1>3. SlotInv'
  BY <1>0, MaxPushesAssumption DEF SlotInv, Buffers
<1>4. CallInv' /\ SenderInv'
  BY <1>0 DEF CallInv, SenderInv, TypeOK
<1>5. QED
  BY <1>1, <1>2, <1>3, <1>4

LEMMA SenderExitPreserves ==
    ASSUME RingInv, SenderExit
    PROVE  RingInv'
BY DEF RingInv, SenderExit, workerVars, TypeOK, IndexInv, SlotInv, CallInv, SenderInv

LEMMA TerminatePreserves ==
    ASSUME RingInv, Terminate
    PROVE  RingInv'
BY DEF RingInv, Terminate, workerVars, senderVars, TypeOK, IndexInv, SlotInv,
       CallInv, SenderInv

(* The invariant is inductive.                                             *)
LEMMA RingInvStep == RingInv /\ [Next]_vars => RingInv'
<1> SUFFICES ASSUME RingInv, [Next]_vars PROVE RingInv'
  OBVIOUS
<1>1. CASE Worker
  BY <1>1, CallSendPreserves, PushWritePreserves, PushPublishPreserves,
     WaitPreserves DEF Worker
<1>2. CASE Sender
  BY <1>2, PollPreserves, SendSomePreserves, PopClearPreserves,
     PopAdvancePreserves, SenderExitPreserves DEF Sender
<1>3. CASE Terminate
  BY <1>3, TerminatePreserves
<1>4. CASE UNCHANGED vars
  BY <1>4 DEF vars, workerVars, senderVars, RingInv, TypeOK, IndexInv, SlotInv,
             CallInv, SenderInv
<1>5. QED
  BY <1>1, <1>2, <1>3, <1>4 DEF Next

-----------------------------------------------------------------------------
(* Every reachable state of the ring satisfies its inductive invariant;    *)
(* in particular it is well typed and the ring is never overrun.           *)
THEOREM RingCorrect == Spec => []RingInv
BY RingInvInit, RingInvStep, PTL DEF Spec

(* The send thread never reads a vector whose call has returned: wait()    *)
(* does what push()'s contract asks for, whatever the ring's size.         *)
THEOREM BuffersOutliveSends == Spec => []NoReadAfterRelease
<1>1. RingInv => NoReadAfterRelease
  <2> SUFFICES ASSUME RingInv, spc = "send" PROVE entry.buffer >= released
    BY DEF NoReadAfterRelease
  <2>1. popped \in Buffers /\ popped < pushed /\ released <= popped
    BY MaxPushesAssumption DEF RingInv, TypeOK, SenderInv, CallInv, Buffers
  <2>2. entry.buffer = popped
    BY <2>1 DEF RingInv, SenderInv, SlotInv, IndexInv, TypeOK
  <2>3. QED
    BY <2>1, <2>2 DEF RingInv, TypeOK, Buffers
<1>2. QED
  BY <1>1, RingCorrect, PTL

(* Worker and send thread never work on the same slot.                     *)
THEOREM SlotsNeverShared == Spec => []SlotsOwned
<1>1. RingInv => SlotsOwned
  <2> SUFFICES ASSUME RingInv PROVE SlotsOwned
    OBVIOUS
  <2>1. spc = "send" => ring_array[readIndex] = entry
    BY DEF RingInv, SenderInv
  <2>2. ASSUME wpc = "publish", spc \in {"send", "advance"}, writeIndex = readIndex
        PROVE  FALSE
    <3>1. /\ popped \in Nat /\ pushed \in Nat /\ popped <= pushed
          /\ popped < pushed /\ pushed < popped + RingSize
      BY <2>2, RingFacts DEF RingInv, TypeOK, SenderInv, IndexInv
    <3>2. popped % RingSize = pushed % RingSize
      BY <2>2 DEF RingInv, IndexInv
    <3>3. popped = pushed
      BY <3>1, <3>2, RingFacts, ModInjective, Zenon
    <3>4. QED
      BY <3>1, <3>3
  <2>3. QED
    BY <2>1, <2>2 DEF SlotsOwned
<1>2. QED
  BY <1>1, RingCorrect, PTL

(* When the send thread has returned, every vector has been sent.          *)
THEOREM ExitLeavesNothing == Spec => []NothingLeftBehind
<1>1. RingInv => NothingLeftBehind
  BY DEF RingInv, TypeOK, IndexInv, CallInv, SenderInv, NothingLeftBehind, isRingEmpty
<1>2. QED
  BY <1>1, RingCorrect, PTL

-----------------------------------------------------------------------------
(* The queue the ring stands for.  Its first entry is the one after those  *)
(* that have been taken out: popped, or just cleared by pop().             *)
Taken == IF spc = "advance" THEN popped + 1 ELSE popped
Offset == IF spc = "send" THEN bytes_sent ELSE 0

(* The queue in terms of the numbers of pushes and pops, without indices.  *)
QueueIs ==
    /\ Taken \in Nat /\ pushed \in Nat /\ Taken <= pushed /\ pushed < Taken + RingSize
    /\ queue = [i \in 1 .. pushed - Taken |-> ring_array[(Taken + i - 1) % RingSize]]
    /\ queue \in Seq(Entries \cup {NoEntry}) /\ Len(queue) = pushed - Taken
    /\ \A i \in 1 .. Len(queue) : queue[i] = ring_array[(Taken + i - 1) % RingSize]

LEMMA QueueOf == RingInv => QueueIs
<1> SUFFICES ASSUME RingInv PROVE QueueIs
  OBVIOUS
<1> DEFINE first == IF spc = "advance" THEN nextIndex(readIndex) ELSE readIndex
<1>1. /\ Taken \in Nat /\ pushed \in Nat /\ popped \in Nat
      /\ Taken <= pushed /\ pushed < Taken + RingSize
  BY RingFacts DEF RingInv, TypeOK, IndexInv, SenderInv, Taken
<1>2. first = Taken % RingSize
  BY <1>1, NextIndexOf DEF RingInv, IndexInv, Taken
<1>3. (writeIndex - first) % RingSize = pushed - Taken
  BY <1>1, <1>2, RingFacts, ModDistance DEF RingInv, IndexInv
<1>4. \A i \in 1 .. pushed - Taken : (first + i - 1) % RingSize = (Taken + i - 1) % RingSize
  <2> TAKE i \in 1 .. pushed - Taken
  <2>1. i - 1 \in Nat /\ first \in Nat
    BY <1>1, <1>2, SlotOf DEF Slots
  <2>2. ((Taken % RingSize) + (i - 1)) % RingSize = (Taken + (i - 1)) % RingSize
    BY <2>1, <1>1, RingFacts, ModAdd
  <2>3. first + i - 1 = (Taken % RingSize) + (i - 1) /\ Taken + i - 1 = Taken + (i - 1)
    BY <2>1, <1>1, <1>2
  <2>4. QED
    BY <2>2, <2>3
<1>5. queue = [i \in 1 .. pushed - Taken |-> ring_array[(Taken + i - 1) % RingSize]]
  BY <1>1, <1>3, <1>4 DEF queue
<1>6. \A i \in 1 .. pushed - Taken : ring_array[(Taken + i - 1) % RingSize] \in Entries \cup {NoEntry}
  <2> TAKE i \in 1 .. pushed - Taken
  <2>1. Taken + i - 1 \in Nat
    BY <1>1
  <2>2. (Taken + i - 1) % RingSize \in Slots
    BY <2>1, SlotOf
  <2>3. QED
    BY <2>2 DEF RingInv, TypeOK
<1>7. pushed - Taken \in Nat
  BY <1>1
<1>8. QED
  BY <1>1, <1>5, <1>6, <1>7 DEF QueueIs

(* The same about the state after a step.                                  *)
LEMMA QueueOfNext == RingInv' => QueueIs'
BY QueueOf, PTL

(* While the send thread is inside send_wrapper, its entry is the first.   *)
LEMMA EntryIsFirst ==
    ASSUME RingInv, spc = "send"
    PROVE  queue # <<>> /\ Head(queue) = entry
<1>1. Taken = popped /\ popped < pushed /\ entry = ring_array[readIndex]
  BY DEF RingInv, SenderInv, Taken
<1>2. Len(queue) >= 1 /\ queue[1] = ring_array[(popped + 1 - 1) % RingSize]
  BY <1>1, QueueOf DEF QueueIs
<1>3. popped + 1 - 1 = popped /\ readIndex = popped % RingSize
  BY <1>1, QueueOf DEF RingInv, IndexInv, QueueIs
<1>4. QED
  BY <1>1, <1>2, <1>3, QueueOf DEF QueueIs

(* A step that leaves the entries in the queue alone is hidden.            *)
LEMMA HiddenFromQueue ==
    ASSUME RingInv, RingInv', Taken' = Taken, Offset' = Offset,
           UNCHANGED <<pushed, released, wire>>,
           \A i \in 1 .. pushed - Taken : ring_array'[(Taken + i - 1) % RingSize]
                                        = ring_array[(Taken + i - 1) % RingSize]
    PROVE  UNCHANGED Q!qvars
<1>1. queue' = [i \in 1 .. pushed' - Taken' |-> ring_array'[(Taken' + i - 1) % RingSize]]
  BY QueueOfNext DEF QueueIs
<1>2. queue' = queue
  BY <1>1, QueueOf DEF QueueIs
<1>3. QED
  BY <1>2 DEF Q!qvars, Offset

(* The store to writeIndex is the moment the queue accepts the vector.     *)
LEMMA PushPublishRefines ==
    ASSUME RingInv, RingInv', PushPublish
    PROVE  \E size \in Sizes : Q!Accept(size)
<1> DEFINE e == ring_array[pushed % RingSize]
<1>1. /\ pushed \in Nat /\ pushed' = pushed + 1 /\ pushed < MaxPushes /\ Taken' = Taken
      /\ ring_array' = ring_array
      /\ UNCHANGED <<released, wire, spc, bytes_sent>>
  BY MaxPushesAssumption DEF RingInv, TypeOK, CallInv, PushPublish, senderVars, Taken
<1>2. e \in Entries /\ e.buffer = pushed
  <2>1. e.buffer = pushed /\ e \in Entries \cup {NoEntry}
    BY <1>1, SlotOf DEF RingInv, TypeOK, SlotInv, IndexInv, PushPublish
  <2>2. QED
    BY <2>1, <1>1 DEF NoEntry
<1>3. e.buffer_size \in Sizes /\ e = [buffer |-> pushed, buffer_size |-> e.buffer_size]
  BY <1>2 DEF Entries
<1> HIDE DEF e
<1>4. queue' = Append(queue, e)
  <2>1. /\ queue' \in Seq(Entries \cup {NoEntry}) /\ Len(queue') = pushed + 1 - Taken
        /\ \A i \in 1 .. Len(queue') : queue'[i] = ring_array[(Taken + i - 1) % RingSize]
    BY <1>1, QueueOfNext DEF QueueIs
  <2>2. /\ queue \in Seq(Entries \cup {NoEntry}) /\ Len(queue) = pushed - Taken
        /\ \A i \in 1 .. Len(queue) : queue[i] = ring_array[(Taken + i - 1) % RingSize]
    BY QueueOf DEF QueueIs
  <2>3. Taken \in Nat /\ Taken <= pushed
    BY QueueOf DEF QueueIs
  <2>4. Taken + (pushed + 1 - Taken) - 1 = pushed
    BY <2>3, <1>1
  <2>5. queue'[pushed + 1 - Taken] = e
    BY <2>1, <2>3, <2>4, <1>1 DEF e
  <2>6. QED
    BY <2>1, <2>2, <2>3, <2>5, <1>1, <1>2
<1>5. Q!Accept(e.buffer_size)
  BY <1>1, <1>3, <1>4 DEF Q!Accept
<1>6. QED
  BY <1>3, <1>5

(* Writing the next entry does not touch those in the queue.               *)
LEMMA PushWriteRefines ==
    ASSUME RingInv, RingInv', NEW size \in Sizes, PushWrite(size)
    PROVE  UNCHANGED Q!qvars
<1>1. /\ Taken' = Taken /\ Offset' = Offset /\ UNCHANGED <<pushed, released, wire>>
      /\ ring_array' = [ring_array EXCEPT ![writeIndex] = [buffer |-> pushed, buffer_size |-> size]]
      /\ ring_array \in [Slots -> Entries \cup {NoEntry}] /\ writeIndex = pushed % RingSize
  BY DEF PushWrite, senderVars, Taken, Offset, RingInv, TypeOK, IndexInv
<1>2. ASSUME NEW i \in 1 .. pushed - Taken
      PROVE  (Taken + i - 1) % RingSize \in Slots /\ (Taken + i - 1) % RingSize # writeIndex
  <2> DEFINE k == Taken + i - 1
  <2>0. Taken \in Nat /\ pushed \in Nat /\ Taken <= pushed /\ pushed < Taken + RingSize
    BY QueueOf DEF QueueIs
  <2>1. k \in Nat /\ pushed \in Nat /\ k < pushed /\ pushed < k + RingSize /\ k <= pushed
    BY <2>0, RingFacts
  <2> HIDE DEF k
  <2>2. k % RingSize \in Slots /\ k % RingSize # pushed % RingSize
    BY <2>1, RingFacts, SlotOf, ModInjective
  <2>3. QED
    BY <2>2, <1>1 DEF k
<1>3. \A i \in 1 .. pushed - Taken : ring_array'[(Taken + i - 1) % RingSize]
                                   = ring_array[(Taken + i - 1) % RingSize]
  BY <1>1, <1>2
<1>4. QED
  BY <1>1, <1>3, HiddenFromQueue

(* The last wait() of a call: everything it pushed has left the queue.     *)
LEMMA WaitRefines ==
    ASSUME RingInv, RingInv', Wait
    PROVE  Q!Return \/ UNCHANGED Q!qvars
<1>1. /\ Taken' = Taken /\ Offset' = Offset /\ UNCHANGED <<pushed, wire, ring_array, spc, popped>>
      /\ waited' = waited + 1 /\ waited \in Nat /\ pushed \in Nat /\ released <= waited
      /\ waited < pushed /\ waited <= popped /\ popped <= pushed /\ popped \in Nat /\ released \in Nat
  BY DEF Wait, senderVars, Taken, Offset, RingInv, TypeOK, CallInv, IndexInv
<1>2. CASE waited + 1 = pushed
  <2>1. released' = pushed /\ waited' <= popped'
    BY <1>1, <1>2 DEF Wait, RingInv, CallInv
  <2>2. popped = pushed
    BY <1>1, <1>2, <2>1
  <2>3. Taken = pushed
    BY <2>2, <1>1 DEF Taken, RingInv, SenderInv
  <2>4. queue = <<>> /\ queue' = queue
    BY <2>3, <1>1, QueueOf, QueueOfNext DEF QueueIs
  <2>5. QED
    BY <1>1, <2>1, <2>4 DEF Q!Return, Offset
<1>3. CASE waited + 1 # pushed
  <2>1. released' = released
    BY <1>1, <1>3 DEF Wait
  <2>2. QED
    BY <1>1, <2>1, HiddenFromQueue
<1>4. QED
  BY <1>2, <1>3

(* The socket takes a unit of the first vector.                            *)
LEMMA SendSomeRefines ==
    ASSUME RingInv, RingInv', SendSome
    PROVE  Q!Transmit
<1>1. /\ spc = "send" /\ spc' = "send" /\ Taken' = Taken /\ UNCHANGED <<pushed, released, ring_array>>
      /\ bytes_sent < entry.buffer_size /\ bytes_sent' = bytes_sent + 1
      /\ wire' = Append(wire, <<entry.buffer, bytes_sent>>)
  BY DEF SendSome, workerVars, Taken
<1>2. queue # <<>> /\ Head(queue) = entry
  BY <1>1, EntryIsFirst
<1>3. queue' = queue
  <2>1. queue' = [i \in 1 .. pushed' - Taken' |-> ring_array'[(Taken' + i - 1) % RingSize]]
    BY QueueOfNext DEF QueueIs
  <2>2. QED
    BY <2>1, <1>1, QueueOf DEF QueueIs
<1>4. QED
  BY <1>1, <1>2, <1>3 DEF Q!Transmit

(* pop() clears the entry: the first vector is complete and leaves.        *)
LEMMA PopClearRefines ==
    ASSUME RingInv, RingInv', PopClear
    PROVE  Q!Complete
<1>1. /\ spc = "send" /\ spc' = "advance" /\ UNCHANGED <<pushed, popped, released, wire>>
      /\ bytes_sent = entry.buffer_size
      /\ ring_array' = [ring_array EXCEPT ![readIndex] = NoEntry]
      /\ ring_array \in [Slots -> Entries \cup {NoEntry}] /\ readIndex = popped % RingSize
      /\ popped \in Nat /\ pushed \in Nat /\ popped < pushed /\ pushed < popped + RingSize
  BY RingFacts DEF PopClear, workerVars, RingInv, TypeOK, IndexInv, SenderInv
<1>2. queue # <<>> /\ Head(queue) = entry
  BY <1>1, EntryIsFirst
<1>3. Taken = popped /\ Taken' = popped + 1
  BY <1>1 DEF Taken
<1>4. queue' = Tail(queue)
  <2>1. /\ queue' \in Seq(Entries \cup {NoEntry}) /\ Len(queue') = pushed - (popped + 1)
        /\ \A i \in 1 .. Len(queue') : queue'[i] = ring_array'[(popped + 1 + i - 1) % RingSize]
    BY <1>1, <1>3, QueueOfNext DEF QueueIs
  <2>2. /\ queue \in Seq(Entries \cup {NoEntry}) /\ Len(queue) = pushed - popped
        /\ \A i \in 1 .. Len(queue) : queue[i] = ring_array[(popped + i - 1) % RingSize]
    BY <1>1, <1>3, QueueOf DEF QueueIs
  <2>3. ASSUME NEW i \in 1 .. pushed - (popped + 1)
        PROVE  queue'[i] = queue[i + 1]
    <3> DEFINE k == popped + i
    <3>1. /\ k \in Nat /\ popped < k /\ popped <= k /\ k < popped + RingSize
          /\ popped + 1 + i - 1 = k /\ popped + (i + 1) - 1 = k /\ i + 1 \in 1 .. pushed - popped
      BY <1>1, RingFacts
    <3>2. queue'[i] = ring_array'[k % RingSize] /\ queue[i + 1] = ring_array[k % RingSize]
      BY <2>1, <2>2, <3>1
    <3> HIDE DEF k
    <3>3. popped % RingSize = k % RingSize => popped = k
      BY <3>1, <1>1, RingFacts, ModInjective, Zenon
    <3>4. k % RingSize \in Slots /\ k % RingSize # popped % RingSize
      BY <3>1, <3>3, <1>1, SlotOf
    <3>5. QED
      BY <3>2, <3>4, <1>1
  <2>4. QED
    BY <2>1, <2>2, <2>3, <1>1, <1>2
<1>5. QED
  BY <1>1, <1>2, <1>4 DEF Q!Complete

(* Everything else is hidden.                                              *)
LEMMA OtherStepsRefine ==
    ASSUME RingInv, RingInv',
           (\E n \in 1 .. MaxPerCall : CallSend(n)) \/ Poll \/ PopAdvance \/ SenderExit \/ Terminate
    PROVE  UNCHANGED Q!qvars
<1>1. /\ Taken' = Taken /\ UNCHANGED <<pushed, released, wire, ring_array>>
      /\ Offset' = Offset
  BY DEF CallSend, Poll, PopAdvance, SenderExit, Terminate, Taken, Offset, workerVars, senderVars
<1>2. QED
  BY <1>1, HiddenFromQueue

(* The ring implements the queue its callers rely on, for every size of    *)
(* the ring, every set of vector lengths and any number of vectors per     *)
(* call: vectors go out in order, each whole and once, and no call returns *)
(* before everything it pushed is out.                                     *)
THEOREM RingIsQueue == Spec => ImplementsQueue
<1>1. Init => Q!Init
  <2> SUFFICES ASSUME Init PROVE Q!Init
    OBVIOUS
  <2>1. RingInv
    BY RingInvInit
  <2>2. Taken = 0 /\ pushed = 0
    BY DEF Init, Taken
  <2>3. queue = <<>>
    BY <2>1, <2>2, QueueOf DEF QueueIs
  <2>4. QED
    BY <2>3 DEF Init, Q!Init
<1>2. RingInv /\ RingInv' /\ [Next]_vars => [Q!Next]_(Q!qvars)
  <2> SUFFICES ASSUME RingInv, RingInv', [Next]_vars PROVE [Q!Next]_(Q!qvars)
    OBVIOUS
  <2>1. CASE Worker
    BY <2>1, OtherStepsRefine, PushWriteRefines, PushPublishRefines, WaitRefines
    DEF Worker, Q!Next
  <2>2. CASE Sender \/ Terminate
    BY <2>2, OtherStepsRefine, SendSomeRefines, PopClearRefines DEF Sender, Q!Next
  <2>3. CASE UNCHANGED vars
    <3>1. /\ Taken' = Taken /\ UNCHANGED <<pushed, released, wire, ring_array>>
          /\ Offset' = Offset
      BY <2>3 DEF vars, workerVars, senderVars, Taken, Offset
    <3>2. QED
      BY <3>1, HiddenFromQueue
  <2>4. QED
    BY <2>1, <2>2, <2>3 DEF Next
<1>3. QED
  BY <1>1, <1>2, RingCorrect, PTL DEF Spec, ImplementsQueue, Q!Spec
=============================================================================
