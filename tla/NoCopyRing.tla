----------------------------- MODULE NoCopyRing -----------------------------
(***************************************************************************)
(* The no-copy send ring between one worker thread and the send thread     *)
(* that serves it (core/communication/no_copy_communicator/no_copy_ring.h) *)
(* together with the two callers that give it its meaning: the             *)
(* communicator's send functions (push every vector of the call, then wait *)
(* for each) and the send thread's loop (currentEntry, send, pop) of       *)
(* no_copy_communicator_factory.h.                                         *)
(*                                                                         *)
(* The ring holds POINTERS to the caller's vectors.  A buffer is named by  *)
(* the number of the push that enqueued it, 0, 1, 2, ...; the buffers of a *)
(* communicator call are released when the call returns, after which the   *)
(* caller may free or overwrite them.                                      *)
(*                                                                         *)
(* Every access to writeIndex and readIndex, which are sequentially        *)
(* consistent atomics, is a step of its own.  The plain stores to the two  *)
(* fields of an entry are one step: that the other thread never looks at   *)
(* the slot meanwhile is a property (SlotsOwned), not an assumption.       *)
(***************************************************************************)
EXTENDS Integers, Sequences

CONSTANTS
    RingSize,    \* NOCOPY_COMMUNICATOR_RING_SIZE
    Sizes,       \* possible lengths of a vector, in units one send() takes
    MaxPerCall,  \* how often one call's destination list names this party
    MaxPushes    \* bound: how many vectors the worker sends over its life

ASSUME RingSizeAssumption == RingSize \in Nat /\ RingSize >= 2
ASSUME SizesAssumption == Sizes \subseteq Nat
ASSUME MaxPerCallAssumption == MaxPerCall \in Nat \ {0}
ASSUME MaxPushesAssumption == MaxPushes \in Nat

VARIABLES
    writeIndex,   \* atomic, stored by the worker only
    readIndex,    \* atomic, stored by the send thread only
    ring_array,   \* the slots, each a NoCopyRingEntry
    wpc,          \* worker: "idle", "push", "publish" or "wait"
    toPush,       \* vectors the current call still has to push
    pushIndices,  \* pushIndices[k]: what push() returned for buffer k
    pushed,       \* number of vectors pushed so far
    waited,       \* number of vectors whose wait() has returned
    released,     \* buffers 0 .. released-1 belong to calls that returned
    spc,          \* send thread: "poll", "send", "advance" or "exit"
    entry,        \* the buffer and size send_wrapper was called with
    bytes_sent,   \* progress of send_wrapper
    popped,       \* number of entries popped so far
    wire,         \* what has been handed to the socket: <<buffer, offset>>
    terminated    \* RunTime::terminate_

workerVars == <<wpc, toPush, pushIndices, pushed, waited, released>>
senderVars == <<spc, entry, bytes_sent, popped, wire>>
vars == <<writeIndex, readIndex, ring_array, workerVars, senderVars, terminated>>

Slots == 0 .. RingSize - 1
Buffers == 0 .. MaxPushes - 1
NoEntry == [buffer |-> -1, buffer_size |-> 0]
Entries == [buffer : Buffers, buffer_size : Sizes]

nextIndex(index) == (index + 1) % RingSize
\* Mutant of isRingFull: the writer does not look at the reader.
isRingFull_Never == FALSE

isRingFull == nextIndex(writeIndex) = readIndex
isRingEmpty == writeIndex = readIndex

-----------------------------------------------------------------------------
(* The constructor; both threads are started with the ring empty.          *)
Init ==
    /\ writeIndex = 0 /\ readIndex = 0
    /\ ring_array = [i \in Slots |-> NoEntry]
    /\ wpc = "idle" /\ toPush = 0
    /\ pushIndices = [k \in Buffers |-> 0]
    /\ pushed = 0 /\ waited = 0 /\ released = 0
    /\ spc = "poll" /\ entry = NoEntry /\ bytes_sent = 0
    /\ popped = 0 /\ wire = <<>>
    /\ terminated = FALSE

(* A send or exchange function of the communicator is called; its          *)
(* destination list names this ring's party n times.                       *)
CallSend(n) ==
    /\ wpc = "idle" /\ ~terminated
    /\ pushed + n <= MaxPushes
    /\ wpc' = "push" /\ toPush' = n
    /\ UNCHANGED <<writeIndex, readIndex, ring_array, pushIndices, pushed,
                   waited, released, senderVars, terminated>>

(* push(), up to the stores to the entry: spins while the ring is full.    *)
PushWrite(size) ==
    /\ wpc = "push"
    /\ ~isRingFull
    /\ ring_array' = [ring_array EXCEPT ![writeIndex] =
                        [buffer |-> pushed, buffer_size |-> size]]
    /\ wpc' = "publish"
    /\ UNCHANGED <<writeIndex, readIndex, toPush, pushIndices, pushed, waited,
                   released, senderVars, terminated>>

(* push(), the store to writeIndex that makes the entry visible.           *)
PushPublish ==
    /\ wpc = "publish"
    /\ pushIndices' = [pushIndices EXCEPT ![pushed] = writeIndex]
    /\ writeIndex' = nextIndex(writeIndex)
    /\ pushed' = pushed + 1
    /\ toPush' = toPush - 1
    /\ wpc' = IF toPush = 1 THEN "wait" ELSE "push"
    /\ UNCHANGED <<readIndex, ring_array, waited, released, senderVars, terminated>>

\* Mutant of WaitOver: the reader has reached the entry, not passed it.
WaitOver_AtEntry(index) == readIndex = index
\* Mutant of WaitOver: the comparison forgets that the index wraps around.
WaitOver_NoWrap(index) == readIndex = index + 1

(* The condition on which wait(index) stops spinning.                      *)
WaitOver(index) == readIndex = nextIndex(index)

(* wait() returns for the next vector of the call; after the last one the  *)
(* call returns and its buffers are the caller's again.                    *)
Wait ==
    /\ wpc = "wait"
    /\ WaitOver(pushIndices[waited])
    /\ waited' = waited + 1
    /\ wpc' = IF waited' = pushed THEN "idle" ELSE "wait"
    /\ released' = IF waited' = pushed THEN pushed ELSE released
    /\ UNCHANGED <<writeIndex, readIndex, ring_array, toPush, pushIndices,
                   pushed, senderVars, terminated>>

\* Mutant of Poll: send_wrapper's progress is not reset for the next entry.
Poll_NoReset ==
    /\ spc = "poll" /\ ~terminated
    /\ ~isRingEmpty
    /\ entry' = ring_array[readIndex]
    /\ bytes_sent' = IF bytes_sent <= entry'.buffer_size THEN bytes_sent ELSE 0
    /\ spc' = "send"
    /\ UNCHANGED <<writeIndex, readIndex, ring_array, workerVars, popped, wire,
                   terminated>>

(* The send thread finds the ring non-empty and enters send_wrapper with   *)
(* the current entry's pointer and size.                                   *)
Poll ==
    /\ spc = "poll" /\ ~terminated
    /\ ~isRingEmpty
    /\ entry' = ring_array[readIndex]
    /\ bytes_sent' = 0
    /\ spc' = "send"
    /\ UNCHANGED <<writeIndex, readIndex, ring_array, workerVars, popped, wire,
                   terminated>>

(* One round of send_wrapper's loop: the socket takes the next unit.       *)
SendSome ==
    /\ spc = "send"
    /\ bytes_sent < entry.buffer_size
    /\ wire' = Append(wire, <<entry.buffer, bytes_sent>>)
    /\ bytes_sent' = bytes_sent + 1
    /\ UNCHANGED <<writeIndex, readIndex, ring_array, workerVars, spc, entry,
                   popped, terminated>>

(* send_wrapper has returned; pop() clears the entry ...                   *)
PopClear ==
    /\ spc = "send"
    /\ bytes_sent = entry.buffer_size
    /\ ring_array' = [ring_array EXCEPT ![readIndex] = NoEntry]
    /\ spc' = "advance"
    /\ UNCHANGED <<writeIndex, readIndex, workerVars, entry, bytes_sent, popped,
                   wire, terminated>>

(* ... and then stores readIndex, handing the slot back to the worker.     *)
PopAdvance ==
    /\ spc = "advance"
    /\ readIndex' = nextIndex(readIndex)
    /\ popped' = popped + 1
    /\ spc' = "poll"
    /\ UNCHANGED <<writeIndex, ring_array, workerVars, entry, bytes_sent, wire,
                   terminated>>

(* The send thread sees terminate_ between two polls and returns.          *)
SenderExit ==
    /\ spc = "poll" /\ terminated
    /\ spc' = "exit"
    /\ UNCHANGED <<writeIndex, readIndex, ring_array, workerVars, entry,
                   bytes_sent, popped, wire, terminated>>

(* ~RunTime: the main thread only destroys the runtime when no task, hence *)
(* no communicator call, is in progress (see Runtime).                     *)
Terminate ==
    /\ wpc = "idle" /\ ~terminated
    /\ terminated' = TRUE
    /\ UNCHANGED <<writeIndex, readIndex, ring_array, workerVars, senderVars>>

Worker ==
    \/ \E n \in 1 .. MaxPerCall : CallSend(n)
    \/ \E size \in Sizes : PushWrite(size)
    \/ PushPublish
    \/ Wait
Sender == Poll \/ SendSome \/ PopClear \/ PopAdvance \/ SenderExit
Next == Worker \/ Sender \/ Terminate

Spec == Init /\ [][Next]_vars

(* Both threads keep running; nothing obliges the worker to start another  *)
(* call, so its fairness is about the steps inside a call only.            *)
WorkerInCall == (\E size \in Sizes : PushWrite(size)) \/ PushPublish \/ Wait
FairSpec == Spec /\ WF_vars(WorkerInCall) /\ WF_vars(Sender)

-----------------------------------------------------------------------------
TypeOK ==
    /\ writeIndex \in Slots /\ readIndex \in Slots
    /\ ring_array \in [Slots -> Entries \cup {NoEntry}]
    /\ wpc \in {"idle", "push", "publish", "wait"}
    /\ toPush \in 0 .. MaxPerCall
    /\ pushIndices \in [Buffers -> Slots]
    /\ pushed \in 0 .. MaxPushes
    /\ waited \in 0 .. pushed /\ released \in 0 .. pushed
    /\ spc \in {"poll", "send", "advance", "exit"}
    /\ entry \in Entries \cup {NoEntry}
    /\ bytes_sent \in Nat /\ bytes_sent <= entry.buffer_size
    /\ popped \in 0 .. MaxPushes
    /\ wire \in Seq(Buffers \X Nat)
    /\ terminated \in BOOLEAN

(* What makes the ring correct, inductively.                               *)

(* The indices are the numbers of pushes and pops modulo the ring's size,  *)
(* and the ring is never overrun.                                          *)
IndexInv ==
    /\ writeIndex = pushed % RingSize
    /\ readIndex = popped % RingSize
    /\ popped <= pushed /\ pushed - popped < RingSize
    /\ wpc = "publish" => pushed - popped < RingSize - 1

(* Every buffer pushed and not popped is in its slot, except the one being *)
(* popped right now; so is the one that is about to be published.          *)
SlotInv ==
    /\ \A k \in Buffers :
         popped <= k /\ k < pushed /\ ~(k = popped /\ spc = "advance")
            => ring_array[k % RingSize].buffer = k
    /\ wpc = "publish" => ring_array[writeIndex].buffer = pushed

(* What a call has pushed, waited for and released.                        *)
CallInv ==
    /\ \A k \in Buffers : k < pushed => pushIndices[k] = k % RingSize
    /\ released <= waited /\ waited <= popped
    /\ wpc = "idle" => released = pushed /\ waited = pushed
    /\ wpc = "wait" => waited < pushed
    /\ wpc \in {"push", "publish"} => toPush >= 1 /\ pushed + toPush <= MaxPushes

(* What the send thread is doing, and when it may stop.                    *)
SenderInv ==
    /\ spc \in {"send", "advance"} => popped < pushed
    /\ spc = "send" => entry = ring_array[readIndex]
    /\ spc = "exit" => terminated
    /\ terminated => wpc = "idle"

(* The inductive invariant of the ring.                                    *)
RingInv == TypeOK /\ IndexInv /\ SlotInv /\ CallInv /\ SenderInv

(* push()'s contract: "This function expects vectorData to remain          *)
(* unmodified until it is sent".  While send_wrapper reads a buffer, the   *)
(* call that pushed it has not returned.                                   *)
NoReadAfterRelease == spc = "send" => entry.buffer >= released

(* The two threads never touch the same slot: the entry being written is   *)
(* not the one being sent or cleared, and the one being sent is still the  *)
(* one the send thread looked up (the address check of pop() and the       *)
(* assertion on its size in the send loop).                                *)
SlotsOwned ==
    /\ wpc = "publish" /\ spc \in {"send", "advance"} => writeIndex # readIndex
    /\ spc = "send" => ring_array[readIndex] = entry

(* When the send thread has returned, nothing is left in the ring and no   *)
(* call is waiting for it.                                                 *)
NothingLeftBehind == spc = "exit" => isRingEmpty /\ wpc = "idle"

(* A call that pushes one vector to this party, as every call of the       *)
(* repository does, returns.  (One that names the party twice need not:    *)
(* wait() compares readIndex for equality, and the send thread may pop     *)
(* both entries before the worker looks for the first.)                    *)
CallsReturn ==
    (wpc = "push" /\ toPush = 1 /\ pushed = released) ~> (wpc = "idle")

-----------------------------------------------------------------------------
(* What the ring promises its callers: a queue of vectors (SendQueue).  An *)
(* entry leaves the queue when pop() clears it.                            *)
queue ==
    LET first == IF spc = "advance" THEN nextIndex(readIndex) ELSE readIndex
        len == (writeIndex - first) % RingSize
    IN [i \in 1 .. len |-> ring_array[(first + i - 1) % RingSize]]

Q == INSTANCE SendQueue WITH offset <- IF spc = "send" THEN bytes_sent ELSE 0

(* The ring implements the queue.                                          *)
ImplementsQueue == Q!Spec
=============================================================================
