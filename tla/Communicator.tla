---------------------------- MODULE Communicator ----------------------------
(***************************************************************************)
(* The parties of a computation talking to each other: in every party,     *)
(* workers that run communicator calls (Program, see CommCalls), send      *)
(* threads that move vectors from the workers' rings to sockets, and the   *)
(* sockets, which hold a bounded number of units (external: TCP).  Worker  *)
(* t of one party only talks to worker t of another; the workers of a      *)
(* party share its send threads.                                           *)
(*                                                                         *)
(* A ring is the queue it implements (SendQueue, NoCopyRing).  A call      *)
(* waits for every vector it pushed and names no party twice, so a ring    *)
(* never holds more than one entry and push() never finds it full.         *)
(*                                                                         *)
(* A behaviour runs one of several scenarios: how many parties there are,  *)
(* with how many workers and send threads each, what they call, how many   *)
(* units a connection holds between send() and recv(), and how many        *)
(* processes may be killed.                                                *)
(***************************************************************************)
EXTENDS Integers, SequencesExt, FiniteSets

CONSTANTS
    Scenarios,  \* for each scenario the numbers of parties, workers, ...
    Programs    \* Programs[name][p][t]: the calls of worker t of party p

ASSUME ScenariosAssumption ==
    \A name \in DOMAIN Scenarios :
        LET s == Scenarios[name]
        IN /\ s.parties \in Nat \ {0, 1} /\ s.workers \in Nat \ {0}
           /\ s.sendThreads \in 1 .. s.workers
           /\ s.capacity \in Nat \ {0} /\ s.crashes \in Nat

-----------------------------------------------------------------------------
(* What the calls of a program have in common (see CommCalls and Rounds).  *)
PushesTo(program, q) ==
    {j \in DOMAIN program : program[j].do = "push" /\ program[j].peer = q}
ReceivesOf(program) == {i \in DOMAIN program : program[i].do = "recv"}
ReceivesFrom(program, q) == {i \in ReceivesOf(program) : program[i].peer = q}
Rank(S, i) == Cardinality({j \in S : j <= i})
IsSequence(s) == Len(s) \in Nat /\ s = [i \in 1 .. Len(s) |-> s[i]]

(* A call names other parties, and waits for what it pushed to a party     *)
(* before anything else is pushed to it.                                   *)
IsProgram(program, p, peers) ==
    /\ IsSequence(program)
    /\ \A i \in DOMAIN program :
         /\ program[i].do \in {"push", "recv", "wait"} /\ program[i].peer \in peers \ {p}
         /\ program[i].do = "recv" => program[i].len \in Nat
         /\ program[i].do = "push" =>
              /\ IsSequence(program[i].vec)
              /\ \E k \in i + 1 .. Len(program) :
                   /\ program[k].do = "wait" /\ program[k].peer = program[i].peer
                   /\ \A l \in i + 1 .. k - 1 : l \notin PushesTo(program, program[i].peer)

(* A protocol receives as many vectors as it sends, of the lengths sent.   *)
Matches(sends, receives) ==
    /\ Cardinality(sends.at) = Cardinality(receives.at)
    /\ \A j \in sends.at, i \in receives.at :
         Rank(sends.at, j) = Rank(receives.at, i) =>
             Len(sends.program[j].vec) = receives.program[i].len

ASSUME ProgramsAssumption ==
    \A name \in DOMAIN Scenarios :
        LET peers == 0 .. Scenarios[name].parties - 1
        IN \A t \in 0 .. Scenarios[name].workers - 1, p \in peers :
             LET program == Programs[name][p][t]
             IN /\ IsProgram(program, p, peers)
                /\ \A q \in peers \ {p} :
                     Matches([program |-> Programs[name][q][t], at |-> PushesTo(Programs[name][q][t], p)],
                             [program |-> program, at |-> ReceivesFrom(program, q)])

-----------------------------------------------------------------------------
VARIABLES
    scenario,  \* the name of the scenario
    pc,        \* pc[p][t]: the primitive worker t is at
    buf,       \* buf[p][t]: what its current receive has read so far
    inbox,     \* inbox[p][t]: the vectors its earlier receives delivered
    ring,      \* ring[p][t][q]: its send ring to q, each entry the units left
    scan,      \* scan[p][s]: the ring send thread s is looking at, or Idle
    wire,      \* wire[p][t][q]: units in the connection from p to q
    status     \* of the process: "running", "exited" or "dead"

workerVars == <<pc, buf, inbox>>
commVars == <<scenario, workerVars, ring, scan, wire, status>>

NumParties == Scenarios[scenario].parties
NumWorkers == Scenarios[scenario].workers
SendThreads == Scenarios[scenario].sendThreads
SocketCapacity == Scenarios[scenario].capacity
MaxCrashes == Scenarios[scenario].crashes
Program(p, t) == Programs[scenario][p][t]

Parties == 0 .. NumParties - 1
Workers == 0 .. NumWorkers - 1
Senders == 0 .. SendThreads - 1

RunningWorker(p, t) == status[p] = "running" /\ pc[p][t] <= Len(Program(p, t))
Instruction(p, t) == Program(p, t)[pc[p][t]]

(* The rings a send thread serves, numbered in the order of its two loops: *)
(* the workers assigned to it round robin, and for each the other parties. *)
RingsIn == [name \in DOMAIN Scenarios |->
    LET c == Scenarios[name]
        peers == c.parties - 1
        served == [s \in 0 .. c.sendThreads - 1 |->
                     (c.workers - s + c.sendThreads - 1) \div c.sendThreads]
    IN [p \in 0 .. peers |-> [s \in DOMAIN served |-> [n \in 0 .. served[s] * peers - 1 |->
          [worker |-> s + c.sendThreads * (n \div peers),
           peer |-> IF n % peers < p THEN n % peers ELSE (n % peers) + 1]]]]]
Rings(p, s) == RingsIn[scenario][p][s]
Idle == -1

Init ==
    /\ scenario \in DOMAIN Scenarios
    /\ pc = [p \in Parties |-> [t \in Workers |-> 1]]
    /\ buf = [p \in Parties |-> [t \in Workers |-> <<>>]]
    /\ inbox = [p \in Parties |-> [t \in Workers |-> <<>>]]
    /\ ring = [p \in Parties |-> [t \in Workers |-> [q \in Parties |-> <<>>]]]
    /\ scan = [p \in Parties |-> [s \in Senders |-> Idle]]
    /\ wire = [p \in Parties |-> [t \in Workers |-> [q \in Parties |-> <<>>]]]
    /\ status = [p \in Parties |-> "running"]

-----------------------------------------------------------------------------
(* A worker's primitives; i is the one it is at.                           *)
Advance(p, t) == pc' = [pc EXCEPT ![p][t] = @ + 1]

DoPush(p, t, i) ==
    /\ i.do = "push"
    /\ ring' = [ring EXCEPT ![p][t][i.peer] = Append(@, i.vec)]
    /\ Advance(p, t)
    /\ UNCHANGED <<scenario, buf, inbox, scan, wire, status>>

(* The receive loop is over: the vector is the caller's.                   *)
Deliver(p, t, vec) ==
    /\ inbox' = [inbox EXCEPT ![p][t] = Append(@, vec)]
    /\ buf' = [buf EXCEPT ![p][t] = <<>>]
    /\ Advance(p, t)

\* Mutant of DoReceive: a short read ends the receive.
DoReceive_Once(p, t, i) ==
    LET in == wire[i.peer][t][p]
    IN /\ i.do = "recv" /\ i.len > 0
       /\ \E n \in 1 .. Len(in) :
            /\ n <= i.len
            /\ wire' = [wire EXCEPT ![i.peer][t][p] = SubSeq(@, n + 1, Len(@))]
            /\ Deliver(p, t, SubSeq(in, 1, n))
       /\ UNCHANGED <<scenario, ring, scan, status>>

(* recv() returns some of what has arrived, at most what is missing.       *)
DoReceive(p, t, i) ==
    LET in == wire[i.peer][t][p]
        missing == i.len - Len(buf[p][t])
    IN /\ i.do = "recv" /\ missing > 0
       /\ \E n \in 1 .. Len(in) :
            /\ n <= missing
            /\ wire' = [wire EXCEPT ![i.peer][t][p] = SubSeq(@, n + 1, Len(@))]
            /\ LET got == buf[p][t] \o SubSeq(in, 1, n)
               IN IF n = missing
                    THEN Deliver(p, t, got)
                    ELSE buf' = [buf EXCEPT ![p][t] = got] /\ UNCHANGED <<inbox, pc>>
       /\ UNCHANGED <<scenario, ring, scan, status>>

(* Receiving an empty vector does not touch the socket.                    *)
DoReceiveNothing(p, t, i) ==
    /\ i.do = "recv" /\ i.len = 0
    /\ Deliver(p, t, <<>>)
    /\ UNCHANGED <<scenario, ring, scan, wire, status>>

(* recv() returns 0 because the peer closed the connection and everything  *)
(* it sent has been read, or -1 because the peer's death reset it: the     *)
(* loop breaks and the call returns as if it had received its vector.      *)
DoReceiveFails(p, t, i) ==
    /\ i.do = "recv" /\ i.len > 0
    /\ \/ status[i.peer] = "dead"
       \/ status[i.peer] = "exited" /\ wire[i.peer][t][p] = <<>>
    /\ wire' = [wire EXCEPT ![i.peer][t][p] = <<>>]
    /\ Deliver(p, t, buf[p][t])
    /\ UNCHANGED <<scenario, ring, scan, status>>

\* Mutant of DoWait: the call does not wait for its own vector.
DoWait_Returns(p, t, i) ==
    /\ i.do = "wait"
    /\ Advance(p, t)
    /\ UNCHANGED <<scenario, buf, inbox, ring, scan, wire, status>>

DoWait(p, t, i) ==
    /\ i.do = "wait"
    /\ ring[p][t][i.peer] = <<>>
    /\ Advance(p, t)
    /\ UNCHANGED <<scenario, buf, inbox, ring, scan, wire, status>>

Do(p, t, i) ==
    \/ DoPush(p, t, i) \/ DoReceive(p, t, i) \/ DoReceiveNothing(p, t, i)
    \/ DoReceiveFails(p, t, i) \/ DoWait(p, t, i)

-----------------------------------------------------------------------------
(* A send thread's endless round over its rings.  While all of them are    *)
(* empty it makes no difference which one it looks at; when that changes,  *)
(* it may come upon any of those that are not.                             *)
EntriesAt(p, s, n) == LET r == Rings(p, s)[n] IN ring[p][r.worker][r.peer]
HasWork(p, s) == \E n \in DOMAIN Rings(p, s) : EntriesAt(p, s, n) # <<>>
Current(p, s) == Rings(p, s)[scan[p][s]]
Entries(p, s) == EntriesAt(p, s, scan[p][s])
Looking(p, s) == scan[p][s] # Idle /\ status[p] = "running"
\* Mutant of NextRing: after the first ring the loop starts again.
NextRing_First(p, s) ==
    scan' = [scan EXCEPT ![p][s] = IF HasWork(p, s)' THEN 0 ELSE Idle]

NextRing(p, s) ==
    scan' = [scan EXCEPT ![p][s] =
               CASE ~HasWork(p, s)' -> Idle
                 [] @ + 1 \in DOMAIN Rings(p, s) -> @ + 1
                 [] OTHER -> 0]

ComeUpon(p, s) ==
    /\ scan[p][s] = Idle /\ status[p] = "running"
    /\ \E n \in DOMAIN Rings(p, s) :
         EntriesAt(p, s, n) # <<>> /\ scan' = [scan EXCEPT ![p][s] = n]
    /\ UNCHANGED <<scenario, workerVars, ring, wire, status>>

(* The ring is empty: look at the next one.                                *)
SkipRing(p, s) ==
    /\ Looking(p, s) /\ Entries(p, s) = <<>>
    /\ UNCHANGED <<scenario, workerVars, ring, wire, status>>
    /\ NextRing(p, s)

(* send_wrapper: send() takes one more unit of the first entry; it blocks  *)
(* while the connection is full.                                           *)
SendUnit(p, s) ==
    LET t == Current(p, s).worker
        q == Current(p, s).peer
        entry == Head(Entries(p, s))
    IN /\ Looking(p, s) /\ Entries(p, s) # <<>> /\ entry # <<>>
       /\ Len(wire[p][t][q]) < SocketCapacity
       /\ wire' = [wire EXCEPT ![p][t][q] = Append(@, Head(entry))]
       /\ ring' = [ring EXCEPT ![p][t][q] = <<Tail(entry)>> \o Tail(@)]
       /\ UNCHANGED <<scenario, workerVars, scan, status>>

(* The entry has been sent: pop it and go on.                              *)
Pop(p, s) ==
    /\ Looking(p, s) /\ Entries(p, s) # <<>> /\ Head(Entries(p, s)) = <<>>
    /\ ring' = [ring EXCEPT ![p][Current(p, s).worker][Current(p, s).peer] = Tail(@)]
    /\ UNCHANGED <<scenario, workerVars, wire, status>>
    /\ NextRing(p, s)

(* send() to a peer that is gone fails; send_wrapper's exception leaves    *)
(* the thread and with it ends the process.                                *)
SendFails(p, s) ==
    /\ Looking(p, s) /\ Entries(p, s) # <<>> /\ Head(Entries(p, s)) # <<>>
    /\ status[Current(p, s).peer] # "running"
    /\ status' = [status EXCEPT ![p] = "dead"]
    /\ UNCHANGED <<scenario, workerVars, ring, scan, wire>>

-----------------------------------------------------------------------------
(* The program is over: the send threads are told to stop, which they do   *)
(* without looking at their rings again, and the sockets are closed.       *)
Exit(p) ==
    /\ status[p] = "running"
    /\ \A t \in Workers : pc[p][t] > Len(Program(p, t))
    /\ status' = [status EXCEPT ![p] = "exited"]
    /\ UNCHANGED <<scenario, workerVars, ring, scan, wire>>

(* A process is killed (external).                                         *)
Crash(p) ==
    /\ status[p] = "running"
    /\ Cardinality({q \in Parties : status[q] = "dead"}) < MaxCrashes
    /\ status' = [status EXCEPT ![p] = "dead"]
    /\ UNCHANGED <<scenario, workerVars, ring, scan, wire>>

(* Nothing is left to happen once every process is gone.                   *)
Over == (\A p \in Parties : status[p] # "running") /\ UNCHANGED commVars

Progress ==
    \E p \in Parties :
        \/ \E t \in Workers : RunningWorker(p, t) /\ Do(p, t, Instruction(p, t))
        \/ \E s \in Senders :
             \/ ComeUpon(p, s) \/ SkipRing(p, s) \/ SendUnit(p, s)
             \/ Pop(p, s) \/ SendFails(p, s)
        \/ Exit(p)

Next == Progress \/ (\E p \in Parties : Crash(p)) \/ Over

Spec == Init /\ [][Next]_commVars

(* Some thread that can run does run; nobody has to crash.                 *)
FairSpec == Spec /\ WF_commVars(Progress)

-----------------------------------------------------------------------------

TypeOK ==
    /\ \A p \in Parties, t \in Workers :
         /\ pc[p][t] \in 1 .. Len(Program(p, t)) + 1
         /\ Len(inbox[p][t]) < pc[p][t]
         /\ \A q \in Parties : Len(wire[p][t][q]) <= SocketCapacity
         /\ \A q \in Parties : Len(ring[p][t][q]) <= 1
    /\ \A p \in Parties, s \in Senders : scan[p][s] \in DOMAIN Rings(p, s) \cup {Idle}
    /\ status \in [Parties -> {"running", "exited", "dead"}]

(* The vector that each receive of worker t of party p is meant for: the   *)
(* k-th receive from q gets the k-th vector q pushes to p.  PlaceIn gives  *)
(* the place of what a receive delivered among all vectors delivered.      *)
MeantIn == [name \in DOMAIN Scenarios |-> [p \in 0 .. Scenarios[name].parties - 1 |->
    [t \in 0 .. Scenarios[name].workers - 1 |->
        LET mine == Programs[name][p][t]
        IN [i \in ReceivesOf(mine) |->
              LET q == mine[i].peer
                  theirs == Programs[name][q][t]
                  push == CHOOSE j \in PushesTo(theirs, p) :
                            Rank(PushesTo(theirs, p), j) = Rank(ReceivesFrom(mine, q), i)
              IN theirs[push].vec]]]]
PlaceIn == [name \in DOMAIN Scenarios |-> [p \in 0 .. Scenarios[name].parties - 1 |->
    [t \in 0 .. Scenarios[name].workers - 1 |->
        [i \in ReceivesOf(Programs[name][p][t]) |-> Rank(ReceivesOf(Programs[name][p][t]), i)]]]]
Meant(p, t) == MeantIn[scenario][p][t]
Received(p, t, i) == inbox[p][t][PlaceIn[scenario][p][t][i]]
HasReceived(p, t) == {i \in DOMAIN Meant(p, t) : i < pc[p][t]}

(* receiveSharesGeneric: "operating in chunks if the entire vector is not  *)
(* read in a single call".  A receive that has returned has read the       *)
(* entire vector.                                                          *)
ReceivedInFull ==
    \A p \in Parties, t \in Workers : \A i \in HasReceived(p, t) :
        Len(Received(p, t, i)) = Program(p, t)[i].len

NobodyDead == \A p \in Parties : status[p] # "dead"

(* Short reads, a shared send thread, full connections and the death of a  *)
(* party never shift the byte stream: whatever a receive has read is the   *)
(* beginning of the vector meant for it, and as long as nobody has died a  *)
(* receive that has returned has read all of it.                           *)
VectorsAligned ==
    /\ \A p \in Parties, t \in Workers :
         /\ \A i \in HasReceived(p, t) : IsPrefix(Received(p, t, i), Meant(p, t)[i])
         /\ RunningWorker(p, t) /\ pc[p][t] \in DOMAIN Meant(p, t) =>
              IsPrefix(buf[p][t], Meant(p, t)[pc[p][t]])
    /\ NobodyDead => ReceivedInFull

(* A process that ends has sent everything, and nobody has anything left   *)
(* to send to it: the send thread's exception is met only after a death.   *)
LeavesInOrder ==
    NobodyDead => \A p \in Parties : status[p] = "exited" =>
        \A t \in Workers, q \in Parties : ring[p][t][q] = <<>> /\ ring[q][t][p] \in {<<>>, <<<<>>>>}

(* Every party comes to an end: the calls never wait for each other in a   *)
(* circle, whatever the sockets hold, and the death of a party is noticed  *)
(* by everyone who waits for it.                                           *)
EverybodyEnds == <>(\A p \in Parties : status[p] # "running")
=============================================================================
