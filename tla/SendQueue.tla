------------------------------ MODULE SendQueue ------------------------------
(***************************************************************************)
(* What the communicator's send functions promise their caller, without    *)
(* ring, indices or threads: vectors go out in the order they were sent,   *)
(* each one whole and once, and a call only returns when everything it     *)
(* sent has been handed to the socket.                                     *)
(***************************************************************************)
EXTENDS Integers, Sequences

CONSTANTS Sizes, MaxPushes

VARIABLES
    queue,     \* vectors accepted and not yet completely sent
    offset,    \* how much of the first one has been sent
    pushed,    \* number of vectors accepted
    released,  \* number of vectors whose call has returned
    wire       \* what the socket has been given

qvars == <<queue, offset, pushed, released, wire>>

Init == queue = <<>> /\ offset = 0 /\ pushed = 0 /\ released = 0 /\ wire = <<>>

(* The caller hands over its next vector.                                  *)
Accept(size) ==
    /\ pushed < MaxPushes
    /\ queue' = Append(queue, [buffer |-> pushed, buffer_size |-> size])
    /\ pushed' = pushed + 1
    /\ UNCHANGED <<offset, released, wire>>

(* The socket takes the next unit of the oldest vector.                    *)
Transmit ==
    /\ queue # <<>> /\ offset < Head(queue).buffer_size
    /\ wire' = Append(wire, <<Head(queue).buffer, offset>>)
    /\ offset' = offset + 1
    /\ UNCHANGED <<queue, pushed, released>>

(* The oldest vector has been sent completely.                             *)
Complete ==
    /\ queue # <<>> /\ offset = Head(queue).buffer_size
    /\ queue' = Tail(queue)
    /\ offset' = 0
    /\ UNCHANGED <<pushed, released, wire>>

(* The call returns: everything it sent is out.                            *)
Return ==
    /\ queue = <<>> /\ released < pushed
    /\ released' = pushed
    /\ UNCHANGED <<queue, offset, pushed, wire>>

Next == (\E size \in Sizes : Accept(size)) \/ Transmit \/ Complete \/ Return
Spec == Init /\ [][Next]_qvars
=============================================================================
