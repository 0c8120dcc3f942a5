------------------------------ MODULE CommCalls ------------------------------
(***************************************************************************)
(* The functions of NoCopyCommunicator as straight-line code over three    *)
(* primitives, each of which may block: push a vector to the send ring of  *)
(* a party, receive a vector of a given length from the socket of a party, *)
(* wait until the ring of a party has sent what was pushed.  A vector is a *)
(* sequence of units, a unit being the most one recv() may leave behind.   *)
(* Parties are named by relative ids, as in the code.                      *)
(***************************************************************************)
EXTENDS Integers, Sequences

CONSTANT NumParties   \* at least 2

Parties == 0 .. NumParties - 1

(* "Convert relative ID to PartyID".                                       *)
Absolute(p, id) == (NumParties + id + p) % NumParties

Push(p, vec, id) == [do |-> "push", peer |-> Absolute(p, id), vec |-> vec]
Receive(p, len, id) == [do |-> "recv", peer |-> Absolute(p, id), len |-> len]
WaitFor(p, id) == [do |-> "wait", peer |-> Absolute(p, id)]

-----------------------------------------------------------------------------
sendShares(p, vec, id) == <<Push(p, vec, id), WaitFor(p, id)>>

receiveShares(p, len, id) == <<Receive(p, len, id)>>

(* As many units are received as are sent.                                 *)
exchangeShares(p, vec, to_id, from_id) ==
    <<Push(p, vec, to_id), Receive(p, Len(vec), from_id), WaitFor(p, to_id)>>

(* The variants for several parties: ids[i] goes with the i-th vector.     *)
PushAll(p, vecs, ids) == [i \in DOMAIN ids |-> Push(p, vecs[i], ids[i])]
WaitForAll(p, ids) == [i \in DOMAIN ids |-> WaitFor(p, ids[i])]
receiveBroadcast(p, lens, ids) == [i \in DOMAIN ids |-> Receive(p, lens[i], ids[i])]

sendSharesToAll(p, vecs, ids) == PushAll(p, vecs, ids) \o WaitForAll(p, ids)

exchangeSharesWithAll(p, vecs, lens, to_id, from_id) ==
    PushAll(p, vecs, to_id) \o receiveBroadcast(p, lens, from_id)
        \o WaitForAll(p, to_id)
=============================================================================
