------------------------------- MODULE Rounds -------------------------------
(***************************************************************************)
(* Who sends what to whom, and in which order, in the communication rounds *)
(* of the protocols: for each protocol function, the communicator calls of *)
(* party p.  What is computed between the calls is left out; a vector of   *)
(* shares is DataLen units long, a hash one unit.                          *)
(***************************************************************************)
EXTENDS CommCalls, SequencesExt

CONSTANT DataLen   \* at least 1
HashLen == 1

Vec(name, len) == [o \in 1 .. len |-> <<name, o>>]
Data(p, name) == Vec(<<name, p>>, DataLen)
Hash(p, name) == Vec(<<name, "hash", p>>, HashLen)
Silent == <<>>

-----------------------------------------------------------------------------
(* Replicated 3PC.  multiply_a, and_b, open_shares: one exchange.          *)
Multiply3(p) == exchangeShares(p, Data(p, "local"), 2, 1)

Truncate3(p) ==
    CASE p = 0 -> receiveShares(p, DataLen, 1)
      [] p = 1 -> sendShares(p, Data(p, "x0"), -1)
      [] p = 2 -> Silent

RedistributeShares3(p) ==
    CASE p = 0 -> sendShares(p, Data(p, "vec1"), 2)
      [] p = 1 -> receiveShares(p, DataLen, 1)
      [] p = 2 -> exchangeShares(p, Data(p, "vec2_x2"), 2, 1)

SecretShare3(p, data_party, len) ==
    LET Share(name) == Vec(<<name, p>>, len)
    IN IF p = data_party
         THEN sendShares(p, Share("s10"), 1) \o sendShares(p, Share("s11"), 1)
                \o sendShares(p, Share("s20"), 2) \o sendShares(p, Share("s21"), 2)
         ELSE receiveShares(p, len, data_party - p)
                \o receiveShares(p, len, data_party - p)

-----------------------------------------------------------------------------
(* Fantastic 4PC, custom_4pc.h.  multiply_a and and_b: everyone exchanges  *)
(* with two parties, then P0 and P1, P2 and P3 settle the last cross term. *)
CrossTerms4(p) ==
    exchangeSharesWithAll(p, <<Data(p, "cross_10"), Hash(p, "cross_12")>>,
                          <<DataLen, HashLen>>, <<1, 2>>, <<3, 2>>)
LastCrossTerm4(p) ==
    CASE p = 0 -> sendShares(p, Data(p, "cross_02"), 1)
      [] p = 1 -> exchangeSharesWithAll(p, <<Hash(p, "cross_02")>>,
                                        <<HashLen, DataLen>>, <<1>>, <<1, -1>>)
      [] p = 2 -> exchangeSharesWithAll(p, <<Hash(p, "cross_02")>>,
                                        <<HashLen, DataLen>>, <<-1>>, <<-1, 1>>)
      [] p = 3 -> sendShares(p, Data(p, "cross_02"), -1)

Inp4(p, i, j, g) ==
    CASE p = i -> sendShares(p, Data(p, "res1"), 1)
      [] p = j -> sendShares(p, Hash(p, "res2"), 2)
      [] p = g -> receiveBroadcast(p, <<DataLen, HashLen>>, <<3, 2>>)
      [] OTHER -> Silent

(* div_const_a adds the results of two calls; C++ leaves open which one is *)
(* made first.  P0 and P2 run one copy of the expression, P1 and P3        *)
(* another.                                                                *)
DivConst4(p, firstFirst) ==
    IF firstFirst[p % 2] THEN Inp4(p, 3, 2, 0) \o Inp4(p, 1, 0, 2)
                         ELSE Inp4(p, 1, 0, 2) \o Inp4(p, 3, 2, 0)

Reshare4(p, receiver) ==
    LET rel == (receiver - p + 4) % 4
    IN IF rel = 0
         THEN receiveBroadcast(p, <<DataLen, HashLen, DataLen, HashLen, DataLen, HashLen>>,
                               <<-1, -1, -2, -2, -3, -3>>)
         ELSE sendShares(p, Data(p, "share"), rel) \o sendShares(p, Hash(p, "share"), rel)

-----------------------------------------------------------------------------
(* Fantastic 4PC, dalskov_4pc.h: joint message passing.                    *)
who_hashes(a, b) == IF a >= b THEN a ELSE b
who_sends(a, b) == IF a >= b THEN b ELSE a
abs2rel(p, q) == (q - p + 4) % 4

next_party(i, j) ==
    LET a == who_sends(i, j)
        b == who_hashes(i, j)
    IN IF b = (a + 1) % 4 THEN (b + 1) % 4 ELSE (a + 1) % 4

Jmp(p, i, j, r) ==
    CASE p = r -> receiveShares(p, DataLen, abs2rel(p, who_sends(i, j)))
      [] p = who_sends(i, j) -> sendShares(p, Data(p, "x"), abs2rel(p, r))
      [] OTHER -> Silent

(* generic_multiply, over the pairs in the order of its loops.             *)
Pairs4 == <<<<0, 1>>, <<0, 2>>, <<0, 3>>, <<1, 2>>, <<1, 3>>, <<2, 3>>>>
GenericMultiply4(p) ==
    FlattenSeq([k \in 1 .. 6 |->
        Jmp(p, Pairs4[k][1], Pairs4[k][2], next_party(Pairs4[k][1], Pairs4[k][2]))])

OpenShares4(p) ==
    FlattenSeq([k \in 1 .. 4 |->
        Jmp(p, k - 1, k % 4, next_party(k - 1, k % 4))])

(* malicious_check_internal: for every pair and every third party, the     *)
(* hasher sends its hash.                                                  *)
CheckHash4(p, i, j, r) ==
    CASE r \in {i, j} -> Silent
      [] p = who_hashes(i, j) -> sendShares(p, Hash(p, "jmp"), abs2rel(p, r))
      [] p = r -> receiveShares(p, HashLen, abs2rel(p, who_hashes(i, j)))
      [] OTHER -> Silent
MaliciousCheck4(p) ==
    FlattenSeq([k \in 1 .. 24 |->
        LET pair == Pairs4[(k - 1) \div 4 + 1]
        IN CheckHash4(p, pair[1], pair[2], (k - 1) % 4)])

-----------------------------------------------------------------------------
(* SPDZ2k with any number of parties: broadcasts to all others (opening,   *)
(* commitment, revelation, committed seeds).                               *)
Others == [i \in 1 .. NumParties - 1 |-> i]
toPartyIDs == Others
fromPartyIDs == [i \in DOMAIN Others |-> -Others[i]]
ToEach(x) == [i \in DOMAIN Others |-> x]

Broadcast(p, vec) ==
    exchangeSharesWithAll(p, ToEach(vec), ToEach(Len(vec)), toPartyIDs, fromPartyIDs)

(* initiateBatchCheck, then finalizeBatchCheck.                            *)
OpenAndCheck(p) ==
    Broadcast(p, Data(p, "masked")) \o Broadcast(p, Hash(p, "commit"))
        \o Broadcast(p, Data(p, "aggregate"))

InputShare(p, data_party) ==
    IF p = data_party THEN sendSharesToAll(p, ToEach(Data(p, "shifted")), toPartyIDs)
    ELSE receiveShares(p, DataLen, data_party - p)

-----------------------------------------------------------------------------
(* Beaver 2PC: opening two masked vectors, and the permutation of a shared *)
(* vector, once with each party as the sender of permute_and_share.        *)
Open2(p) == exchangeShares(p, Data(p, "share"), 1, 1)
PermuteAndShare2(p, send_party) ==
    IF p = send_party THEN receiveShares(p, DataLen, 1)
    ELSE sendShares(p, Data(p, "delta"), 1)
=============================================================================
