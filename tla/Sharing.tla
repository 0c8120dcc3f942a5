------------------------------ MODULE Sharing -------------------------------
(***************************************************************************)
(* What the protocols have in common (protocol.h, protocol_base.h).  A     *)
(* sharing is a function from parties to the tuple of shares they hold;    *)
(* the code's x(i) at party p is x[p][i + 1].  An operation takes the      *)
(* shares of every party and a world, and returns [z, r]: the shares every *)
(* party ends with and the world afterwards.  What a party receives is     *)
(* what its peer computed: that sends and receives pair up is the business *)
(* of Communicator.                                                        *)
(***************************************************************************)
EXTENDS CommonPRG

Result(z, r) == [z |-> z, r |-> r]

\* An operation with two results: quotient and error, or two halves.
Two(u, v, r) == [u |-> u, v |-> v, r |-> r]

\* EVector(size): every share of every party zero.
ZeroShares(n, m) == [p \in 0 .. n - 1 |-> [i \in 1 .. m |-> 0]]

\* Element-wise operators of EVector: each party works on the shares it holds.
PlusShares(k, x, y) ==
    [p \in DOMAIN x |-> [i \in DOMAIN x[p] |-> Plus(k, x[p][i], y[p][i])]]
MinusShares(k, x, y) ==
    [p \in DOMAIN x |-> [i \in DOMAIN x[p] |-> Minus(k, x[p][i], y[p][i])]]
MaskShares(x) ==
    [p \in DOMAIN x |-> [i \in DOMAIN x[p] |-> LowBit(x[p][i])]]

\* X and Y are sequences of sharings, the operands of a scalar product (of
\* length one for multiply_a).  Prod is what party p computes from its shares i
\* of X and j of Y.
Prod(k, X, Y, p, i, j) ==
    Total(k, [t \in 1 .. Len(X) |-> Times(k, X[t][p][i], Y[t][p][j])])

\* reconstruct_from_a / reconstruct_from_b: the first shares of all parties.
Reconstruct(k, x) == Total(k, [i \in 1 .. Cardinality(DOMAIN x) |-> x[i - 1][1]])

\* The two results of a division by c, from one half s of the input: the
\* quotient, less one if s is negative, and the remainder made non-negative.
HalfQuotient(s, c)  == Wrap(Quotient(s, c) - Negative(s))
HalfRemainder(s, c) == Wrap(Remainder(s, c) + Negative(s) * c)

\* Among four parties two pairs know one half of the shares each: the parties of
\* low add their first two shares, the others their last two.  In a division P2
\* and P3 take the divisor off the error of their half.
Half(x, low) == [p \in DOMAIN x |-> IF p \in low THEN Wrap(x[p][1] + x[p][2]) ELSE Wrap(x[p][2] + x[p][3])]

\* Mutant of Correction: only one party of the pair corrects.
CorrectionOfP3(p, c) == IF p = 3 THEN c ELSE 0

Correction(p, c) == IF p \in {2, 3} THEN c ELSE 0

\* The same halves of a shared bit.
HalfBits(m, low) == [p \in DOMAIN m |-> IF p \in low THEN BitXor(m[p][1], m[p][2]) ELSE BitXor(m[p][2], m[p][3])]

(***************************************************************************)
(* Resharing.  The members of a group add a sharing of zero; the party     *)
(* outside then receives its shares afresh.                                *)
(***************************************************************************)
\* partyShareMap: party p holds shares p, p + 1, ..., p + rep - 1.
Holds(n, rep, p) == [i \in 1 .. rep |-> (p + i - 1) % n]

Rerandomised(n, k, x, G, zs) ==
    [p \in DOMAIN x |->
        IF p \in G THEN LET held == Holds(n, Len(x[p]), p) IN
                        [i \in DOMAIN x[p] |-> Plus(k, x[p][i], zs[p][held[i] + 1])]
                   ELSE x[p]]

\* The party of G that hands out share s: the lowest that holds it.
Canonical(n, rep, G, s) ==
    CHOOSE q \in G : /\ \E i \in 1 .. rep : Holds(n, rep, q)[i] = s
                     /\ \A t \in G : t < q => \A i \in 1 .. rep : Holds(n, rep, t)[i] # s

\* generate_send_assignment: the indices of the shares q sends to e, in the order
\* in which e holds them.
SendList(n, rep, G, q, e) ==
    LET wanted == {i \in 1 .. rep : Canonical(n, rep, G, Holds(n, rep, e)[i]) = q}
        nth(m) == CHOOSE i \in wanted : Cardinality({j \in wanted : j <= i}) = m
        at(s)  == CHOOSE j \in 1 .. rep : Holds(n, rep, q)[j] = s
    IN  [m \in 1 .. Cardinality(wanted) |-> at(Holds(n, rep, e)[nth(m)])]

\* generate_recv_assignment: the i-th share of e comes from its canonical holder;
\* it is the next vector that party has sent.
Received(n, rep, G, e, x) ==
    LET nth(from, i) == Cardinality({j \in 1 .. i : from[j] = from[i]})
        take(from)   == [i \in 1 .. rep |-> x[from[i]][SendList(n, rep, G, from[i], e)[nth(from, i)]]]
    IN  take([i \in 1 .. rep |-> Canonical(n, rep, G, Holds(n, rep, e)[i])])

reshare(n, k, x, G, r) ==
    LET give(w)  == [p \in DOMAIN x |-> IF p \in G THEN w[p] ELSE Received(n, Len(x[p]), G, p, w)]
        done(zs) == Result(give(Rerandomised(n, k, x, G, zs.z)), zs.r)
    IN  done(groupGetNext(n, k, G, r))
=============================================================================
