----------------------------- MODULE Beaver2PC ------------------------------
(***************************************************************************)
(* Two parties, additive shares, Beaver triples (beaver_2pc.h).            *)
(***************************************************************************)
EXTENDS Sharing

P2 == {0, 1}

\* BeaverTripleGenerator::getNext: a triple a * b = c from two OLEs.  P1 takes
\* the two in the other order, which gives the cross terms.
BeaverTriple(k, r) ==
    LET ole(D, p, i) == OLEShare(k, r.seed, Nonce(r, D, p, i), p)
        triple(u, v) == [a |-> <<u[1]>>, b |-> <<v[1]>>,
                         c |-> <<Total(k, <<Times(k, u[1], v[1]), u[2], v[2]>>)>>]
        both(D) == [t |-> [p \in P2 |-> triple(ole(D, p, 1 + p), ole(D, p, 2 - p))],
                    r |-> After(r, D)]
    IN  both([p \in P2 |-> <<OLE(k), OLE(k)>>])

\* unchecked_open_a / unchecked_open_b
open_2PC(k, x) == [p \in P2 |-> Plus(k, x[p][1], x[1 - p][1])]

\* z = y * A - a * B + c, where A and B are opened.
Masked(k, x, y, t) ==
    LET z(A, B) == [p \in P2 |-> <<Plus(k, Minus(k, Times(k, y[p][1], A[p]), Times(k, t[p].a[1], B[p])),
                                        t[p].c[1])>>]
    IN  z(open_2PC(k, PlusShares(k, x, [p \in P2 |-> t[p].a])),
          open_2PC(k, PlusShares(k, y, [p \in P2 |-> t[p].b])))

MultiplyBeaver(k, x, y, b) == Result(Masked(k, x, y, b.t), b.r)

multiply_2PC(x, y, r) == MultiplyBeaver("a", x, y, BeaverTriple("a", r))
and_b_2PC(x, y, r)    == MultiplyBeaver("b", x, y, BeaverTriple("b", r))

\* Matrices and convolutions: the triples are vectors of zeros, so A = x, B = y.
ZeroTriple == [p \in P2 |-> [v \in {"a", "b", "c"} |-> <<0>>]]

ProductSum_2PC(X, Y, r) ==
    LET sum(part) == [p \in P2 |-> <<Total("a", [t \in DOMAIN X |-> part[t][p][1]])>>]
    IN  Result(sum([t \in DOMAIN X |-> Masked("a", X[t], Y[t], ZeroTriple)]), r)

matrix_2PC(X, Y, r) == ProductSum_2PC(X, Y, r)
conv_2PC(X, Y, r)   == ProductSum_2PC(X, Y, r)

\* Each party shifts its own share.
truncate_2PC(x, d, r) == Result([p \in P2 |-> <<ShiftRight(x[p][1], d)>>], r)

div_const_2PC(x, c, r) ==
    Two([p \in P2 |-> <<HalfQuotient(x[p][1], c)>>],
        [p \in P2 |-> <<Wrap(HalfRemainder(x[p][1], c) - p * c)>>],
        r)

not_b_2PC(x)   == [x EXCEPT ![0] = <<BitNot(x[0][1])>>]
not_b_1_2PC(x) == [x EXCEPT ![0] = <<LogicalNot(x[0][1])>>]

\* The square of the difference of the two shares of the bit.
b2a_bit_2PC(x, r) ==
    LET square(xm) == multiply_2PC(xm, xm, r)
    IN  square([MaskShares(x) EXCEPT ![1] = <<Wrap(-@[1])>>])

\* get_shares, secret_share_a_internal and secret_share_b_internal.
secret_share_2PC(k, v, who, r) ==
    LET D == [p \in P2 |-> IF p = who THEN <<localPRG(p)>> ELSE <<>>]
        split(s) == [p \in P2 |-> IF p = who THEN <<s>> ELSE <<Minus(k, v, s)>>]
        done(d)  == Result(split(d.v[who][1]), d.r)
    IN  done(Draw(r, D))

\* Each party shares its own arithmetic share as a boolean one.
redistribute_2PC(x, r) ==
    LET halves(u, v) == Two(u.z, v.z, v.r)
        second(u)    == halves(u, secret_share_2PC("b", x[1][1], 1, u.r))
    IN  second(secret_share_2PC("b", x[0][1], 0, r))

public_share_2PC(v, knows) ==
    [p \in P2 |-> IF (knows = {} /\ p = 0) \/ p \in knows THEN <<v>> ELSE <<0>>]
=============================================================================
