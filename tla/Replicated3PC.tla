--------------------------- MODULE Replicated3PC ----------------------------
(***************************************************************************)
(* Three parties, replicated shares (replicated_3pc.h): party p holds      *)
(* shares p and p + 1.                                                     *)
(***************************************************************************)
EXTENDS Sharing

P3 == 0 .. 2

\* Mutant of Replicate: the wrong neighbour's share.
ReplicateFromPredecessor(local) == [p \in P3 |-> <<local[p], local[(p + 2) % 3]>>]

\* exchangeShares(local, remote, 2, 1): to the predecessor, from the successor.
Replicate(local) == [p \in P3 |-> <<local[p], local[(p + 1) % 3]>>]

\* Mutant of Multiply3: one of the two cross terms is missing.
MultiplyOneCross(k, X, Y, r) ==
    LET local(zs) == [p \in P3 |-> Total(k, <<zs.z[p], Prod(k, X, Y, p, 1, 1), Prod(k, X, Y, p, 1, 2)>>)]
        done(zs)  == Result(Replicate(local(zs)), zs.r)
    IN  done(getNextZero(k, r))

\* Local products, hidden by a share of zero, and one exchange.
Multiply3(k, X, Y, r) ==
    LET local(zs) == [p \in P3 |-> Total(k, <<zs.z[p], Prod(k, X, Y, p, 1, 1),
                                              Prod(k, X, Y, p, 1, 2), Prod(k, X, Y, p, 2, 1)>>)]
        done(zs)  == Result(Replicate(local(zs)), zs.r)
    IN  done(getNextZero(k, r))

multiply_3PC(x, y, r)    == Multiply3("a", <<x>>, <<y>>, r)
and_b_3PC(x, y, r)       == Multiply3("b", <<x>>, <<y>>, r)
dot_product_3PC(X, Y, r) == Multiply3("a", X, Y, r)
matrix_3PC(X, Y, r)      == Multiply3("a", X, Y, r)
conv_3PC(X, Y, r)        == Multiply3("a", X, Y, r)

\* Mutant of TruncateDraws: party 0 draws along.
TruncateDrawsOfAll ==
    [p \in P3 |-> CASE p = 0 -> <<get(3, p, 1)>> [] p = 1 -> <<get(3, p, 1)>> [] p = 2 -> <<get(3, p, -1)>>]

\* Parties 0 and 2 shift share 0; party 1 shifts the sum of the others, which it
\* splits with a value that 1 and 2 draw.
TruncateDraws ==
    [p \in P3 |-> CASE p = 0 -> <<>> [] p = 1 -> <<get(3, p, 1)>> [] p = 2 -> <<get(3, p, -1)>>]

truncate_3PC(x, d, r) ==
    LET shares(v, s) == [p \in P3 |-> CASE p = 0 -> <<ShiftRight(x[0][1], d), s>>
                                         [] p = 1 -> <<s, v[1][1]>>
                                         [] p = 2 -> <<v[2][1], ShiftRight(x[2][2], d)>>]
        done(w) == Result(shares(w.v, Wrap(ShiftRight(Wrap(x[1][1] + x[1][2]), d) - w.v[1][1])), w.r)
    IN  done(Draw(r, TruncateDraws))

\* Party 0 divides the sum of its two shares, party 2 its first one; party 1 draws
\* what party 0 subtracts.
div_const_3PC(x, c, r) ==
    LET D == [p \in P3 |-> CASE p = 0 -> <<get(3, p, 1), get(3, p, 1)>>
                             [] p = 1 -> <<get(3, p, -1), get(3, p, -1)>>
                             [] p = 2 -> <<>>]
        res(v, s) == [p \in P3 |-> CASE p = 0 -> Wrap(HalfQuotient(s, c) - v[0][1])
                                      [] p = 1 -> v[1][1]
                                      [] p = 2 -> HalfQuotient(x[2][1], c)]
        err(v, s) == [p \in P3 |-> CASE p = 0 -> Wrap(HalfRemainder(s, c) - v[0][2])
                                      [] p = 1 -> v[1][2]
                                      [] p = 2 -> Wrap(HalfRemainder(x[2][1], c) - c)]
        done(w, s) == Two(Replicate(res(w.v, s)), Replicate(err(w.v, s)), w.r)
    IN  done(Draw(r, D), Wrap(x[0][1] + x[0][2]))

\* Every share of every party is complemented: three complements are one.
not_b_3PC(x)   == [p \in P3 |-> [i \in 1 .. 2 |-> BitNot(x[p][i])]]
not_b_1_3PC(x) == [p \in P3 |-> [i \in 1 .. 2 |-> LogicalNot(LowBit(x[p][i]))]]

\* P0 shares x0 ^ x1 and P1 shares x2, both by adding to a sharing of zero; the
\* bit is the square of the difference.
b2a_bit_3PC(x, r) ==
    LET square(d, w) == multiply_3PC(d, d, w)
        s0(m, z) == Replicate([z EXCEPT ![0] = Wrap(@ + BitXor(m[0][1], m[0][2]))])
        s1(m, z) == Replicate([z EXCEPT ![1] = Wrap(@ + m[1][2])])
        both(m, z0, z1) == square(MinusShares("a", s0(m, z0.z), s1(m, z1.z)), z1.r)
        first(z0) == both(MaskShares(x), z0, getNextZero("a", z0.r))
    IN  first(getNextZero("a", r))

\* P0 shares x0 + x1 and P2 shares x2, with generators common to the pairs and to
\* everyone.
RedistributeDraws(all) ==
    [p \in P3 |-> CASE p = 0 -> <<get(3, p, 1), all, get(3, p, -1), all>>
                    [] p = 1 -> <<get(3, p, -1), all, all>>
                    [] p = 2 -> <<all, get(3, p, 1), all>>]

redistribute_3PC(x, r) ==
    LET halves(v, u0, w2, w) ==
          Two([p \in P3 |-> CASE p = 0 -> <<u0, v[0][1]>>
                              [] p = 1 -> <<v[1][1], v[1][2]>>
                              [] p = 2 -> <<v[2][1], u0>>],
              [p \in P3 |-> CASE p = 0 -> <<v[0][3], v[0][4]>>
                              [] p = 1 -> <<v[1][3], w2>>
                              [] p = 2 -> <<w2, v[2][2]>>],
              w)
        drawn(d) == halves(d.v, Total("b", <<Wrap(x[0][1] + x[0][2]), d.v[0][1], d.v[0][2]>>),
                                Total("b", <<x[2][1], d.v[2][2], d.v[2][3]>>), d.r)
    IN  drawn(Draw(r, RedistributeDraws(GroupPRG(P3))))

open_3PC(k, x) == [p \in P3 |-> Total(k, <<x[p][1], x[p][2], x[(p + 1) % 3][2]>>)]

\* get_shares: two drawn shares and a dependent one, in the order of the owner.
secret_share_3PC(k, v, who, r) ==
    LET D == [p \in P3 |-> IF p = who THEN <<localPRG(p), localPRG(p)>> ELSE <<>>]
        dealt(t) == [p \in P3 |-> LET i == (p - who) % 3 IN <<t[i + 1], t[((i + 1) % 3) + 1]>>]
        split(s) == dealt(Append(s, Minus(k, v, Total(k, s))))
        done(d)  == Result(split(d.v[who]), d.r)
    IN  done(Draw(r, D))

\* The value becomes share h, where h depends on who knows it.
PublicShare3(v, h) == [p \in P3 |-> <<IF p = h THEN v ELSE 0, IF (p + 1) % 3 = h THEN v ELSE 0>>]

public_share_3PC(v, knows) ==
    PublicShare3(v, CASE knows \in {{}, {0, 2}} -> 0 [] knows = {0, 1} -> 1 [] knows = {1, 2} -> 2)
=============================================================================
