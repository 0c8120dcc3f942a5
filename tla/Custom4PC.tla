----------------------------- MODULE Custom4PC ------------------------------
(***************************************************************************)
(* Four parties, one of which may be corrupt (custom_4pc.h): party p holds *)
(* shares p, p + 1 and p + 2.  Every value that is sent is also hashed by  *)
(* another party that can compute it, and malicious_check compares the     *)
(* two; a hash is modelled by the value it is the hash of.                 *)
(***************************************************************************)
EXTENDS Sharing

P4 == 0 .. 3

\* Cross terms 1-0 and 1-2 are exchanged around the ring, hidden by generators
\* that exclude the next and the opposite party; cross term 0-2 is known to two
\* opposite parties, and is sent by P0 to P1 and by P3 to P2.
MultiplyDraws ==
    [p \in P4 |->
        LET first == get(4, p, 1)  second == get(4, p, 2)  last == get(4, p, -1) IN
        CASE p = 0 -> <<first, second, last, first, second>>
          [] p = 1 -> <<first, second, last, first>>
          [] p = 2 -> <<first, second, last, last>>
          [] p = 3 -> <<first, second, last, second, last>>]

\* The three masked cross terms of every party, from its draws.
CrossTerms(k, X, Y, v) ==
    LET Cross(p, i, j) == Plus(k, Prod(k, X, Y, p, i, j), Prod(k, X, Y, p, j, i))
        self(p, i)     == Plus(k, Prod(k, X, Y, p, i, i), Cross(p, i, i + 1))
        terms(mask) ==
          [cross10 |-> [p \in P4 |-> Minus(k, self(p, 1), v[p][1])],
           cross12 |-> [p \in P4 |-> Minus(k, self(p, 2), v[p][2])],
           cross02 |-> [p \in P4 |-> Minus(k, Cross(p, 1, 3), mask[p])],
           mask    |-> mask]
    IN  terms([p \in P4 |-> IF p = 3 THEN v[3][5] ELSE v[p][4]])

\* mult_recv of p is what its predecessor sent; the party opposite sent its hash.
MultiplyC4(k, X, Y, r) ==
    LET mult_recv(t, p) == t.cross10[(p + 3) % 4]
        common(t, v) == [p \in P4 |-> <<Plus(k, mult_recv(t, p), v[p][1]), Plus(k, t.cross10[p], v[p][2]),
                                        Plus(k, t.cross12[p], v[p][3])>>]
        adjust(t, v) == [p \in P4 |-> CASE p = 0 -> <<t.mask[0], v[0][5], t.cross02[0]>>
                                        [] p = 1 -> <<t.mask[1], t.cross02[0], t.cross02[1]>>
                                        [] p = 2 -> <<t.cross02[2], t.cross02[3], t.mask[2]>>
                                        [] p = 3 -> <<t.cross02[3], v[3][4], t.mask[3]>>]
        hashes(t) == /\ \A p \in P4 : mult_recv(t, p) = t.cross12[(p + 2) % 4]
                     /\ t.cross02[0] = t.cross02[2]
                     /\ t.cross02[3] = t.cross02[1]
        finish(t, d) == Result(PlusShares(k, common(t, d.v), adjust(t, d.v)), Check(d.r, hashes(t)))
        drawn(d)     == finish(CrossTerms(k, X, Y, d.v), d)
    IN  drawn(Draw(r, MultiplyDraws))

multiply_C4(x, y, r) == MultiplyC4("a", <<x>>, <<y>>, r)
and_b_C4(x, y, r)    == MultiplyC4("b", <<x>>, <<y>>, r)
matrix_C4(X, Y, r)   == MultiplyC4("a", X, Y, r)
conv_C4(X, Y, r)     == MultiplyC4("a", X, Y, r)

\* inp_a / inp_b: parties i and j both know x; i hides it with one draw of the
\* generator that excludes g and sends it to g, j sends the hash, h draws along.
inp_C4(k, x, i, j, g, h, r) ==
    LET D == [p \in P4 |-> IF p = g THEN <<>> ELSE <<get(4, p, g - p)>>]
        shares(v, sent) == [p \in P4 |-> CASE p = i -> <<v[p][1], sent[p], 0>>
                                           [] p = j -> <<0, v[p][1], sent[p]>>
                                           [] p = g -> <<sent[(g + 3) % 4], 0, 0>>
                                           [] p = h -> <<0, 0, v[p][1]>>]
        finish(d, sent) == Result(shares(d.v, sent),
                                  Check(d.r, sent[(g + 3) % 4] = sent[(g + 2) % 4]))
        drawn(d) == finish(d, [p \in {i, j} |-> Minus(k, x[p], d.v[p][1])])
    IN  drawn(Draw(r, D))

\* One pair of parties shares its half and then the other pair its own:
\* inp(3, 2, 0, 1) and inp(1, 0, 2, 3), or inp(0, 3, 1, 2) and inp(2, 1, 3, 0).
inp_both_C4(k, x, i, j, r) ==
    LET finish(s, t) == Two(s.z, t.z, t.r)
        second(s)    == finish(s, inp_C4(k, x, (i + 2) % 4, (j + 2) % 4, j, i, s.r))
    IN  second(inp_C4(k, x, i, j, (i + 1) % 4, (j + 3) % 4, r))

\* P3 and P2 both hold one half of the shares and P1 and P0 the other; each pair
\* divides its half and shares the two results.
div_const_C4(x, c, r) ==
    LET res(h) == [p \in P4 |-> HalfQuotient(h[p], c)]
        err(h) == [p \in P4 |-> Wrap(HalfRemainder(h[p], c) - Correction(p, c))]
        finish(q, e) == Two(PlusShares("a", q.u, q.v), PlusShares("a", e.u, e.v), e.r)
        errors(h, q) == finish(q, inp_both_C4("a", err(h), 3, 2, q.r))
        divide(h)    == errors(h, inp_both_C4("a", res(h), 3, 2, r))
    IN  divide(Half(x, {1, 3}))

\* Share 2 is complemented by the parties that hold it.
not_b_C4(x) ==
    [p \in P4 |-> CASE p = 0 -> <<x[p][1], x[p][2], BitNot(x[p][3])>>
                    [] p = 1 -> <<x[p][1], BitNot(x[p][2]), x[p][3]>>
                    [] p = 2 -> <<BitNot(x[p][1]), x[p][2], x[p][3]>>
                    [] p = 3 -> x[p]]

not_b_1_C4(x) ==
    LET flip(m) == [p \in P4 |-> CASE p = 0 -> <<m[p][1], m[p][2], LogicalNot(m[p][3])>>
                                   [] p = 1 -> <<m[p][1], LogicalNot(m[p][2]), m[p][3]>>
                                   [] p = 2 -> <<LogicalNot(m[p][1]), m[p][2], m[p][3]>>
                                   [] p = 3 -> m[p]]
    IN  flip(MaskShares(x))

\* Two pairs reduce the bit to two shares, which are shared arithmetically; the
\* bit is the square of their difference.
b2a_bit_C4(x, r) ==
    LET square(d, w) == multiply_C4(d, d, w)
        shared(s)    == square(MinusShares("a", s.u, s.v), s.r)
    IN  shared(inp_both_C4("a", HalfBits(MaskShares(x), {1, 3}), 1, 0, r))

redistribute_C4(x, r) ==
    inp_both_C4("b", Half(x, {0, 2}), 0, 3, r)

\* Mutant of open_C4: the share of the wrong neighbour.
open_C4_next(k, x) == [p \in P4 |-> Plus(k, Total(k, x[p]), x[(p + 1) % 4][1])]

open_C4(k, x) == [p \in P4 |-> Plus(k, Total(k, x[p]), x[(p + 3) % 4][1])]

secret_share_C4(k, v, who, r) ==
    LET D == [p \in P4 |-> IF p = who THEN [i \in 1 .. 3 |-> localPRG(p)] ELSE <<>>]
        dealt(t) == [p \in P4 |-> [i \in 1 .. 3 |-> t[((p - who + i - 1) % 4) + 1]]]
        split(s) == dealt(Append(s, Minus(k, v, Total(k, s))))
        done(d)  == Result(split(d.v[who]), d.r)
    IN  done(Draw(r, D))

\* The value becomes share 3, which everyone except P0 holds.
public_share_C4(v) ==
    [p \in P4 |-> CASE p = 0 -> <<0, 0, 0>> [] p = 1 -> <<0, 0, v>>
                    [] p = 2 -> <<0, v, 0>> [] p = 3 -> <<v, 0, 0>>]

\* Each of the three senders sends one share to the receiver e and the hash of
\* another.
reshare_C4(k, x, G, r) ==
    LET hand(w, e, b1, b2, b3, z) ==
          Result([w EXCEPT ![e] = <<b1[2], b3[1], b2[1]>>],
                 Check(z, b1[2] = b2[3] /\ b3[1] = b1[3] /\ b2[1] = b3[2]))
        send(w, e, z) == hand(w, e, w[(e + 3) % 4], w[(e + 2) % 4], w[(e + 1) % 4], z)
        drawn(zs) == send(Rerandomised(4, k, x, G, zs.z), CHOOSE p \in P4 : p \notin G, zs.r)
    IN  drawn(groupGetNext(4, k, G, r))
=============================================================================
