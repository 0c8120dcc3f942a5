----------------------------- MODULE Dalskov4PC -----------------------------
(***************************************************************************)
(* The "Fantastic Four" protocol as published (dalskov_4pc.h): share s is  *)
(* held by everyone except party s, party p in the order p + 1, p + 2,     *)
(* p + 3.  Two parties that know a value pass it jointly: one sends it,    *)
(* the other adds it to a running hash that the receiver keeps as well;    *)
(* malicious_check_internal compares the hashes before and after an open.  *)
(* Sender and hasher act in the same jmp call, so the hashes agree exactly *)
(* when the two values did in every call so far.                           *)
(***************************************************************************)
EXTENDS Sharing

PF == 0 .. 3

next_party(i, j) ==
    LET next(a, b) == IF b = (a + 1) % 4 THEN (b + 1) % 4 ELSE (a + 1) % 4
    IN  IF i < j THEN next(i, j) ELSE next(j, i)

excluded_party(i, j, g) == 6 - (i + j + g)

\* The index at which party p keeps share s, and the share at an index.
abs2sh(p, s)  == ((s - p - 1) % 4) + 1
ShareAt(p, m) == (p + m) % 4

who_hashes(i, j) == IF i < j THEN j ELSE i
Sender(i, j)     == IF i < j THEN i ELSE j

\* jmp: what the receiver gets from i and j, and whether its hash will agree.
jmp(x, i, j)       == x[Sender(i, j)]
HashAgrees(x, i, j) == x[who_hashes(i, j)] = x[Sender(i, j)]

\* inp: i and j know x.  Share g is drawn by everyone but g, share h is the rest
\* and is passed jointly to g.
inp_F4(k, x, i, j, g, h, r) ==
    LET D == [p \in PF |-> IF p = g THEN <<>> ELSE <<get(4, p, g - p)>>]
        share(v, xh, p, s) == CASE s = g -> v[p][1]
                                [] s = h -> IF p = g THEN jmp(xh, i, j) ELSE xh[p]
                                [] OTHER -> 0
        finish(d, xh) == Result([p \in PF |-> [m \in 1 .. 3 |-> share(d.v, xh, p, ShareAt(p, m))]],
                                Check(d.r, HashAgrees(xh, i, j)))
        drawn(d) == finish(d, [p \in {i, j} |-> Minus(k, x[p], d.v[p][1])])
    IN  drawn(Draw(r, D))

inp2_F4(k, x, i, j, r) ==
    LET to(g) == inp_F4(k, x, i, j, g, excluded_party(i, j, g), r) IN to(next_party(i, j))

inp_both_F4(k, x, i, j, r) ==
    LET finish(s, t) == Two(s.z, t.z, t.r)
        second(s)    == finish(s, inp2_F4(k, x, (i + 2) % 4, (j + 2) % 4, s.r))
    IN  second(inp2_F4(k, x, i, j, r))

\* generic_multiply: every pair of parties shares the cross terms of the two
\* shares that only they both hold; the self terms are local.
Pairs == <<<<0, 1>>, <<0, 2>>, <<0, 3>>, <<1, 2>>, <<1, 3>>, <<2, 3>>>>

CrossTerm(k, X, Y, i, j, g, h) ==
    LET cross(p, a, b) == Plus(k, Prod(k, X, Y, p, a, b), Prod(k, X, Y, p, b, a))
    IN  [p \in {i, j} |-> cross(p, abs2sh(p, h), abs2sh(p, g))]

AddCrossTerm(k, X, Y, s, i, j) ==
    LET add(t) == Result(PlusShares(k, s.z, t.z), t.r)
        from(g, h) == add(inp_F4(k, CrossTerm(k, X, Y, i, j, g, h), i, j, g, h, s.r))
        next(g) == from(g, excluded_party(i, j, g))
    IN  next(next_party(i, j))

generic_multiply(k, X, Y, r) ==
    LET self == [p \in PF |-> [m \in 1 .. 3 |-> Prod(k, X, Y, p, m, m)]]
        acc[n \in 0 .. 6] ==
          IF n = 0 THEN Result(self, r)
                   ELSE AddCrossTerm(k, X, Y, acc[n - 1], Pairs[n][1], Pairs[n][2])
    IN  acc[6]

multiply_F4(x, y, r)    == generic_multiply("a", <<x>>, <<y>>, r)
and_b_F4(x, y, r)       == generic_multiply("b", <<x>>, <<y>>, r)
dot_product_F4(X, Y, r) == generic_multiply("a", X, Y, r)
matrix_F4(X, Y, r)      == generic_multiply("a", X, Y, r)
conv_F4(X, Y, r)        == generic_multiply("a", X, Y, r)

div_const_F4(x, c, r) ==
    LET res(h) == [p \in PF |-> HalfQuotient(h[p], c)]
        err(h) == [p \in PF |-> Wrap(HalfRemainder(h[p], c) - Correction(p, c))]
        finish(q, e) == Two(PlusShares("a", q.u, q.v), PlusShares("a", e.u, e.v), q.r)
        quotients(h, e) == finish(inp_both_F4("a", res(h), 3, 2, e.r), e)
        divide(h)       == quotients(h, inp_both_F4("a", err(h), 3, 2, r))
    IN  divide(Half(x, {1, 3}))

\* Share 3 is complemented by the parties that hold it.
not_b_F4(x) ==
    [p \in PF |-> [m \in 1 .. 3 |-> IF m = 3 - p THEN BitNot(x[p][m]) ELSE x[p][m]]]

not_b_1_F4(x) ==
    LET flip(b) == [p \in PF |-> [m \in 1 .. 3 |-> IF m = 3 - p THEN LogicalNot(b[p][m]) ELSE b[p][m]]]
    IN  flip(MaskShares(x))

b2a_bit_F4(x, r) ==
    LET square(d, w) == multiply_F4(d, d, w)
        shared(s)    == square(MinusShares("a", s.u, s.v), s.r)
    IN  shared(inp_both_F4("a", HalfBits(MaskShares(x), {1, 3}), 1, 0, r))

redistribute_F4(x, r) ==
    inp_both_F4("b", Half(x, {0, 2}), 0, 3, r)

\* _open_shares: each pair of neighbours passes the share the next party lacks.
open_F4(k, x) ==
    LET passed(p, i, j) == jmp([q \in {i, j} |-> x[q][abs2sh(q, p)]], i, j)
        missing(p, i)   == passed(p, i, (i + 1) % 4)
        from(p)         == CHOOSE i \in PF : next_party(i, (i + 1) % 4) = p
    IN  [p \in PF |-> Plus(k, Total(k, x[p]), missing(p, from(p)))]

secret_share_F4(k, v, who, r) ==
    LET D == [p \in PF |-> IF p = who THEN [i \in 1 .. 3 |-> localPRG(p)] ELSE <<>>]
        dealt(t) == [p \in PF |-> [m \in 1 .. 3 |-> t[((p - who + m) % 4) + 1]]]
        split(s) == dealt(Append(s, Minus(k, v, Total(k, s))))
        done(d)  == Result(split(d.v[who]), d.r)
    IN  done(Draw(r, D))

\* The value becomes the share of the party that does not know it, or share 0.
public_share_F4(v, knows) ==
    LET h == IF knows = {} THEN 0 ELSE CHOOSE p \in PF : p \notin knows
    IN  [p \in PF |-> [m \in 1 .. 3 |-> IF ShareAt(p, m) = h THEN v ELSE 0]]

\* Every share but the receiver's own is passed by the two members of the group
\* that hold it.
reshare_F4(k, x, G, r) ==
    LET known(w, s) == [p \in G \ {s} |-> w[p][abs2sh(p, s)]]
        lo(s) == CHOOSE p \in G \ {s} : \A q \in G \ {s} : p <= q
        hi(s) == CHOOSE p \in G \ {s} : \A q \in G \ {s} : p >= q
        got(w, s) == jmp(known(w, s), lo(s), hi(s))
        finish(w, e, z) == Result([w EXCEPT ![e] = [m \in 1 .. 3 |-> got(w, ShareAt(e, m))]],
                                  Check(z, \A s \in G : HashAgrees(known(w, s), lo(s), hi(s))))
        drawn(zs) == finish(Rerandomised(4, k, x, G, zs.z), CHOOSE p \in PF : p \notin G, zs.r)
    IN  drawn(groupGetNext(4, k, G, r))
=============================================================================
