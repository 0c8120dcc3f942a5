----------------------------- MODULE CommonPRG ------------------------------
(***************************************************************************)
(* Correlated randomness.  Parties that share a generator hold equal seeds *)
(* and draw equal values only as long as they have drawn equally often:    *)
(* every getNext of a generator advances the nonce of the caller's copy    *)
(* and of nobody else's.  A world is                                       *)
(*     [seed, pos, ok]                                                     *)
(* where pos[p][g] counts what party p has drawn from generator g and ok   *)
(* is FALSE once a hash check has failed.                                  *)
(***************************************************************************)
EXTENDS Ring2k, FiniteSets

(***************************************************************************)
(* The generators, by number.  localPRG of p is p; the generator of a      *)
(* group is 16 and up; the relative generators of 3PC are shared by        *)
(* neighbours p and p + 1 and those of 4PC by everyone except e; the two   *)
(* OLE generators behind the Beaver triples are external and counted like  *)
(* the others because both parties must ask equally often.                 *)
(***************************************************************************)
localPRG(p)   == p
GroupPRG(G)   == 16 + (IF 0 \in G THEN 1 ELSE 0) + (IF 1 \in G THEN 2 ELSE 0)
                    + (IF 2 \in G THEN 4 ELSE 0) + (IF 3 \in G THEN 8 ELSE 0)
NextPRG(p)    == 40 + p
WithoutPRG(e) == 50 + e
OLE(k)        == IF k = "a" THEN 60 ELSE 61

\* CommonPRGManager::get(relative_rank) at party p of n.
get(n, p, rel) ==
    CASE n = 2 -> GroupPRG({0, 1})
      [] n = 3 -> IF rel % 3 = 1 THEN NextPRG(p) ELSE NextPRG((p + 2) % 3)
      [] n = 4 -> WithoutPRG((p + rel) % 4)

\* The groups that reshare: protocol_base.h for two and three parties, the
\* override of the four-party protocols.
Groups(n) == CASE n = 2 -> {}
               [] n = 3 -> {{0, 1}, {0, 2}, {1, 2}}
               [] n = 4 -> {{0, 1, 2}, {1, 2, 3}, {0, 2, 3}, {0, 1, 3}}

\* The generators set up for n parties, each with the parties that hold it.
Holders(n) ==
    LET P == 0 .. n - 1 IN
      {<<localPRG(p), {p}>> : p \in P}
      \cup {<<GroupPRG(G), G>> : G \in Groups(n) \cup {P}}
      \cup (CASE n = 2 -> {<<OLE(k), P>> : k \in Kinds}
              [] n = 3 -> {<<NextPRG(p), {p, (p + 1) % 3}>> : p \in P}
              [] n = 4 -> {<<WithoutPRG(e), P \ {e}>> : e \in P})

HeldBy(n, p) == {h[1] : h \in {g \in Holders(n) : p \in g[2]}}

NewWorld(n, seed) ==
    [seed |-> seed,
     pos  |-> [p \in 0 .. n - 1 |-> [g \in HeldBy(n, p) |-> 0]],
     ok   |-> TRUE]

(***************************************************************************)
(* External: AES in counter mode.  Any function that tells seeds,          *)
(* generators and nonces apart serves; this one mixes them.                *)
(***************************************************************************)
Mix(u, v)          == ((u * u * v + 29 * u + v) \div 4) % Modulus
Stream(seed, g, n) == Mix(7 * seed + 5 * g + 3 * n + 1, 11 * seed + g + 13 * n + 2)

\* External: oblivious linear evaluation.  P0 obtains {C, A} and P1 {D, B} with
\* A + B = C * D.
OLEShare(k, seed, n, p) ==
    LET share(C, D, A) == IF p = 0 THEN <<C, A>> ELSE <<D, Minus(k, Times(k, C, D), A)>>
        word(i) == Stream(seed, OLE(k), 3 * n + i)
    IN  share(word(0), word(1), word(2))

(***************************************************************************)
(* Draws.  D[p] is the sequence of generators party p calls getNext on, in *)
(* the order of its code.  Draw gives the values each party obtains and    *)
(* the world the draws leave behind.                                       *)
(***************************************************************************)
Nonce(r, D, p, i) ==
    r.pos[p][D[p][i]] + Cardinality({j \in 1 .. i - 1 : D[p][j] = D[p][i]})

getNext(r, D, p, i) == Stream(r.seed, D[p][i], Nonce(r, D, p, i))

Calls(s, g) == Cardinality({i \in DOMAIN s : s[i] = g})

After(r, D) ==
    [r EXCEPT !.pos = [p \in DOMAIN r.pos |->
                         [g \in DOMAIN r.pos[p] |-> r.pos[p][g] + Calls(D[p], g)]]]

Draw(r, D) ==
    [v |-> [p \in DOMAIN D |-> [i \in DOMAIN D[p] |-> getNext(r, D, p, i)]],
     r |-> After(r, D)]

Check(r, b) == [r EXCEPT !.ok = r.ok /\ b]

\* ZeroSharingGenerator::getNextArithmetic and getNextBinary among three parties:
\* no other protocol modelled here calls them.
ZeroDraws == [p \in 0 .. 2 |-> <<get(3, p, -1), get(3, p, 1)>>]

getNextZero(k, r) ==
    LET zero(d) == [z |-> [p \in 0 .. 2 |-> Minus(k, d.v[p][1], d.v[p][2])], r |-> d.r]
    IN  zero(Draw(r, ZeroDraws))

\* ZeroSharingGenerator::groupGetNextArithmetic and groupGetNextBinary: n words
\* that sum to zero, at every member of the group; the last one is dependent.
groupGetNext(n, k, G, r) ==
    LET D == [p \in 0 .. n - 1 |-> IF p \in G THEN [i \in 1 .. n - 1 |-> GroupPRG(G)] ELSE <<>>]
        zero(d) == [z |-> [p \in G |-> Append(d.v[p], Minus(k, 0, Total(k, d.v[p])))], r |-> d.r]
    IN  zero(Draw(r, D))
=============================================================================
