----------------------------- MODULE Shuffling ------------------------------
(***************************************************************************)
(* Permutations and how they are applied to shared vectors.  A permutation *)
(* of n elements is a sequence of the numbers 0 .. n - 1: the element at   *)
(* index i goes to index p[i].  The elements of a sequence are at          *)
(* positions from 1, indices count from 0.                                 *)
(***************************************************************************)
EXTENDS Integers, Sequences, FiniteSets, Vectors

\* ElementwisePermutation(size, engine)
Identity(n) == [i \in 1 .. n |-> i - 1]

IsPermutation(p) == {p[i] : i \in 1 .. Len(p)} = 0 .. Len(p) - 1

\* The permutations of m elements.
PermutationsOf(m) == {p \in [1 .. m -> 0 .. m - 1] : IsPermutation(p)}

(***************************************************************************)
(* gen_perm.  A draw for step i is taken from the bits that hold the size  *)
(* and refused while it is beyond the elements that are left.              *)
(***************************************************************************)
RandomMask(n) == 2 ^ bit_width(n) - 1

Refused(n, i, rand) == rand > n - i - 1

SwapAt(p, a, b) == [p EXCEPT ![a] = p[b], ![b] = p[a]]

\* Mutant of GenPermStep: the draw counts from the start, not from the elements left.
GenPermAnywhere(p, i, rand) == SwapAt(p, i + 1, rand + 1)

\* Step i of the loop with an accepted draw.
GenPermStep(p, i, rand) == SwapAt(p, i + 1, i + rand + 1)

\* The permutation that the accepted draws give.
gen_perm(n, rands) ==
    LET after[i \in 0 .. n] ==
            IF i = 0 THEN Identity(n) ELSE GenPermStep(after[i - 1], i - 1, rands[i])
    IN  after[n]

\* All sequences of accepted draws.
AcceptedDraws(n) ==
    {d \in [1 .. n -> 0 .. n - 1] : \A i \in 1 .. n : ~Refused(n, i - 1, d[i])}

AllPermutations(n) == {gen_perm(n, d) : d \in AcceptedDraws(n)}

(***************************************************************************)
(* Local application.                                                      *)
(***************************************************************************)
local_apply_perm(x, p) ==
    [j \in 1 .. Len(x) |-> x[CHOOSE i \in 1 .. Len(x) : p[i] = j - 1]]

local_apply_inverse_perm(x, p) == mapping_reference(x, p)

(***************************************************************************)
(* Application of a permutation that is itself shared.  pi is the random   *)
(* sharded permutation the manager hands out; what is opened is masked by  *)
(* it.                                                                     *)
(***************************************************************************)
oblivious_apply_elementwise_perm(x, perm, pi) ==
    local_apply_perm(local_apply_perm(x, pi), local_apply_perm(perm, pi))

compose_permutations(sigma, rho, pi) ==
    LET opened == local_apply_perm(sigma, pi)
    IN  local_apply_inverse_perm(local_apply_inverse_perm(rho, opened), pi)

invert(p, pi) == oblivious_apply_elementwise_perm(Identity(Len(p)), p, pi)

\* Two parties convert bit by bit; others open the permutation under a mask and share it anew.
b2a(p, parties, pi) ==
    IF parties = 2 THEN p ELSE local_apply_inverse_perm(local_apply_perm(p, pi), pi)

negate(p) == [i \in 1 .. Len(p) |-> -p[i] - 1]

(***************************************************************************)
(* Two parties: each holds one of two permutations and, for the other's, a *)
(* mask A, a replacement B and what takes the one to the other.  Encoding  *)
(* "A" adds in a ring, "B" is bit by bit; both are groups, "B" the one in  *)
(* which every element is its own inverse.                                 *)
(***************************************************************************)
RING == 4
Encodings == {"A", "B"}

PlusIn(enc, a, b) ==
    IF enc = "A" THEN (a + b) % RING
    ELSE (((a % 2) + (b % 2)) % 2) + 2 * (((a \div 2) + (b \div 2)) % 2)

MinusIn(enc, a, b) == IF enc = "A" THEN ((a - b) + RING) % RING ELSE PlusIn(enc, a, b)

AddVectors(enc, x, y) == [i \in 1 .. Len(x) |-> PlusIn(enc, x[i], y[i])]
SubVectors(enc, x, y) == [i \in 1 .. Len(x) |-> MinusIn(enc, x[i], y[i])]

\* The correlation of one permutation: pi and C are its sender's, A and B the other party's.
PermutationTuple(enc, pi, A, B) ==
    [pi |-> pi, A |-> A, B |-> B, C |-> SubVectors(enc, local_apply_perm(A, pi), B)]

\* Vectors of m ring elements, and a correlation for them.
Residues  == 0 .. RING - 1
Shares(m) == [1 .. m -> Residues]

FittingTuple(m, enc, t) ==
    /\ t.pi \in PermutationsOf(m) /\ t.A \in Shares(m) /\ t.B \in Shares(m)
    /\ t = PermutationTuple(enc, t.pi, t.A, t.B)

\* The receiver of permute_and_share: what it sends, and what it keeps.
MaskedShare(enc, x, t, inverse) == SubVectors(enc, x, IF inverse THEN t.B ELSE t.A)
ReplacedShare(t, inverse) == IF inverse THEN t.A ELSE t.B

permute_and_share(enc, x, t, delta) ==
    AddVectors(enc, local_apply_perm(x, t.pi),
               AddVectors(enc, local_apply_perm(delta, t.pi), t.C))

permute_and_share_inverse(enc, x, t, delta) ==
    AddVectors(enc, local_apply_inverse_perm(x, t.pi),
               local_apply_inverse_perm(SubVectors(enc, delta, t.C), t.pi))

(***************************************************************************)
(* More parties: one permutation for every group, known to its members.    *)
(* They permute their replicas; resharing gives the others theirs.         *)
(***************************************************************************)
\* The members of a group know its permutation; no party is in all groups.
getGroups(parties) ==
    CASE parties = 3 -> <<{0, 1}, {0, 2}, {1, 2}>>
      [] parties = 4 -> <<{0, 1, 2}, {1, 2, 3}, {0, 2, 3}, {0, 1, 3}>>

\* Mutant of GroupPermutes: the inverse is taken by applying the permutation once more.
GroupPermutesForward(replicas, group, p, inverse) ==
    LET member == CHOOSE m \in group : TRUE
    IN  [q \in DOMAIN replicas |->
            local_apply_perm(replicas[IF q \in group THEN q ELSE member], p)]

GroupPermutes(replicas, group, p, inverse) ==
    LET permuted(x) == IF inverse THEN local_apply_inverse_perm(x, p)
                       ELSE local_apply_perm(x, p)
        member == CHOOSE m \in group : TRUE
    IN  [q \in DOMAIN replicas |->
            permuted(replicas[IF q \in group THEN q ELSE member])]
=============================================================================
