--------------------------- MODULE OperatorsProofs --------------------------
(***************************************************************************)
(* Proofs about Operators: what local_apply_perm, its masked form on       *)
(* shared permutations, permute_and_share and the groups of more parties   *)
(* do to the values; that no permutation is drawn from two sequences of    *)
(* accepted draws; and, from the invariant that says where an operation is *)
(* and what its parties hold there, that shuffles keep rows together and   *)
(* that gen_perm is uniform, for all programs, lengths and permutations.   *)
(*                                                                         *)
(* Then the sorts: what the permutation manager has after a reservation    *)
(* and hands out, what padding, partitioning and the rounds of radix sort  *)
(* do to a vector and its hidden indices, and, from the invariant that     *)
(* balances what is stored with what a sort will still take, that the      *)
(* manager serves its users and that quicksort's loop ends.                *)
(***************************************************************************)
EXTENDS Operators, ModLemmas, FiniteSetTheorems, FunctionTheorems, TLAPS

\* w is v with the element at index i moved to index p[i].
Moved(m, S, v, p, w) == w \in [1 .. m -> S] /\ \A i \in 1 .. m : w[p[i] + 1] = v[i]

\* A permutation of m elements takes every index once.
Onto(m, p) ==
    /\ p \in [1 .. m -> 0 .. m - 1] /\ Len(p) = m
    /\ \A i \in 1 .. m : p[i] + 1 \in 1 .. m
    /\ \A i, j \in 1 .. m : p[i] = p[j] => i = j
    /\ \A j \in 1 .. m : \E i \in 1 .. m : p[i] + 1 = j

LEMMA VectorLength ==
    ASSUME NEW m \in Nat, NEW S, NEW v \in [1 .. m -> S]
    PROVE  Len(v) = m /\ v \in Seq(S)
  OBVIOUS

LEMMA PermutationProperties ==
    ASSUME NEW m \in Nat, NEW p \in PermutationsOf(m)
    PROVE  Onto(m, p)
<1>1. p \in [1 .. m -> 0 .. m - 1] /\ IsPermutation(p)
  BY DEF PermutationsOf
<1>2. Len(p) = m
  BY <1>1, VectorLength
<1>3. \A a \in 0 .. m - 1 : \E i \in 1 .. m : p[i] = a
  BY <1>1, <1>2 DEF IsPermutation
<1>4. p \in Surjection(1 .. m, 0 .. m - 1)
  BY <1>1, <1>3, Fun_IsSurj
<1>5. IsFiniteSet(1 .. m) /\ Cardinality(1 .. m) = m
  BY FS_Interval
<1>6. Cardinality(0 .. m - 1) = m
  BY FS_Interval
<1>7. p \in Injection(1 .. m, 0 .. m - 1)
  BY <1>4, <1>5, <1>6, FS_SurjSameCardinalityImpliesInj
<1>8. \A i, j \in 1 .. m : p[i] = p[j] => i = j
  BY <1>7, Fun_InjectionProperties
<1>9. ASSUME NEW j \in 1 .. m PROVE \E i \in 1 .. m : p[i] + 1 = j
  <2>1. j - 1 \in 0 .. m - 1
    OBVIOUS
  <2>2. PICK i \in 1 .. m : p[i] = j - 1
    BY <1>3, <2>1
  <2>3. QED
    BY <2>2
<1>10. ASSUME NEW i \in 1 .. m PROVE p[i] + 1 \in 1 .. m
  <2>1. p[i] \in 0 .. m - 1
    BY <1>1
  <2>2. QED
    BY <2>1
<1>11. QED
  BY <1>1, <1>2, <1>8, <1>9, <1>10 DEF Onto

\* local_apply_perm moves the element at index i to index p[i].
LEMMA Applied ==
    ASSUME NEW m \in Nat, NEW p \in PermutationsOf(m), NEW S, NEW v \in [1 .. m -> S]
    PROVE  Moved(m, S, v, p, local_apply_perm(v, p))
<1> DEFINE At(j) == CHOOSE i \in 1 .. m : p[i] = j - 1
<1>1. Len(v) = m
  BY VectorLength
<1>2. Onto(m, p)
  BY PermutationProperties
<1>3. local_apply_perm(v, p) = [j \in 1 .. m |-> v[At(j)]]
  BY <1>1 DEF local_apply_perm
<1>4. ASSUME NEW j \in 1 .. m PROVE At(j) \in 1 .. m /\ p[At(j)] = j - 1
  <2>1. PICK i \in 1 .. m : p[i] + 1 = j
    BY <1>2 DEF Onto
  <2>2. p[i] \in 0 .. m - 1
    BY <1>2 DEF Onto
  <2>3. p[i] = j - 1
    BY <2>1, <2>2
  <2>4. QED
    BY <2>3
<1>5. ASSUME NEW i \in 1 .. m PROVE p[i] + 1 \in 1 .. m /\ At(p[i] + 1) = i
  <2>1. p[i] + 1 \in 1 .. m /\ (p[i] + 1) - 1 = p[i]
    BY <1>2 DEF Onto
  <2>2. At(p[i] + 1) \in 1 .. m /\ p[At(p[i] + 1)] = p[i]
    BY <1>4, <2>1
  <2>3. QED
    BY <1>2, <2>1, <2>2 DEF Onto
<1> HIDE DEF At
<1>6. QED
  BY <1>3, <1>4, <1>5 DEF Moved

\* There is one way to move the elements.
LEMMA MovedOnce ==
    ASSUME NEW m \in Nat, NEW p \in PermutationsOf(m), NEW S, NEW v, NEW w, NEW u,
           Moved(m, S, v, p, w), Moved(m, S, v, p, u)
    PROVE  w = u
<1>1. Onto(m, p)
  BY PermutationProperties
<1>2. ASSUME NEW j \in 1 .. m PROVE w[j] = u[j]
  <2>1. PICK i \in 1 .. m : p[i] + 1 = j
    BY <1>1 DEF Onto
  <2>2. QED
    BY <2>1 DEF Moved
<1>3. QED
  BY <1>2 DEF Moved

\* The inverse takes them back.
LEMMA InverseForm ==
    ASSUME NEW m \in Nat, NEW p \in PermutationsOf(m), NEW v
    PROVE  local_apply_inverse_perm(v, p) = [i \in 1 .. m |-> v[p[i] + 1]]
<1>1. Onto(m, p)
  BY PermutationProperties
<1>2. QED
  BY <1>1 DEF Onto, local_apply_inverse_perm, mapping_reference

LEMMA AppliedInverse ==
    ASSUME NEW m \in Nat, NEW p \in PermutationsOf(m), NEW S, NEW v \in [1 .. m -> S]
    PROVE  /\ local_apply_inverse_perm(v, p) \in [1 .. m -> S]
           /\ local_apply_inverse_perm(local_apply_perm(v, p), p) = v
<1> DEFINE w == local_apply_perm(v, p)
<1>1. Onto(m, p) /\ Moved(m, S, v, p, w)
  BY PermutationProperties, Applied
<1>2. /\ local_apply_inverse_perm(w, p) = [i \in 1 .. m |-> w[p[i] + 1]]
      /\ local_apply_inverse_perm(v, p) = [i \in 1 .. m |-> v[p[i] + 1]]
  BY InverseForm
<1> HIDE DEF w
<1>3. local_apply_inverse_perm(w, p) = v
  BY <1>1, <1>2 DEF Moved
<1>4. local_apply_inverse_perm(v, p) \in [1 .. m -> S]
  BY <1>1, <1>2 DEF Onto
<1>5. QED
  BY <1>3, <1>4 DEF w

\* A permutation moved by another is a permutation.
LEMMA MovedPermutation ==
    ASSUME NEW m \in Nat, NEW p \in PermutationsOf(m), NEW q \in PermutationsOf(m)
    PROVE  local_apply_perm(p, q) \in PermutationsOf(m)
<1> DEFINE pq == local_apply_perm(p, q)
<1>1. Onto(m, p) /\ Onto(m, q)
  BY PermutationProperties
<1>2. p \in [1 .. m -> 0 .. m - 1]
  BY <1>1 DEF Onto
<1>3. Moved(m, 0 .. m - 1, p, q, pq)
  BY <1>2, Applied
<1> HIDE DEF pq
<1>4. pq \in [1 .. m -> 0 .. m - 1]
  BY <1>3 DEF Moved
<1>5. ASSUME NEW a \in 0 .. m - 1 PROVE \E i \in 1 .. m : pq[i] = a
  <2>1. a + 1 \in 1 .. m
    OBVIOUS
  <2>2. PICK i \in 1 .. m : p[i] + 1 = a + 1
    BY <1>1, <2>1 DEF Onto
  <2>3. p[i] = a
    BY <1>2, <2>2
  <2>4. q[i] + 1 \in 1 .. m /\ pq[q[i] + 1] = a
    BY <1>1, <1>3, <2>3 DEF Onto, Moved
  <2>5. QED
    BY <2>4
<1>6. {pq[i] : i \in 1 .. m} = 0 .. m - 1
  BY <1>4, <1>5
<1>7. Len(pq) = m
  BY <1>4, VectorLength
<1>8. pq \in PermutationsOf(m)
  BY <1>4, <1>6, <1>7 DEF PermutationsOf, IsPermutation
<1>9. QED
  BY <1>8 DEF pq

\* A permutation that is opened under a mask moves the masked elements as it would
\* have moved the elements.
LEMMA ObliviousApplied ==
    ASSUME NEW m \in Nat, NEW p \in PermutationsOf(m), NEW q \in PermutationsOf(m), NEW S, NEW v \in [1 .. m -> S]
    PROVE  oblivious_apply_elementwise_perm(v, p, q) = local_apply_perm(v, p)
<1> DEFINE vq == local_apply_perm(v, q)
           pq == local_apply_perm(p, q)
           w == local_apply_perm(vq, pq)
<1>1. Onto(m, p) /\ Onto(m, q)
  BY PermutationProperties
<1>2. p \in [1 .. m -> 0 .. m - 1]
  BY <1>1 DEF Onto
<1>3. pq \in PermutationsOf(m)
  BY MovedPermutation
<1>4. Moved(m, S, v, q, vq) /\ Moved(m, 0 .. m - 1, p, q, pq)
  BY <1>2, Applied
<1> HIDE DEF vq, pq
<1>5. vq \in [1 .. m -> S]
  BY <1>4 DEF Moved
<1>6. Moved(m, S, vq, pq, w)
  BY <1>3, <1>5, Applied
<1> HIDE DEF w
<1>7. ASSUME NEW i \in 1 .. m PROVE w[p[i] + 1] = v[i]
  <2>1. q[i] + 1 \in 1 .. m /\ vq[q[i] + 1] = v[i] /\ pq[q[i] + 1] = p[i]
    BY <1>1, <1>4 DEF Onto, Moved
  <2>2. w[pq[q[i] + 1] + 1] = vq[q[i] + 1]
    BY <1>6, <2>1 DEF Moved
  <2>3. QED
    BY <2>1, <2>2
<1>8. Moved(m, S, v, p, w)
  BY <1>6, <1>7 DEF Moved
<1>9. Moved(m, S, v, p, local_apply_perm(v, p))
  BY Applied
<1>10. w = local_apply_perm(v, p)
  BY <1>8, <1>9, MovedOnce
<1>11. QED
  BY <1>10 DEF vq, pq, w, oblivious_apply_elementwise_perm

-----------------------------------------------------------------------------
(***************************************************************************)
(* Permuting shares: what the two parties of permute_and_share hold adds   *)
(* up to the permuted values, in both encodings.                           *)
(***************************************************************************)
LEMMA FourResidues == Residues = 0 .. 3
  BY DEF Residues, RING

LEMMA SumsIn ==
    ASSUME NEW enc \in Encodings, NEW a \in Residues, NEW b \in Residues
    PROVE  /\ PlusIn(enc, a, b) \in Residues /\ MinusIn(enc, a, b) \in Residues
           /\ PlusIn(enc, a, b) = PlusIn(enc, b, a)
<1>1. CASE enc = "A"
  BY <1>1 DEF PlusIn, MinusIn, Residues, RING
<1>2. CASE enc = "B"
  <2>1. a \in 0 .. 3 /\ b \in 0 .. 3
    BY FourResidues
  <2>2. (((a % 2) + (b % 2)) % 2) + 2 * (((a \div 2) + (b \div 2)) % 2) \in 0 .. 3
    BY <2>1
  <2>3. QED
    BY <1>2, <2>1, <2>2, FourResidues DEF PlusIn, MinusIn
<1>3. QED
  BY <1>1, <1>2 DEF Encodings

\* The bits of an exclusive or of numbers of two bits.
LEMMA BitsOfSum ==
    ASSUME NEW a \in 0 .. 3, NEW b \in 0 .. 3
    PROVE  /\ PlusIn("B", a, b) \in 0 .. 3
           /\ PlusIn("B", a, b) % 2 = ((a % 2) + (b % 2)) % 2
           /\ PlusIn("B", a, b) \div 2 = ((a \div 2) + (b \div 2)) % 2
  BY DEF PlusIn

\* The mask is taken off again and the replacement cancels.
LEMMA MasksCancel ==
    ASSUME NEW enc \in Encodings, NEW s \in Residues, NEW r \in Residues, NEW a \in Residues, NEW b \in Residues
    PROVE  /\ PlusIn(enc, PlusIn(enc, s, PlusIn(enc, MinusIn(enc, r, a), MinusIn(enc, a, b))), b) = PlusIn(enc, s, r)
           /\ PlusIn(enc, PlusIn(enc, s, MinusIn(enc, MinusIn(enc, r, b), MinusIn(enc, a, b))), a) = PlusIn(enc, s, r)
<1>1. CASE enc = "A"
  BY <1>1 DEF PlusIn, MinusIn, Residues, RING
<1>2. CASE enc = "B"
  <2>1. s \in 0 .. 3 /\ r \in 0 .. 3 /\ a \in 0 .. 3 /\ b \in 0 .. 3
    BY FourResidues
  <2> DEFINE P(c, d) == PlusIn("B", c, d)
  <2>2. \A c, d \in 0 .. 3 : /\ P(c, d) \in 0 .. 3
                             /\ P(c, d) % 2 = ((c % 2) + (d % 2)) % 2
                             /\ P(c, d) \div 2 = ((c \div 2) + (d \div 2)) % 2
    BY BitsOfSum
  <2>3. \A c, d : MinusIn("B", c, d) = P(c, d)
    BY DEF MinusIn
  <2> HIDE DEF P
  <2>4. \A c, d \in 0 .. 3 : c % 2 = d % 2 /\ c \div 2 = d \div 2 => c = d
    OBVIOUS
  <2>5. /\ P(r, a) \in 0 .. 3 /\ P(a, b) \in 0 .. 3 /\ P(P(r, a), P(a, b)) \in 0 .. 3
        /\ P(s, P(P(r, a), P(a, b))) \in 0 .. 3 /\ P(P(s, P(P(r, a), P(a, b))), b) \in 0 .. 3 /\ P(s, r) \in 0 .. 3
    BY <2>1, <2>2
  <2>6. P(P(s, P(P(r, a), P(a, b))), b) = P(s, r)
    <3>1. P(P(s, P(P(r, a), P(a, b))), b) % 2 = P(s, r) % 2
      BY <2>1, <2>2, <2>5
    <3>2. P(P(s, P(P(r, a), P(a, b))), b) \div 2 = P(s, r) \div 2
      BY <2>1, <2>2, <2>5
    <3>3. QED
      BY <2>4, <2>5, <3>1, <3>2
  <2>7. /\ P(r, b) \in 0 .. 3 /\ P(P(r, b), P(a, b)) \in 0 .. 3
        /\ P(s, P(P(r, b), P(a, b))) \in 0 .. 3 /\ P(P(s, P(P(r, b), P(a, b))), a) \in 0 .. 3
    BY <2>1, <2>2, <2>5
  <2>8. P(P(s, P(P(r, b), P(a, b))), a) = P(s, r)
    <3>1. P(P(s, P(P(r, b), P(a, b))), a) % 2 = P(s, r) % 2
      BY <2>1, <2>2, <2>5, <2>7
    <3>2. P(P(s, P(P(r, b), P(a, b))), a) \div 2 = P(s, r) \div 2
      BY <2>1, <2>2, <2>5, <2>7
    <3>3. QED
      BY <2>4, <2>5, <2>7, <3>1, <3>2
  <2>9. QED
    BY <1>2, <2>3, <2>6, <2>8 DEF P
<1>3. QED
  BY <1>1, <1>2 DEF Encodings

LEMMA VectorSums ==
    ASSUME NEW enc \in Encodings, NEW m \in Nat, NEW x \in Shares(m), NEW y \in Shares(m)
    PROVE  /\ AddVectors(enc, x, y) \in Shares(m) /\ SubVectors(enc, x, y) \in Shares(m)
           /\ \A i \in 1 .. m : AddVectors(enc, x, y)[i] = PlusIn(enc, x[i], y[i])
           /\ \A i \in 1 .. m : SubVectors(enc, x, y)[i] = MinusIn(enc, x[i], y[i])
           /\ AddVectors(enc, x, y) = AddVectors(enc, y, x)
<1>1. Len(x) = m /\ Len(y) = m
  BY VectorLength DEF Shares
<1>2. ASSUME NEW i \in 1 .. m
      PROVE  /\ PlusIn(enc, x[i], y[i]) \in Residues /\ MinusIn(enc, x[i], y[i]) \in Residues
             /\ PlusIn(enc, x[i], y[i]) = PlusIn(enc, y[i], x[i])
  <2>1. x[i] \in Residues /\ y[i] \in Residues
    BY DEF Shares
  <2>2. QED
    BY <2>1, SumsIn
<1>3. /\ AddVectors(enc, x, y) = [i \in 1 .. m |-> PlusIn(enc, x[i], y[i])]
      /\ AddVectors(enc, y, x) = [i \in 1 .. m |-> PlusIn(enc, y[i], x[i])]
      /\ SubVectors(enc, x, y) = [i \in 1 .. m |-> MinusIn(enc, x[i], y[i])]
  BY <1>1 DEF AddVectors, SubVectors
<1>4. QED
  BY <1>2, <1>3 DEF Shares

\* The correlation: what the sender adds takes the mask to the replacement.
LEMMA TupleFields ==
    ASSUME NEW enc \in Encodings, NEW m \in Nat, NEW t, FittingTuple(m, enc, t)
    PROVE  /\ t.pi \in PermutationsOf(m) /\ t.A \in Shares(m) /\ t.B \in Shares(m) /\ t.C \in Shares(m)
           /\ \A i \in 1 .. m : t.C[t.pi[i] + 1] = MinusIn(enc, t.A[i], t.B[t.pi[i] + 1])
<1> DEFINE p == t.pi
           a == local_apply_perm(t.A, p)
<1>1. p \in PermutationsOf(m) /\ t.A \in Shares(m) /\ t.B \in Shares(m)
  BY DEF FittingTuple
<1>2. t.C = SubVectors(enc, a, t.B)
  BY DEF FittingTuple, PermutationTuple
<1>3. Moved(m, Residues, t.A, p, a) /\ Onto(m, p)
  BY <1>1, Applied, PermutationProperties DEF Shares
<1> HIDE DEF a
<1>4. a \in Shares(m)
  BY <1>3 DEF Moved, Shares
<1>5. t.C \in Shares(m) /\ \A i \in 1 .. m : t.C[i] = MinusIn(enc, a[i], t.B[i])
  BY <1>1, <1>2, <1>4, VectorSums
<1>6. ASSUME NEW i \in 1 .. m PROVE t.C[p[i] + 1] = MinusIn(enc, t.A[i], t.B[p[i] + 1])
  <2>1. p[i] + 1 \in 1 .. m /\ a[p[i] + 1] = t.A[i]
    BY <1>3 DEF Onto, Moved
  <2>2. QED
    BY <1>5, <2>1
<1>7. QED
  BY <1>1, <1>5, <1>6

LEMMA PermutedShares ==
    ASSUME NEW enc \in Encodings, NEW m \in Nat, NEW t, FittingTuple(m, enc, t),
           NEW x \in Shares(m), NEW y \in Shares(m)
    PROVE  LET new == permute_and_share(enc, x, t, MaskedShare(enc, y, t, FALSE))
           IN  /\ new \in Shares(m) /\ ReplacedShare(t, FALSE) \in Shares(m)
               /\ AddVectors(enc, new, ReplacedShare(t, FALSE)) = local_apply_perm(AddVectors(enc, x, y), t.pi)
<1> DEFINE p == t.pi
           d == MaskedShare(enc, y, t, FALSE)
           xp == local_apply_perm(x, p)
           dp == local_apply_perm(d, p)
           inner == AddVectors(enc, dp, t.C)
           new == AddVectors(enc, xp, inner)
           sum == AddVectors(enc, x, y)
           w == AddVectors(enc, new, t.B)
<1>1. /\ p \in PermutationsOf(m) /\ t.A \in Shares(m) /\ t.B \in Shares(m) /\ t.C \in Shares(m)
      /\ \A i \in 1 .. m : t.C[p[i] + 1] = MinusIn(enc, t.A[i], t.B[p[i] + 1])
  BY TupleFields
<1>2. d = SubVectors(enc, y, t.A)
  BY DEF MaskedShare
<1> HIDE DEF p, d
<1>3. d \in Shares(m) /\ \A i \in 1 .. m : d[i] = MinusIn(enc, y[i], t.A[i])
  BY <1>1, <1>2, VectorSums
<1>4. sum \in Shares(m) /\ \A i \in 1 .. m : sum[i] = PlusIn(enc, x[i], y[i])
  BY VectorSums
<1>5. Onto(m, p) /\ Moved(m, Residues, x, p, xp) /\ Moved(m, Residues, d, p, dp)
  BY <1>1, <1>3, Applied, PermutationProperties DEF Shares
<1> HIDE DEF xp, dp, sum
<1>6. xp \in Shares(m) /\ dp \in Shares(m)
  BY <1>5 DEF Moved, Shares
<1>7. inner \in Shares(m) /\ \A i \in 1 .. m : inner[i] = PlusIn(enc, dp[i], t.C[i])
  BY <1>1, <1>6, VectorSums
<1> HIDE DEF inner
<1>8. new \in Shares(m) /\ \A i \in 1 .. m : new[i] = PlusIn(enc, xp[i], inner[i])
  BY <1>6, <1>7, VectorSums
<1> HIDE DEF new
<1>9. w \in Shares(m) /\ \A i \in 1 .. m : w[i] = PlusIn(enc, new[i], t.B[i])
  BY <1>1, <1>8, VectorSums
<1> HIDE DEF w
<1>10. ASSUME NEW i \in 1 .. m PROVE w[p[i] + 1] = sum[i]
  <2> DEFINE j == p[i] + 1
  <2>1. j \in 1 .. m /\ xp[j] = x[i] /\ dp[j] = d[i]
    BY <1>5 DEF Onto, Moved
  <2>2. /\ t.C[j] = MinusIn(enc, t.A[i], t.B[j]) /\ dp[j] = MinusIn(enc, y[i], t.A[i])
        /\ x[i] \in Residues /\ y[i] \in Residues /\ t.A[i] \in Residues
    BY <1>1, <1>3, <2>1 DEF Shares
  <2> HIDE DEF j
  <2>3. t.B[j] \in Residues
    BY <1>1, <2>1 DEF Shares
  <2>4. w[j] = PlusIn(enc, PlusIn(enc, x[i], PlusIn(enc, MinusIn(enc, y[i], t.A[i]),
                                                        MinusIn(enc, t.A[i], t.B[j]))), t.B[j])
    BY <1>7, <1>8, <1>9, <2>1, <2>2
  <2>5. w[j] = PlusIn(enc, x[i], y[i])
    BY <2>2, <2>3, <2>4, MasksCancel
  <2>6. QED
    BY <1>4, <2>5 DEF j
<1>11. Moved(m, Residues, sum, p, w)
  BY <1>9, <1>10 DEF Moved, Shares
<1>12. Moved(m, Residues, sum, p, local_apply_perm(sum, p))
  BY <1>1, <1>4, Applied DEF Shares
<1>13. w = local_apply_perm(sum, p)
  BY <1>1, <1>11, <1>12, MovedOnce
<1>14. permute_and_share(enc, x, t, d) = new /\ ReplacedShare(t, FALSE) = t.B
  BY DEF permute_and_share, ReplacedShare, new, inner, xp, dp, p
<1>15. QED
  BY <1>1, <1>8, <1>13, <1>14 DEF w, sum, p, d

LEMMA PermutedBack ==
    ASSUME NEW enc \in Encodings, NEW m \in Nat, NEW t, FittingTuple(m, enc, t),
           NEW x \in Shares(m), NEW y \in Shares(m)
    PROVE  LET new == permute_and_share_inverse(enc, x, t, MaskedShare(enc, y, t, TRUE))
           IN  /\ new \in Shares(m) /\ ReplacedShare(t, TRUE) \in Shares(m)
               /\ AddVectors(enc, new, ReplacedShare(t, TRUE)) = local_apply_inverse_perm(AddVectors(enc, x, y), t.pi)
<1> DEFINE p == t.pi
           d == MaskedShare(enc, y, t, TRUE)
           e == SubVectors(enc, d, t.C)
           xp == local_apply_inverse_perm(x, p)
           ep == local_apply_inverse_perm(e, p)
           new == AddVectors(enc, xp, ep)
           sum == AddVectors(enc, x, y)
           w == AddVectors(enc, new, t.A)
<1>1. /\ p \in PermutationsOf(m) /\ t.A \in Shares(m) /\ t.B \in Shares(m) /\ t.C \in Shares(m)
      /\ \A i \in 1 .. m : t.C[p[i] + 1] = MinusIn(enc, t.A[i], t.B[p[i] + 1])
  BY TupleFields
<1>2. d = SubVectors(enc, y, t.B)
  BY DEF MaskedShare
<1> HIDE DEF p, d
<1>3. d \in Shares(m) /\ \A i \in 1 .. m : d[i] = MinusIn(enc, y[i], t.B[i])
  BY <1>1, <1>2, VectorSums
<1>4. e \in Shares(m) /\ \A i \in 1 .. m : e[i] = MinusIn(enc, d[i], t.C[i])
  BY <1>1, <1>3, VectorSums
<1>5. sum \in Shares(m) /\ \A i \in 1 .. m : sum[i] = PlusIn(enc, x[i], y[i])
  BY VectorSums
<1> HIDE DEF e, sum
<1>6. /\ xp = [i \in 1 .. m |-> x[p[i] + 1]] /\ ep = [i \in 1 .. m |-> e[p[i] + 1]]
      /\ local_apply_inverse_perm(sum, p) = [i \in 1 .. m |-> sum[p[i] + 1]]
  BY <1>1, InverseForm
<1>7. xp \in Shares(m) /\ ep \in Shares(m)
  BY <1>1, <1>4, AppliedInverse DEF Shares
<1>8. Onto(m, p)
  BY <1>1, PermutationProperties
<1> HIDE DEF xp, ep
<1>9. new \in Shares(m) /\ \A i \in 1 .. m : new[i] = PlusIn(enc, xp[i], ep[i])
  BY <1>7, VectorSums
<1> HIDE DEF new
<1>10. w \in Shares(m) /\ \A i \in 1 .. m : w[i] = PlusIn(enc, new[i], t.A[i])
  BY <1>1, <1>9, VectorSums
<1> HIDE DEF w
<1>11. ASSUME NEW i \in 1 .. m PROVE w[i] = sum[p[i] + 1]
  <2> DEFINE j == p[i] + 1
  <2>1. j \in 1 .. m /\ xp[i] = x[j] /\ ep[i] = e[j]
    BY <1>6, <1>8 DEF Onto
  <2>2. t.C[j] = MinusIn(enc, t.A[i], t.B[j]) /\ t.A[i] \in Residues
    BY <1>1 DEF Shares
  <2> HIDE DEF j
  <2>3. x[j] \in Residues /\ y[j] \in Residues /\ t.B[j] \in Residues
    BY <1>1, <2>1 DEF Shares
  <2>4. w[i] = PlusIn(enc, PlusIn(enc, x[j], MinusIn(enc, MinusIn(enc, y[j], t.B[j]),
                                                         MinusIn(enc, t.A[i], t.B[j]))), t.A[i])
    BY <1>3, <1>4, <1>9, <1>10, <2>1, <2>2
  <2>5. w[i] = PlusIn(enc, x[j], y[j])
    BY <2>2, <2>3, <2>4, MasksCancel
  <2>6. w[i] = sum[j]
    BY <1>5, <2>1, <2>5
  <2>7. QED
    BY <2>6 DEF j
<1>12. w = local_apply_inverse_perm(sum, p)
  BY <1>6, <1>10, <1>11 DEF Shares
<1>13. permute_and_share_inverse(enc, x, t, d) = new /\ ReplacedShare(t, TRUE) = t.A
  BY DEF permute_and_share_inverse, ReplacedShare, new, e, xp, ep, p
<1>14. QED
  BY <1>1, <1>9, <1>12, <1>13 DEF w, sum, p, d

-----------------------------------------------------------------------------
(***************************************************************************)
(* Moving rows loses none of them.                                         *)
(***************************************************************************)
LEMMA BagKept ==
    ASSUME NEW m \in Nat, NEW p \in PermutationsOf(m), NEW S, NEW v \in [1 .. m -> S], NEW w, Moved(m, S, v, p, w)
    PROVE  Bag(w) = Bag(v)
<1>1. w \in [1 .. m -> S] /\ \A i \in 1 .. m : w[p[i] + 1] = v[i]
  BY DEF Moved
<1>2. Len(v) = m /\ Len(w) = m
  BY <1>1, VectorLength
<1>3. Onto(m, p)
  BY PermutationProperties
<1>4. p \in [1 .. m -> 0 .. m - 1] /\ \A i \in 1 .. m : p[i] + 1 \in 1 .. m
  BY <1>3 DEF Onto
<1> DEFINE At(s, e) == {k \in 1 .. m : s[k] = e}
<1>5. ASSUME NEW e PROVE Cardinality(At(w, e)) = Cardinality(At(v, e))
  <2> DEFINE f == [k \in At(v, e) |-> p[k] + 1]
  <2>1. f \in [At(v, e) -> At(w, e)]
    BY <1>1, <1>4
  <2>2. \A a, b \in At(v, e) : f[a] = f[b] => a = b
    <3>1. ASSUME NEW a \in At(v, e), NEW b \in At(v, e), f[a] = f[b] PROVE a = b
      <4>1. a \in 1 .. m /\ b \in 1 .. m /\ p[a] + 1 = p[b] + 1
        BY <3>1
      <4>2. p[a] = p[b]
        BY <1>4, <4>1
      <4>3. QED
        BY <1>3, <4>1, <4>2 DEF Onto
    <3>2. QED
      BY <3>1
  <2>3. \A j \in At(w, e) : \E k \in At(v, e) : f[k] = j
    <3>1. ASSUME NEW j \in At(w, e) PROVE \E k \in At(v, e) : f[k] = j
      <4>1. j \in 1 .. m /\ w[j] = e
        OBVIOUS
      <4>2. PICK k \in 1 .. m : p[k] + 1 = j
        BY <1>3, <4>1 DEF Onto
      <4>3. k \in At(v, e)
        BY <1>1, <4>1, <4>2
      <4>4. QED
        BY <4>2, <4>3
    <3>2. QED
      BY <3>1
  <2> HIDE DEF f
  <2>4. f \in Bijection(At(v, e), At(w, e))
    BY <2>1, <2>2, <2>3, Fun_IsBij
  <2>5. ExistsBijection(At(v, e), At(w, e))
    BY <2>4 DEF ExistsBijection
  <2>6. IsFiniteSet(1 .. m) /\ At(v, e) \in SUBSET (1 .. m)
    BY FS_Interval
  <2>7. IsFiniteSet(At(v, e))
    BY <2>6, FS_Subset
  <2>8. QED
    BY <2>5, <2>7, FS_Bijection
<1>6. {w[k] : k \in 1 .. m} = {v[k] : k \in 1 .. m}
  <2>1. \A k \in 1 .. m : \E i \in 1 .. m : v[k] = w[i]
    BY <1>1, <1>4
  <2>2. ASSUME NEW k \in 1 .. m PROVE \E i \in 1 .. m : w[k] = v[i]
    <3>1. PICK i \in 1 .. m : p[i] + 1 = k
      BY <1>3 DEF Onto
    <3>2. QED
      BY <1>1, <3>1
  <2>3. {v[k] : k \in 1 .. m} \subseteq {w[k] : k \in 1 .. m}
    BY <2>1
  <2>4. {w[k] : k \in 1 .. m} \subseteq {v[k] : k \in 1 .. m}
    BY <2>2
  <2>5. QED
    BY <2>3, <2>4
<1>7. /\ Bag(w) = [e \in {w[k] : k \in 1 .. m} |-> Cardinality(At(w, e))]
      /\ Bag(v) = [e \in {v[k] : k \in 1 .. m} |-> Cardinality(At(v, e))]
  BY <1>2 DEF Bag
<1> HIDE DEF At
<1>8. QED
  BY <1>5, <1>6, <1>7

-----------------------------------------------------------------------------
(***************************************************************************)
(* More parties: a group permutes its replicas and resharing hands the     *)
(* result to the others, so that all replicas stay equal.                  *)
(***************************************************************************)
Permuted(v, p, inverse) == IF inverse THEN local_apply_inverse_perm(v, p) ELSE local_apply_perm(v, p)

Copies(Q, v) == [q \in Q |-> v]

LEMMA GroupMoves ==
    ASSUME NEW Q, NEW G \in SUBSET Q, G # {}, NEW v, NEW p, NEW inverse
    PROVE  GroupPermutes(Copies(Q, v), G, p, inverse) = Copies(Q, Permuted(v, p, inverse))
<1> DEFINE replicas == [q \in Q |-> v]
           member == CHOOSE g \in G : TRUE
<1>1. member \in G
  OBVIOUS
<1>2. GroupPermutes(replicas, G, p, inverse)
        = [q \in DOMAIN replicas |-> Permuted(replicas[IF q \in G THEN q ELSE member], p, inverse)]
  BY DEF GroupPermutes, Permuted
<1> HIDE DEF member
<1>3. ASSUME NEW q \in Q PROVE replicas[IF q \in G THEN q ELSE member] = v
  BY <1>1
<1>4. DOMAIN replicas = Q
  OBVIOUS
<1> HIDE DEF replicas
<1>5. QED
  BY <1>2, <1>3, <1>4 DEF Copies, replicas

LEMMA GroupsOfParties ==
    /\ Len(getGroups(3)) = 3 /\ \A g \in 1 .. 3 : getGroups(3)[g] \in SUBSET (0 .. 2) /\ getGroups(3)[g] # {}
    /\ Len(getGroups(4)) = 4 /\ \A g \in 1 .. 4 : getGroups(4)[g] \in SUBSET (0 .. 3) /\ getGroups(4)[g] # {}
<1>1. getGroups(3) = <<{0, 1}, {0, 2}, {1, 2}>>
  BY DEF getGroups
<1>2. getGroups(4) = <<{0, 1, 2}, {1, 2, 3}, {0, 2, 3}, {0, 1, 3}>>
  BY DEF getGroups
<1>3. \A g \in 1 .. 3 : g = 1 \/ g = 2 \/ g = 3
  OBVIOUS
<1>4. \A g \in 1 .. 4 : g = 1 \/ g = 2 \/ g = 3 \/ g = 4
  OBVIOUS
<1>5. Len(getGroups(3)) = 3 /\ \A g \in 1 .. 3 : getGroups(3)[g] \in SUBSET (0 .. 2) /\ getGroups(3)[g] # {}
  BY <1>1, <1>3
<1>6. Len(getGroups(4)) = 4 /\ \A g \in 1 .. 4 : getGroups(4)[g] \in SUBSET (0 .. 3) /\ getGroups(4)[g] # {}
  BY <1>2, <1>4
<1>7. QED
  BY <1>5, <1>6

LEMMA TakenBack ==
    ASSUME NEW m \in Nat, NEW p \in PermutationsOf(m), NEW S, NEW v \in [1 .. m -> S], NEW w, Moved(m, S, v, p, w)
    PROVE  local_apply_inverse_perm(w, p) = v
<1>1. Onto(m, p)
  BY PermutationProperties
<1>2. local_apply_inverse_perm(w, p) = [i \in 1 .. m |-> w[p[i] + 1]]
  BY InverseForm
<1>3. QED
  BY <1>1, <1>2 DEF Moved

\* The vector after the first g groups have permuted it.
Passed(v, P) ==
    LET a == local_apply_perm(v, P[1])
        b == local_apply_perm(a, P[2])
        c == local_apply_perm(b, P[3])
        d == local_apply_perm(c, P[4])
    IN  [g \in 0 .. 4 |-> CASE g = 0 -> v [] g = 1 -> a [] g = 2 -> b [] g = 3 -> c [] g = 4 -> d]

PassesOn(v, P, L) ==
    /\ Passed(v, P)[0] = v
    /\ \A g \in 1 .. L : /\ Passed(v, P)[g] = local_apply_perm(Passed(v, P)[g - 1], P[g])
                         /\ local_apply_inverse_perm(Passed(v, P)[g], P[g]) = Passed(v, P)[g - 1]

LEMMA PassedOn ==
    ASSUME NEW m \in Nat, NEW S, NEW v \in [1 .. m -> S], NEW L \in {3, 4}, NEW P,
           \A g \in 1 .. L : P[g] \in PermutationsOf(m)
    PROVE  PassesOn(v, P, L)
<1> DEFINE s == Passed(v, P)
<1>1. /\ s[0] = v /\ s[1] = local_apply_perm(s[0], P[1]) /\ s[2] = local_apply_perm(s[1], P[2])
      /\ s[3] = local_apply_perm(s[2], P[3]) /\ s[4] = local_apply_perm(s[3], P[4])
  BY DEF Passed
<1> HIDE DEF s
<1>2. ASSUME NEW g \in 1 .. L, s[g - 1] \in [1 .. m -> S], s[g] = local_apply_perm(s[g - 1], P[g])
      PROVE  s[g] \in [1 .. m -> S] /\ local_apply_inverse_perm(s[g], P[g]) = s[g - 1]
  <2> DEFINE u == s[g - 1]
             p == P[g]
  <2>1. p \in PermutationsOf(m) /\ u \in [1 .. m -> S]
    BY <1>2
  <2> HIDE DEF u, p
  <2>2. Moved(m, S, u, p, local_apply_perm(u, p))
    BY ONLY m \in Nat, <2>1, Applied
  <2>3. local_apply_inverse_perm(local_apply_perm(u, p), p) = u
    BY ONLY m \in Nat, <2>1, <2>2, TakenBack
  <2>4. QED
    BY <1>2, <2>2, <2>3 DEF Moved, u, p
<1>3. 1 \in 1 .. L /\ 2 \in 1 .. L /\ 3 \in 1 .. L /\ 1 - 1 = 0 /\ 2 - 1 = 1 /\ 3 - 1 = 2 /\ 4 - 1 = 3
  OBVIOUS
<1>4. s[1] \in [1 .. m -> S] /\ local_apply_inverse_perm(s[1], P[1]) = s[0]
  BY <1>1, <1>2, <1>3
<1>5. s[2] \in [1 .. m -> S] /\ local_apply_inverse_perm(s[2], P[2]) = s[1]
  BY <1>1, <1>2, <1>3, <1>4
<1>6. s[3] \in [1 .. m -> S] /\ local_apply_inverse_perm(s[3], P[3]) = s[2]
  BY <1>1, <1>2, <1>3, <1>5
<1>7. 4 \in 1 .. L => local_apply_inverse_perm(s[4], P[4]) = s[3]
  BY <1>1, <1>2, <1>3, <1>6
<1>8. ASSUME NEW g \in 1 .. L
      PROVE  s[g] = local_apply_perm(s[g - 1], P[g]) /\ local_apply_inverse_perm(s[g], P[g]) = s[g - 1]
  <2>1. g = 1 \/ g = 2 \/ g = 3 \/ g = 4
    OBVIOUS
  <2>2. QED
    BY <1>1, <1>3, <1>4, <1>5, <1>6, <1>7, <2>1
<1>9. QED
  BY <1>1, <1>8 DEF s, PassesOn

-----------------------------------------------------------------------------
(***************************************************************************)
(* Two parties: the four steps of a sharded permutation and its inverse.   *)
(***************************************************************************)
\* The values shared after as many steps.
Staged(j) ==
    LET a == local_apply_perm(j.rows, j.tuples[0].pi)
        b == local_apply_perm(a, j.tuples[1].pi)
    IN  [i \in 0 .. 4 |-> CASE i = 0 -> j.rows [] i = 1 -> a [] i = 2 -> b [] i = 3 -> a [] i = 4 -> j.rows]

Permutes(m, enc, t, inverse, from, to) ==
    /\ FittingTuple(m, enc, t)
    /\ to = Permuted(from, t.pi, inverse)

LEMMA StagedOn ==
    ASSUME NEW j, j.op = "dm", JobFits(j), NEW i \in 0 .. 3
    PROVE  /\ DMSteps[i + 1].sender \in {0, 1} /\ DMSteps[i + 1].inverse \in BOOLEAN
           /\ Permutes(Len(j.rows), j.encoding, j.tuples[DMSteps[i + 1].sender], DMSteps[i + 1].inverse,
                       Staged(j)[i], Staged(j)[i + 1])
<1> DEFINE m == Len(j.rows)
           v == j.rows
           p == j.tuples[0].pi
           q == j.tuples[1].pi
           a == local_apply_perm(v, p)
           b == local_apply_perm(a, q)
<1>1. /\ m \in Nat /\ v \in Shares(m)
      /\ FittingTuple(m, j.encoding, j.tuples[0]) /\ FittingTuple(m, j.encoding, j.tuples[1])
  BY DEF JobFits, DMFits
<1>2. p \in PermutationsOf(m) /\ q \in PermutationsOf(m)
  BY <1>1 DEF FittingTuple
<1>3. /\ Staged(j)[0] = v /\ Staged(j)[1] = a /\ Staged(j)[2] = b /\ Staged(j)[3] = a /\ Staged(j)[4] = v
  BY DEF Staged
<1> HIDE DEF m, v, p, q
<1>4. Moved(m, Residues, v, p, a)
  BY <1>1, <1>2, Applied DEF Shares
<1>5. local_apply_inverse_perm(a, p) = v
  BY ONLY <1>1, <1>2, <1>4, TakenBack DEF Shares
<1>6. a \in Shares(m)
  BY <1>4 DEF Moved, Shares
<1> HIDE DEF a
<1>7. Moved(m, Residues, a, q, b)
  BY <1>1, <1>2, <1>6, Applied DEF Shares
<1>8. local_apply_inverse_perm(b, q) = a
  BY ONLY <1>1, <1>2, <1>6, <1>7, TakenBack DEF Shares
<1>9. /\ DMSteps[1].sender = 0 /\ DMSteps[1].inverse = FALSE /\ DMSteps[2].sender = 1 /\ DMSteps[2].inverse = FALSE
      /\ DMSteps[3].sender = 1 /\ DMSteps[3].inverse = TRUE /\ DMSteps[4].sender = 0 /\ DMSteps[4].inverse = TRUE
  BY DEF DMSteps
<1>10. /\ Permuted(v, p, FALSE) = a /\ Permuted(a, q, FALSE) = b /\ Permuted(b, q, TRUE) = a /\ Permuted(a, p, TRUE) = v
  BY <1>5, <1>8 DEF Permuted, a
<1>11. CASE i = 0
  <2>1. i + 1 = 1
    BY <1>11
  <2>2. QED
    BY <1>1, <1>3, <1>9, <1>10, <1>11, <2>1 DEF Permutes, m, v, p
<1>12. CASE i = 1
  <2>1. i + 1 = 2
    BY <1>12
  <2>2. QED
    BY <1>1, <1>3, <1>9, <1>10, <1>12, <2>1 DEF Permutes, m, v, q
<1>13. CASE i = 2
  <2>1. i + 1 = 3
    BY <1>13
  <2>2. QED
    BY <1>1, <1>3, <1>9, <1>10, <1>13, <2>1 DEF Permutes, m, v, q
<1>14. CASE i = 3
  <2>1. i + 1 = 4
    BY <1>14
  <2>2. QED
    BY <1>1, <1>3, <1>9, <1>10, <1>14, <2>1 DEF Permutes, m, v, p
<1>15. QED
  BY <1>11, <1>12, <1>13, <1>14

\* x shares v.
Holds(m, enc, x, v) == x \in [{0, 1} -> Shares(m)] /\ AddVectors(enc, x[0], x[1]) = v

\* The step: the receiver masks its share and replaces it, the sender permutes both.
Taken(enc, t, inverse, x, delta) ==
    IF inverse THEN permute_and_share_inverse(enc, x, t, delta) ELSE permute_and_share(enc, x, t, delta)

LEMMA ShardedStep ==
    ASSUME NEW enc \in Encodings, NEW m \in Nat, NEW t, NEW inverse \in BOOLEAN, NEW from, NEW to,
           Permutes(m, enc, t, inverse, from, to), NEW y, Holds(m, enc, y, from), NEW s \in {0, 1}
    PROVE  Holds(m, enc, [[y EXCEPT ![1 - s] = ReplacedShare(t, inverse)]
                             EXCEPT ![s] = Taken(enc, t, inverse, y[s], MaskedShare(enc, y[1 - s], t, inverse))], to)
<1> DEFINE r == 1 - s
           new == Taken(enc, t, inverse, y[s], MaskedShare(enc, y[r], t, inverse))
           kept == ReplacedShare(t, inverse)
           z == [[y EXCEPT ![r] = kept] EXCEPT ![s] = new]
<1>1. r \in {0, 1} /\ r # s /\ ((s = 0 /\ r = 1) \/ (s = 1 /\ r = 0))
  OBVIOUS
<1>2. FittingTuple(m, enc, t) /\ to = Permuted(from, t.pi, inverse)
  BY DEF Permutes
<1>3. y \in [{0, 1} -> Shares(m)] /\ AddVectors(enc, y[0], y[1]) = from
  BY DEF Holds
<1>4. y[0] \in Shares(m) /\ y[1] \in Shares(m)
  BY <1>3
<1>5. y[s] \in Shares(m) /\ y[r] \in Shares(m) /\ AddVectors(enc, y[s], y[r]) = from
  <2>1. AddVectors(enc, y[0], y[1]) = AddVectors(enc, y[1], y[0])
    BY <1>4, VectorSums
  <2>2. QED
    BY <1>1, <1>3, <1>4, <2>1
<1> HIDE DEF r
<1>6. new \in Shares(m) /\ kept \in Shares(m) /\ AddVectors(enc, new, kept) = to
  <2>1. CASE inverse
    <3>1. new = permute_and_share_inverse(enc, y[s], t, MaskedShare(enc, y[r], t, TRUE)) /\ kept = ReplacedShare(t, TRUE)
      BY <2>1 DEF Taken
    <3> DEFINE taken == permute_and_share_inverse(enc, y[s], t, MaskedShare(enc, y[r], t, TRUE))
    <3>2. /\ taken \in Shares(m) /\ ReplacedShare(t, TRUE) \in Shares(m)
          /\ AddVectors(enc, taken, ReplacedShare(t, TRUE)) = Permuted(AddVectors(enc, y[s], y[r]), t.pi, TRUE)
      BY <1>2, <1>5, PermutedBack DEF Permuted
    <3>3. QED
      BY <1>2, <1>5, <2>1, <3>1, <3>2
  <2>2. CASE ~inverse
    <3>1. new = permute_and_share(enc, y[s], t, MaskedShare(enc, y[r], t, FALSE)) /\ kept = ReplacedShare(t, FALSE)
      BY <2>2 DEF Taken
    <3> DEFINE taken == permute_and_share(enc, y[s], t, MaskedShare(enc, y[r], t, FALSE))
    <3>2. /\ taken \in Shares(m) /\ ReplacedShare(t, FALSE) \in Shares(m)
          /\ AddVectors(enc, taken, ReplacedShare(t, FALSE)) = Permuted(AddVectors(enc, y[s], y[r]), t.pi, FALSE)
      BY <1>2, <1>5, PermutedShares DEF Permuted
    <3>3. QED
      BY <1>2, <1>5, <2>2, <3>1, <3>2
  <2>3. QED
    BY <2>1, <2>2
<1> HIDE DEF new, kept
<1>7. z \in [{0, 1} -> Shares(m)] /\ z[s] = new /\ z[r] = kept
  BY <1>1, <1>3, <1>6
<1> HIDE DEF z
<1>8. AddVectors(enc, z[0], z[1]) = to
  <2>1. AddVectors(enc, new, kept) = AddVectors(enc, kept, new)
    BY <1>6, VectorSums
  <2>2. QED
    BY <1>1, <1>6, <1>7, <2>1
<1>9. Holds(m, enc, z, to)
  BY <1>7, <1>8 DEF Holds
<1>10. QED
  BY <1>9 DEF z, new, kept, r

\* The two shares the values are split into.
LEMMA SplitShares ==
    ASSUME NEW enc \in Encodings, NEW m \in Nat, NEW v \in Shares(m), NEW u \in Shares(m)
    PROVE  Holds(m, enc, [p \in {0, 1} |-> IF p = 0 THEN u ELSE SubVectors(enc, v, u)], v)
<1> DEFINE w == SubVectors(enc, v, u)
           x == [p \in {0, 1} |-> IF p = 0 THEN u ELSE w]
           sum == AddVectors(enc, u, w)
<1>1. w \in Shares(m) /\ \A i \in 1 .. m : w[i] = MinusIn(enc, v[i], u[i])
  BY VectorSums
<1> HIDE DEF w
<1>2. sum \in Shares(m) /\ \A i \in 1 .. m : sum[i] = PlusIn(enc, u[i], w[i])
  BY <1>1, VectorSums
<1> HIDE DEF sum
<1>3. ASSUME NEW a \in Residues, NEW b \in Residues PROVE PlusIn(enc, a, MinusIn(enc, b, a)) = b
  <2>1. CASE enc = "A"
    BY <2>1 DEF PlusIn, MinusIn, Residues, RING
  <2>2. CASE enc = "B"
    <3>1. a \in 0 .. 3 /\ b \in 0 .. 3
      BY FourResidues
    <3> DEFINE c == PlusIn("B", b, a)
               d == PlusIn("B", a, c)
    <3>2. c \in 0 .. 3 /\ c % 2 = ((b % 2) + (a % 2)) % 2 /\ c \div 2 = ((b \div 2) + (a \div 2)) % 2
      BY <3>1, BitsOfSum
    <3> HIDE DEF c
    <3>3. d \in 0 .. 3 /\ d % 2 = ((a % 2) + (c % 2)) % 2 /\ d \div 2 = ((a \div 2) + (c \div 2)) % 2
      BY <3>1, <3>2, BitsOfSum
    <3> HIDE DEF d
    <3>4. d = b
      BY <3>1, <3>2, <3>3
    <3>5. QED
      BY <2>2, <3>4 DEF MinusIn, c, d
  <2>3. QED
    BY <2>1, <2>2 DEF Encodings
<1>4. ASSUME NEW i \in 1 .. m PROVE sum[i] = v[i]
  <2>1. u[i] \in Residues /\ v[i] \in Residues
    BY DEF Shares
  <2>2. QED
    BY <1>1, <1>2, <1>3, <2>1
<1>5. sum = v
  BY <1>2, <1>4 DEF Shares
<1>6. x \in [{0, 1} -> Shares(m)] /\ x[0] = u /\ x[1] = w
  BY <1>1
<1> HIDE DEF x
<1>7. Holds(m, enc, x, v)
  BY <1>5, <1>6 DEF Holds, sum
<1>8. QED
  BY <1>7 DEF x, w

-----------------------------------------------------------------------------
(***************************************************************************)
(* gen_perm.  f holds the permutation after each of the first k draws d.   *)
(***************************************************************************)
Accepts(m, d, k) == d \in [1 .. k -> 0 .. m - 1] /\ \A i \in 1 .. k : ~Refused(m, i - 1, d[i])

Trace(m, d, k, f) ==
    /\ f \in [0 .. k -> PermutationsOf(m)]
    /\ f[0] = Identity(m)
    /\ \A i \in 1 .. k : f[i] = GenPermStep(f[i - 1], i - 1, d[i])

LEMMA IdentityIsPermutation ==
    ASSUME NEW m \in Nat PROVE Identity(m) \in PermutationsOf(m)
<1> DEFINE p == Identity(m)
<1>1. p = [i \in 1 .. m |-> i - 1]
  BY DEF Identity
<1> HIDE DEF p
<1>2. p \in [1 .. m -> 0 .. m - 1]
  BY <1>1
<1>3. Len(p) = m
  BY <1>2, VectorLength
<1>4. ASSUME NEW a \in 0 .. m - 1 PROVE \E i \in 1 .. m : p[i] = a
  <2>1. a + 1 \in 1 .. m /\ p[a + 1] = a
    BY <1>1
  <2>2. QED
    BY <2>1
<1>5. {p[i] : i \in 1 .. m} = 0 .. m - 1
  BY <1>2, <1>4
<1>6. QED
  BY <1>2, <1>3, <1>5 DEF PermutationsOf, IsPermutation, p

\* An accepted draw settles one more place with an element of the rest.
Settles(m, p, i, r, q) ==
    /\ q \in PermutationsOf(m) /\ i + r \in 1 .. m
    /\ q[i] = p[i + r]
    /\ \A k \in 1 .. m : k < i => q[k] = p[k]

LEMMA DrawSettles ==
    ASSUME NEW m \in Nat, NEW p \in PermutationsOf(m), NEW i \in 1 .. m, NEW r \in 0 .. m - 1, ~Refused(m, i - 1, r)
    PROVE  Settles(m, p, i, r, GenPermStep(p, i - 1, r))
<1> DEFINE b == i + r
           q == [p EXCEPT ![i] = p[b], ![b] = p[i]]
<1>1. r <= m - (i - 1) - 1
  BY DEF Refused
<1>2. b \in 1 .. m /\ i \in 1 .. m
  BY <1>1
<1>3. GenPermStep(p, i - 1, r) = q
  <2>1. (i - 1) + 1 = i /\ (i - 1) + r + 1 = b
    OBVIOUS
  <2>2. QED
    BY <2>1 DEF GenPermStep, SwapAt
<1>4. Onto(m, p)
  BY PermutationProperties
<1>5. p \in [1 .. m -> 0 .. m - 1] /\ \A a \in 1 .. m : \E j \in 1 .. m : p[j] + 1 = a
  BY <1>4 DEF Onto
<1>6. b >= i
  OBVIOUS
<1> HIDE DEF b
<1>7. /\ q \in [1 .. m -> 0 .. m - 1] /\ q[i] = p[b] /\ q[b] = p[i]
      /\ \A k \in 1 .. m : k # i /\ k # b => q[k] = p[k]
  BY <1>2, <1>5
<1> HIDE DEF q
<1>8. ASSUME NEW a \in 0 .. m - 1 PROVE \E k \in 1 .. m : q[k] = a
  <2>1. PICK j \in 1 .. m : p[j] + 1 = a + 1
    BY <1>5
  <2>2. p[j] = a
    <3>1. p[j] \in 0 .. m - 1
      BY <1>5
    <3>2. QED
      BY <2>1, <3>1
  <2>3. CASE j = i
    BY <1>2, <1>7, <2>2, <2>3
  <2>4. CASE j = b
    BY <1>2, <1>7, <2>2, <2>4
  <2>5. CASE j # i /\ j # b
    BY <1>7, <2>2, <2>5
  <2>6. QED
    BY <2>3, <2>4, <2>5
<1>9. {q[k] : k \in 1 .. m} = 0 .. m - 1
  BY <1>7, <1>8
<1>10. Len(q) = m
  BY <1>7, VectorLength
<1>11. q \in PermutationsOf(m)
  BY <1>7, <1>9, <1>10 DEF PermutationsOf, IsPermutation
<1>12. ASSUME NEW k \in 1 .. m, k < i PROVE q[k] = p[k]
  BY <1>2, <1>6, <1>7, <1>12
<1>13. Settles(m, p, i, r, q)
  BY <1>2, <1>7, <1>11, <1>12 DEF Settles, b
<1>14. QED
  BY <1>3, <1>13

LEMMA AcceptedForm ==
    ASSUME NEW m PROVE \A d : d \in AcceptedDraws(m) <=> Accepts(m, d, m)
  BY DEF AcceptedDraws, Accepts

\* Accepted draws lead somewhere.
LEMMA DrawsLead ==
    ASSUME NEW m \in Nat, NEW d, Accepts(m, d, m)
    PROVE  \E f : Trace(m, d, m, f)
<1> DEFINE P == PermutationsOf(m)
           step == [i \in 1 .. m |-> [p \in P |-> GenPermStep(p, i - 1, d[i])]]
           f == Recursor(m, P, Identity(m), step)
<1>1. ASSUME NEW i \in 1 .. m, NEW p \in P PROVE GenPermStep(p, i - 1, d[i]) \in P
  <2>1. d[i] \in 0 .. m - 1 /\ ~Refused(m, i - 1, d[i])
    BY DEF Accepts
  <2>2. Settles(m, p, i, d[i], GenPermStep(p, i - 1, d[i]))
    BY <2>1, DrawSettles
  <2>3. QED
    BY <2>2 DEF Settles
<1>2. Identity(m) \in P
  BY IdentityIsPermutation
<1> HIDE DEF P
<1>3. step \in [1 .. m -> [P -> P]]
  BY <1>1
<1> HIDE DEF step
<1>4. Recurs(f, m, P, Identity(m), step)
  BY <1>2, <1>3, BoundedRecursion, Zenon
<1> HIDE DEF f
<1>5. f \in [0 .. m -> P] /\ f[0] = Identity(m) /\ \A i \in 1 .. m : f[i] = step[i][f[i - 1]]
  BY <1>4 DEF Recurs
<1>6. \A i \in 1 .. m : f[i - 1] \in P
  BY <1>5
<1>7. \A i \in 1 .. m : f[i] = GenPermStep(f[i - 1], i - 1, d[i])
  BY <1>5, <1>6, Zenon DEF step
<1>8. Trace(m, d, m, f)
  BY <1>5, <1>7 DEF Trace, P
<1>9. QED
  BY <1>8

\* What gen_perm returns is where they lead.
LEMMA DrawsGive ==
    ASSUME NEW m \in Nat, NEW d, NEW f, Trace(m, d, m, f)
    PROVE  gen_perm(m, d) = f[m]
<1> DEFINE body(g) == [i \in 0 .. m |-> IF i = 0 THEN Identity(m) ELSE GenPermStep(g[i - 1], i - 1, d[i])]
<1>1. /\ f \in [0 .. m -> PermutationsOf(m)] /\ f[0] = Identity(m)
      /\ \A i \in 1 .. m : f[i] = GenPermStep(f[i - 1], i - 1, d[i])
  BY DEF Trace
<1>2. f = body(f)
  <2>1. \A i \in 0 .. m : i # 0 => i \in 1 .. m
    OBVIOUS
  <2>2. \A i \in 0 .. m : f[i] = body(f)[i]
    BY <1>1, <2>1, Zenon
  <2>3. body(f) = [i \in 0 .. m |-> body(f)[i]]
    BY Zenon
  <2>4. f = [i \in 0 .. m |-> f[i]]
    BY <1>1
  <2>5. QED
    BY <2>2, <2>3, <2>4, Zenon
<1> DEFINE g == CHOOSE h : h = body(h)
<1>3. g = body(g)
  BY <1>2, Zenon
<1>4. gen_perm(m, d) = g[m]
  BY Zenon DEF gen_perm
<1> HIDE DEF g
<1>5. g[0] = Identity(m) /\ \A i \in 1 .. m : g[i] = GenPermStep(g[i - 1], i - 1, d[i])
  <2>1. \A i \in 0 .. m : g[i] = IF i = 0 THEN Identity(m) ELSE GenPermStep(g[i - 1], i - 1, d[i])
    BY <1>3, Zenon
  <2>2. 0 \in 0 .. m /\ \A i \in 1 .. m : i \in 0 .. m /\ i # 0
    OBVIOUS
  <2>3. QED
    BY <2>1, <2>2, Zenon
<1> HIDE DEF body
<1> DEFINE S == {i \in Nat : g[i] = f[i]}
<1>6. 0 \in S /\ \A i \in 1 .. m : i - 1 \in S => i \in S
  BY <1>1, <1>5
<1> HIDE DEF S
<1>7. \A i \in 0 .. m : i \in S
  BY <1>6, BoundedInduction
<1>8. m \in S
  BY <1>7
<1>9. QED
  BY <1>4, <1>8 DEF S

\* A place that is settled stays so.
LEMMA SettledStays ==
    ASSUME NEW m \in Nat, NEW d, Accepts(m, d, m), NEW f, Trace(m, d, m, f), NEW i \in 1 .. m
    PROVE  /\ f[i - 1] \in PermutationsOf(m) /\ i + d[i] \in 1 .. m /\ d[i] \in Int
           /\ f[m][i] = f[i - 1][i + d[i]]
<1>1. ASSUME NEW k \in 1 .. m
      PROVE  f[k - 1] \in PermutationsOf(m) /\ Settles(m, f[k - 1], k, d[k], f[k])
  <2>1. d[k] \in 0 .. m - 1 /\ ~Refused(m, k - 1, d[k]) /\ f[k - 1] \in PermutationsOf(m)
    BY DEF Accepts, Trace
  <2>2. f[k] = GenPermStep(f[k - 1], k - 1, d[k])
    BY DEF Trace
  <2>3. QED
    BY <2>1, <2>2, DrawSettles
<1> DEFINE S == {k \in 0 .. m : k >= i => f[k][i] = f[i][i]}
<1>2. 0 \in S
  OBVIOUS
<1>3. ASSUME NEW k \in 1 .. m, k - 1 \in S PROVE k \in S
  <2>1. CASE k <= i
    BY <2>1
  <2>2. CASE k > i
    <3>1. f[k - 1][i] = f[i][i]
      BY <1>3, <2>2
    <3>2. f[k][i] = f[k - 1][i]
      BY <1>1, <2>2 DEF Settles
    <3>3. QED
      BY <3>1, <3>2
  <2>3. QED
    BY <2>1, <2>2
<1> HIDE DEF S
<1>4. \A k \in 0 .. m : k \in S
  BY <1>2, <1>3, BoundedInduction
<1>5. m \in S
  BY <1>4
<1>6. f[m][i] = f[i][i]
  BY <1>5 DEF S
<1>7. Settles(m, f[i - 1], i, d[i], f[i]) /\ f[i - 1] \in PermutationsOf(m)
  BY <1>1
<1>8. d[i] \in Int
  BY DEF Accepts
<1>9. QED
  BY <1>6, <1>7, <1>8 DEF Settles

\* Different draws lead to different permutations.
LEMMA DrawsDiffer ==
    ASSUME NEW m \in Nat, NEW d, Accepts(m, d, m), NEW e, Accepts(m, e, m),
           NEW f, Trace(m, d, m, f), NEW h, Trace(m, e, m, h), f[m] = h[m]
    PROVE  d = e
<1> DEFINE S == {k \in 0 .. m : f[k] = h[k] /\ \A i \in 1 .. k : d[i] = e[i]}
<1>1. 0 \in S
  BY DEF Trace
<1>2. ASSUME NEW k \in 1 .. m, k - 1 \in S PROVE k \in S
  <2> DEFINE q == f[k - 1]
  <2>1. q = h[k - 1] /\ \A i \in 1 .. k - 1 : d[i] = e[i]
    BY <1>2
  <2>2. q \in PermutationsOf(m) /\ k + d[k] \in 1 .. m /\ d[k] \in Int /\ f[m][k] = q[k + d[k]]
    BY SettledStays
  <2>3. k + e[k] \in 1 .. m /\ e[k] \in Int /\ h[m][k] = q[k + e[k]]
    BY <2>1, SettledStays
  <2> HIDE DEF q
  <2>4. Onto(m, q)
    BY <2>2, PermutationProperties
  <2>5. k + d[k] = k + e[k]
    <3>1. q[k + d[k]] = q[k + e[k]]
      BY <2>2, <2>3
    <3>2. \A a, b \in 1 .. m : q[a] = q[b] => a = b
      BY <2>4 DEF Onto
    <3> DEFINE a == k + d[k]
               b == k + e[k]
    <3>3. a \in 1 .. m /\ b \in 1 .. m /\ q[a] = q[b]
      BY <2>2, <2>3, <3>1
    <3> HIDE DEF a, b
    <3>4. a = b
      BY <3>2, <3>3
    <3>5. QED
      BY <3>4 DEF a, b
  <2>6. d[k] = e[k]
    BY <2>2, <2>3, <2>5
  <2>7. f[k] = GenPermStep(q, k - 1, d[k]) /\ h[k] = GenPermStep(q, k - 1, e[k])
    BY <2>1 DEF Trace, q
  <2>8. f[k] = h[k]
    BY <2>6, <2>7
  <2>9. \A i \in 1 .. k : d[i] = e[i]
    BY <2>1, <2>6
  <2>10. QED
    BY <2>8, <2>9
<1> HIDE DEF S
<1>3. \A k \in 0 .. m : k \in S
  BY <1>1, <1>2, BoundedInduction
<1>4. m \in S
  BY <1>3
<1>5. \A i \in 1 .. m : d[i] = e[i]
  BY <1>4 DEF S
<1>6. d \in [1 .. m -> 0 .. m - 1] /\ e \in [1 .. m -> 0 .. m - 1]
  BY DEF Accepts
<1>7. QED
  BY <1>5, <1>6

\* A permutation is drawn from one sequence of accepted draws only.
LEMMA DrawnOnce ==
    ASSUME NEW m \in Nat, NEW d, Accepts(m, d, m), NEW f, Trace(m, d, m, f)
    PROVE  {e \in AcceptedDraws(m) : gen_perm(m, e) = f[m]} = {d}
<1>1. gen_perm(m, d) = f[m] /\ d \in AcceptedDraws(m)
  BY DrawsGive, AcceptedForm
<1>2. ASSUME NEW e \in AcceptedDraws(m), gen_perm(m, e) = f[m] PROVE e = d
  <2>1. Accepts(m, e, m)
    BY AcceptedForm
  <2>2. PICK h : Trace(m, e, m, h)
    BY <2>1, DrawsLead
  <2>3. h[m] = f[m]
    BY <1>2, <2>2, DrawsGive
  <2>4. QED
    BY <2>1, <2>2, <2>3, DrawsDiffer
<1>3. QED
  BY <1>1, <1>2

-----------------------------------------------------------------------------
(***************************************************************************)
(* A table is moved column by column, each under the mask, and its rows    *)
(* stay together.                                                          *)
(***************************************************************************)
Columnwise(rs, p, q) ==
    [k \in 1 .. Len(rs) |-> [c \in DOMAIN rs[1] |->
        oblivious_apply_elementwise_perm([i \in 1 .. Len(rs) |-> rs[i][c]], p, q)[k]]]

LEMMA RowsMoved ==
    ASSUME NEW m \in Nat, NEW p \in PermutationsOf(m), NEW q \in PermutationsOf(m), NEW rs,
           Len(rs) = m, rs = [k \in 1 .. m |-> rs[k]],
           \A k \in 1 .. m : rs[k] = [c \in DOMAIN rs[1] |-> rs[k][c]]
    PROVE  Moved(m, {rs[k] : k \in 1 .. m}, rs, p, Columnwise(rs, p, q))
<1> DEFINE D == DOMAIN rs[1]
           col(c) == [i \in 1 .. m |-> rs[i][c]]
           new(c) == oblivious_apply_elementwise_perm(col(c), p, q)
           w == [k \in 1 .. m |-> [c \in D |-> new(c)[k]]]
<1>1. Columnwise(rs, p, q) = w
  BY DEF Columnwise
<1>2. Onto(m, p)
  BY PermutationProperties
<1>3. ASSUME NEW c, NEW i \in 1 .. m PROVE new(c)[p[i] + 1] = rs[i][c]
  <2> DEFINE S == {rs[k][c] : k \in 1 .. m}
             x == col(c)
  <2>1. x \in [1 .. m -> S] /\ x[i] = rs[i][c]
    OBVIOUS
  <2> HIDE DEF x, S
  <2>2. oblivious_apply_elementwise_perm(x, p, q) = local_apply_perm(x, p)
    BY ONLY m \in Nat, p \in PermutationsOf(m), q \in PermutationsOf(m), <2>1, ObliviousApplied
  <2>3. Moved(m, S, x, p, local_apply_perm(x, p))
    BY <2>1, Applied
  <2>4. local_apply_perm(x, p)[p[i] + 1] = x[i]
    BY <2>3 DEF Moved
  <2>5. QED
    BY <2>1, <2>2, <2>4 DEF x
<1> HIDE DEF new
<1>4. ASSUME NEW i \in 1 .. m PROVE w[p[i] + 1] = rs[i]
  <2>1. p[i] + 1 \in 1 .. m
    BY <1>2 DEF Onto
  <2>2. w[p[i] + 1] = [c \in D |-> new(c)[p[i] + 1]]
    BY <2>1
  <2>3. \A c \in D : new(c)[p[i] + 1] = rs[i][c]
    BY <1>3
  <2>4. rs[i] = [c \in D |-> rs[i][c]]
    OBVIOUS
  <2> HIDE DEF D, w
  <2>5. QED
    BY <2>2, <2>3, <2>4
<1> DEFINE E == {rs[k] : k \in 1 .. m}
<1>5. w = [k \in 1 .. m |-> w[k]]
  OBVIOUS
<1> HIDE DEF w
<1>6. ASSUME NEW k \in 1 .. m PROVE w[k] \in E
  <2>1. PICK i \in 1 .. m : p[i] + 1 = k
    BY <1>2 DEF Onto
  <2>2. QED
    BY <1>4, <2>1
<1> HIDE DEF E
<1>7. w \in [1 .. m -> E]
  BY <1>5, <1>6
<1>8. Moved(m, E, rs, p, w)
  BY <1>4, <1>7 DEF Moved
<1>9. QED
  BY <1>1, <1>8 DEF E

-----------------------------------------------------------------------------
(***************************************************************************)
(* The inductive invariant of ShufflesKeepRows and DrawnUniformly: where a *)
(* shuffle or a sharded permutation is, what its parties hold is what the  *)
(* steps so far make of the rows; a permutation that is being drawn is     *)
(* what the draws so far lead to.                                          *)
(***************************************************************************)
Fresh(j, ph, rs, lc) == ph = "start" => lc = NoLocals /\ rs = j.rows

ShuffleInv(j, ph, rs, lc) ==
    j.op = "shuffle" =>
        \/ ph = "start"
        \/ ph = "apply" /\ rs = j.rows /\ lc.sort_permutation \in PermutationsOf(Len(j.rows))
        \/ ph = "done" /\ Bag(rs) = Bag(j.rows)

\* A share that is masked and on its way has been replaced already.
Sending(j, lc) ==
    LET st == DMSteps[lc.i + 1]
        t == j.tuples[st.sender]
    IN  \E y \in [{0, 1} -> Shares(Len(j.rows))] :
            /\ Holds(Len(j.rows), j.encoding, y, Staged(j)[lc.i])
            /\ lc.delta = MaskedShare(j.encoding, y[1 - st.sender], t, st.inverse)
            /\ lc.shares = [y EXCEPT ![1 - st.sender] = ReplacedShare(t, st.inverse)]

DMInv(j, ph, rs, lc) ==
    j.op = "dm" =>
        \/ ph = "start"
        \/ /\ rs = j.rows /\ DOMAIN lc = DOMAIN NoLocals
           /\ \/ ph = "dm_send" /\ lc.i \in 0 .. 3 /\ Holds(Len(j.rows), j.encoding, lc.shares, Staged(j)[lc.i])
              \/ ph = "dm_receive" /\ lc.i \in 0 .. 3 /\ Sending(j, lc)
              \/ ph = "done" /\ Holds(Len(j.rows), j.encoding, lc.shares, j.rows)

Replicas(j, i) ==
    [p \in 0 .. j.parties - 1 |-> Passed(j.rows, j.perms)[IF i <= j.parties THEN i ELSE 2 * j.parties - i]]

HMInv(j, ph, rs, lc) ==
    j.op = "hm" =>
        \/ ph = "start"
        \/ /\ rs = j.rows /\ DOMAIN lc = DOMAIN NoLocals
           /\ \/ ph = "groups" /\ lc.i \in 0 .. 2 * j.parties - 1 /\ lc.shares = Replicas(j, lc.i)
              \/ ph = "done" /\ lc.shares = [p \in 0 .. j.parties - 1 |-> j.rows]

Drawing(m, lc) ==
    /\ Accepts(m, lc.draws, lc.i)
    /\ \E f : Trace(m, lc.draws, lc.i, f) /\ lc.permutation = f[lc.i]

DrawInv(j, ph, rs, lc) ==
    j.op = "gen_perm" =>
        \/ ph = "start"
        \/ /\ rs = j.rows /\ DOMAIN lc = DOMAIN NoLocals
           /\ lc.i \in 0 .. Len(j.rows) /\ Drawing(Len(j.rows), lc)
           /\ ph = "draw" \/ (ph = "done" /\ lc.i = Len(j.rows))

Good(j, ph, rs, lc) ==
    /\ Fresh(j, ph, rs, lc) /\ ShuffleInv(j, ph, rs, lc)
    /\ DMInv(j, ph, rs, lc) /\ HMInv(j, ph, rs, lc) /\ DrawInv(j, ph, rs, lc)

OperatorsInv ==
    /\ program \in Programs /\ at \in 1 .. Len(program)
    /\ Good(job, phase, rows, loc)

LEMMA JobsFit ==
    ASSUME program \in Programs, at \in 1 .. Len(program)
    PROVE  JobFits(job) /\ Len(program) \in Nat
  BY ProgramsFit DEF job

LEMMA InitInv == Init => OperatorsInv
<1> SUFFICES ASSUME Init PROVE OperatorsInv
  OBVIOUS
<1>1. program \in Programs /\ at = 1 /\ phase = "start" /\ rows = program[1].rows /\ loc = NoLocals
  BY DEF Init
<1>2. at \in 1 .. Len(program)
  BY <1>1, ProgramsFit
<1>3. job = program[1]
  BY <1>1 DEF job
<1>4. Good(job, phase, rows, loc)
  BY <1>1, <1>3 DEF Good, Fresh, ShuffleInv, DMInv, HMInv, DrawInv
<1>5. QED
  BY <1>1, <1>2, <1>4 DEF OperatorsInv

\* A job that has just been started, whatever it is, is as it should be.
LEMMA StartIsGood ==
    ASSUME NEW j PROVE Good(j, "start", j.rows, NoLocals)
  BY DEF Good, Fresh, ShuffleInv, DMInv, HMInv, DrawInv

LEMMA NextJobInv == OperatorsInv /\ NextJob => OperatorsInv'
<1> SUFFICES ASSUME OperatorsInv, NextJob PROVE OperatorsInv'
  OBVIOUS
<1>1. /\ at' = at + 1 /\ phase' = "start" /\ rows' = program[at'].rows /\ loc' = NoLocals
      /\ program' = program /\ at < Len(program)
  BY DEF NextJob
<1>2. program \in Programs /\ at \in 1 .. Len(program) /\ Len(program) \in Nat
  BY JobsFit DEF OperatorsInv
<1>3. at' \in 1 .. Len(program')
  BY <1>1, <1>2
<1>4. job' = program[at']
  BY <1>1 DEF job
<1>5. Good(job', phase', rows', loc')
  BY <1>1, <1>4, StartIsGood
<1>6. QED
  BY <1>1, <1>2, <1>3, <1>5 DEF OperatorsInv

(***************************************************************************)
(* Shuffling a table.                                                      *)
(***************************************************************************)
\* What the job is, in a state of the invariant.
LEMMA Unfolded ==
    ASSUME OperatorsInv
    PROVE  /\ program \in Programs /\ at \in 1 .. Len(program) /\ JobFits(job)
           /\ Fresh(job, phase, rows, loc) /\ ShuffleInv(job, phase, rows, loc)
           /\ DMInv(job, phase, rows, loc) /\ HMInv(job, phase, rows, loc) /\ DrawInv(job, phase, rows, loc)
  BY JobsFit DEF OperatorsInv, Good

\* A step within a job need only be looked at for that job's part.
LEMMA Folded ==
    ASSUME OperatorsInv, program' = program, at' = at, phase' # "start",
           \/ job.op \notin {"shuffle", "dm", "hm", "gen_perm"}
           \/ job.op = "shuffle" /\ ShuffleInv(job, phase', rows', loc')
           \/ job.op = "dm" /\ DMInv(job, phase', rows', loc')
           \/ job.op = "hm" /\ HMInv(job, phase', rows', loc')
           \/ job.op = "gen_perm" /\ DrawInv(job, phase', rows', loc')
    PROVE  OperatorsInv'
<1>1. job' = job /\ program' \in Programs /\ at' \in 1 .. Len(program')
  BY DEF job, OperatorsInv
<1>2. Good(job, phase', rows', loc')
  BY DEF Good, Fresh, ShuffleInv, DMInv, HMInv, DrawInv
<1>3. QED
  BY <1>1, <1>2 DEF OperatorsInv

LEMMA ShuffleColumnsInv == OperatorsInv /\ ShuffleColumns => OperatorsInv'
<1> SUFFICES ASSUME OperatorsInv, ShuffleColumns PROVE OperatorsInv'
  OBVIOUS
<1> DEFINE m == Len(job.rows)
<1>1. phase = "start" /\ job.op = "shuffle" /\ phase' = "apply" /\ program' = program /\ at' = at /\ rows' = rows
  BY DEF ShuffleColumns, Starts, Goto
<1>2. JobFits(job) /\ loc = NoLocals /\ rows = job.rows
  BY <1>1, Unfolded DEF Fresh
<1>3. m \in Nat /\ Shuffles(job, m) \subseteq PermutationsOf(m) /\ n = m
  BY <1>1, <1>2 DEF JobFits, ShuffleFits, n
<1>4. PICK pi \in Shuffles(job, n) : loc' = [loc EXCEPT !.sort_permutation = local_apply_perm(Identity(n), pi)]
  BY DEF ShuffleColumns
<1>5. loc'.sort_permutation = local_apply_perm(Identity(m), pi)
  BY <1>2, <1>3, <1>4 DEF NoLocals
<1> HIDE DEF m
<1>6. pi \in PermutationsOf(m) /\ Identity(m) \in PermutationsOf(m)
  BY <1>3, <1>4, IdentityIsPermutation
<1>7. local_apply_perm(Identity(m), pi) \in PermutationsOf(m)
  BY ONLY <1>3, <1>6, MovedPermutation
<1>8. ShuffleInv(job, phase', rows', loc')
  BY <1>1, <1>2, <1>5, <1>7 DEF ShuffleInv, m
<1>9. QED
  BY <1>1, <1>8, Folded

LEMMA ApplyToColumnsInv == OperatorsInv /\ ApplyToColumns => OperatorsInv'
<1> SUFFICES ASSUME OperatorsInv, ApplyToColumns PROVE OperatorsInv'
  OBVIOUS
<1>1. phase = "apply" /\ phase' = "done" /\ program' = program /\ at' = at /\ loc' = loc
  BY DEF ApplyToColumns, Goto
<1>2. CASE job.op = "shuffle"
  <2> DEFINE m == Len(job.rows)
             p == loc.sort_permutation
  <2>1. JobFits(job) /\ rows = job.rows /\ p \in PermutationsOf(m)
    BY <1>1, <1>2, Unfolded DEF ShuffleInv
  <2>2. /\ m \in Nat /\ MaskOf(job.parties, m) \in PermutationsOf(m) /\ rows = [k \in 1 .. m |-> rows[k]]
        /\ \A k \in 1 .. m : rows[k] = [c \in DOMAIN rows[1] |-> rows[k][c]]
    BY <1>2, <2>1 DEF JobFits, ShuffleFits
  <2>3. n = m /\ Len(rows) = m /\ Mask = MaskOf(job.parties, m)
    BY <2>1 DEF n, Mask
  <2>4. rows' = Columnwise(rows, p, Mask)
    BY DEF ApplyToColumns, Columnwise, Values, n
  <2> HIDE DEF m, p
  <2>5. Moved(m, {rows[k] : k \in 1 .. m}, rows, p, rows')
    BY <2>1, <2>2, <2>3, <2>4, RowsMoved
  <2> DEFINE E == {rows[k] : k \in 1 .. m}
  <2>6. rows \in [1 .. m -> E]
    BY <2>2
  <2> HIDE DEF E
  <2>7. Moved(m, E, rows, p, rows')
    BY <2>5 DEF E
  <2>8. Bag(rows') = Bag(rows)
    BY ONLY <2>1, <2>2, <2>6, <2>7, BagKept
  <2>9. ShuffleInv(job, phase', rows', loc')
    BY <1>1, <2>1, <2>8 DEF ShuffleInv
  <2>10. QED
    BY <1>1, <1>2, <2>9, Folded
<1>3. CASE job.op # "shuffle"
  <2>1. job.op # "dm" /\ job.op # "hm" /\ job.op # "gen_perm"
    BY <1>1, Unfolded DEF DMInv, HMInv, DrawInv
  <2>2. QED
    BY <1>1, <1>3, <2>1, Folded
<1>4. QED
  BY <1>2, <1>3

(***************************************************************************)
(* Two parties.                                                            *)
(***************************************************************************)
LEMMA ApplyDMShardedPermInv == OperatorsInv /\ ApplyDMShardedPerm => OperatorsInv'
<1> SUFFICES ASSUME OperatorsInv, ApplyDMShardedPerm PROVE OperatorsInv'
  OBVIOUS
<1> DEFINE m == Len(job.rows)
           x == [p \in {0, 1} |-> IF p = 0 THEN job.share ELSE SubVectors(job.encoding, rows, job.share)]
<1>1. /\ phase = "start" /\ job.op = "dm" /\ phase' = "dm_send" /\ program' = program /\ at' = at /\ rows' = rows
      /\ loc' = [loc EXCEPT !.shares = x]
  BY DEF ApplyDMShardedPerm, Starts, Goto
<1>2. JobFits(job) /\ loc = NoLocals /\ rows = job.rows
  BY <1>1, Unfolded DEF Fresh
<1>3. m \in Nat /\ job.encoding \in Encodings /\ rows \in Shares(m) /\ job.share \in Shares(m)
  BY <1>1, <1>2 DEF JobFits, DMFits
<1>4. DOMAIN loc' = DOMAIN NoLocals /\ loc'.shares = x /\ loc'.i = 0
  BY <1>1, <1>2 DEF NoLocals
<1>5. Holds(m, job.encoding, x, rows)
  BY <1>3, SplitShares
<1> HIDE DEF x
<1>6. Staged(job)[0] = job.rows
  BY DEF Staged
<1>7. DMInv(job, phase', rows', loc')
  BY <1>1, <1>2, <1>4, <1>5, <1>6 DEF DMInv
<1>8. QED
  BY <1>1, <1>7, Folded

LEMMA ReceiverMasksInv == OperatorsInv /\ ReceiverMasks => OperatorsInv'
<1> SUFFICES ASSUME OperatorsInv, ReceiverMasks PROVE OperatorsInv'
  OBVIOUS
<1> DEFINE m == Len(job.rows)
           st == DMSteps[loc.i + 1]
           t == job.tuples[st.sender]
           r == 1 - st.sender
           d == MaskedShare(job.encoding, loc.shares[r], t, st.inverse)
           b == ReplacedShare(t, st.inverse)
<1>1. /\ phase = "dm_send" /\ phase' = "dm_receive" /\ program' = program /\ at' = at /\ rows' = rows
      /\ loc' = [loc EXCEPT !.delta = d, !.shares[r] = b]
  BY DEF ReceiverMasks, Goto, DMStep
<1>2. CASE job.op = "dm"
  <2>1. /\ rows = job.rows /\ DOMAIN loc = DOMAIN NoLocals /\ loc.i \in 0 .. 3
        /\ Holds(m, job.encoding, loc.shares, Staged(job)[loc.i])
    BY <1>1, <1>2, Unfolded DEF DMInv
  <2>2. loc.shares \in [{0, 1} -> Shares(m)]
    BY <2>1 DEF Holds
  <2> HIDE DEF d, b, r
  <2>3. DOMAIN loc' = DOMAIN NoLocals /\ loc'.i = loc.i /\ loc'.delta = d /\ loc'.shares = [loc.shares EXCEPT ![r] = b]
    BY <1>1, <2>1 DEF NoLocals
  <2>4. Sending(job, loc')
    BY <2>1, <2>2, <2>3 DEF Sending, d, b, r
  <2>5. DMInv(job, phase', rows', loc')
    BY <1>1, <2>1, <2>3, <2>4 DEF DMInv
  <2>6. QED
    BY <1>1, <1>2, <2>5, Folded
<1>3. CASE job.op # "dm"
  <2>1. job.op # "shuffle" /\ job.op # "hm" /\ job.op # "gen_perm"
    BY <1>1, Unfolded DEF ShuffleInv, HMInv, DrawInv
  <2>2. QED
    BY <1>1, <1>3, <2>1, Folded
<1>4. QED
  BY <1>2, <1>3

LEMMA SenderPermutesInv == OperatorsInv /\ SenderPermutes => OperatorsInv'
<1> SUFFICES ASSUME OperatorsInv, SenderPermutes PROVE OperatorsInv'
  OBVIOUS
<1> DEFINE m == Len(job.rows)
           enc == job.encoding
           st == DMSteps[loc.i + 1]
           s == st.sender
           t == job.tuples[s]
           a == Taken(enc, t, st.inverse, loc.shares[s], loc.delta)
<1>1. /\ phase = "dm_receive" /\ program' = program /\ at' = at /\ rows' = rows
      /\ loc' = [loc EXCEPT !.i = @ + 1, !.shares[s] = a]
      /\ phase' = IF loc'.i = Len(DMSteps) THEN "done" ELSE "dm_send"
  BY DEF SenderPermutes, Goto, DMStep, Taken
<1>2. CASE job.op = "dm"
  <2>1. JobFits(job) /\ rows = job.rows /\ DOMAIN loc = DOMAIN NoLocals /\ loc.i \in 0 .. 3 /\ Sending(job, loc)
    BY <1>1, <1>2, Unfolded DEF DMInv
  <2>2. m \in Nat /\ enc \in Encodings
    BY <1>2, <2>1 DEF JobFits, DMFits
  <2>3. /\ s \in {0, 1} /\ st.inverse \in BOOLEAN
        /\ Permutes(m, enc, t, st.inverse, Staged(job)[loc.i], Staged(job)[loc.i + 1])
    BY <1>2, <2>1, StagedOn
  <2>4. PICK y \in [{0, 1} -> Shares(m)] :
            /\ Holds(m, enc, y, Staged(job)[loc.i])
            /\ loc.delta = MaskedShare(enc, y[1 - s], t, st.inverse)
            /\ loc.shares = [y EXCEPT ![1 - s] = ReplacedShare(t, st.inverse)]
    BY <2>1 DEF Sending
  <2> DEFINE z == [loc.shares EXCEPT ![s] = a]
             inverse == st.inverse
             from == Staged(job)[loc.i]
             to == Staged(job)[loc.i + 1]
  <2>5. loc.shares[s] = y[s]
    BY <2>3, <2>4
  <2>6. z = [[y EXCEPT ![1 - s] = ReplacedShare(t, inverse)]
                EXCEPT ![s] = Taken(enc, t, inverse, y[s], MaskedShare(enc, y[1 - s], t, inverse))]
    BY <2>4, <2>5
  <2>7. inverse \in BOOLEAN /\ Permutes(m, enc, t, inverse, from, to) /\ Holds(m, enc, y, from)
    BY <2>3, <2>4
  <2> HIDE DEF z, a, t, inverse, from, to, s, m, enc
  <2>8. Holds(m, enc, z, to)
    BY ONLY <2>2, <2>3, <2>6, <2>7, ShardedStep
  <2>9. DOMAIN loc' = DOMAIN NoLocals /\ loc'.i = loc.i + 1 /\ loc'.shares = z
    BY <1>1, <2>1 DEF NoLocals, z
  <2>10. Len(DMSteps) = 4
    BY DEF DMSteps
  <2>11. CASE loc.i = 3
    <3>1. phase' = "done" /\ loc.i + 1 = 4
      BY <1>1, <2>9, <2>10, <2>11
    <3>2. to = job.rows
      BY <3>1 DEF Staged, to
    <3>3. DMInv(job, phase', rows', loc')
      BY <1>1, <2>1, <2>8, <2>9, <3>1, <3>2 DEF DMInv, m, enc
    <3>4. QED
      BY <1>1, <1>2, <3>1, <3>3, Folded
  <2>12. CASE loc.i # 3
    <3>1. phase' = "dm_send" /\ loc.i + 1 \in 0 .. 3
      BY <1>1, <2>1, <2>9, <2>10, <2>12
    <3>2. DMInv(job, phase', rows', loc')
      BY <1>1, <2>1, <2>8, <2>9, <3>1 DEF DMInv, m, enc, to
    <3>3. QED
      BY <1>1, <1>2, <3>1, <3>2, Folded
  <2>13. QED
    BY <2>11, <2>12
<1>3. CASE job.op # "dm"
  <2>1. job.op # "shuffle" /\ job.op # "hm" /\ job.op # "gen_perm" /\ phase' # "start"
    BY <1>1, Unfolded DEF ShuffleInv, HMInv, DrawInv
  <2>2. QED
    BY <1>1, <1>3, <2>1, Folded
<1>4. QED
  BY <1>2, <1>3

(***************************************************************************)
(* More parties.                                                           *)
(***************************************************************************)
LEMMA ApplyHMShardedPermInv == OperatorsInv /\ ApplyHMShardedPerm => OperatorsInv'
<1> SUFFICES ASSUME OperatorsInv, ApplyHMShardedPerm PROVE OperatorsInv'
  OBVIOUS
<1> DEFINE x == [p \in 0 .. job.parties - 1 |-> rows]
<1>1. /\ phase = "start" /\ job.op = "hm" /\ phase' = "groups" /\ program' = program /\ at' = at /\ rows' = rows
      /\ loc' = [loc EXCEPT !.shares = x]
  BY DEF ApplyHMShardedPerm, Starts, Goto
<1>2. JobFits(job) /\ loc = NoLocals /\ rows = job.rows
  BY <1>1, Unfolded DEF Fresh
<1>3. job.parties \in {3, 4}
  BY <1>1, <1>2 DEF JobFits, HMFits
<1>4. DOMAIN loc' = DOMAIN NoLocals /\ loc'.shares = x /\ loc'.i = 0
  BY <1>1, <1>2 DEF NoLocals
<1>5. Passed(job.rows, job.perms)[0] = job.rows
  BY DEF Passed
<1>6. Replicas(job, 0) = x
  BY <1>2, <1>3, <1>5 DEF Replicas
<1>7. HMInv(job, phase', rows', loc')
  BY <1>1, <1>2, <1>3, <1>4, <1>6 DEF HMInv
<1>8. QED
  BY <1>1, <1>7, Folded

LEMMA GroupStepInv == OperatorsInv /\ GroupStep => OperatorsInv'
<1> SUFFICES ASSUME OperatorsInv, GroupStep PROVE OperatorsInv'
  OBVIOUS
<1> DEFINE L == job.parties
           Q == 0 .. L - 1
           groups == getGroups(L)
           inverse == loc.i >= Len(groups)
           g == IF inverse THEN 2 * Len(groups) - loc.i ELSE loc.i + 1
           x == GroupPermutes(loc.shares, groups[g], job.perms[g], inverse)
<1>1. /\ phase = "groups" /\ program' = program /\ at' = at /\ rows' = rows
      /\ loc' = [loc EXCEPT !.i = @ + 1, !.shares = x]
      /\ phase' = IF loc'.i = 2 * Len(groups) THEN "done" ELSE "groups"
  BY DEF GroupStep, Goto
<1>2. CASE job.op = "hm"
  <2> DEFINE m == Len(job.rows)
             P == job.perms
             v == job.rows
             s == Passed(v, P)
             i == loc.i
             E == {v[k] : k \in 1 .. m}
  <2>1. /\ JobFits(job) /\ rows = v /\ DOMAIN loc = DOMAIN NoLocals /\ i \in 0 .. 2 * L - 1
        /\ loc.shares = Replicas(job, i)
    BY <1>1, <1>2, Unfolded DEF HMInv
  <2>2. m \in Nat /\ L \in {3, 4} /\ (\A h \in 1 .. L : P[h] \in PermutationsOf(m)) /\ v = [k \in 1 .. m |-> v[k]]
    BY <1>2, <2>1 DEF JobFits, HMFits
  <2>3. Len(groups) = L /\ \A h \in 1 .. L : groups[h] \in SUBSET Q /\ groups[h] # {}
    <3>1. CASE L = 3
      BY <3>1, GroupsOfParties
    <3>2. CASE L = 4
      BY <3>2, GroupsOfParties
    <3>3. QED
      BY <2>2, <3>1, <3>2
  <2>4. v \in [1 .. m -> E]
    BY <2>2
  <2>5. loc.shares = [q \in Q |-> s[IF i <= L THEN i ELSE 2 * L - i]]
    BY <2>1 DEF Replicas
  <2> HIDE DEF E, m, v, P, s
  <2>6. /\ s[0] = v
        /\ \A h \in 1 .. L : /\ s[h] = local_apply_perm(s[h - 1], P[h])
                             /\ local_apply_inverse_perm(s[h], P[h]) = s[h - 1]
    <3>1. PassesOn(v, P, L)
      BY ONLY <2>2, <2>4, PassedOn
    <3>2. QED
      BY <3>1 DEF PassesOn, s
  <2>7. DOMAIN loc' = DOMAIN NoLocals /\ loc'.i = i + 1 /\ loc'.shares = x
    BY <1>1, <2>1 DEF NoLocals
  <2>8. x = [q \in Q |-> s[IF i + 1 <= L THEN i + 1 ELSE 2 * L - (i + 1)]]
    <3> DEFINE b == IF i <= L THEN i ELSE 2 * L - i
               e == IF i + 1 <= L THEN i + 1 ELSE 2 * L - (i + 1)
    <3>1. (inverse <=> i >= L) /\ g = IF i >= L THEN 2 * L - i ELSE i + 1
      BY <2>3
    <3> HIDE DEF groups, g, inverse
    <3>2. g \in 1 .. L /\ Permuted(s[b], P[g], inverse) = s[e]
      <4>1. CASE i < L
        <5>1. i \in Nat /\ i < L /\ ~(i >= L) /\ L \in Nat
          BY <2>1, <2>2, <4>1
        <5>2. g = i + 1 /\ ~inverse
          BY <3>1, <5>1
        <5>3. b = i /\ e = i + 1 /\ g \in 1 .. L /\ g - 1 = i
          BY <5>1, <5>2
        <5>4. QED
          BY <2>6, <5>2, <5>3 DEF Permuted
      <4>2. CASE i >= L
        <5>1. i \in Nat /\ i >= L /\ i < 2 * L /\ L \in Nat
          BY <2>1, <2>2, <4>2
        <5>2. g = 2 * L - i /\ inverse
          BY <3>1, <5>1
        <5>3. g \in 1 .. L /\ b = g /\ e = g - 1
          BY <5>1, <5>2
        <5>4. QED
          BY <2>6, <5>2, <5>3 DEF Permuted
      <4>3. QED
        BY <2>1, <2>2, <4>1, <4>2
    <3>3. groups[g] \in SUBSET Q /\ groups[g] # {}
      BY <2>3, <3>2
    <3>4. loc.shares = Copies(Q, s[b])
      BY <2>5 DEF Copies
    <3> HIDE DEF b, e, Q
    <3>5. GroupPermutes(Copies(Q, s[b]), groups[g], P[g], inverse) = Copies(Q, Permuted(s[b], P[g], inverse))
      BY ONLY <3>3, GroupMoves
    <3>6. x = Copies(Q, s[e])
      BY <3>2, <3>4, <3>5 DEF P
    <3>7. QED
      BY <3>6 DEF Copies, e
  <2> HIDE DEF x
  <2>9. CASE i + 1 = 2 * L
    <3>1. phase' = "done"
      BY <1>1, <2>3, <2>7, <2>9
    <3>2. x = [q \in Q |-> v]
      BY <2>2, <2>6, <2>8, <2>9
    <3>3. HMInv(job, phase', rows', loc')
      BY <1>1, <2>1, <2>7, <3>1, <3>2 DEF HMInv, v
    <3>4. QED
      BY <1>1, <1>2, <3>1, <3>3, Folded
  <2>10. CASE i + 1 # 2 * L
    <3>1. phase' = "groups" /\ i + 1 \in 0 .. 2 * L - 1
      BY <1>1, <2>1, <2>2, <2>3, <2>7, <2>10
    <3>2. x = Replicas(job, i + 1)
      BY <2>8 DEF Replicas, s, v, P
    <3>3. HMInv(job, phase', rows', loc')
      BY <1>1, <2>1, <2>7, <3>1, <3>2 DEF HMInv, v
    <3>4. QED
      BY <1>1, <1>2, <3>1, <3>3, Folded
  <2>11. QED
    BY <2>9, <2>10
<1>3. CASE job.op # "hm"
  <2>1. job.op # "shuffle" /\ job.op # "dm" /\ job.op # "gen_perm" /\ phase' # "start"
    BY <1>1, Unfolded DEF ShuffleInv, DMInv, DrawInv
  <2>2. QED
    BY <1>1, <1>3, <2>1, Folded
<1>4. QED
  BY <1>2, <1>3

(***************************************************************************)
(* Drawing a permutation.                                                  *)
(***************************************************************************)
LEMMA GeneratePermutationInv == OperatorsInv /\ GeneratePermutation => OperatorsInv'
<1> SUFFICES ASSUME OperatorsInv, GeneratePermutation PROVE OperatorsInv'
  OBVIOUS
<1> DEFINE m == Len(job.rows)
<1>1. /\ phase = "start" /\ job.op = "gen_perm" /\ phase' = "draw" /\ program' = program /\ at' = at /\ rows' = rows
      /\ loc' = [loc EXCEPT !.permutation = Identity(n)]
  BY DEF GeneratePermutation, Starts, Goto
<1>2. JobFits(job) /\ loc = NoLocals /\ rows = job.rows
  BY <1>1, Unfolded DEF Fresh
<1>3. m \in Nat /\ n = m
  BY <1>2 DEF JobFits, n
<1>4. DOMAIN loc' = DOMAIN NoLocals /\ loc'.permutation = Identity(m) /\ loc'.i = 0 /\ loc'.draws = <<>>
  BY <1>1, <1>2, <1>3 DEF NoLocals
<1> HIDE DEF m
<1>5. Identity(m) \in PermutationsOf(m)
  BY <1>3, IdentityIsPermutation
<1> DEFINE f == [k \in 0 .. 0 |-> Identity(m)]
<1>6. Trace(m, <<>>, 0, f) /\ f[0] = Identity(m) /\ Accepts(m, <<>>, 0)
  BY <1>3, <1>5 DEF Trace, Accepts
<1> HIDE DEF f
<1>7. Drawing(m, loc')
  BY <1>4, <1>6 DEF Drawing
<1>8. DrawInv(job, phase', rows', loc')
  BY <1>1, <1>2, <1>3, <1>4, <1>7 DEF DrawInv, m
<1>9. QED
  BY <1>1, <1>8, Folded

\* One more accepted draw goes on from where the draws so far lead.
LEMMA DrawnOn ==
    ASSUME NEW m \in Nat, NEW i \in 0 .. m, NEW d, Accepts(m, d, i), NEW f, Trace(m, d, i, f),
           NEW r \in Nat, ~Refused(m, i, r)
    PROVE  /\ i + 1 \in 0 .. m
           /\ Accepts(m, Append(d, r), i + 1)
           /\ \E h : Trace(m, Append(d, r), i + 1, h) /\ h[i + 1] = GenPermStep(f[i], i, r)
<1> DEFINE e == Append(d, r)
           p == GenPermStep(f[i], i, r)
           h == [k \in 0 .. i + 1 |-> IF k <= i THEN f[k] ELSE p]
<1>1. r <= m - i - 1 /\ i + 1 \in 1 .. m /\ r \in 0 .. m - 1 /\ (i + 1) - 1 = i
  BY DEF Refused
<1>2. d \in [1 .. i -> 0 .. m - 1] /\ \A k \in 1 .. i : ~Refused(m, k - 1, d[k])
  BY DEF Accepts
<1>3. d \in Seq(0 .. m - 1) /\ Len(d) = i
  BY <1>2, VectorLength
<1>4. e \in [1 .. i + 1 -> 0 .. m - 1] /\ e[i + 1] = r /\ \A k \in 1 .. i : e[k] = d[k]
  <2> DEFINE S == 0 .. m - 1
  <2>1. d \in Seq(S) /\ r \in S /\ Len(d) = i
    BY <1>1, <1>3
  <2> HIDE DEF S
  <2>2. e \in Seq(S) /\ Len(e) = Len(d) + 1 /\ e[Len(d) + 1] = r /\ \A k \in 1 .. Len(d) : e[k] = d[k]
    BY <2>1
  <2> HIDE DEF e
  <2>3. e \in [1 .. Len(e) -> S]
    BY <2>2
  <2>4. QED
    BY <2>1, <2>2, <2>3 DEF S
<1> HIDE DEF e
<1>5. \A k \in 1 .. i + 1 : k = i + 1 \/ k \in 1 .. i
  OBVIOUS
<1>6. Accepts(m, e, i + 1)
  BY <1>1, <1>2, <1>4, <1>5 DEF Accepts
<1>7. /\ f \in [0 .. i -> PermutationsOf(m)] /\ f[0] = Identity(m)
      /\ \A k \in 1 .. i : f[k] = GenPermStep(f[k - 1], k - 1, d[k])
  BY DEF Trace
<1>8. f[i] \in PermutationsOf(m)
  BY <1>7
<1>9. Settles(m, f[i], i + 1, r, GenPermStep(f[i], (i + 1) - 1, r))
  <2> DEFINE q == f[i]
             j == i + 1
  <2>1. q \in PermutationsOf(m) /\ j \in 1 .. m /\ r \in 0 .. m - 1 /\ ~Refused(m, j - 1, r)
    BY <1>1, <1>8
  <2> HIDE DEF q, j
  <2>2. Settles(m, q, j, r, GenPermStep(q, j - 1, r))
    BY <2>1, DrawSettles
  <2>3. QED
    BY <2>2 DEF q, j
<1>10. p \in PermutationsOf(m)
  BY <1>1, <1>9 DEF Settles
<1> HIDE DEF p
<1>11. /\ h \in [0 .. i + 1 -> PermutationsOf(m)] /\ h[i + 1] = p
       /\ \A k \in 0 .. i : h[k] = f[k]
  BY <1>7, <1>10
<1> HIDE DEF h
<1>12. h[0] = Identity(m)
  BY <1>7, <1>11
<1>13. ASSUME NEW k \in 1 .. i + 1 PROVE h[k] = GenPermStep(h[k - 1], k - 1, e[k])
  <2>1. CASE k = i + 1
    <3>1. h[k] = p /\ h[k - 1] = f[i] /\ k - 1 = i /\ e[k] = r
      BY <1>1, <1>4, <1>11, <2>1
    <3>2. QED
      BY <3>1 DEF p
  <2>2. CASE k \in 1 .. i
    <3>1. h[k] = f[k] /\ h[k - 1] = f[k - 1] /\ e[k] = d[k]
      BY <1>4, <1>11, <2>2
    <3>2. QED
      BY <1>7, <2>2, <3>1
  <2>3. QED
    BY <1>5, <2>1, <2>2
<1>14. Trace(m, e, i + 1, h)
  BY <1>11, <1>12, <1>13 DEF Trace
<1>15. i + 1 \in 0 .. m
  BY <1>1
<1>16. QED
  BY <1>6, <1>11, <1>14, <1>15 DEF e, p

LEMMA DrawElementInv == OperatorsInv /\ DrawElement => OperatorsInv'
<1> SUFFICES ASSUME OperatorsInv, DrawElement PROVE OperatorsInv'
  OBVIOUS
<1>1. /\ phase = "draw" /\ program' = program /\ at' = at /\ rows' = rows
      /\ phase' = IF loc'.i = n THEN "done" ELSE "draw"
  BY DEF DrawElement, Goto
<1>2. phase' # "start"
  BY <1>1
<1>3. CASE job.op = "gen_perm"
  <2> DEFINE m == Len(job.rows)
             i == loc.i
             d == loc.draws
  <2>1. JobFits(job) /\ rows = job.rows /\ DOMAIN loc = DOMAIN NoLocals /\ i \in 0 .. m /\ Drawing(m, loc)
    BY <1>1, <1>3, Unfolded DEF DrawInv
  <2>2. m \in Nat /\ n = m
    BY <2>1 DEF JobFits, n
  <2>3. PICK r \in 0 .. RandomMask(n) :
            /\ ~Refused(n, loc.i, r)
            /\ loc' = [loc EXCEPT !.permutation = GenPermStep(@, loc.i, r), !.draws = Append(@, r), !.i = @ + 1]
    BY DEF DrawElement
  <2>4. r \in Nat /\ ~Refused(m, i, r)
    BY <2>2, <2>3
  <2>5. /\ DOMAIN loc' = DOMAIN NoLocals /\ loc'.i = i + 1 /\ loc'.draws = Append(d, r)
        /\ loc'.permutation = GenPermStep(loc.permutation, i, r)
    BY <2>1, <2>3 DEF NoLocals
  <2>6. Accepts(m, d, i)
    BY <2>1 DEF Drawing
  <2>7. PICK f : Trace(m, d, i, f) /\ loc.permutation = f[i]
    BY <2>1 DEF Drawing
  <2> HIDE DEF m, i, d
  <2>8. /\ i + 1 \in 0 .. m /\ Accepts(m, Append(d, r), i + 1)
        /\ \E h : Trace(m, Append(d, r), i + 1, h) /\ h[i + 1] = GenPermStep(f[i], i, r)
    BY ONLY <2>1, <2>2, <2>4, <2>6, <2>7, DrawnOn
  <2>9. Drawing(m, loc')
    BY <2>5, <2>7, <2>8 DEF Drawing
  <2>10. phase' = "draw" \/ (phase' = "done" /\ loc'.i = m)
    BY <1>1, <2>2
  <2>11. DrawInv(job, phase', rows', loc')
    BY <1>1, <2>1, <2>5, <2>8, <2>9, <2>10 DEF DrawInv, m
  <2>12. QED
    BY <1>1, <1>2, <1>3, <2>11, Folded
<1>4. CASE job.op # "gen_perm"
  <2>1. job.op # "shuffle" /\ job.op # "dm" /\ job.op # "hm"
    BY <1>1, Unfolded DEF ShuffleInv, DMInv, HMInv
  <2>2. QED
    BY <1>1, <1>2, <1>4, <2>1, Folded
<1>5. QED
  BY <1>3, <1>4

(***************************************************************************)
(* The other operations.                                                   *)
(***************************************************************************)
\* A step of an operation that is neither a shuffle nor a draw.
Elsewhere ==
    /\ program' = program /\ at' = at /\ phase' # "start"
    /\ \/ phase \notin {"start", "apply", "dm_send", "dm_receive", "groups", "draw", "done"}
       \/ phase = "start" /\ job.op \notin {"shuffle", "dm", "hm", "gen_perm"}

LEMMA ElsewhereInv == OperatorsInv /\ Elsewhere => OperatorsInv'
<1> SUFFICES ASSUME OperatorsInv, Elsewhere PROVE OperatorsInv'
  OBVIOUS
<1>1. job.op \notin {"shuffle", "dm", "hm", "gen_perm"}
  BY Unfolded DEF Elsewhere, ShuffleInv, DMInv, HMInv, DrawInv
<1>2. QED
  BY <1>1, Folded DEF Elsewhere

OtherSteps ==
    \/ SortWithNetwork \/ NetworkRound \/ NetworkEnds
    \/ TableSort \/ VectorSort \/ SortColumn \/ ShuffleColumn \/ PartitionColumn \/ SortBit
    \/ UnpadColumn \/ ComposeColumn \/ RadixSortCcs \/ SortBitCcs
    \/ TumblingWindow \/ GapWindow \/ ThresholdWindow
    \/ tree_prefix_sum \/ PrefixLevel \/ CartesianJoin
    \/ CompressBits \/ DecompressBits \/ DecomposeBits \/ UnpackBit

LEMMA OthersElsewhere == OtherSteps => Elsewhere
<1>1. SortWithNetwork => Elsewhere
  BY DEF SortWithNetwork, Starts, Goto, Elsewhere
<1>2. NetworkRound => Elsewhere
  BY DEF NetworkRound, Elsewhere
<1>3. NetworkEnds => Elsewhere
  BY DEF NetworkEnds, Goto, Elsewhere
<1>4. TableSort => Elsewhere
  BY DEF TableSort, Starts, Goto, Elsewhere
<1>5. VectorSort => Elsewhere
  BY DEF VectorSort, Starts, Goto, Elsewhere
<1>6. SortColumn => Elsewhere
  BY DEF SortColumn, Goto, Elsewhere
<1>7. ShuffleColumn => Elsewhere
  BY DEF ShuffleColumn, Goto, Elsewhere
<1>8. PartitionColumn => Elsewhere
  BY DEF PartitionColumn, Goto, Elsewhere
<1>9. SortBit => Elsewhere
  BY DEF SortBit, Goto, Elsewhere
<1>10. UnpadColumn => Elsewhere
  BY DEF UnpadColumn, Goto, Elsewhere
<1>11. ComposeColumn => Elsewhere
  BY DEF ComposeColumn, Goto, Elsewhere
<1>12. RadixSortCcs => Elsewhere
  BY DEF RadixSortCcs, Starts, Goto, Elsewhere
<1>13. SortBitCcs => Elsewhere
  BY DEF SortBitCcs, Goto, Elsewhere
<1>14. TumblingWindow => Elsewhere
  BY DEF TumblingWindow, WindowIs, Starts, Goto, Elsewhere
<1>15. GapWindow => Elsewhere
  BY DEF GapWindow, WindowIs, Starts, Goto, Elsewhere
<1>16. ThresholdWindow => Elsewhere
  BY DEF ThresholdWindow, WindowIs, Starts, Goto, Elsewhere
<1>17. tree_prefix_sum => Elsewhere
  BY DEF tree_prefix_sum, Starts, Goto, Elsewhere
<1>18. PrefixLevel => Elsewhere
  BY DEF PrefixLevel, Goto, Elsewhere
<1>19. CartesianJoin => Elsewhere
  BY DEF CartesianJoin, WindowIs, Starts, Goto, Elsewhere
<1>20. CompressBits => Elsewhere
  BY DEF CompressBits, Starts, Goto, Elsewhere
<1>21. DecompressBits => Elsewhere
  BY DEF DecompressBits, Goto, Elsewhere
<1>22. DecomposeBits => Elsewhere
  BY DEF DecomposeBits, Starts, Goto, Elsewhere
<1>23. UnpackBit => Elsewhere
  BY DEF UnpackBit, Goto, Elsewhere
<1>24. QED
  BY <1>1, <1>2, <1>3, <1>4, <1>5, <1>6, <1>7, <1>8, <1>9, <1>10, <1>11, <1>12, <1>13, <1>14,
     <1>15, <1>16, <1>17, <1>18, <1>19, <1>20, <1>21, <1>22, <1>23 DEF OtherSteps

LEMMA NextKeepsInv == OperatorsInv /\ [Next]_vars => OperatorsInv'
<1> SUFFICES ASSUME OperatorsInv, [Next]_vars PROVE OperatorsInv'
  OBVIOUS
<1>1. CASE UNCHANGED vars
  BY <1>1 DEF vars, OperatorsInv, job
<1>2. CASE NextJob
  BY <1>2, NextJobInv
<1>3. CASE ShuffleColumns
  BY <1>3, ShuffleColumnsInv
<1>4. CASE ApplyToColumns
  BY <1>4, ApplyToColumnsInv
<1>5. CASE ApplyDMShardedPerm
  BY <1>5, ApplyDMShardedPermInv
<1>6. CASE ReceiverMasks
  BY <1>6, ReceiverMasksInv
<1>7. CASE SenderPermutes
  BY <1>7, SenderPermutesInv
<1>8. CASE ApplyHMShardedPerm
  BY <1>8, ApplyHMShardedPermInv
<1>9. CASE GroupStep
  BY <1>9, GroupStepInv
<1>10. CASE GeneratePermutation
  BY <1>10, GeneratePermutationInv
<1>11. CASE DrawElement
  BY <1>11, DrawElementInv
<1>12. CASE OtherSteps
  BY <1>12, OthersElsewhere, ElsewhereInv
<1>13. Next => \/ NextJob \/ ShuffleColumns \/ ApplyToColumns \/ ApplyDMShardedPerm \/ ReceiverMasks
               \/ SenderPermutes \/ ApplyHMShardedPerm \/ GroupStep \/ GeneratePermutation \/ DrawElement
               \/ OtherSteps
  BY DEF Next, OtherSteps
<1>14. QED
  BY <1>1, <1>2, <1>3, <1>4, <1>5, <1>6, <1>7, <1>8, <1>9, <1>10, <1>11, <1>12, <1>13

-----------------------------------------------------------------------------
(***************************************************************************)
(* The properties.                                                         *)
(***************************************************************************)
LEMMA InvKeepsRows == OperatorsInv => ShufflesKeepRows
<1> SUFFICES ASSUME OperatorsInv PROVE ShufflesKeepRows
  OBVIOUS
<1>1. ShuffleKeepsRows
  BY Unfolded DEF ShuffleKeepsRows, Ended, ShuffleInv
<1>2. ASSUME job.op = "dm", phase = "dm_send", loc.i = 2
      PROVE  Opened(loc.shares) = local_apply_perm(local_apply_perm(rows, job.tuples[0].pi), job.tuples[1].pi)
  <2>1. rows = job.rows /\ Holds(Len(job.rows), job.encoding, loc.shares, Staged(job)[2])
    BY <1>2, Unfolded DEF DMInv
  <2>2. Staged(job)[2] = local_apply_perm(local_apply_perm(rows, job.tuples[0].pi), job.tuples[1].pi)
    BY <2>1 DEF Staged
  <2>3. QED
    BY <2>1, <2>2 DEF Holds, Opened
<1>3. ASSUME Ended({"dm"}) PROVE Opened(loc.shares) = rows
  <2>1. phase = "done" /\ job.op = "dm"
    BY <1>3 DEF Ended
  <2>2. rows = job.rows /\ Holds(Len(job.rows), job.encoding, loc.shares, job.rows)
    BY <2>1, Unfolded DEF DMInv
  <2>3. QED
    BY <2>2 DEF Holds, Opened
<1>4. ASSUME job.op = "hm", phase # "start"
      PROVE  \E v : /\ loc.shares = [p \in 0 .. job.parties - 1 |-> v]
                    /\ phase = "done" => v = rows
  <2>1. /\ rows = job.rows
        /\ \/ phase = "groups" /\ loc.shares = Replicas(job, loc.i)
           \/ phase = "done" /\ loc.shares = [p \in 0 .. job.parties - 1 |-> job.rows]
    BY <1>4, Unfolded DEF HMInv
  <2>2. QED
    BY <2>1 DEF Replicas
<1>5. ASSUME job.op = "hm", phase # "start"
      PROVE  \A p, q \in DOMAIN loc.shares : loc.shares[p] = loc.shares[q]
  BY <1>4, <1>5
<1>6. ASSUME Ended({"hm"}) PROVE loc.shares[0] = rows
  <2>1. phase = "done" /\ job.op = "hm"
    BY <1>6 DEF Ended
  <2>2. JobFits(job)
    BY Unfolded
  <2>3. 0 \in 0 .. job.parties - 1
    BY <2>1, <2>2 DEF JobFits, HMFits
  <2>4. QED
    BY <1>4, <2>1, <2>3
<1>7. ShardedPermutes
  BY <1>2, <1>3, <1>5, <1>6 DEF ShardedPermutes
<1>8. QED
  BY <1>1, <1>7 DEF ShufflesKeepRows

LEMMA InvDrawn == OperatorsInv => DrawnUniformly
<1> SUFFICES ASSUME OperatorsInv, Ended({"gen_perm"})
             PROVE  /\ IsPermutation(loc.permutation)
                    /\ {d \in AcceptedDraws(n) : gen_perm(n, d) = loc.permutation} = {loc.draws}
  BY DEF DrawnUniformly
<1> DEFINE m == Len(job.rows)
<1>1. phase = "done" /\ job.op = "gen_perm"
  BY DEF Ended
<1>2. JobFits(job) /\ rows = job.rows /\ loc.i = m /\ Drawing(m, loc)
  BY <1>1, Unfolded DEF DrawInv
<1>3. m \in Nat /\ n = m
  BY <1>2 DEF JobFits, n
<1>4. PICK f : Trace(m, loc.draws, m, f) /\ loc.permutation = f[m]
  BY <1>2 DEF Drawing
<1>5. Accepts(m, loc.draws, m)
  BY <1>2 DEF Drawing
<1>6. f[m] \in PermutationsOf(m)
  BY <1>3, <1>4 DEF Trace
<1> HIDE DEF m
<1>7. {d \in AcceptedDraws(m) : gen_perm(m, d) = f[m]} = {loc.draws}
  BY <1>3, <1>4, <1>5, DrawnOnce
<1>8. QED
  BY <1>3, <1>4, <1>6, <1>7 DEF PermutationsOf

\* Whatever programs are run, an operation that is under way holds what its steps so far
\* make of its rows.
THEOREM OperatorsInvariant == Spec => []OperatorsInv
<1>1. Init => OperatorsInv
  BY InitInv
<1>2. OperatorsInv /\ [Next]_vars => OperatorsInv'
  BY NextKeepsInv
<1>3. QED
  BY <1>1, <1>2, PTL DEF Spec

\* oblivious_apply_elementwise_perm column by column keeps the rows of a shuffled table whole;
\* permute_and_share and its inverse, step by step, and the groups of three and of four parties
\* move the shared values by all permutations in turn and back, the replicas staying equal.
THEOREM RowsKept == Spec => []ShufflesKeepRows
<1>1. OperatorsInv => ShufflesKeepRows
  BY InvKeepsRows
<1>2. QED
  BY <1>1, OperatorsInvariant, PTL

\* Every permutation gen_perm returns comes from exactly one sequence of accepted draws, for
\* every length.
THEOREM DrawsUniform == Spec => []DrawnUniformly
<1>1. OperatorsInv => DrawnUniformly
  BY InvDrawn
<1>2. QED
  BY <1>1, OperatorsInvariant, PTL

-----------------------------------------------------------------------------
(***************************************************************************)
(* The permutation manager: what a reservation leaves and what the users   *)
(* take from it.                                                           *)
(***************************************************************************)
FittingManagers == [perms : Nat, pairs : Nat, size : Nat, late : Nat, misfits : {0}]

\* The manager has a permutations and b pairs for what is under way; the first job of a
\* program finds nothing else and makes nothing while it runs.
Stocked(mgr, job1, m, parties, a, b) ==
    /\ a \in Nat /\ b \in Nat /\ mgr.size = m
    /\ \E x \in Nat :
          /\ mgr.perms = a + x + (IF parties = 2 THEN 0 ELSE b)
          /\ mgr.pairs = IF parties = 2 THEN b ELSE 0
          /\ job1 => x = 0 /\ mgr.late = 0

LEMMA EmptyFits == EmptyManager \in FittingManagers /\ EmptyManager.pairs = 0
  BY DEF EmptyManager, FittingManagers

\* A reservation when no pairs are left over.
LEMMA ReserveStocks ==
    ASSUME NEW mgr \in FittingManagers, NEW m \in Nat, NEW parties, NEW a \in Nat, NEW b \in Nat, NEW job1 \in BOOLEAN,
           mgr.pairs = 0, job1 => mgr = EmptyManager
    PROVE  /\ reserve(mgr, m, parties, a, b) \in FittingManagers
           /\ Stocked(reserve(mgr, m, parties, a, b), job1, m, parties, a, b)
<1> DEFINE p == PermsAsked(parties, a, b)
           q == PairsAsked(parties, b)
           kept == IF mgr.size # m THEN [mgr EXCEPT !.perms = 0, !.pairs = 0] ELSE mgr
           sized == [kept EXCEPT !.size = m]
           out == reserve(mgr, m, parties, a, b)
<1>1. /\ p \in Nat /\ p = a + (IF parties = 2 THEN 0 ELSE b)
      /\ q \in Nat /\ q = IF parties = 2 THEN b ELSE 0
  BY DEF PermsAsked, PairsAsked
<1>2. /\ sized \in FittingManagers /\ sized.pairs = 0 /\ sized.size = m /\ sized.late = mgr.late
      /\ sized.perms = IF mgr.size # m THEN 0 ELSE mgr.perms
  BY DEF FittingManagers
<1>3. out = IF p <= sized.perms /\ q <= sized.pairs THEN sized
            ELSE [sized EXCEPT !.perms = @ + Missing(p, sized.perms), !.pairs = @ + Missing(q, sized.pairs)]
  BY DEF reserve
<1> HIDE DEF p, q, kept, sized, out
<1>4. sized.perms \in Nat
  BY <1>2 DEF FittingManagers
<1>5. /\ out \in FittingManagers /\ out.size = m /\ out.late = mgr.late
      /\ out.pairs = q /\ out.perms \in Nat /\ out.perms >= p
      /\ sized.perms = 0 => out.perms = p
  <2>1. CASE p <= sized.perms /\ q <= sized.pairs
    BY <1>1, <1>2, <1>3, <1>4, <2>1
  <2>2. CASE ~(p <= sized.perms /\ q <= sized.pairs)
    <3>1. out = [sized EXCEPT !.perms = @ + Missing(p, sized.perms), !.pairs = @ + Missing(q, sized.pairs)]
      BY <1>3, <2>2
    <3>2. Missing(q, sized.pairs) = q /\ sized.pairs + Missing(q, sized.pairs) \in Nat
      BY <1>1, <1>2 DEF Missing
    <3>3. /\ sized.perms + Missing(p, sized.perms) \in Nat /\ sized.perms + Missing(p, sized.perms) >= p
          /\ sized.perms = 0 => sized.perms + Missing(p, sized.perms) = p
      BY <1>1, <1>4 DEF Missing
    <3>4. /\ out.perms = sized.perms + Missing(p, sized.perms) /\ out.pairs = q
          /\ out.size = sized.size /\ out.late = sized.late
      BY <1>1, <1>2, <3>1, <3>2 DEF FittingManagers
    <3>5. out \in FittingManagers
      BY <1>1, <1>2, <3>1, <3>2, <3>3 DEF FittingManagers
    <3>6. QED
      BY <1>2, <3>3, <3>4, <3>5
  <2>3. QED
    BY <2>1, <2>2
<1> DEFINE x == out.perms - p
<1>6. x \in Nat /\ out.perms = a + x + (IF parties = 2 THEN 0 ELSE b)
  BY <1>1, <1>5
<1>7. ASSUME job1 PROVE x = 0 /\ out.late = 0
  <2>1. mgr.perms = 0 /\ mgr.late = 0
    BY <1>7 DEF EmptyManager
  <2>2. QED
    BY <1>1, <1>2, <1>5, <2>1
<1> HIDE DEF x
<1>8. Stocked(out, job1, m, parties, a, b)
  BY <1>1, <1>5, <1>6, <1>7 DEF Stocked
<1>9. QED
  BY <1>5, <1>8 DEF out

\* A reservation of no more than there is changes nothing.
LEMMA ReserveWithin ==
    ASSUME NEW mgr \in FittingManagers, NEW m \in Nat, NEW parties, NEW a, NEW b, NEW job1,
           Stocked(mgr, job1, m, parties, a, b), NEW c \in Nat, NEW d \in Nat, c <= a, d <= b
    PROVE  reserve(mgr, m, parties, c, d) = mgr
<1>1. /\ mgr.size = m /\ mgr.perms \in Nat /\ a \in Nat /\ b \in Nat
      /\ mgr.perms >= a + (IF parties = 2 THEN 0 ELSE b) /\ mgr.pairs = IF parties = 2 THEN b ELSE 0
  BY DEF Stocked, FittingManagers
<1>2. [mgr EXCEPT !.size = m] = mgr
  BY <1>1 DEF FittingManagers
<1>3. PermsAsked(parties, c, d) <= mgr.perms /\ PairsAsked(parties, d) <= mgr.pairs
  BY <1>1 DEF PermsAsked, PairsAsked
<1>4. QED
  BY <1>1, <1>2, <1>3 DEF reserve

LEMMA TakesOne ==
    ASSUME NEW mgr \in FittingManagers, NEW m \in Nat, NEW parties, NEW a, NEW b, NEW job1 \in BOOLEAN,
           Stocked(mgr, job1, m, parties, a, b), a > 0
    PROVE  /\ getNext(mgr, m, parties) \in FittingManagers
           /\ Stocked(getNext(mgr, m, parties), job1, m, parties, a - 1, b)
<1> DEFINE out == [mgr EXCEPT !.perms = @ - 1]
<1>1. PICK x \in Nat : /\ mgr.perms = a + x + (IF parties = 2 THEN 0 ELSE b)
                       /\ mgr.pairs = IF parties = 2 THEN b ELSE 0
                       /\ job1 => x = 0 /\ mgr.late = 0
  BY DEF Stocked
<1>2. mgr.size = m /\ a \in Nat /\ b \in Nat
  BY DEF Stocked
<1>3. mgr.perms \in Nat /\ mgr.perms # 0 /\ mgr.perms - 1 \in Nat
  BY <1>1, <1>2
<1>4. getNext(mgr, m, parties) = out
  BY <1>2, <1>3 DEF getNext, Misfit
<1>5. /\ out \in FittingManagers /\ out.perms = mgr.perms - 1 /\ out.pairs = mgr.pairs
      /\ out.size = m /\ out.late = mgr.late
  BY <1>2, <1>3 DEF FittingManagers
<1> HIDE DEF out
<1>6. a - 1 \in Nat /\ out.perms = (a - 1) + x + (IF parties = 2 THEN 0 ELSE b)
  BY <1>1, <1>2, <1>5
<1>7. Stocked(out, job1, m, parties, a - 1, b)
  BY <1>1, <1>2, <1>5, <1>6 DEF Stocked
<1>8. QED
  BY <1>4, <1>5, <1>7

LEMMA TakesPair ==
    ASSUME NEW mgr \in FittingManagers, NEW m \in Nat, NEW parties, NEW a, NEW b, NEW job1 \in BOOLEAN,
           Stocked(mgr, job1, m, parties, a, b), b > 0
    PROVE  /\ getNextPair(mgr, m, parties) \in FittingManagers
           /\ Stocked(getNextPair(mgr, m, parties), job1, m, parties, a, b - 1)
<1> DEFINE out == IF parties = 2 THEN [mgr EXCEPT !.pairs = @ - 1] ELSE [mgr EXCEPT !.perms = @ - 1]
<1>1. PICK x \in Nat : /\ mgr.perms = a + x + (IF parties = 2 THEN 0 ELSE b)
                       /\ mgr.pairs = IF parties = 2 THEN b ELSE 0
                       /\ job1 => x = 0 /\ mgr.late = 0
  BY DEF Stocked
<1>2. mgr.size = m /\ a \in Nat /\ b \in Nat
  BY DEF Stocked
<1>3. getNextPair(mgr, m, parties) = out
  <2>1. CASE parties = 2
    BY <1>1, <1>2, <2>1 DEF getNextPair, Misfit
  <2>2. CASE parties # 2
    <3>1. mgr.perms # 0
      BY <1>1, <1>2, <2>2
    <3>2. QED
      BY <1>2, <2>2, <3>1 DEF getNextPair, Misfit
  <2>3. QED
    BY <2>1, <2>2
<1>4. /\ out \in FittingManagers /\ out.size = m /\ out.late = mgr.late
      /\ out.perms = a + x + (IF parties = 2 THEN 0 ELSE b - 1)
      /\ out.pairs = IF parties = 2 THEN b - 1 ELSE 0
  <2>1. CASE parties = 2
    BY <1>1, <1>2, <2>1 DEF FittingManagers
  <2>2. CASE parties # 2
    <3>1. mgr.perms - 1 \in Nat /\ mgr.perms - 1 = a + x + (b - 1)
      BY <1>1, <1>2, <2>2
    <3>2. QED
      BY <1>1, <1>2, <2>2, <3>1 DEF FittingManagers
  <2>3. QED
    BY <2>1, <2>2
<1> HIDE DEF out
<1>5. b - 1 \in Nat
  BY <1>2
<1>6. Stocked(out, job1, m, parties, a, b - 1)
  BY <1>1, <1>2, <1>4, <1>5 DEF Stocked
<1>7. QED
  BY <1>3, <1>4, <1>6

\* A manager whose permutations, if it has any, are for m elements: none that it hands out
\* for m elements is a misfit.
Ready(m) == {g \in FittingManagers : g.size = m \/ (g.perms = 0 /\ g.pairs = 0)}

\* What reserve returns has the size asked for.
LEMMA ReserveSizes ==
    ASSUME NEW mgr \in FittingManagers, NEW m \in Nat, NEW parties, NEW a \in Nat, NEW b \in Nat
    PROVE  /\ reserve(mgr, m, parties, a, b) \in FittingManagers
           /\ reserve(mgr, m, parties, a, b).size = m
           /\ reserve(mgr, m, parties, a, b).late = mgr.late
           /\ b > 0 /\ parties = 2 => reserve(mgr, m, parties, a, b).pairs > 0
           /\ a > 0 => reserve(mgr, m, parties, a, b).perms > 0
           /\ b = 1 /\ a = 0 /\ mgr.pairs = 0 /\ parties = 2 => reserve(mgr, m, parties, a, b).pairs = 1
           /\ b = 0 /\ mgr.pairs = 0 => reserve(mgr, m, parties, a, b).pairs = 0
<1> DEFINE p == PermsAsked(parties, a, b)
           q == PairsAsked(parties, b)
           kept == IF mgr.size # m THEN [mgr EXCEPT !.perms = 0, !.pairs = 0] ELSE mgr
           sized == [kept EXCEPT !.size = m]
           x == sized.perms + Missing(p, sized.perms)
           y == sized.pairs + Missing(q, sized.pairs)
           more == [sized EXCEPT !.perms = @ + Missing(p, sized.perms), !.pairs = @ + Missing(q, sized.pairs)]
<1>1. p \in Nat /\ q \in Nat /\ (a > 0 => p > 0) /\ (parties = 2 => q = b) /\ (b = 0 => q = 0)
  BY DEF PermsAsked, PairsAsked
<1>2. /\ sized \in FittingManagers /\ sized.size = m /\ sized.late = mgr.late
      /\ mgr.pairs = 0 => sized.pairs = 0
  BY DEF FittingManagers
<1>3. reserve(mgr, m, parties, a, b) = IF p <= sized.perms /\ q <= sized.pairs THEN sized ELSE more
  BY DEF reserve
<1> HIDE DEF p, q, kept, sized
<1>4. sized.perms \in Nat /\ sized.pairs \in Nat
  BY <1>2 DEF FittingManagers
<1>5. x \in Nat /\ y \in Nat /\ x >= p /\ y >= q /\ (sized.pairs = 0 => y = q)
  BY <1>1, <1>4 DEF Missing
<1>6. /\ more \in FittingManagers /\ more.size = m /\ more.late = mgr.late
      /\ more.perms >= p /\ more.pairs >= q /\ (sized.pairs = 0 => more.pairs = q)
      /\ more.perms \in Nat /\ more.pairs \in Nat
  BY <1>2, <1>5 DEF FittingManagers
<1> HIDE DEF x, y, more
<1>7. CASE p <= sized.perms /\ q <= sized.pairs
  BY <1>1, <1>2, <1>3, <1>4, <1>7
<1>8. CASE ~(p <= sized.perms /\ q <= sized.pairs)
  BY <1>1, <1>2, <1>3, <1>6, <1>8
<1>9. QED
  BY <1>7, <1>8

LEMMA OneReady ==
    ASSUME NEW mgr \in FittingManagers, NEW m \in Nat, NEW parties, mgr.pairs = 0
    PROVE  /\ getNext(mgr, m, parties) \in Ready(m)
           /\ getNext(mgr, m, parties).pairs = 0
           /\ mgr.size = m => getNext(mgr, m, parties).size = m
<1> DEFINE ready == IF mgr.size # m THEN reserve(mgr, m, parties, 1, 0) ELSE mgr
<1>1. CASE mgr.perms = 0
  <2>1. getNext(mgr, m, parties) = [mgr EXCEPT !.late = @ + 1]
    BY <1>1 DEF getNext
  <2>2. QED
    BY <1>1, <2>1 DEF FittingManagers, Ready
<1>2. CASE mgr.perms # 0
  <2>1. /\ ready \in FittingManagers /\ ready.size = m /\ ready.perms > 0 /\ ready.pairs = 0
        /\ ready.perms \in Nat
    <3>1. CASE mgr.size = m
      BY <1>2, <3>1 DEF FittingManagers
    <3>2. CASE mgr.size # m
      <4>1. /\ reserve(mgr, m, parties, 1, 0) \in FittingManagers /\ reserve(mgr, m, parties, 1, 0).size = m
            /\ reserve(mgr, m, parties, 1, 0).perms > 0 /\ reserve(mgr, m, parties, 1, 0).pairs = 0
        BY ReserveSizes
      <4>2. QED
        BY <3>2, <4>1 DEF FittingManagers
    <3>3. QED
      BY <3>1, <3>2
  <2>2. getNext(mgr, m, parties) = [Misfit(ready, m) EXCEPT !.perms = @ - 1]
    BY <1>2 DEF getNext
  <2> HIDE DEF ready
  <2>3. getNext(mgr, m, parties) = [ready EXCEPT !.perms = @ - 1] /\ ready.perms - 1 \in Nat
    BY <2>1, <2>2 DEF Misfit
  <2>4. QED
    BY <2>1, <2>3 DEF FittingManagers, Ready
<1>3. QED
  BY <1>1, <1>2

LEMMA PairReady ==
    ASSUME NEW m \in Nat, NEW mgr \in Ready(m), NEW parties
    PROVE  /\ getNextPair(mgr, m, parties) \in Ready(m)
           /\ mgr.pairs = 0 => getNextPair(mgr, m, parties).pairs = 0
           /\ mgr.size = m => getNextPair(mgr, m, parties).size = m
<1>0. mgr \in FittingManagers /\ (mgr.size = m \/ (mgr.perms = 0 /\ mgr.pairs = 0))
  BY DEF Ready
<1>1. CASE parties # 2 /\ mgr.perms = 0
  <2>1. getNextPair(mgr, m, parties) = [mgr EXCEPT !.late = @ + 1]
    BY <1>1 DEF getNextPair
  <2>2. QED
    BY <1>0, <1>1, <2>1 DEF FittingManagers, Ready
<1>2. CASE parties # 2 /\ mgr.perms # 0
  <2>1. getNextPair(mgr, m, parties) = [mgr EXCEPT !.perms = @ - 1] /\ mgr.perms - 1 \in Nat
    BY <1>0, <1>2 DEF getNextPair, Misfit, FittingManagers
  <2>2. QED
    BY <1>0, <1>2, <2>1 DEF FittingManagers, Ready
<1>3. CASE parties = 2 /\ mgr.pairs = 0
  <2> DEFINE r == reserve(mgr, m, parties, 0, 1)
  <2>1. r \in FittingManagers /\ r.size = m /\ r.pairs = 1
    BY <1>0, <1>3, ReserveSizes
  <2>2. getNextPair(mgr, m, parties) = [r EXCEPT !.pairs = @ - 1, !.late = @ + 1]
    BY <1>3 DEF getNextPair
  <2> HIDE DEF r
  <2>3. r.pairs - 1 = 0 /\ r.late + 1 \in Nat
    BY <2>1 DEF FittingManagers
  <2> DEFINE s == [r EXCEPT !.pairs = 0, !.late = r.late + 1]
  <2>4. getNextPair(mgr, m, parties) = s
    BY <2>1, <2>2, <2>3 DEF FittingManagers
  <2>5. s \in FittingManagers /\ s.size = m /\ s.pairs = 0
    BY <2>1, <2>3 DEF FittingManagers
  <2> HIDE DEF s
  <2>6. QED
    BY <2>4, <2>5 DEF Ready
<1>4. CASE parties = 2 /\ mgr.pairs # 0
  <2>1. getNextPair(mgr, m, parties) = [mgr EXCEPT !.pairs = @ - 1] /\ mgr.pairs - 1 \in Nat
    BY <1>0, <1>4 DEF getNextPair, Misfit, FittingManagers
  <2>2. QED
    BY <1>0, <1>4, <2>1 DEF FittingManagers, Ready
<1>5. QED
  BY <1>1, <1>2, <1>3, <1>4

\* The managers between the calls of NextPairs.
Calls(f, mgr, m, parties, k) ==
    /\ f \in [0 .. k -> Ready(m)] /\ f[0] = mgr
    /\ \A i \in 1 .. k : f[i] = getNextPair(f[i - 1], m, parties)

LEMMA PairsTaken ==
    ASSUME NEW m \in Nat, NEW mgr \in Ready(m), NEW parties, NEW k \in Nat
    PROVE  \E f : Calls(f, mgr, m, parties, k) /\ NextPairs(mgr, m, parties, k) = f[k]
<1> DEFINE P == Ready(m)
           step == [i \in 1 .. k |-> [g \in P |-> getNextPair(g, m, parties)]]
           f == Recursor(k, P, mgr, step)
           body(h) == [i \in 0 .. k |-> IF i = 0 THEN mgr ELSE getNextPair(h[i - 1], m, parties)]
<1>1. \A g \in P : getNextPair(g, m, parties) \in P
  BY PairReady
<1> HIDE DEF P
<1>2. step \in [1 .. k -> [P -> P]]
  BY <1>1
<1>3. mgr \in P
  BY DEF P
<1> HIDE DEF step
<1>4. Recurs(f, k, P, mgr, step)
  BY <1>2, <1>3, BoundedRecursion, Zenon
<1> HIDE DEF f
<1>5. f \in [0 .. k -> P] /\ f[0] = mgr /\ \A i \in 1 .. k : f[i] = step[i][f[i - 1]]
  BY <1>4 DEF Recurs
<1>6. \A i \in 1 .. k : f[i - 1] \in P
  BY <1>5
<1>7. \A i \in 1 .. k : f[i] = getNextPair(f[i - 1], m, parties)
  BY <1>5, <1>6, Zenon DEF step
<1>8. f = body(f)
  <2>1. \A i \in 0 .. k : i # 0 => i \in 1 .. k
    OBVIOUS
  <2>2. \A i \in 0 .. k : f[i] = body(f)[i]
    BY <1>5, <1>7, <2>1, Zenon
  <2>3. body(f) = [i \in 0 .. k |-> body(f)[i]]
    BY Zenon
  <2>4. f = [i \in 0 .. k |-> f[i]]
    BY <1>5
  <2>5. QED
    BY <2>2, <2>3, <2>4, Zenon
<1> DEFINE g == CHOOSE h : h = body(h)
<1>9. g = body(g)
  BY <1>8, Zenon
<1>10. NextPairs(mgr, m, parties, k) = g[k]
  BY Zenon DEF NextPairs
<1> HIDE DEF g
<1>11. g[0] = mgr /\ \A i \in 1 .. k : g[i] = getNextPair(g[i - 1], m, parties)
  <2>1. \A i \in 0 .. k : g[i] = IF i = 0 THEN mgr ELSE getNextPair(g[i - 1], m, parties)
    BY <1>9, Zenon
  <2>2. 0 \in 0 .. k /\ \A i \in 1 .. k : i \in 0 .. k /\ i # 0
    OBVIOUS
  <2>3. QED
    BY <2>1, <2>2, Zenon
<1> HIDE DEF body
<1> DEFINE S == {i \in Nat : g[i] = f[i]}
<1>12. 0 \in S /\ \A i \in 1 .. k : i - 1 \in S => i \in S
  BY <1>5, <1>7, <1>11
<1> HIDE DEF S
<1>13. \A i \in 0 .. k : i \in S
  BY <1>12, BoundedInduction
<1>14. k \in S
  BY <1>13
<1>15. Calls(f, mgr, m, parties, k)
  BY <1>5, <1>7 DEF Calls, P
<1>16. QED
  BY <1>10, <1>14, <1>15 DEF S

\* The pairs for all columns: when none were reserved, none are left over,
LEMMA PairsMade ==
    ASSUME NEW m \in Nat, NEW mgr \in Ready(m), NEW parties, NEW k \in Nat, mgr.pairs = 0
    PROVE  NextPairs(mgr, m, parties, k) \in FittingManagers /\ NextPairs(mgr, m, parties, k).pairs = 0
<1>1. PICK f : Calls(f, mgr, m, parties, k) /\ NextPairs(mgr, m, parties, k) = f[k]
  BY PairsTaken
<1> DEFINE S == {i \in Nat : f[i].pairs = 0}
<1>2. 0 \in S
  BY <1>1 DEF Calls
<1>3. ASSUME NEW i \in 1 .. k, i - 1 \in S PROVE i \in S
  <2>1. f[i - 1] \in Ready(m) /\ f[i] = getNextPair(f[i - 1], m, parties) /\ f[i - 1].pairs = 0
    BY <1>1, <1>3 DEF Calls
  <2>2. f[i].pairs = 0
    BY <2>1, PairReady
  <2>3. QED
    BY <2>2
<1> HIDE DEF S
<1>4. \A i \in 0 .. k : i \in S
  BY <1>2, <1>3, BoundedInduction
<1>5. k \in S /\ f[k] \in Ready(m)
  BY <1>1, <1>4 DEF Calls
<1>6. QED
  BY <1>1, <1>5 DEF S, Ready

\* and when they were, all are used.
LEMMA PairsUsed ==
    ASSUME NEW m \in Nat, NEW mgr \in FittingManagers, NEW parties, NEW k \in Nat, NEW job1 \in BOOLEAN,
           Stocked(mgr, job1, m, parties, 0, k)
    PROVE  /\ NextPairs(mgr, m, parties, k) \in FittingManagers
           /\ Stocked(NextPairs(mgr, m, parties, k), job1, m, parties, 0, 0)
<1>0. mgr \in Ready(m)
  BY DEF Ready, Stocked
<1>1. PICK f : Calls(f, mgr, m, parties, k) /\ NextPairs(mgr, m, parties, k) = f[k]
  BY <1>0, PairsTaken
<1> DEFINE S == {i \in Nat : Stocked(f[i], job1, m, parties, 0, k - i)}
<1>2. 0 \in S
  <2>1. f[0] = mgr /\ k - 0 = k
    BY <1>1 DEF Calls
  <2>2. QED
    BY <2>1
<1>3. ASSUME NEW i \in 1 .. k, i - 1 \in S PROVE i \in S
  <2> DEFINE g == f[i - 1]
             b == k - (i - 1)
  <2>1. g \in Ready(m) /\ f[i] = getNextPair(g, m, parties) /\ Stocked(g, job1, m, parties, 0, b)
    BY <1>1, <1>3 DEF Calls
  <2>2. g \in FittingManagers /\ b > 0 /\ b - 1 = k - i
    BY <2>1 DEF Ready
  <2> HIDE DEF g, b
  <2>3. Stocked(getNextPair(g, m, parties), job1, m, parties, 0, b - 1)
    BY <2>1, <2>2, TakesPair
  <2>4. QED
    BY <2>1, <2>2, <2>3
<1>4. \A i \in 0 .. k : i \in S
  <2> HIDE DEF S
  <2>1. QED
    BY <1>2, <1>3, BoundedInduction
<1>5. Stocked(f[k], job1, m, parties, 0, k - k) /\ k - k = 0 /\ f[k] \in Ready(m)
  BY <1>1, <1>4 DEF Calls
<1>6. QED
  BY <1>1, <1>5 DEF Ready

-----------------------------------------------------------------------------
(***************************************************************************)
(* Sorting keeps the padded elements, so that the indices below the values *)
(* are a permutation at the end as they were at the start.                 *)
(***************************************************************************)
\* w has the elements of v, each as it was.
Rearranges(m, v, w) ==
    /\ w \in [1 .. m -> Int]
    /\ \A k \in 1 .. m : \E i \in 1 .. m : w[i] = v[k]
    /\ \A i \in 1 .. m : \E k \in 1 .. m : w[i] = v[k]

\* The index below the value of a padded element.
IndexOf(reversed, x) == IF reversed THEN (INDEX - 1) - (x % INDEX) ELSE x % INDEX
Indices(m, reversed, v) == [k \in 1 .. m |-> IndexOf(reversed, v[k])]

Indexed(m, reversed, v) == v \in [1 .. m -> Int] /\ Indices(m, reversed, v) \in PermutationsOf(m)

\* A permutation is a vector of indices in which every index occurs.
LEMMA IsPermutationOf ==
    ASSUME NEW m \in Nat, NEW p \in [1 .. m -> 0 .. m - 1], \A a \in 0 .. m - 1 : \E k \in 1 .. m : p[k] = a
    PROVE  p \in PermutationsOf(m)
<1>1. Len(p) = m
  BY VectorLength
<1>2. {p[k] : k \in 1 .. m} = 0 .. m - 1
  OBVIOUS
<1>3. QED
  BY <1>1, <1>2 DEF PermutationsOf, IsPermutation

LEMMA OccursInPermutation ==
    ASSUME NEW m \in Nat, NEW p \in PermutationsOf(m)
    PROVE  /\ p \in [1 .. m -> 0 .. m - 1] /\ Len(p) = m /\ IsPermutation(p)
           /\ \A a \in 0 .. m - 1 : \E k \in 1 .. m : p[k] = a
<1>1. p \in [1 .. m -> 0 .. m - 1] /\ IsPermutation(p)
  BY DEF PermutationsOf
<1>2. Len(p) = m
  BY <1>1, VectorLength
<1>3. QED
  BY <1>1, <1>2 DEF IsPermutation

\* Indices that are different are a permutation.
LEMMA DifferentIndices ==
    ASSUME NEW m \in Nat, NEW p \in [1 .. m -> 0 .. m - 1], \A i, j \in 1 .. m : p[i] = p[j] => i = j
    PROVE  p \in PermutationsOf(m)
<1>1. IsFiniteSet(1 .. m) /\ Cardinality(1 .. m) = m
  BY FS_Interval
<1>2. IsFiniteSet(0 .. m - 1) /\ Cardinality(0 .. m - 1) = m
  <2>1. IsFiniteSet(0 .. m - 1)
    BY FS_Interval
  <2>2. Cardinality(0 .. m - 1) = m
    BY FS_Interval
  <2>3. QED
    BY <2>1, <2>2
<1>3. p \in Injection(1 .. m, 0 .. m - 1)
  BY Fun_IsInj
<1>4. p \in Surjection(1 .. m, 0 .. m - 1)
  BY <1>1, <1>2, <1>3, FS_Injection
<1>5. \A a \in 0 .. m - 1 : \E k \in 1 .. m : p[k] = a
  BY <1>4 DEF Surjection
<1>6. QED
  BY <1>5, IsPermutationOf

LEMMA RearrangedIndexed ==
    ASSUME NEW m \in Nat, NEW reversed, NEW v, NEW w, Indexed(m, reversed, v), Rearranges(m, v, w)
    PROVE  Indexed(m, reversed, w)
<1> DEFINE p == Indices(m, reversed, v)
           q == Indices(m, reversed, w)
<1>1. p = [k \in 1 .. m |-> IndexOf(reversed, v[k])] /\ q = [k \in 1 .. m |-> IndexOf(reversed, w[k])]
  BY DEF Indices
<1>2. w \in [1 .. m -> Int]
  BY DEF Rearranges
<1>3. p \in [1 .. m -> 0 .. m - 1] /\ \A a \in 0 .. m - 1 : \E k \in 1 .. m : p[k] = a
  BY OccursInPermutation DEF Indexed
<1> HIDE DEF p, q
<1>4. \A i \in 1 .. m : \E k \in 1 .. m : q[i] = p[k]
  BY <1>1 DEF Rearranges
<1>5. \A k \in 1 .. m : \E i \in 1 .. m : q[i] = p[k]
  BY <1>1 DEF Rearranges
<1>6. q \in [1 .. m -> 0 .. m - 1]
  BY <1>1, <1>3, <1>4
<1>7. \A a \in 0 .. m - 1 : \E i \in 1 .. m : q[i] = a
  BY <1>3, <1>5
<1>8. q \in PermutationsOf(m)
  BY <1>6, <1>7, IsPermutationOf
<1>9. QED
  BY <1>2, <1>8 DEF Indexed, q

LEMMA RearrangesTwice ==
    ASSUME NEW m, NEW u, NEW v, NEW w, Rearranges(m, u, v), Rearranges(m, v, w)
    PROVE  Rearranges(m, u, w)
<1>1. \A k \in 1 .. m : \E i \in 1 .. m : w[i] = u[k]
  BY DEF Rearranges
<1>2. ASSUME NEW i \in 1 .. m PROVE \E k \in 1 .. m : w[i] = u[k]
  <2>1. PICK j \in 1 .. m : w[i] = v[j]
    BY DEF Rearranges
  <2>2. PICK k \in 1 .. m : v[j] = u[k]
    BY DEF Rearranges
  <2>3. QED
    BY <2>1, <2>2
<1>3. QED
  BY <1>1, <1>2 DEF Rearranges

LEMMA RearrangesSame ==
    ASSUME NEW m, NEW v \in [1 .. m -> Int] PROVE Rearranges(m, v, v)
  BY DEF Rearranges

LEMMA SwapRearranges ==
    ASSUME NEW m \in Nat, NEW v \in [1 .. m -> Int], NEW a \in 1 .. m, NEW b \in 1 .. m
    PROVE  Rearranges(m, v, SwapAt(v, a, b))
<1> DEFINE w == SwapAt(v, a, b)
<1>1. w = [v EXCEPT ![a] = v[b], ![b] = v[a]]
  BY DEF SwapAt
<1>2. /\ w \in [1 .. m -> Int] /\ w[a] = v[b] /\ w[b] = v[a]
      /\ \A k \in 1 .. m : k # a /\ k # b => w[k] = v[k]
  BY <1>1
<1> HIDE DEF w
<1>3. ASSUME NEW k \in 1 .. m
      PROVE  (\E i \in 1 .. m : w[i] = v[k]) /\ (\E i \in 1 .. m : w[k] = v[i])
  <2>1. CASE k = a
    BY <1>2, <2>1
  <2>2. CASE k = b
    BY <1>2, <2>2
  <2>3. CASE k # a /\ k # b
    BY <1>2, <2>3
  <2>4. QED
    BY <2>1, <2>2, <2>3
<1>4. QED
  BY <1>2, <1>3 DEF Rearranges, w

LEMMA MovedRearranges ==
    ASSUME NEW m \in Nat, NEW v \in [1 .. m -> Int], NEW p \in PermutationsOf(m)
    PROVE  Rearranges(m, v, local_apply_perm(v, p))
<1> DEFINE w == local_apply_perm(v, p)
<1>1. Moved(m, Int, v, p, w) /\ Onto(m, p)
  BY Applied, PermutationProperties
<1> HIDE DEF w
<1>2. w \in [1 .. m -> Int] /\ \A i \in 1 .. m : w[p[i] + 1] = v[i]
  BY <1>1 DEF Moved
<1>3. \A k \in 1 .. m : \E i \in 1 .. m : w[i] = v[k]
  BY <1>1, <1>2 DEF Onto
<1>4. ASSUME NEW i \in 1 .. m PROVE \E k \in 1 .. m : w[i] = v[k]
  <2>1. PICK k \in 1 .. m : p[k] + 1 = i
    BY <1>1 DEF Onto
  <2>2. QED
    BY <1>2, <2>1
<1>5. QED
  BY <1>2, <1>3, <1>4 DEF Rearranges, w

LEMMA ReversedRearranges ==
    ASSUME NEW m \in Nat, NEW v \in [1 .. m -> Int]
    PROVE  Rearranges(m, v, reversed_view(v)) /\ reversed_view(v) = [i \in 1 .. m |-> v[m + 1 - i]]
<1> DEFINE w == reversed_view(v)
<1>1. Len(v) = m
  BY VectorLength
<1>2. w = [i \in 1 .. m |-> v[m + 1 - i]]
  BY <1>1 DEF reversed_view, directed_subset_reference
<1> HIDE DEF w
<1>3. \A i \in 1 .. m : m + 1 - i \in 1 .. m /\ m + 1 - (m + 1 - i) = i
  OBVIOUS
<1>4. w \in [1 .. m -> Int]
  BY <1>2, <1>3
<1>5. \A k \in 1 .. m : \E i \in 1 .. m : w[i] = v[k]
  BY <1>2, <1>3
<1>6. \A i \in 1 .. m : \E k \in 1 .. m : w[i] = v[k]
  BY <1>2, <1>3
<1>7. QED
  BY <1>2, <1>4, <1>5, <1>6 DEF Rearranges, w

\* A vector whose length leaves room for the indices is padded with all of them.
LEMMA PaddedIndexed ==
    ASSUME NEW m \in 1 .. INDEX \div 2, NEW reversed \in BOOLEAN, NEW v \in [1 .. m -> Int]
    PROVE  Indexed(m, reversed, pad_input(v, reversed))
<1> DEFINE padded == [i \in 1 .. m |-> v[i] * INDEX + (IF reversed THEN INDEX - i ELSE i - 1)]
           p == Indices(m, reversed, padded)
<1>0. m \in Nat /\ INDEX \in Nat /\ INDEX > 0 /\ m <= INDEX
  BY IndexAssumption
<1>1. Len(v) = m
  BY <1>0, VectorLength
<1>2. padded \in [1 .. m -> Int]
  BY <1>0
<1>3. ASSUME NEW i \in 1 .. m PROVE p[i] = i - 1
  <2> DEFINE r == IF reversed THEN INDEX - i ELSE i - 1
  <2>1. v[i] \in Int /\ i \in Int /\ 1 <= i /\ i <= INDEX
    BY <1>0
  <2>2. padded[i] % INDEX = r
    <3> DEFINE x == v[i]
    <3>1. padded[i] = INDEX * x + r /\ x \in Int /\ r \in 0 .. INDEX - 1
      BY <1>0, <2>1
    <3> HIDE DEF x, r, padded
    <3>2. (INDEX * x + r) % INDEX = r
      BY <1>0, <3>1, DivModUnique
    <3>3. QED
      BY <3>1, <3>2
  <2>3. p[i] = IndexOf(reversed, padded[i])
    BY DEF Indices
  <2>4. p[i] = IF reversed THEN (INDEX - 1) - r ELSE r
    BY <2>2, <2>3 DEF IndexOf
  <2>5. QED
    BY <1>0, <2>1, <2>4
<1>4. p = [i \in 1 .. m |-> i - 1]
  BY <1>3 DEF Indices
<1>5. p \in PermutationsOf(m)
  BY <1>0, <1>4, IdentityIsPermutation DEF Identity
<1>6. Indexed(m, reversed, padded)
  BY <1>2, <1>5 DEF Indexed
<1>7. pad_input(v, reversed) = IF reversed THEN reversed_view(padded) ELSE padded
  BY <1>1 DEF pad_input
<1> HIDE DEF padded
<1>8. Indexed(m, reversed, reversed_view(padded))
  BY <1>0, <1>2, <1>6, ReversedRearranges, RearrangedIndexed
<1>9. QED
  BY <1>6, <1>7, <1>8

LEMMA InversePermutation ==
    ASSUME NEW m \in Nat, NEW p \in PermutationsOf(m), NEW q \in PermutationsOf(m)
    PROVE  local_apply_inverse_perm(p, q) \in PermutationsOf(m)
<1> DEFINE w == local_apply_inverse_perm(p, q)
<1>1. w = [i \in 1 .. m |-> p[q[i] + 1]]
  BY InverseForm
<1>2. Onto(m, p) /\ Onto(m, q)
  BY PermutationProperties
<1> HIDE DEF w
<1>3. w \in [1 .. m -> 0 .. m - 1]
  BY <1>1, <1>2 DEF Onto
<1>4. ASSUME NEW i \in 1 .. m, NEW j \in 1 .. m, w[i] = w[j] PROVE i = j
  <2>1. q[i] + 1 \in 1 .. m /\ q[j] + 1 \in 1 .. m /\ p[q[i] + 1] = p[q[j] + 1]
    BY <1>1, <1>2, <1>4 DEF Onto
  <2>2. q[i] + 1 = q[j] + 1
    <3>1. \A a, b \in 1 .. m : p[a] = p[b] => a = b
      BY <1>2 DEF Onto
    <3>2. QED
      BY ONLY <2>1, <3>1
  <2>3. q[i] \in 0 .. m - 1 /\ q[j] \in 0 .. m - 1
    BY <1>2 DEF Onto
  <2>4. q[i] = q[j]
    BY <2>2, <2>3
  <2>5. QED
    BY <1>2, <2>4 DEF Onto
<1>5. w \in PermutationsOf(m)
  BY <1>3, <1>4, DifferentIndices
<1>6. QED
  BY <1>5 DEF w

LEMMA Composed ==
    ASSUME NEW m \in Nat, NEW sigma \in PermutationsOf(m), NEW rho \in PermutationsOf(m), NEW pi \in PermutationsOf(m)
    PROVE  compose_permutations(sigma, rho, pi) \in PermutationsOf(m)
<1>1. local_apply_perm(sigma, pi) \in PermutationsOf(m)
  BY MovedPermutation
<1>2. local_apply_inverse_perm(rho, local_apply_perm(sigma, pi)) \in PermutationsOf(m)
  BY <1>1, InversePermutation
<1>3. QED
  BY <1>2, InversePermutation DEF compose_permutations

LEMMA Inverted ==
    ASSUME NEW m \in Nat, NEW p \in PermutationsOf(m), NEW pi \in PermutationsOf(m)
    PROVE  invert(p, pi) \in PermutationsOf(m)
<1>1. Len(p) = m
  BY OccursInPermutation
<1>2. Identity(m) \in PermutationsOf(m)
  BY IdentityIsPermutation
<1>3. Identity(m) \in [1 .. m -> 0 .. m - 1]
  BY <1>2, OccursInPermutation
<1>4. oblivious_apply_elementwise_perm(Identity(m), p, pi) = local_apply_perm(Identity(m), p)
  BY <1>3, ObliviousApplied
<1>5. QED
  BY <1>1, <1>2, <1>4, MovedPermutation DEF invert

\* The low bits of the padded elements are the way back to the input, whatever the order.
LEMMA PaddingRemoved ==
    ASSUME NEW m \in 1 .. INDEX \div 2, NEW reversed \in BOOLEAN, NEW v, Indexed(m, reversed, v),
           NEW parties, NEW pi \in PermutationsOf(m)
    PROVE  remove_padding(v, reversed, parties, pi) \in PermutationsOf(m)
<1> DEFINE low == [i \in 1 .. m |-> LowBits(v[i])]
           p == Indices(m, reversed, v)
<1> DEFINE half == INDEX \div 2
<1>0. m \in Nat /\ half \in Int /\ m <= half /\ INDEX \in Nat /\ INDEX > 0 /\ INDEX = 2 * half
  BY IndexAssumption
<1>1. v \in [1 .. m -> Int] /\ p \in PermutationsOf(m)
  BY DEF Indexed
<1>2. Len(v) = m
  BY <1>0, <1>1, VectorLength
<1>3. p \in [1 .. m -> 0 .. m - 1]
  BY <1>0, <1>1, OccursInPermutation
<1>4. ASSUME NEW i \in 1 .. m
      PROVE  LowBits(v[i]) \in Int /\ p[i] = IF reversed THEN -LowBits(v[i]) - 1 ELSE LowBits(v[i])
  <2> DEFINE u == v[i] % INDEX
  <2>1. /\ p[i] \in Int /\ 0 <= p[i] /\ p[i] < half
        /\ p[i] = IF reversed THEN (INDEX - 1) - u ELSE u
    <3>1. p[i] = IndexOf(reversed, v[i])
      BY DEF Indices
    <3>2. p[i] \in 0 .. m - 1
      BY <1>3
    <3> HIDE DEF p, half
    <3>3. p[i] \in Int /\ 0 <= p[i] /\ p[i] < half
      BY <1>0, <3>2
    <3>4. QED
      BY <3>1, <3>3 DEF IndexOf
  <2>2. u \in Int
    BY <1>0, <1>1
  <2>3. LowBits(v[i]) = IF u >= half THEN u - INDEX ELSE u
    BY DEF LowBits
  <2> HIDE DEF u, p, half
  <2>4. QED
    BY <1>0, <2>1, <2>2, <2>3
<1> HIDE DEF p
<1>5. low \in [1 .. m -> Int]
  BY <1>4
<1>6. b2a(low, parties, pi) = low
  <2> HIDE DEF low
  <2>1. m \in Nat /\ low \in [1 .. m -> Int]
    BY <1>0, <1>5
  <2>2. local_apply_inverse_perm(local_apply_perm(low, pi), pi) = low
    BY ONLY <2>1, pi \in PermutationsOf(m), AppliedInverse
  <2>3. QED
    BY <2>2 DEF b2a
<1>7. Len(low) = m
  BY <1>0, <1>5, VectorLength
<1>8. remove_padding(v, reversed, parties, pi) = IF reversed THEN negate(low) ELSE low
  BY <1>2, <1>6 DEF remove_padding
<1>9. (IF reversed THEN negate(low) ELSE low) = p
  <2>1. CASE reversed
    <3>1. negate(low) = [i \in 1 .. m |-> -low[i] - 1]
      BY <1>7 DEF negate
    <3>2. \A i \in 1 .. m : -low[i] - 1 = p[i]
      BY <1>4, <2>1
    <3> HIDE DEF low
    <3>3. QED
      BY <1>3, <2>1, <3>1, <3>2
  <2>2. CASE ~reversed
    <3>1. \A i \in 1 .. m : low[i] = p[i]
      BY <1>4, <2>2
    <3> HIDE DEF low
    <3>2. QED
      BY <1>3, <1>5, <2>2, <3>1
  <2>3. QED
    BY <2>1, <2>2
<1>10. QED
  BY <1>1, <1>8, <1>9

LEMMA KeyBitIsBit ==
    ASSUME NEW x \in Int, NEW i \in Nat, NEW b, NEW full_width
    PROVE  KeyBit(x, i, b, full_width) \in {0, 1}
<1>1. (x \div 2 ^ i) % 2 \in {0, 1}
  OBVIOUS
<1> DEFINE c == (x \div 2 ^ i) % 2
<1>2. KeyBit(x, i, b, full_width) = IF full_width /\ i = b - 1 THEN 1 - c ELSE c
  BY DEF KeyBit
<1>3. c \in {0, 1}
  BY <1>1
<1> HIDE DEF c
<1>4. QED
  BY <1>2, <1>3

\* inclusive_scan adds up from the front.
Sums(f, N, o) ==
    f \in [0 .. N -> Int] /\ f[0] = 0 /\ \A i \in 1 .. N : f[i] = f[i - 1] + o[i]

LEMMA ScannedAll ==
    ASSUME NEW o, Len(o) \in Nat, o \in [1 .. Len(o) -> Int]
    PROVE  \E f : Sums(f, Len(o), o) /\ inclusive_scan(o) = [i \in 1 .. Len(o) |-> f[i]]
<1> DEFINE N == Len(o)
           step == [i \in 1 .. N |-> [x \in Int |-> x + o[i]]]
           f == Recursor(N, Int, 0, step)
           body(h) == [i \in 0 .. N |-> IF i = 0 THEN 0 ELSE h[i - 1] + o[i]]
<1> DEFINE g == CHOOSE h : h = body(h)
<1>9. inclusive_scan(o) = [i \in 1 .. N |-> g[i]]
  BY Zenon DEF inclusive_scan
<1>1. N \in Nat /\ o \in [1 .. N -> Int] /\ 0 \in Int
  OBVIOUS
<1> HIDE DEF N, g
<1>2. step \in [1 .. N -> [Int -> Int]]
  BY <1>1
<1> HIDE DEF step
<1>3. Recurs(f, N, Int, 0, step)
  BY <1>1, <1>2, BoundedRecursion, Zenon
<1> HIDE DEF f
<1>4. f \in [0 .. N -> Int] /\ f[0] = 0 /\ \A i \in 1 .. N : f[i] = step[i][f[i - 1]]
  BY <1>3 DEF Recurs
<1>5. \A i \in 1 .. N : f[i - 1] \in Int
  BY <1>1, <1>4
<1>6. \A i \in 1 .. N : f[i] = f[i - 1] + o[i]
  BY <1>4, <1>5, Zenon DEF step
<1>7. f = body(f)
  <2>1. \A i \in 0 .. N : i # 0 => i \in 1 .. N
    BY <1>1
  <2>2. \A i \in 0 .. N : f[i] = body(f)[i]
    BY <1>4, <1>6, <2>1, Zenon
  <2>3. body(f) = [i \in 0 .. N |-> body(f)[i]]
    BY Zenon
  <2>4. f = [i \in 0 .. N |-> f[i]]
    BY <1>4
  <2>5. QED
    BY <2>2, <2>3, <2>4, Zenon
<1>8. g = body(g)
  BY <1>7, Zenon DEF g
<1>10. g[0] = 0 /\ \A i \in 1 .. N : g[i] = g[i - 1] + o[i]
  <2>1. \A i \in 0 .. N : g[i] = IF i = 0 THEN 0 ELSE g[i - 1] + o[i]
    BY <1>8, Zenon
  <2>2. 0 \in 0 .. N /\ \A i \in 1 .. N : i \in 0 .. N /\ i # 0
    BY <1>1
  <2>3. QED
    BY <2>1, <2>2, Zenon
<1> HIDE DEF body
<1> DEFINE S == {i \in Nat : g[i] = f[i]}
<1>11. 0 \in S /\ \A i \in 1 .. N : i - 1 \in S => i \in S
  BY <1>1, <1>4, <1>6, <1>10
<1> HIDE DEF S
<1>12. \A i \in 0 .. N : i \in S
  BY <1>1, <1>11, BoundedInduction
<1>13. \A i \in 1 .. N : g[i] = f[i]
  BY <1>12 DEF S
<1>14. Sums(f, N, o)
  BY <1>4, <1>6 DEF Sums
<1>15. inclusive_scan(o) = [i \in 1 .. N |-> f[i]]
  BY <1>9, <1>13
<1>16. QED
  BY <1>14, <1>15 DEF N

LEMMA Scanned ==
    ASSUME NEW N \in Nat, NEW o \in [1 .. N -> Int]
    PROVE  \E f : Sums(f, N, o) /\ inclusive_scan(o) = [i \in 1 .. N |-> f[i]]
<1>1. Len(o) = N
  BY VectorLength
<1>2. QED
  BY <1>1, ScannedAll

\* Sums of zeros and ones: they do not go down, and go up by one at every one.
LEMMA SumsGrow ==
    ASSUME NEW N \in Nat, NEW o \in [1 .. N -> {0, 1}], NEW f, Sums(f, N, o)
    PROVE  \A i, j \in 0 .. N : i <= j => 0 <= f[i] /\ f[i] <= f[j]
<1>1. f \in [0 .. N -> Int] /\ f[0] = 0 /\ \A i \in 1 .. N : f[i] = f[i - 1] + o[i]
  BY DEF Sums
<1> DEFINE S == {j \in Nat : \A i \in 0 .. N : i <= j => f[i] <= f[j] /\ 0 <= f[j]}
<1>2. 0 \in S
  BY <1>1
<1>3. ASSUME NEW j \in 1 .. N, j - 1 \in S PROVE j \in S
  <2>1. f[j] = f[j - 1] + o[j] /\ f[j - 1] \in Int /\ o[j] \in {0, 1} /\ j - 1 \in 0 .. N
    BY <1>1
  <2>2. \A i \in 0 .. N : i <= j - 1 => f[i] <= f[j - 1] /\ 0 <= f[j - 1]
    BY <1>3
  <2>3. 0 <= f[j] /\ f[j - 1] <= f[j] /\ f[j] \in Int
    BY <2>1, <2>2
  <2>4. ASSUME NEW i \in 0 .. N, i <= j PROVE f[i] <= f[j] /\ 0 <= f[j]
    <3>1. CASE i = j
      BY <2>3, <3>1
    <3>2. CASE i # j
      <4>1. i <= j - 1 /\ f[i] \in Int
        BY <1>1, <2>4, <3>2
      <4>2. QED
        BY <2>1, <2>2, <2>3, <4>1
    <3>3. QED
      BY <3>1, <3>2
  <2>5. QED
    BY <2>4
<1> HIDE DEF S
<1>4. \A j \in 0 .. N : j \in S
  BY <1>2, <1>3, BoundedInduction
<1>5. ASSUME NEW i \in 0 .. N, NEW j \in 0 .. N, i <= j PROVE 0 <= f[i] /\ f[i] <= f[j]
  BY <1>4, <1>5 DEF S
<1>6. QED
  BY <1>5

\* Zeros first and then ones, each in their order: every element gets a place of its own.
LEMMA BitPermutationIs ==
    ASSUME NEW m \in Nat, m > 0, NEW f1 \in [1 .. m -> {0, 1}]
    PROVE  BitPermutation(f1) \in PermutationsOf(m)
<1> DEFINE N == 2 * m
           ones == [i \in 1 .. N |-> IF i <= m THEN 1 - f1[i] ELSE f1[i - m]]
           less == [ones EXCEPT ![1] = @ - 1]
           s == inclusive_scan(less)
           p == BitPermutation(f1)
<1>0. N \in Nat /\ Len(f1) = m /\ 1 \in 1 .. N
  BY VectorLength
<1>1. p = [i \in 1 .. m |-> s[i] + f1[i] * (s[m + i] - s[i])]
  BY <1>0 DEF BitPermutation
<1>2. ones \in [1 .. N -> {0, 1}]
  <2>1. ASSUME NEW i \in 1 .. N PROVE ones[i] \in {0, 1}
    <3>1. CASE i <= m
      <4>1. f1[i] \in {0, 1} /\ ones[i] = 1 - f1[i]
        BY <3>1
      <4>2. QED
        BY <4>1
    <3>2. CASE ~(i <= m)
      <4>1. i - m \in 1 .. m /\ ones[i] = f1[i - m]
        BY <3>2
      <4>2. QED
        BY <4>1
    <3>3. QED
      BY <3>1, <3>2
  <2>2. QED
    BY <2>1
<1>3. \A i \in 1 .. m : ones[i] = 1 - f1[i] /\ ones[m + i] = f1[i] /\ i \in 1 .. N /\ m + i \in 1 .. N
  OBVIOUS
<1> HIDE DEF ones
<1>4. less \in [1 .. N -> Int] /\ less[1] = ones[1] - 1 /\ \A i \in 2 .. N : less[i] = ones[i]
  BY <1>0, <1>2
<1> HIDE DEF less, N
<1>5. PICK g : Sums(g, N, less) /\ s = [i \in 1 .. N |-> g[i]]
  BY <1>0, <1>4, Scanned
<1> HIDE DEF s
<1>6. g \in [0 .. N -> Int] /\ g[0] = 0 /\ \A i \in 1 .. N : g[i] = g[i - 1] + less[i]
  BY <1>5 DEF Sums
<1> DEFINE T == [i \in 0 .. N |-> IF i = 0 THEN 0 ELSE g[i] + 1]
<1>7. T \in [0 .. N -> Int] /\ T[0] = 0 /\ \A i \in 1 .. N : T[i] = g[i] + 1
  BY <1>0, <1>6
<1> HIDE DEF T
<1>8. ASSUME NEW i \in 1 .. N PROVE T[i] = T[i - 1] + ones[i]
  <2>1. CASE i = 1
    <3>1. g[1] = g[0] + less[1] /\ T[1] = g[1] + 1 /\ T[0] = 0 /\ g[0] = 0 /\ ones[1] \in {0, 1}
      BY <1>0, <1>2, <1>6, <1>7
    <3>2. QED
      BY <1>4, <2>1, <3>1
  <2>2. CASE i # 1
    <3>1. /\ i \in 2 .. N /\ i - 1 \in 1 .. N /\ T[i] = g[i] + 1 /\ T[i - 1] = g[i - 1] + 1
          /\ g[i - 1] \in Int /\ ones[i] \in {0, 1}
      BY <1>0, <1>2, <1>6, <1>7, <2>2
    <3>2. QED
      BY <1>4, <1>6, <3>1
  <2>3. QED
    BY <2>1, <2>2
<1>9. Sums(T, N, ones)
  BY <1>7, <1>8 DEF Sums
<1>10. \A i, j \in 0 .. N : i <= j => 0 <= T[i] /\ T[i] <= T[j]
  BY <1>0, <1>2, <1>9, SumsGrow
<1>11. T[N] = m
  <2> DEFINE S == {i \in Nat : T[i] + (T[m + i] - T[m]) = i}
  <2>1. m \in 0 .. N /\ m + 0 = m /\ \A i \in 1 .. m : /\ i \in 1 .. N /\ m + i \in 1 .. N /\ (m + i) - 1 = m + (i - 1)
                                                      /\ i - 1 \in 0 .. N /\ m + (i - 1) \in 0 .. N
    BY DEF N
  <2>2. 0 \in S
    BY <1>7, <2>1
  <2>3. ASSUME NEW i \in 1 .. m, i - 1 \in S PROVE i \in S
    <3>1. T[i] = T[i - 1] + (1 - f1[i]) /\ T[m + i] = T[m + (i - 1)] + f1[i] /\ f1[i] \in {0, 1}
      BY <1>3, <1>8, <2>1
    <3>2. T[i - 1] \in Int /\ T[m + (i - 1)] \in Int /\ T[m] \in Int
      BY <1>7, <2>1
    <3>3. T[i - 1] + (T[m + (i - 1)] - T[m]) = i - 1
      BY <2>3
    <3>4. QED
      BY <3>1, <3>2, <3>3
  <2> HIDE DEF S
  <2>4. \A i \in 0 .. m : i \in S
    BY <2>2, <2>3, BoundedInduction
  <2>5. T[m] + (T[m + m] - T[m]) = m
    BY <2>4 DEF S
  <2>6. m + m = N /\ T[m] \in Int /\ T[N] \in Int
    BY <1>7 DEF N
  <2>7. QED
    BY <2>5, <2>6
<1> DEFINE e(i) == IF f1[i] = 0 THEN i ELSE m + i
<1>12. ASSUME NEW i \in 1 .. m
       PROVE  /\ e(i) \in 1 .. N /\ ones[e(i)] = 1 /\ p[i] = T[e(i)] - 1
              /\ T[e(i)] = T[e(i) - 1] + 1 /\ e(i) - 1 \in 0 .. N /\ T[e(i)] \in Int
  <2>1. i \in 1 .. N /\ m + i \in 1 .. N /\ f1[i] \in {0, 1} /\ ones[i] = 1 - f1[i] /\ ones[m + i] = f1[i]
    BY <1>3
  <2>2. p[i] = g[i] + f1[i] * (g[m + i] - g[i]) /\ g[i] \in Int /\ g[m + i] \in Int
    BY <1>1, <1>5, <1>6, <2>1
  <2>3. CASE f1[i] = 0
    <3>1. p[i] = g[i] /\ e(i) = i /\ ones[i] = 1
      BY <2>1, <2>2, <2>3
    <3>2. T[i] = g[i] + 1 /\ T[i] = T[i - 1] + 1 /\ T[i] \in Int /\ i - 1 \in 0 .. N
      <4>1. T[i] = T[i - 1] + 1
        BY <1>8, <2>1, <3>1
      <4>2. T[i] = g[i] + 1 /\ i - 1 \in 0 .. N /\ i \in 0 .. N
        BY <1>0, <1>7, <2>1
      <4>3. T[i] \in Int
        BY <1>7, <4>2
      <4>4. QED
        BY <4>1, <4>2, <4>3
    <3>3. QED
      BY <2>1, <2>2, <3>1, <3>2
  <2>4. CASE f1[i] = 1
    <3>1. p[i] = g[m + i] /\ e(i) = m + i /\ ones[m + i] = 1
      BY <2>1, <2>2, <2>4
    <3>2. T[m + i] = g[m + i] + 1 /\ T[m + i] = T[m + i - 1] + 1 /\ T[m + i] \in Int /\ m + i - 1 \in 0 .. N
      <4> DEFINE c == m + i
      <4>1. c \in 1 .. N /\ ones[c] = 1
        BY <2>1, <3>1
      <4> HIDE DEF c
      <4>2. T[c] = T[c - 1] + 1
        BY <1>8, <4>1
      <4>3. T[c] = g[c] + 1 /\ c - 1 \in 0 .. N /\ c \in 0 .. N
        BY <1>0, <1>7, <4>1
      <4>4. T[c] \in Int
        BY <1>7, <4>3
      <4>5. QED
        BY <4>2, <4>3, <4>4 DEF c
    <3>3. QED
      BY <2>1, <2>2, <3>1, <3>2
  <2>5. QED
    BY <2>1, <2>3, <2>4
<1>13. ASSUME NEW i \in 1 .. m, NEW j \in 1 .. m PROVE e(i) = e(j) => i = j
  OBVIOUS
<1>14. ASSUME NEW i \in 1 .. m, NEW j \in 1 .. m PROVE ~(e(i) < e(j) /\ T[e(i)] = T[e(j)])
  <2> DEFINE a == e(i)
             b == e(j)
  <2>1. a \in 1 .. N /\ b \in 1 .. N /\ T[b] = T[b - 1] + 1 /\ b - 1 \in 0 .. N
    BY <1>12
  <2> HIDE DEF a, b
  <2>2. SUFFICES ASSUME a < b, T[a] = T[b] PROVE FALSE
    BY DEF a, b
  <2>3. a <= b - 1 /\ a \in 0 .. N
    BY <2>1, <2>2
  <2>4. T[a] <= T[b - 1] /\ T[b - 1] \in Int /\ T[a] \in Int
    BY <1>7, <1>10, <2>1, <2>3
  <2>5. QED
    BY <2>1, <2>2, <2>4
<1> HIDE DEF p
<1>15. ASSUME NEW i \in 1 .. m PROVE p[i] \in 0 .. m - 1
  <2> DEFINE a == e(i)
  <2>1. a \in 1 .. N /\ p[i] = T[a] - 1 /\ T[a] = T[a - 1] + 1 /\ a - 1 \in 0 .. N /\ T[a] \in Int
    BY <1>12
  <2> HIDE DEF a
  <2>2. a \in 0 .. N /\ N \in 0 .. N /\ a <= N
    BY <1>0, <2>1
  <2>3. 0 <= T[a - 1] /\ T[a] <= T[N] /\ T[a - 1] \in Int
    BY <1>7, <1>10, <2>1, <2>2
  <2>4. QED
    BY <1>11, <2>1, <2>3
<1>16. p \in [1 .. m -> 0 .. m - 1]
  BY <1>1, <1>15
<1>17. ASSUME NEW i \in 1 .. m, NEW j \in 1 .. m, p[i] = p[j] PROVE i = j
  <2> DEFINE a == e(i)
             b == e(j)
  <2>1. /\ a \in 1 .. N /\ b \in 1 .. N /\ p[i] = T[a] - 1 /\ p[j] = T[b] - 1 /\ T[a] \in Int /\ T[b] \in Int
    BY <1>12
  <2>2. ~(a < b /\ T[a] = T[b]) /\ ~(b < a /\ T[b] = T[a])
    BY <1>14
  <2>3. a = b => i = j
    BY <1>13
  <2> HIDE DEF a, b
  <2>4. T[a] = T[b]
    <3>1. T[a] - 1 = T[b] - 1
      BY ONLY <1>17, <2>1
    <3>2. QED
      BY ONLY <2>1, <3>1
  <2>5. QED
    BY <2>1, <2>2, <2>3, <2>4
<1>18. p \in PermutationsOf(m)
  BY <1>16, <1>17, DifferentIndices
<1>19. QED
  BY <1>18 DEF p

LEMMA RadixRearranges ==
    ASSUME NEW m \in Nat, m > 0, NEW v \in [1 .. m -> Int], NEW i \in Nat, NEW b, NEW full_width, NEW pi \in PermutationsOf(m)
    PROVE  Rearranges(m, v, RadixRound(v, i, b, full_width, pi))
<1> DEFINE f1 == [k \in 1 .. m |-> KeyBit(v[k] \div INDEX, i, b, full_width)]
<1>1. Len(v) = m
  BY VectorLength
<1>2. \A k \in 1 .. m : v[k] \div INDEX \in Int
  BY IndexAssumption
<1>3. f1 \in [1 .. m -> {0, 1}]
  BY <1>2, KeyBitIsBit
<1>4. BitPermutation(f1) \in PermutationsOf(m)
  BY <1>3, BitPermutationIs
<1>5. RadixRound(v, i, b, full_width, pi) = oblivious_apply_elementwise_perm(v, BitPermutation(f1), pi)
  BY <1>1 DEF RadixRound
<1> HIDE DEF f1
<1>6. oblivious_apply_elementwise_perm(v, BitPermutation(f1), pi) = local_apply_perm(v, BitPermutation(f1))
  BY <1>4, ObliviousApplied
<1>7. QED
  BY <1>4, <1>5, <1>6, MovedRearranges

-----------------------------------------------------------------------------
(***************************************************************************)
(* Quicksort.  Partitioning a segment keeps its elements, and finds a      *)
(* pivot in the rest of a segment of more than one element.                *)
(***************************************************************************)
QuickStates(m, o) == [v : [1 .. m -> Int], pivots : [1 .. m -> Int], opened : {o}]

Partitioned(m, o, st, out, start, end) ==
    /\ out \in QuickStates(m, o) /\ Rearranges(m, st.v, out.v)
    /\ \A k \in 1 .. m : \/ out.pivots[k] = st.pivots[k]
                         \/ k \in start + 1 .. end + 1 /\ out.pivots[k] = k - 1
    /\ start < end => \E k \in start + 2 .. end + 1 : out.pivots[k] >= 0

\* The loop of partition, an element at a time.
Move(r, compared, j) ==
    IF compared # 0 THEN r ELSE [v |-> SwapAt(r.v, j + 1, r.i + 2), i |-> r.i + 1]

Moves(m, f, v, comparisons, start, end) ==
    /\ f \in [start .. end -> [v : [1 .. m -> Int], i : start .. end]]
    /\ f[start] = [v |-> v, i |-> start]
    /\ \A j \in start + 1 .. end : f[j] = Move(f[j - 1], comparisons[j + 1], j)
    /\ Rearranges(m, v, f[end].v)

LEMMA MoveOn ==
    ASSUME NEW m \in Nat, NEW start \in Nat, NEW j \in Nat, start < j, j < m, NEW compared,
           NEW v, NEW r \in [v : [1 .. m -> Int], i : start .. j - 1], Rearranges(m, v, r.v)
    PROVE  /\ Move(r, compared, j) \in [v : [1 .. m -> Int], i : start .. j]
           /\ Rearranges(m, v, Move(r, compared, j).v)
<1>1. r.v \in [1 .. m -> Int] /\ r.i \in start .. j - 1
  OBVIOUS
<1>2. CASE compared # 0
  <2>1. Move(r, compared, j) = r
    BY <1>2 DEF Move
  <2>2. r \in [v : [1 .. m -> Int], i : start .. j]
    OBVIOUS
  <2>3. QED
    BY <2>1, <2>2
<1>3. CASE compared = 0
  <2> DEFINE w == SwapAt(r.v, j + 1, r.i + 2)
  <2>1. Move(r, compared, j) = [v |-> w, i |-> r.i + 1]
    BY <1>3 DEF Move
  <2>2. j + 1 \in 1 .. m /\ r.i + 2 \in 1 .. m /\ r.i + 1 \in start .. j
    BY <1>1
  <2>3. Rearranges(m, r.v, w)
    BY <1>1, <2>2, SwapRearranges
  <2> HIDE DEF w
  <2>4. Rearranges(m, v, w)
    BY <2>3, RearrangesTwice
  <2>5. w \in [1 .. m -> Int]
    BY <2>4 DEF Rearranges
  <2>6. QED
    BY <2>1, <2>2, <2>4, <2>5
<1>4. QED
  BY <1>2, <1>3

LEMMA MovesExist ==
    ASSUME NEW m \in Nat, NEW v \in [1 .. m -> Int], NEW comparisons, NEW start \in Nat, NEW end \in Nat,
           start <= end, end < m
    PROVE  \E f : Moves(m, f, v, comparisons, start, end)
<1> DEFINE K == end - start
           P == [v : [1 .. m -> Int], i : start .. end]
           A(k) == {r \in P : r.i <= start + k /\ Rearranges(m, v, r.v)}
           mv(k, r) == Move(r, comparisons[start + k + 1], start + k)
           step == [k \in 1 .. K |-> [r \in P |-> IF r \in A(k - 1) THEN mv(k, r) ELSE r]]
           base == [v |-> v, i |-> start]
           h == Recursor(K, P, base, step)
<1>0. K \in Nat /\ start + K = end
  OBVIOUS
<1>1. ASSUME NEW k \in 1 .. K, NEW r \in A(k - 1) PROVE mv(k, r) \in A(k)
  <2> DEFINE j == start + k
             c == comparisons[start + k + 1]
  <2>1. j \in Nat /\ start < j /\ j < m /\ j <= end /\ start + (k - 1) = j - 1
    BY <1>0
  <2>2. r \in [v : [1 .. m -> Int], i : start .. j - 1] /\ Rearranges(m, v, r.v)
    BY <2>1
  <2> HIDE DEF j, c
  <2>3. /\ Move(r, c, j) \in [v : [1 .. m -> Int], i : start .. j]
        /\ Rearranges(m, v, Move(r, c, j).v)
    BY <2>1, <2>2, MoveOn
  <2>4. mv(k, r) = Move(r, c, j)
    BY DEF j, c
  <2>5. Move(r, c, j) \in P /\ Move(r, c, j).i <= j
    BY <2>1, <2>3
  <2>6. QED
    BY <2>3, <2>4, <2>5 DEF j
<1> HIDE DEF mv
<1>2. step \in [1 .. K -> [P -> P]]
  <2>1. ASSUME NEW k \in 1 .. K, NEW r \in P PROVE (IF r \in A(k - 1) THEN mv(k, r) ELSE r) \in P
    <3>1. CASE r \in A(k - 1)
      <4>1. mv(k, r) \in A(k)
        BY <1>1, <3>1
      <4>2. QED
        BY <3>1, <4>1
    <3>2. CASE r \notin A(k - 1)
      BY <3>2
    <3>3. QED
      BY <3>1, <3>2
  <2> HIDE DEF A, P
  <2>2. QED
    BY <2>1
<1>3. base \in P /\ base \in A(0)
  BY RearrangesSame
<1> HIDE DEF step, P, A, base, K
<1>4. Recurs(h, K, P, base, step)
  BY <1>0, <1>2, <1>3, BoundedRecursion, Zenon
<1> HIDE DEF h
<1>5. h \in [0 .. K -> P] /\ h[0] = base /\ \A k \in 1 .. K : h[k] = step[k][h[k - 1]]
  BY <1>4 DEF Recurs
<1>6. ASSUME NEW k \in 1 .. K, h[k - 1] \in A(k - 1) PROVE h[k] = mv(k, h[k - 1]) /\ h[k] \in A(k)
  <2>1. h[k - 1] \in P
    BY <1>0, <1>5
  <2>2. h[k] = mv(k, h[k - 1])
    BY <1>5, <1>6, <2>1 DEF step
  <2>3. QED
    BY <1>1, <1>6, <2>2
<1> DEFINE S == {k \in Nat : h[k] \in A(k)}
<1>7. 0 \in S
  BY <1>3, <1>5
<1>8. ASSUME NEW k \in 1 .. K, k - 1 \in S PROVE k \in S
  BY <1>0, <1>6, <1>8
<1> HIDE DEF S
<1>9. \A k \in 0 .. K : k \in S
  BY <1>0, <1>7, <1>8, BoundedInduction
<1>10. \A k \in 0 .. K : h[k] \in A(k)
  BY <1>9 DEF S
<1> DEFINE f == [j \in start .. end |-> h[j - start]]
<1>11. \A j \in start .. end : j - start \in 0 .. K
  BY <1>0 DEF K
<1>12. f \in [start .. end -> P]
  BY <1>5, <1>11
<1>13. f[start] = base
  BY <1>5
<1>14. ASSUME NEW j \in start + 1 .. end PROVE f[j] = Move(f[j - 1], comparisons[j + 1], j)
  <2> DEFINE k == j - start
  <2>1. /\ k \in 1 .. K /\ k - 1 \in 0 .. K /\ start + k = j /\ j \in start .. end /\ j - 1 \in start .. end
        /\ (j - 1) - start = k - 1
    BY <1>0 DEF K
  <2>2. f[j] = h[k] /\ f[j - 1] = h[k - 1]
    BY <2>1
  <2> HIDE DEF k, f
  <2>3. h[k] = mv(k, h[k - 1])
    BY <1>6, <1>10, <2>1
  <2>4. mv(k, h[k - 1]) = Move(h[k - 1], comparisons[j + 1], j)
    BY <2>1 DEF mv
  <2>5. QED
    BY <2>2, <2>3, <2>4
<1>15. Rearranges(m, v, f[end].v)
  <2>1. end - start = K /\ K \in 0 .. K /\ end \in start .. end
    BY <1>0 DEF K
  <2>2. f[end] = h[K]
    BY <2>1
  <2>3. QED
    BY <1>10, <2>1, <2>2 DEF A
<1> HIDE DEF f
<1>16. Moves(m, f, v, comparisons, start, end)
  BY <1>12, <1>13, <1>14, <1>15 DEF Moves, P, base
<1>17. QED
  BY <1>16

LEMMA PartitionDoes ==
    ASSUME NEW m \in Nat, NEW o, NEW st \in QuickStates(m, o), NEW comparisons, NEW start \in Nat, NEW end \in Nat,
           start <= end, end < m
    PROVE  Partitioned(m, o, st, partition(st, comparisons, start, end), start, end)
<1> DEFINE body(h) == [j \in start .. end |->
               IF j = start THEN [v |-> st.v, i |-> start]
               ELSE LET w == h[j - 1]
                    IN  IF comparisons[j + 1] # 0 THEN w
                        ELSE [v |-> SwapAt(w.v, j + 1, w.i + 2), i |-> w.i + 1]]
           g == CHOOSE h : h = body(h)
           i == g[end].i
           once == [st.pivots EXCEPT ![i + 1] = i]
           twice == [once EXCEPT ![i + 2] = i + 1]
           w == SwapAt(g[end].v, start + 1, i + 1)
           out == partition(st, comparisons, start, end)
<1>1. out = [st EXCEPT !.v = w, !.pivots = IF i + 1 <= end THEN twice ELSE once]
  BY Zenon DEF partition
<1>2. st.v \in [1 .. m -> Int] /\ st.pivots \in [1 .. m -> Int] /\ st.opened = o
  BY DEF QuickStates
<1>3. PICK f : Moves(m, f, st.v, comparisons, start, end)
  BY <1>2, MovesExist
<1>4. /\ f \in [start .. end -> [v : [1 .. m -> Int], i : start .. end]]
      /\ f[start] = [v |-> st.v, i |-> start]
      /\ \A j \in start + 1 .. end : f[j] = Move(f[j - 1], comparisons[j + 1], j)
      /\ Rearranges(m, st.v, f[end].v)
  BY <1>3 DEF Moves
<1>5. \A j \in start .. end : j # start => j \in start + 1 .. end
  OBVIOUS
<1>6. f = body(f)
  <2>1. \A j \in start .. end : f[j] = body(f)[j]
    BY <1>4, <1>5, Zenon DEF Move
  <2>2. body(f) = [j \in start .. end |-> body(f)[j]]
    BY Zenon
  <2>3. f = [j \in start .. end |-> f[j]]
    BY <1>4
  <2>4. QED
    BY <2>1, <2>2, <2>3, Zenon
<1>7. g = body(g)
  BY <1>6, Zenon
<1> HIDE DEF g
<1>8. /\ g[start] = [v |-> st.v, i |-> start]
      /\ \A j \in start + 1 .. end : g[j] = Move(g[j - 1], comparisons[j + 1], j)
  <2>1. \A j \in start .. end : g[j] = body(g)[j]
    BY <1>7, Zenon
  <2>2. start \in start .. end /\ \A j \in start + 1 .. end : j \in start .. end /\ j # start
    OBVIOUS
  <2>3. g[start] = [v |-> st.v, i |-> start]
    BY <2>1, <2>2, Zenon
  <2>4. ASSUME NEW j \in start + 1 .. end PROVE g[j] = Move(g[j - 1], comparisons[j + 1], j)
    BY <2>1, <2>2, Zenon DEF Move
  <2>5. QED
    BY <2>3, <2>4
<1> HIDE DEF body
<1>9. g[end] = f[end]
  <2> DEFINE K == end - start
             S == {k \in Nat : g[start + k] = f[start + k]}
  <2>1. K \in Nat /\ start + K = end /\ start + 0 = start
    OBVIOUS
  <2>2. 0 \in S
    BY <1>4, <1>8, <2>1
  <2>3. ASSUME NEW k \in 1 .. K, k - 1 \in S PROVE k \in S
    <3> DEFINE j == start + k
    <3>1. j \in start + 1 .. end /\ start + (k - 1) = j - 1
      BY <2>1
    <3>2. g[j - 1] = f[j - 1]
      BY <2>3, <3>1
    <3> HIDE DEF j
    <3>3. g[j] = f[j]
      BY <1>4, <1>8, <3>1, <3>2
    <3>4. QED
      BY <3>3 DEF j
  <2> HIDE DEF S, K
  <2>4. \A k \in 0 .. K : k \in S
    BY <2>1, <2>2, <2>3, BoundedInduction
  <2>5. K \in S
    BY <2>1, <2>4
  <2>6. QED
    BY <2>1, <2>5 DEF S
<1>10. i \in start .. end /\ g[end].v \in [1 .. m -> Int] /\ Rearranges(m, st.v, g[end].v)
  <2>1. end \in start .. end
    OBVIOUS
  <2>2. f[end] \in [v : [1 .. m -> Int], i : start .. end]
    BY <1>4, <2>1
  <2>3. QED
    BY <1>4, <1>9, <2>2
<1> HIDE DEF i
<1>11. i \in Nat /\ start + 1 \in 1 .. m /\ i + 1 \in 1 .. m /\ i + 1 \in start + 1 .. end + 1
  BY <1>10
<1>12. Rearranges(m, st.v, w) /\ w \in [1 .. m -> Int]
  <2>1. Rearranges(m, g[end].v, w)
    BY <1>10, <1>11, SwapRearranges
  <2> HIDE DEF w
  <2>2. Rearranges(m, st.v, w)
    BY <1>10, <2>1, RearrangesTwice
  <2>3. QED
    BY <2>2 DEF Rearranges
<1> HIDE DEF w
<1>13. /\ once \in [1 .. m -> Int] /\ once[i + 1] = i
       /\ \A k \in 1 .. m : k # i + 1 => once[k] = st.pivots[k]
  BY <1>2, <1>11
<1> HIDE DEF once
<1>14. CASE i + 1 <= end
  <2>1. i + 2 \in 1 .. m /\ i + 2 \in start + 2 .. end + 1 /\ i + 2 # i + 1 /\ i + 1 \in Int
    BY <1>10, <1>11, <1>14
  <2>2. /\ twice \in [1 .. m -> Int] /\ twice[i + 2] = i + 1
        /\ \A k \in 1 .. m : k # i + 2 => twice[k] = once[k]
    BY <1>13, <2>1
  <2> HIDE DEF twice
  <2>3. out \in QuickStates(m, o) /\ out.v = w /\ out.pivots = twice
    BY <1>1, <1>12, <1>14, <2>2 DEF QuickStates
  <2>4. ASSUME NEW k \in 1 .. m
        PROVE  twice[k] = st.pivots[k] \/ (k \in start + 1 .. end + 1 /\ twice[k] = k - 1)
    <3>1. CASE k = i + 2
      BY <1>10, <2>1, <2>2, <3>1
    <3>2. CASE k = i + 1
      BY <1>10, <1>11, <1>13, <2>1, <2>2, <3>2
    <3>3. CASE k # i + 1 /\ k # i + 2
      BY <1>13, <2>2, <3>3
    <3>4. QED
      BY <3>1, <3>2, <3>3
  <2>5. twice[i + 2] >= 0
    BY <1>11, <2>2
  <2>6. \E k \in start + 2 .. end + 1 : twice[k] >= 0
    BY <2>1, <2>5
  <2>7. QED
    BY <1>12, <2>3, <2>4, <2>6 DEF Partitioned
<1>15. CASE ~(i + 1 <= end)
  <2>1. i = end
    BY <1>10, <1>15
  <2>2. out \in QuickStates(m, o) /\ out.v = w /\ out.pivots = once
    BY <1>1, <1>12, <1>13, <1>15 DEF QuickStates
  <2>3. ASSUME NEW k \in 1 .. m
        PROVE  once[k] = st.pivots[k] \/ (k \in start + 1 .. end + 1 /\ once[k] = k - 1)
    <3>1. CASE k = i + 1
      BY <1>10, <1>11, <1>13, <3>1
    <3>2. CASE k # i + 1
      BY <1>13, <3>2
    <3>3. QED
      BY <3>1, <3>2
  <2>4. ASSUME start < end PROVE \E k \in start + 2 .. end + 1 : once[k] >= 0
    <3>1. i + 1 \in start + 2 .. end + 1 /\ once[i + 1] >= 0
      BY <1>11, <1>13, <2>1, <2>4
    <3>2. QED
      BY <3>1
  <2>5. QED
    BY <1>12, <2>2, <2>3, <2>4 DEF Partitioned
<1>16. QED
  BY <1>14, <1>15 DEF out

\* Where the pivots are.
PivotsFit(m, pivots) ==
    /\ pivots \in [1 .. m -> Int] /\ pivots[1] = 0
    /\ \A k \in 1 .. m : pivots[k] \in {-1, k - 1}

\* One position of the walk over the pivots.
WalkStep(w, comparisons, p) ==
    IF w.st.pivots[p] < 0 THEN w
    ELSE IF (p - 1) - w.index = 1 THEN [w EXCEPT !.index = @ + 1]
    ELSE [st |-> partition(w.st, comparisons, w.index, p - 2), index |-> p - 1]

Walks(m, o) == [st : QuickStates(m, o), index : Int]

\* After p positions: the segments up to the last pivot are partitioned, and if one of them had
\* more than one element, there is a pivot that was none.
Walked(m, o, st, w, p) ==
    /\ w \in Walks(m, o) /\ Rearranges(m, st.v, w.st.v)
    /\ IF p = 0 THEN w.index = -1 ELSE w.index \in 0 .. p - 1 /\ st.pivots[w.index + 1] >= 0
    /\ \A k \in 1 .. m : w.st.pivots[k] = st.pivots[k] \/ (k <= w.index /\ w.st.pivots[k] = k - 1)
    /\ \A k \in w.index + 2 .. p : st.pivots[k] < 0
    /\ (\E k \in 1 .. w.index : st.pivots[k] < 0) =>
          \E k \in 1 .. w.index : st.pivots[k] < 0 /\ w.st.pivots[k] >= 0

LEMMA WalksOn ==
    ASSUME NEW m \in Nat, NEW o, NEW st \in QuickStates(m, o), PivotsFit(m, st.pivots), NEW comparisons,
           NEW p \in 1 .. m, NEW w, Walked(m, o, st, w, p - 1)
    PROVE  Walked(m, o, st, WalkStep(w, comparisons, p), p)
<1> DEFINE out == WalkStep(w, comparisons, p)
           new == partition(w.st, comparisons, w.index, p - 2)
<1>0. /\ w \in Walks(m, o) /\ Rearranges(m, st.v, w.st.v)
      /\ IF p - 1 = 0 THEN w.index = -1 ELSE w.index \in 0 .. (p - 1) - 1 /\ st.pivots[w.index + 1] >= 0
      /\ \A k \in 1 .. m : w.st.pivots[k] = st.pivots[k] \/ (k <= w.index /\ w.st.pivots[k] = k - 1)
      /\ \A k \in w.index + 2 .. p - 1 : st.pivots[k] < 0
      /\ (\E k \in 1 .. w.index : st.pivots[k] < 0) =>
            \E k \in 1 .. w.index : st.pivots[k] < 0 /\ w.st.pivots[k] >= 0
  BY DEF Walked
<1>1. /\ w.st \in QuickStates(m, o) /\ w.index \in Int /\ w.index >= -1 /\ w.index <= p - 2
      /\ p # 1 => w.index >= 0 /\ st.pivots[w.index + 1] >= 0
      /\ p = 1 => w.index = -1
  BY <1>0 DEF Walks
<1>2. w.st.pivots[p] = st.pivots[p]
  BY <1>0, <1>1
<1>3. st.pivots \in [1 .. m -> Int] /\ st.pivots[1] = 0
  BY DEF PivotsFit
<1>4. CASE w.st.pivots[p] < 0
  <2>1. out = w
    BY <1>4 DEF WalkStep
  <2>2. p # 1
    BY <1>2, <1>3, <1>4
  <2>3. \A k \in w.index + 2 .. p : st.pivots[k] < 0
    <3>1. ASSUME NEW k \in w.index + 2 .. p PROVE st.pivots[k] < 0
      <4>1. k = p \/ k \in w.index + 2 .. p - 1
        BY <1>1
      <4>2. QED
        BY <1>0, <1>2, <1>4, <4>1
    <3>2. QED
      BY <3>1
  <2>4. p # 0 /\ w.index \in 0 .. p - 1 /\ st.pivots[w.index + 1] >= 0
    BY <1>1, <2>2
  <2> HIDE DEF out
  <2>5. QED
    BY <1>0, <2>1, <2>3, <2>4 DEF Walked, out
<1>5. CASE ~(w.st.pivots[p] < 0) /\ (p - 1) - w.index = 1
  <2>1. out = [w EXCEPT !.index = @ + 1]
    BY <1>5 DEF WalkStep
  <2>2. w.index + 1 = p - 1
    BY <1>1, <1>5
  <2>3. out \in Walks(m, o) /\ out.st = w.st /\ out.index = p - 1
    BY <1>0, <2>1, <2>2 DEF Walks
  <2> HIDE DEF out
  <2>4. st.pivots[p] >= 0 /\ (p - 1) + 1 = p /\ p - 1 \in 0 .. p - 1 /\ p # 0
    BY <1>2, <1>3, <1>5
  <2>5. \A k \in 1 .. m : k <= w.index => k <= p - 1
    BY <1>1
  <2>6. \A k \in (p - 1) + 2 .. p : FALSE
    OBVIOUS
  <2>7. ASSUME NEW k \in 1 .. p - 1, st.pivots[k] < 0
        PROVE  \E q \in 1 .. p - 1 : st.pivots[q] < 0 /\ w.st.pivots[q] >= 0
    <3>1. p # 1 /\ st.pivots[p - 1] >= 0
      BY <1>1, <2>2
    <3>2. k \in 1 .. w.index
      <4>1. k # p - 1
        BY <1>3, <2>7, <3>1
      <4>2. QED
        BY <1>1, <2>2, <4>1
    <3>3. PICK q \in 1 .. w.index : st.pivots[q] < 0 /\ w.st.pivots[q] >= 0
      BY <1>0, <2>7, <3>2
    <3>4. q \in 1 .. p - 1
      BY <1>1
    <3>5. QED
      BY <3>3, <3>4
  <2>8. QED
    BY <1>0, <2>3, <2>4, <2>5, <2>6, <2>7 DEF Walked, out
<1>6. CASE ~(w.st.pivots[p] < 0) /\ (p - 1) - w.index # 1
  <2>1. out = [st |-> new, index |-> p - 1]
    BY <1>6 DEF WalkStep
  <2>2. p # 1 /\ w.index \in Nat /\ p - 2 \in Nat /\ w.index < p - 2 /\ p - 2 < m
    BY <1>1, <1>6
  <2>3. Partitioned(m, o, w.st, new, w.index, p - 2)
    <3> DEFINE a == w.index
               b == p - 2
               s == w.st
    <3>1. a \in Nat /\ b \in Nat /\ a <= b /\ b < m /\ s \in QuickStates(m, o)
      BY <1>1, <2>2
    <3> HIDE DEF a, b, s
    <3>2. Partitioned(m, o, s, partition(s, comparisons, a, b), a, b)
      BY <3>1, PartitionDoes
    <3>3. QED
      BY <3>2 DEF a, b, s
  <2> HIDE DEF new
  <2>4. /\ new \in QuickStates(m, o) /\ Rearranges(m, w.st.v, new.v)
        /\ \A k \in 1 .. m : \/ new.pivots[k] = w.st.pivots[k]
                             \/ k \in w.index + 1 .. (p - 2) + 1 /\ new.pivots[k] = k - 1
    BY <2>3 DEF Partitioned
  <2>5. PICK q \in w.index + 2 .. (p - 2) + 1 : new.pivots[q] >= 0
    BY <2>2, <2>3 DEF Partitioned
  <2>6. q \in 1 .. p - 1 /\ st.pivots[q] < 0
    BY <1>0, <2>2
  <2>7. out \in Walks(m, o) /\ out.st = new /\ out.index = p - 1
    BY <2>1, <2>2, <2>4 DEF Walks
  <2> HIDE DEF out
  <2>8. st.pivots[p] >= 0 /\ (p - 1) + 1 = p /\ p - 1 \in 0 .. p - 1 /\ p # 0
    BY <1>2, <1>3, <1>6
  <2>9. \A k \in (p - 1) + 2 .. p : FALSE
    OBVIOUS
  <2>10. Rearranges(m, st.v, new.v)
    BY <1>0, <2>4, RearrangesTwice
  <2>11. ASSUME NEW k \in 1 .. m PROVE new.pivots[k] = st.pivots[k] \/ (k <= p - 1 /\ new.pivots[k] = k - 1)
    <3>1. CASE new.pivots[k] = w.st.pivots[k]
      BY <1>0, <2>2, <3>1
    <3>2. CASE k \in w.index + 1 .. (p - 2) + 1 /\ new.pivots[k] = k - 1
      BY <2>2, <3>2
    <3>3. QED
      BY <2>4, <3>1, <3>2
  <2>12. \E k \in 1 .. p - 1 : st.pivots[k] < 0 /\ new.pivots[k] >= 0
    BY <2>5, <2>6
  <2>13. QED
    BY <2>7, <2>8, <2>9, <2>10, <2>11, <2>12 DEF Walked, out
<1>7. QED
  BY <1>4, <1>5, <1>6

\* What a round of quicksort does: it opens one more vector, keeps the elements and the pivots,
\* and finds a new one unless every element is one.
Rounded(m, o, st, out) ==
    /\ out \in QuickStates(m, o)
    /\ Rearranges(m, st.v, out.v) /\ PivotsFit(m, out.pivots)
    /\ \A k \in 1 .. m : st.pivots[k] >= 0 => out.pivots[k] >= 0
    /\ (\E k \in 1 .. m : st.pivots[k] < 0) => \E k \in 1 .. m : st.pivots[k] < 0 /\ out.pivots[k] >= 0

Steps(f, m, o, st, comparisons) ==
    /\ f \in [0 .. m -> Walks(m, o)]
    /\ f[0] = [st |-> st, index |-> -1]
    /\ \A p \in 1 .. m : f[p] = WalkStep(f[p - 1], comparisons, p)
    /\ Walked(m, o, st, f[m], m)

LEMMA StepsExist ==
    ASSUME NEW m \in Nat, NEW o, NEW st \in QuickStates(m, o), PivotsFit(m, st.pivots), NEW comparisons
    PROVE  \E f : Steps(f, m, o, st, comparisons)
<1> DEFINE P == Walks(m, o)
           A(p) == {w \in P : Walked(m, o, st, w, p)}
           go(p, w) == WalkStep(w, comparisons, p)
           step == [p \in 1 .. m |-> [w \in P |-> IF w \in A(p - 1) THEN go(p, w) ELSE w]]
           base == [st |-> st, index |-> -1]
           f == Recursor(m, P, base, step)
<1>1. ASSUME NEW p \in 1 .. m, NEW w \in A(p - 1) PROVE go(p, w) \in A(p)
  <2>1. Walked(m, o, st, w, p - 1)
    OBVIOUS
  <2>2. Walked(m, o, st, go(p, w), p)
    BY <2>1, WalksOn
  <2> HIDE DEF go
  <2>3. go(p, w) \in P
    BY <2>2 DEF Walked
  <2>4. QED
    BY <2>2, <2>3
<1> HIDE DEF go
<1>2. step \in [1 .. m -> [P -> P]]
  <2>1. ASSUME NEW p \in 1 .. m, NEW w \in P PROVE (IF w \in A(p - 1) THEN go(p, w) ELSE w) \in P
    <3>1. CASE w \in A(p - 1)
      <4>1. go(p, w) \in A(p)
        BY <1>1, <3>1
      <4>2. QED
        BY <3>1, <4>1
    <3>2. CASE w \notin A(p - 1)
      BY <3>2
    <3>3. QED
      BY <3>1, <3>2
  <2> HIDE DEF A, P
  <2>2. QED
    BY <2>1
<1>3. base \in P /\ base \in A(0)
  <2>1. base \in P /\ base.st = st /\ base.index = -1
    BY DEF Walks
  <2>2. Rearranges(m, st.v, st.v)
    BY RearrangesSame DEF QuickStates
  <2> HIDE DEF base
  <2>3. (\A k \in -1 + 2 .. 0 : FALSE) /\ \A k \in 1 .. -1 : FALSE
    OBVIOUS
  <2>4. Walked(m, o, st, base, 0)
    BY <2>1, <2>2, <2>3 DEF Walked
  <2>5. QED
    BY <2>1, <2>4
<1> HIDE DEF step, P, A, base
<1>4. Recurs(f, m, P, base, step)
  BY <1>2, <1>3, BoundedRecursion, Zenon
<1> HIDE DEF f
<1>5. f \in [0 .. m -> P] /\ f[0] = base /\ \A p \in 1 .. m : f[p] = step[p][f[p - 1]]
  BY <1>4 DEF Recurs
<1>6. ASSUME NEW p \in 1 .. m, f[p - 1] \in A(p - 1) PROVE f[p] = go(p, f[p - 1]) /\ f[p] \in A(p)
  <2>1. f[p - 1] \in P
    BY <1>5
  <2>2. f[p] = go(p, f[p - 1])
    BY <1>5, <1>6, <2>1 DEF step
  <2>3. QED
    BY <1>1, <1>6, <2>2
<1> DEFINE S == {p \in Nat : f[p] \in A(p)}
<1>7. 0 \in S
  BY <1>3, <1>5
<1>8. ASSUME NEW p \in 1 .. m, p - 1 \in S PROVE p \in S
  BY <1>6, <1>8
<1> HIDE DEF S
<1>9. \A p \in 0 .. m : p \in S
  BY <1>7, <1>8, BoundedInduction
<1>10. \A p \in 0 .. m : f[p] \in A(p)
  BY <1>9 DEF S
<1>11. \A p \in 1 .. m : f[p] = WalkStep(f[p - 1], comparisons, p)
  <2>1. ASSUME NEW p \in 1 .. m PROVE f[p] = WalkStep(f[p - 1], comparisons, p)
    <3>1. p - 1 \in 0 .. m
      OBVIOUS
    <3>2. QED
      BY <1>6, <1>10, <3>1 DEF go
  <2>2. QED
    BY <2>1
<1>12. Walked(m, o, st, f[m], m)
  BY <1>10 DEF A
<1>13. Steps(f, m, o, st, comparisons)
  BY <1>5, <1>11, <1>12 DEF Steps, P, base
<1>14. QED
  BY <1>13

LEMMA WalkRounds ==
    ASSUME NEW m \in Nat, m > 0, NEW o, NEW st \in QuickStates(m, o), PivotsFit(m, st.pivots), NEW comparisons,
           NEW w, Walked(m, o, st, w, m)
    PROVE  Rounded(m, o, st, partition(w.st, comparisons, w.index, m - 1))
<1> DEFINE out == partition(w.st, comparisons, w.index, m - 1)
<1>1. /\ w \in Walks(m, o) /\ Rearranges(m, st.v, w.st.v)
      /\ w.index \in 0 .. m - 1 /\ st.pivots[w.index + 1] >= 0
      /\ \A k \in 1 .. m : w.st.pivots[k] = st.pivots[k] \/ (k <= w.index /\ w.st.pivots[k] = k - 1)
      /\ \A k \in w.index + 2 .. m : st.pivots[k] < 0
      /\ (\E k \in 1 .. w.index : st.pivots[k] < 0) =>
            \E k \in 1 .. w.index : st.pivots[k] < 0 /\ w.st.pivots[k] >= 0
  BY DEF Walked
<1>2. w.st \in QuickStates(m, o)
  BY <1>1 DEF Walks
<1>3. Partitioned(m, o, w.st, out, w.index, m - 1)
  <2> DEFINE a == w.index
             b == m - 1
             s == w.st
  <2>1. a \in Nat /\ b \in Nat /\ a <= b /\ b < m /\ s \in QuickStates(m, o)
    BY <1>1, <1>2
  <2> HIDE DEF a, b, s
  <2>2. Partitioned(m, o, s, partition(s, comparisons, a, b), a, b)
    BY <2>1, PartitionDoes
  <2>3. QED
    BY <2>2 DEF a, b, s
<1> HIDE DEF out
<1>4. /\ out \in QuickStates(m, o) /\ Rearranges(m, w.st.v, out.v)
      /\ \A k \in 1 .. m : \/ out.pivots[k] = w.st.pivots[k]
                           \/ k \in w.index + 1 .. (m - 1) + 1 /\ out.pivots[k] = k - 1
      /\ w.index < m - 1 => \E k \in w.index + 2 .. (m - 1) + 1 : out.pivots[k] >= 0
  BY <1>3 DEF Partitioned
<1>5. Rearranges(m, st.v, out.v)
  BY <1>1, <1>4, RearrangesTwice
<1>6. /\ st.pivots \in [1 .. m -> Int] /\ st.pivots[1] = 0 /\ 1 \in 1 .. m
      /\ \A k \in 1 .. m : st.pivots[k] \in {-1, k - 1}
  BY DEF PivotsFit
<1>7. \A k \in 1 .. m : out.pivots[k] = st.pivots[k] \/ out.pivots[k] = k - 1
  BY <1>1, <1>4
<1>8. out.pivots \in [1 .. m -> Int]
  BY <1>4 DEF QuickStates
<1>9. PivotsFit(m, out.pivots)
  <2>1. out.pivots[1] = 0
    BY <1>6, <1>7
  <2>2. \A k \in 1 .. m : out.pivots[k] \in {-1, k - 1}
    BY <1>6, <1>7
  <2>3. QED
    BY <1>8, <2>1, <2>2 DEF PivotsFit
<1>10. \A k \in 1 .. m : st.pivots[k] >= 0 => out.pivots[k] >= 0
  BY <1>6, <1>7
<1>11. ASSUME NEW k \in 1 .. m, st.pivots[k] < 0
       PROVE  \E q \in 1 .. m : st.pivots[q] < 0 /\ out.pivots[q] >= 0
  <2>1. k # w.index + 1
    BY <1>1, <1>6, <1>11
  <2>2. CASE k <= w.index
    <3>1. k \in 1 .. w.index
      BY <1>1, <2>2
    <3>2. PICK q \in 1 .. w.index : st.pivots[q] < 0 /\ w.st.pivots[q] >= 0
      BY <1>1, <1>11, <3>1
    <3>3. q \in 1 .. m /\ out.pivots[q] >= 0
      <4>1. q \in 1 .. m
        BY <1>1
      <4>2. QED
        BY <1>4, <3>2, <4>1
    <3>4. QED
      BY <3>2, <3>3
  <2>3. CASE k > w.index + 1
    <3>1. w.index < m - 1
      BY <1>1, <2>3
    <3>2. PICK q \in w.index + 2 .. (m - 1) + 1 : out.pivots[q] >= 0
      BY <1>4, <3>1
    <3>3. q \in 1 .. m /\ q \in w.index + 2 .. m
      BY <1>1
    <3>4. QED
      BY <1>1, <3>2, <3>3
  <2>4. QED
    BY <1>1, <2>1, <2>2, <2>3
<1>12. QED
  BY <1>4, <1>5, <1>9, <1>10, <1>11 DEF Rounded, out

LEMMA QuickRoundDoes ==
    ASSUME NEW m \in Nat, m > 0, NEW o, NEW st \in QuickStates(m, o), PivotsFit(m, st.pivots)
    PROVE  \E e : Rounded(m, Append(o, e), st, QuickRound(st))
<1> DEFINE N == Len(st.v)
           pivot(i) == Max({st.pivots[k] : k \in 1 .. i})
           non_pivots == [i \in 1 .. N |-> bit(st.pivots[i] < 0)]
           comparisons == [i \in 1 .. N |-> bit(st.v[i] > st.v[pivot(i) + 1])]
           e == included_reference(comparisons, non_pivots)
           op == [st EXCEPT !.opened = Append(@, e)]
           body(h) == [p \in 0 .. N |->
               IF p = 0 THEN [st |-> op, index |-> -1]
               ELSE LET w == h[p - 1] IN
                    IF w.st.pivots[p] < 0 THEN w
                    ELSE IF (p - 1) - w.index = 1 THEN [w EXCEPT !.index = @ + 1]
                    ELSE [st |-> partition(w.st, comparisons, w.index, p - 2), index |-> p - 1]]
           g == CHOOSE h : h = body(h)
<1>1. QuickRound(st) = partition(g[N].st, comparisons, g[N].index, N - 1)
  BY Zenon DEF QuickRound
<1>2. st.v \in [1 .. m -> Int]
  BY DEF QuickStates
<1>3. N = m
  BY <1>2, VectorLength
<1> HIDE DEF e, comparisons, non_pivots, pivot, N
<1> DEFINE o1 == Append(o, e)
<1>4. op \in QuickStates(m, o1) /\ op.v = st.v /\ op.pivots = st.pivots
  BY DEF QuickStates
<1> HIDE DEF op, o1
<1>5. PivotsFit(m, op.pivots)
  BY <1>4
<1>6. PICK f : Steps(f, m, o1, op, comparisons)
  BY <1>4, <1>5, StepsExist
<1>7. /\ f \in [0 .. N -> Walks(m, o1)]
      /\ f[0] = [st |-> op, index |-> -1]
      /\ \A p \in 1 .. N : f[p] = WalkStep(f[p - 1], comparisons, p)
      /\ Walked(m, o1, op, f[m], m)
  BY <1>3, <1>6 DEF Steps
<1>8. N \in Nat
  BY <1>3
<1>9. f = body(f)
  <2>1. \A p \in 0 .. N : p # 0 => p \in 1 .. N
    BY <1>8
  <2>2. \A p \in 0 .. N : f[p] = body(f)[p]
    BY <1>7, <2>1, Zenon DEF WalkStep
  <2>3. body(f) = [p \in 0 .. N |-> body(f)[p]]
    BY Zenon
  <2>4. f = [p \in 0 .. N |-> f[p]]
    BY <1>7
  <2>5. QED
    BY <2>2, <2>3, <2>4, Zenon
<1>10. g = body(g)
  BY <1>9, Zenon
<1> HIDE DEF g
<1>11. g[0] = [st |-> op, index |-> -1] /\ \A p \in 1 .. N : g[p] = WalkStep(g[p - 1], comparisons, p)
  <2>1. \A p \in 0 .. N : g[p] = body(g)[p]
    BY <1>10, Zenon
  <2>2. 0 \in 0 .. N /\ \A p \in 1 .. N : p \in 0 .. N /\ p # 0
    BY <1>8
  <2>3. g[0] = [st |-> op, index |-> -1]
    BY <2>1, <2>2, Zenon
  <2>4. ASSUME NEW p \in 1 .. N PROVE g[p] = WalkStep(g[p - 1], comparisons, p)
    BY <2>1, <2>2, Zenon DEF WalkStep
  <2>5. QED
    BY <2>3, <2>4
<1> HIDE DEF body
<1> DEFINE S == {p \in Nat : g[p] = f[p]}
<1>12. 0 \in S /\ \A p \in 1 .. N : p - 1 \in S => p \in S
  BY <1>7, <1>8, <1>11
<1> HIDE DEF S
<1>13. \A p \in 0 .. N : p \in S
  BY <1>8, <1>12, BoundedInduction
<1>14. g[N] = f[m]
  BY <1>3, <1>8, <1>13 DEF S
<1>15. QuickRound(st) = partition(f[m].st, comparisons, f[m].index, m - 1)
  BY <1>1, <1>3, <1>14
<1>16. Rounded(m, o1, op, QuickRound(st))
  BY <1>4, <1>5, <1>7, <1>15, WalkRounds
<1>17. Rounded(m, o1, st, QuickRound(st))
  BY <1>4, <1>16 DEF Rounded
<1>18. QED
  BY <1>17 DEF o1

\* A vector that is being partitioned: every round has found one more pivot.
PivotSet(m, pivots) == {k \in 1 .. m : pivots[k] >= 0}

Quick(m, reversed, col) ==
    /\ col \in QuickStates(m, col.opened)
    /\ Indexed(m, reversed, col.v) /\ PivotsFit(m, col.pivots)
    /\ \E S : col.opened \in Seq(S)
    /\ \/ Len(col.opened) < Cardinality(PivotSet(m, col.pivots))
       \/ m = 1 /\ Len(col.opened) = 1

\* Another round is due.
Due(m, col) == QuickDone(col) => m = 1 /\ col.opened = <<>>

LEMMA AppendLength ==
    ASSUME NEW S, NEW s \in Seq(S), NEW e
    PROVE  Append(s, e) \in Seq(S \cup {e}) /\ Len(Append(s, e)) = Len(s) + 1 /\ Len(s) \in Nat
<1> DEFINE T == S \cup {e}
<1>1. s \in [1 .. Len(s) -> S] /\ Len(s) \in Nat
  OBVIOUS
<1>2. S \subseteq T /\ e \in T
  OBVIOUS
<1> HIDE DEF T
<1>3. s \in [1 .. Len(s) -> T]
  BY <1>1, <1>2
<1>4. s \in Seq(T)
  BY <1>1, <1>3
<1>5. Append(s, e) \in Seq(T) /\ Len(Append(s, e)) = Len(s) + 1
  BY <1>2, <1>4
<1>6. QED
  BY <1>1, <1>5 DEF T

LEMMA PivotsCounted ==
    ASSUME NEW m \in Nat, NEW pivots
    PROVE  /\ IsFiniteSet(PivotSet(m, pivots)) /\ Cardinality(PivotSet(m, pivots)) \in Nat
           /\ Cardinality(PivotSet(m, pivots)) <= m
<1>1. IsFiniteSet(1 .. m) /\ Cardinality(1 .. m) = m
  BY FS_Interval
<1>2. PivotSet(m, pivots) \in SUBSET (1 .. m)
  BY DEF PivotSet
<1>3. IsFiniteSet(PivotSet(m, pivots)) /\ Cardinality(PivotSet(m, pivots)) <= Cardinality(1 .. m)
  BY <1>1, <1>2, FS_Subset
<1>4. QED
  BY <1>1, <1>3, FS_CardinalityType

LEMMA QuickBounded ==
    ASSUME NEW m \in Nat, NEW reversed, NEW col, Quick(m, reversed, col)
    PROVE  Len(col.opened) \in Nat /\ Len(col.opened) <= m
<1>1. PICK S : col.opened \in Seq(S)
  BY DEF Quick
<1>2. Len(col.opened) \in Nat
  BY <1>1
<1>3. Cardinality(PivotSet(m, col.pivots)) \in Nat /\ Cardinality(PivotSet(m, col.pivots)) <= m
  BY PivotsCounted
<1>4. \/ Len(col.opened) < Cardinality(PivotSet(m, col.pivots))
      \/ m = 1 /\ Len(col.opened) = 1
  BY DEF Quick
<1> DEFINE l == Len(col.opened)
           c == Cardinality(PivotSet(m, col.pivots))
<1>5. l \in Nat /\ c \in Nat /\ c <= m /\ (l < c \/ (m = 1 /\ l = 1))
  BY <1>2, <1>3, <1>4
<1> HIDE DEF l, c
<1>6. l \in Nat /\ l <= m
  BY ONLY <1>5, m \in Nat
<1>7. QED
  BY <1>6 DEF l

LEMMA QuickStarts ==
    ASSUME NEW m \in Nat, m > 0, NEW reversed, NEW v, Indexed(m, reversed, v), NEW pi \in PermutationsOf(m)
    PROVE  Quick(m, reversed, QuickStart(v, pi)) /\ Due(m, QuickStart(v, pi))
<1> DEFINE col == QuickStart(v, pi)
           w == local_apply_perm(v, pi)
           pivots == [i \in 1 .. m |-> IF i = 1 THEN 0 ELSE -1]
<1>1. v \in [1 .. m -> Int]
  BY DEF Indexed
<1>2. Len(v) = m
  BY <1>1, VectorLength
<1>3. col = [v |-> w, opened |-> <<>>, pivots |-> pivots]
  BY <1>2 DEF QuickStart
<1>4. Rearranges(m, v, w)
  BY <1>1, MovedRearranges
<1> HIDE DEF w
<1>5. w \in [1 .. m -> Int] /\ Indexed(m, reversed, w)
  BY <1>4, RearrangedIndexed DEF Rearranges
<1>6. /\ pivots \in [1 .. m -> Int] /\ pivots[1] = 0
      /\ \A k \in 1 .. m : pivots[k] \in {-1, k - 1} /\ (k # 1 => pivots[k] = -1)
  OBVIOUS
<1> HIDE DEF pivots
<1>7. PivotsFit(m, pivots)
  BY <1>6 DEF PivotsFit
<1> HIDE DEF col
<1>8. col.v = w /\ col.opened = <<>> /\ col.pivots = pivots /\ col \in QuickStates(m, col.opened)
  BY <1>3, <1>5, <1>6 DEF QuickStates
<1>9. 1 \in PivotSet(m, pivots)
  BY <1>6 DEF PivotSet
<1>10. Cardinality(PivotSet(m, pivots)) > 0
  <2>1. IsFiniteSet(PivotSet(m, pivots)) /\ Cardinality(PivotSet(m, pivots)) \in Nat
    BY PivotsCounted
  <2>2. Cardinality(PivotSet(m, pivots)) # 0
    BY <1>9, <2>1, FS_EmptySet
  <2>3. QED
    BY <2>1, <2>2
<1>11. <<>> \in Seq({}) /\ Len(<<>>) = 0
  OBVIOUS
<1>12. Quick(m, reversed, col)
  <2>1. Len(col.opened) < Cardinality(PivotSet(m, col.pivots))
    BY <1>8, <1>10, <1>11
  <2>2. \E S : col.opened \in Seq(S)
    BY <1>8, <1>11
  <2>3. QED
    BY <1>5, <1>7, <1>8, <2>1, <2>2 DEF Quick
<1>13. Due(m, col)
  <2>1. SUFFICES ASSUME QuickDone(col) PROVE m = 1
    BY <1>8 DEF Due
  <2>2. \A k \in 1 .. m : pivots[k] >= 0
    <3>1. Len(col.v) = m
      BY <1>5, <1>8, VectorLength
    <3>2. QED
      BY <1>8, <2>1, <3>1 DEF QuickDone
  <2>3. SUFFICES ASSUME m # 1 PROVE FALSE
    OBVIOUS
  <2>4. 2 \in 1 .. m /\ pivots[2] = -1
    BY <1>6, <2>3
  <2>5. QED
    BY <2>2, <2>4
<1>14. QED
  BY <1>12, <1>13 DEF col

LEMMA QuickOn ==
    ASSUME NEW m \in Nat, m > 0, NEW reversed, NEW col, Quick(m, reversed, col), Due(m, col)
    PROVE  Quick(m, reversed, QuickRound(col)) /\ QuickRound(col).opened # <<>>
<1> DEFINE out == QuickRound(col)
           o == col.opened
           old == PivotSet(m, col.pivots)
           new == PivotSet(m, out.pivots)
<1>1. /\ col \in QuickStates(m, o) /\ Indexed(m, reversed, col.v) /\ PivotsFit(m, col.pivots)
      /\ \/ Len(o) < Cardinality(old)
         \/ m = 1 /\ Len(o) = 1
  BY DEF Quick
<1>2. PICK S : o \in Seq(S)
  BY DEF Quick
<1>3. PICK e : Rounded(m, Append(o, e), col, out)
  BY <1>1, QuickRoundDoes
<1> HIDE DEF out, o
<1>4. /\ out \in QuickStates(m, Append(o, e)) /\ Rearranges(m, col.v, out.v) /\ PivotsFit(m, out.pivots)
      /\ \A k \in 1 .. m : col.pivots[k] >= 0 => out.pivots[k] >= 0
      /\ (\E k \in 1 .. m : col.pivots[k] < 0) => \E k \in 1 .. m : col.pivots[k] < 0 /\ out.pivots[k] >= 0
  BY <1>3 DEF Rounded
<1>5. out.opened = Append(o, e) /\ out \in QuickStates(m, out.opened)
  BY <1>4 DEF QuickStates
<1>6. Append(o, e) \in Seq(S \cup {e}) /\ Len(Append(o, e)) = Len(o) + 1 /\ Len(o) \in Nat
  BY <1>2, AppendLength
<1>7. Indexed(m, reversed, out.v)
  BY <1>1, <1>4, RearrangedIndexed
<1>8. IsFiniteSet(new) /\ Cardinality(new) \in Nat /\ IsFiniteSet(old) /\ Cardinality(old) \in Nat
  BY PivotsCounted
<1>9. \/ Len(out.opened) < Cardinality(new)
      \/ m = 1 /\ Len(out.opened) = 1
  <2>1. CASE QuickDone(col)
    <3>1. m = 1 /\ o = <<>>
      BY <2>1 DEF Due, o
    <3>2. Len(o) = 0
      BY <3>1
    <3>3. QED
      BY <1>5, <1>6, <3>1, <3>2
  <2>2. CASE ~QuickDone(col)
    <3>1. col.v \in [1 .. m -> Int] /\ col.pivots \in [1 .. m -> Int]
      BY <1>1 DEF QuickStates
    <3>2. Len(col.v) = m
      BY <3>1, VectorLength
    <3>3. PICK k \in 1 .. m : col.pivots[k] < 0
      BY <2>2, <3>1, <3>2 DEF QuickDone
    <3>4. PICK q \in 1 .. m : col.pivots[q] < 0 /\ out.pivots[q] >= 0
      BY <1>4, <3>3
    <3>5. q \in new /\ q \notin old /\ old \subseteq new
      <4>1. q \in new
        BY <3>4 DEF PivotSet
      <4>2. col.pivots[q] \in Int
        BY <3>1
      <4>3. q \notin old
        BY <3>4, <4>2 DEF PivotSet
      <4>4. old \subseteq new
        BY <1>4 DEF PivotSet
      <4>5. QED
        BY <4>1, <4>3, <4>4
    <3>6. Cardinality(old) < Cardinality(new)
      BY <1>8, <3>5, FS_Subset
    <3>7. m # 1
      <4>1. SUFFICES ASSUME m = 1 PROVE FALSE
        OBVIOUS
      <4>2. k = 1 /\ col.pivots[1] = 0
        BY <1>1, <4>1 DEF PivotsFit
      <4>3. QED
        BY <3>3, <4>2
    <3> HIDE DEF old, new
    <3>8. QED
      BY <1>1, <1>5, <1>6, <1>8, <3>6, <3>7
  <2>3. QED
    BY <2>1, <2>2
<1>10. out.opened # <<>>
  <2>1. Len(<<>>) = 0
    OBVIOUS
  <2>2. Len(out.opened) # 0
    BY <1>5, <1>6
  <2>3. QED
    BY <2>1, <2>2
<1>11. Quick(m, reversed, out)
  BY <1>4, <1>5, <1>6, <1>7, <1>9 DEF Quick
<1>12. QED
  BY <1>10, <1>11 DEF out

-----------------------------------------------------------------------------
(***************************************************************************)
(* What a sort still takes from the manager.                               *)
(***************************************************************************)
\* The keys of a single bit among the first k, and the others.
Singles(j, k) == Cardinality({c \in 1 .. k : j.spec[c][1] \in SingleBits})
Wide(j, k) == k - Singles(j, k)

Shared(j) == IF j.parties = 2 THEN 0 ELSE 1
Radix(j, k) == j.protocol = "RADIXSORT" \/ j.spec[k][1] \in SingleBits

\* Permutations and pairs for the columns up to the k-th, when later ones have been sorted.
RestPerms(j, k) ==
    IF j.op = "vector_sort" THEN 0
    ELSE k + k * Shared(j) + (IF j.protocol = "QUICKSORT" THEN Wide(j, k) ELSE 0)
RestPairs(j, k) ==
    IF j.op = "vector_sort" THEN 0
    ELSE 2 * k + Singles(j, k) + Cardinality(DOMAIN j.rows[1])
         + (IF j.protocol = "RADIXSORT" THEN Wide(j, k) * KEY_BITS ELSE 0)

LEMMA SinglesCount ==
    ASSUME NEW j
    PROVE  /\ Singles(j, 0) = 0
           /\ \A k \in Nat : Singles(j, k) \in 0 .. k
           /\ \A k \in Nat \ {0} :
                Singles(j, k) = Singles(j, k - 1) + (IF j.spec[k][1] \in SingleBits THEN 1 ELSE 0)
<1> DEFINE C(k) == {c \in 1 .. k : j.spec[c][1] \in SingleBits}
<1>1. C(0) = {}
  OBVIOUS
<1>2. Singles(j, 0) = 0
  BY <1>1, FS_EmptySet DEF Singles
<1>3. ASSUME NEW k \in Nat PROVE IsFiniteSet(C(k)) /\ Cardinality(C(k)) \in 0 .. k
  <2>1. IsFiniteSet(1 .. k) /\ Cardinality(1 .. k) = k
    BY FS_Interval
  <2>2. C(k) \in SUBSET (1 .. k)
    OBVIOUS
  <2> HIDE DEF C
  <2>3. IsFiniteSet(C(k)) /\ Cardinality(C(k)) <= k
    BY <2>1, <2>2, FS_Subset
  <2>4. QED
    BY <2>3, FS_CardinalityType
<1>4. ASSUME NEW k \in Nat \ {0}
      PROVE  Cardinality(C(k)) = Cardinality(C(k - 1)) + (IF j.spec[k][1] \in SingleBits THEN 1 ELSE 0)
  <2>1. IsFiniteSet(C(k - 1)) /\ Cardinality(C(k - 1)) \in Nat /\ k \notin C(k - 1)
    BY <1>3
  <2>2. CASE j.spec[k][1] \in SingleBits
    <3>1. C(k) = C(k - 1) \cup {k}
      BY <2>2
    <3> HIDE DEF C
    <3>2. QED
      BY <2>1, <2>2, <3>1, FS_AddElement
  <2>3. CASE j.spec[k][1] \notin SingleBits
    <3>1. C(k) = C(k - 1)
      BY <2>3
    <3> HIDE DEF C
    <3>2. QED
      BY <2>1, <2>3, <3>1
  <2>4. QED
    BY <2>2, <2>3
<1>5. QED
  BY <1>2, <1>3, <1>4 DEF Singles

\* One column more.
LEMMA RestGrows ==
    ASSUME NEW j, j.op = "table_sort", j.protocol \in {"QUICKSORT", "RADIXSORT"}, IsFiniteSet(DOMAIN j.rows[1]),
           NEW k \in Nat \ {0}
    PROVE  /\ RestPerms(j, k) = RestPerms(j, k - 1) + 1 + Shared(j) + (IF Radix(j, k) THEN 0 ELSE 1)
           /\ RestPairs(j, k) = RestPairs(j, k - 1) + 2 + (IF Radix(j, k) THEN bits(j.spec[k][1]) ELSE 0)
<1> DEFINE s == Singles(j, k)
           t == Singles(j, k - 1)
           W == Cardinality(DOMAIN j.rows[1])
           single == j.spec[k][1] \in SingleBits
<1>1. s \in Nat /\ t \in Nat /\ s = t + (IF single THEN 1 ELSE 0) /\ W \in Nat
  <2>1. k \in Nat /\ k - 1 \in Nat
    OBVIOUS
  <2>2. s \in 0 .. k /\ t \in 0 .. k - 1
    BY <2>1, SinglesCount
  <2>3. s = t + (IF single THEN 1 ELSE 0)
    BY SinglesCount
  <2>4. W \in Nat
    BY FS_CardinalityType
  <2>5. QED
    BY <2>1, <2>2, <2>3, <2>4
<1>2. KEY_BITS \in Nat \ {0}
  BY KeyBitsPositive
<1>3. Shared(j) \in {0, 1}
  BY DEF Shared
<1>4. k * Shared(j) = (k - 1) * Shared(j) + Shared(j)
  BY <1>3
<1>5. (k - s) * KEY_BITS = ((k - 1) - t) * KEY_BITS + (IF single THEN 0 ELSE KEY_BITS)
  <2> DEFINE d == (k - 1) - t
  <2>1. d \in Int /\ k - s = IF single THEN d ELSE d + 1
    BY <1>1
  <2> HIDE DEF d
  <2>2. (d + 1) * KEY_BITS = d * KEY_BITS + KEY_BITS /\ d * KEY_BITS \in Int
    BY <1>2, <2>1
  <2>3. QED
    BY <1>2, <2>1, <2>2 DEF d
<1>6. (k - s) * KEY_BITS \in Int /\ ((k - 1) - t) * KEY_BITS \in Int /\ (k - 1) * Shared(j) \in Int
  BY <1>1, <1>2, <1>3
<1>7. /\ Radix(j, k) = (j.protocol = "RADIXSORT" \/ single)
      /\ bits(j.spec[k][1]) = IF single THEN 1 ELSE KEY_BITS
  BY DEF Radix, bits
<1>8. RestPerms(j, k) = k + k * Shared(j) + (IF j.protocol = "QUICKSORT" THEN k - s ELSE 0)
  BY DEF RestPerms, Wide
<1>9. RestPerms(j, k - 1) = (k - 1) + (k - 1) * Shared(j) + (IF j.protocol = "QUICKSORT" THEN (k - 1) - t ELSE 0)
  BY DEF RestPerms, Wide
<1>10. RestPairs(j, k) = 2 * k + s + W + (IF j.protocol = "RADIXSORT" THEN (k - s) * KEY_BITS ELSE 0)
  BY DEF RestPairs, Wide
<1>11. RestPairs(j, k - 1) = 2 * (k - 1) + t + W + (IF j.protocol = "RADIXSORT" THEN ((k - 1) - t) * KEY_BITS ELSE 0)
  BY DEF RestPairs, Wide
<1> DEFINE h == Shared(j)
           u == (k - 1) * h
           x == ((k - 1) - t) * KEY_BITS
           B == KEY_BITS
           d == (IF Radix(j, k) THEN bits(j.spec[k][1]) ELSE 0)
           r == (IF Radix(j, k) THEN 0 ELSE 1)
<1> HIDE DEF s, t, W, single
<1>12. /\ h \in Int /\ u \in Int /\ x \in Int /\ B \in Int /\ s \in Int /\ t \in Int /\ W \in Int /\ k \in Int
       /\ k * h = u + h /\ (k - s) * B = x + (IF single THEN 0 ELSE B)
  BY <1>1, <1>2, <1>3, <1>4, <1>5, <1>6
<1>13. CASE j.protocol = "QUICKSORT"
  <2>1. j.protocol # "RADIXSORT"
    BY <1>13
  <2>2. /\ RestPerms(j, k) = k + (u + h) + (k - s) /\ RestPerms(j, k - 1) = (k - 1) + u + ((k - 1) - t)
        /\ RestPairs(j, k) = 2 * k + s + W + 0 /\ RestPairs(j, k - 1) = 2 * (k - 1) + t + W + 0
    BY <1>8, <1>9, <1>10, <1>11, <1>12, <1>13, <2>1
  <2>3. r = (IF single THEN 0 ELSE 1) /\ d = IF single THEN 1 ELSE 0
    BY <1>7, <2>1
  <2> HIDE DEF h, u, r, d
  <2>4. RestPerms(j, k) = RestPerms(j, k - 1) + 1 + h + r
    BY <1>1, <1>12, <2>2, <2>3
  <2>5. RestPairs(j, k) = RestPairs(j, k - 1) + 2 + d
    BY <1>1, <1>12, <2>2, <2>3
  <2>6. QED
    BY <2>4, <2>5 DEF h, r, d
<1>14. CASE j.protocol = "RADIXSORT"
  <2>1. j.protocol # "QUICKSORT"
    BY <1>14
  <2>2. /\ RestPerms(j, k) = k + (u + h) + 0 /\ RestPerms(j, k - 1) = (k - 1) + u + 0
        /\ RestPairs(j, k) = 2 * k + s + W + (x + (IF single THEN 0 ELSE B))
        /\ RestPairs(j, k - 1) = 2 * (k - 1) + t + W + x
    BY <1>8, <1>9, <1>10, <1>11, <1>12, <1>14, <2>1
  <2>3. r = 0 /\ d = IF single THEN 1 ELSE B
    BY <1>7, <1>14
  <2> HIDE DEF h, u, r, d, x, B
  <2>4. RestPerms(j, k) = RestPerms(j, k - 1) + 1 + h + r
    BY <1>12, <2>2, <2>3
  <2>5. RestPairs(j, k) = RestPairs(j, k - 1) + 2 + d
    BY <1>1, <1>12, <2>2, <2>3
  <2>6. QED
    BY <2>4, <2>5 DEF h, r, d
<1>15. QED
  BY <1>13, <1>14

LEMMA RestIsNat ==
    ASSUME NEW j, j.op \in {"table_sort", "vector_sort"}, IsFiniteSet(DOMAIN j.rows[1]), NEW k \in Nat
    PROVE  RestPerms(j, k) \in Nat /\ RestPairs(j, k) \in Nat /\ RestPerms(j, 0) = 0
<1>1. Singles(j, k) \in 0 .. k /\ Singles(j, 0) = 0 /\ Cardinality(DOMAIN j.rows[1]) \in Nat
  BY SinglesCount, FS_CardinalityType
<1>2. Wide(j, k) \in Nat /\ Wide(j, 0) = 0 /\ KEY_BITS \in Nat /\ Shared(j) \in {0, 1}
  BY <1>1, KeyBitsPositive DEF Wide, Shared
<1>3. Wide(j, k) * KEY_BITS \in Nat /\ k * Shared(j) \in Nat /\ 0 * Shared(j) = 0
  <2> DEFINE w == Wide(j, k)
             B == KEY_BITS
             h == Shared(j)
  <2>1. w \in Nat /\ B \in Nat /\ h \in Nat
    BY <1>2
  <2> HIDE DEF w, B, h
  <2>2. w * B \in Nat /\ k * h \in Nat /\ 0 * h = 0
    BY <2>1
  <2>3. QED
    BY <2>2 DEF w, B, h
<1>4. QED
  BY <1>1, <1>2, <1>3 DEF RestPerms, RestPairs

-----------------------------------------------------------------------------
(***************************************************************************)
(* The inductive invariant of PermutationsServed and QuicksortEnds: where  *)
(* a sort is, the manager has exactly what the sort will still take, and   *)
(* below the values of the column being sorted are the indices of its      *)
(* elements.  mgr is the manager, and first says that the job is the first *)
(* of its program.                                                         *)
(***************************************************************************)
Sorts == {"table_sort", "vector_sort"}

Framed(j, ph, lc, mgr) ==
    /\ ph \in Phases /\ DOMAIN lc = DOMAIN NoLocals /\ mgr \in FittingManagers
    /\ lc.C \in 0 .. Len(j.spec)
    /\ lc.sort_permutation = <<>> \/ IsPermutation(lc.sort_permutation)
    /\ lc.permutation = <<>> \/ IsPermutation(lc.permutation)

\* Outside sorting and shuffling no pairs are stored.
Resting == {"start", "network", "dm_send", "dm_receive", "groups", "draw", "prefix", "packed", "done"}

Rests(j, ph, mgr, first) ==
    /\ ph \in Resting => mgr.pairs = 0
    /\ ph \in Resting \ {"start", "done"} => j.op \notin Sorts
    /\ ph = "draw" => j.op = "gen_perm"
    /\ ph = "start" /\ first => mgr = EmptyManager
    /\ ph = "done" /\ j.op \in Sorts /\ first => mgr.perms = 0 /\ mgr.late = 0

\* The column sorted first needs neither the order of later ones nor composing.
Later(lc) == IF lc.sort_permutation = <<>> THEN 0 ELSE 1

Ordered(j, lc) == lc.sort_permutation = <<>> <=> (j.op = "vector_sort" \/ lc.C = Len(j.spec))

Columns(j, rs, lc, m) ==
    /\ rs = j.rows /\ j.op \in Sorts /\ lc.C \in 1 .. Len(j.spec)
    /\ lc.sort_permutation = <<>> \/ lc.sort_permutation \in PermutationsOf(m)
    /\ Ordered(j, lc)
    /\ DOMAIN lc.col = {"v", "pivots", "opened"} /\ Len(lc.col.opened) \in 0 .. m

Descends(j, lc) == j.spec[lc.C][2] = "DESC"

\* What this column will take when it has been sorted, and the columns before it.
StillPerms(j, lc) == Shared(j) + Later(lc) + RestPerms(j, lc.C - 1)
StillPairs(j, lc) == 1 + RestPairs(j, lc.C - 1)

AtColumn(j, lc, mgr, first, m) ==
    IF j.op = "table_sort"
    THEN Stocked(mgr, first, m, j.parties, RestPerms(j, lc.C) + Later(lc) - 1, RestPairs(j, lc.C) + Later(lc) - 1)
    ELSE mgr.pairs = 0 /\ (first => mgr = EmptyManager)

AtShuffle(j, lc, mgr, first, m) ==
    /\ ~Radix(j, lc.C) /\ Indexed(m, Descends(j, lc), lc.col.v)
    /\ Stocked(mgr, first, m, j.parties, StillPerms(j, lc) + 1, StillPairs(j, lc))

AtPartition(j, lc, mgr, first, m) ==
    /\ Quick(m, Descends(j, lc), lc.col) /\ Due(m, lc.col)
    /\ Stocked(mgr, first, m, j.parties, StillPerms(j, lc), StillPairs(j, lc))

AtBits(j, lc, mgr, first, m) ==
    /\ Radix(j, lc.C) /\ Indexed(m, Descends(j, lc), lc.col.v)
    /\ lc.i \in 0 .. bits(j.spec[lc.C][1]) - 1
    /\ Stocked(mgr, first, m, j.parties, StillPerms(j, lc), bits(j.spec[lc.C][1]) - lc.i + StillPairs(j, lc))

AtUnpad(j, lc, mgr, first, m) ==
    /\ Indexed(m, Descends(j, lc), lc.col.v)
    /\ Stocked(mgr, first, m, j.parties, StillPerms(j, lc), StillPairs(j, lc))

AtCompose(j, lc, mgr, first, m) ==
    /\ j.op = "table_sort" /\ lc.permutation \in PermutationsOf(m)
    /\ Stocked(mgr, first, m, j.parties, Later(lc) + RestPerms(j, lc.C - 1), RestPairs(j, lc.C - 1))

ColumnPhases == {"column", "shuffle", "partition", "bits", "unpad", "compose"}

At(j, ph, lc, mgr, first, m) ==
    /\ ph = "column" => AtColumn(j, lc, mgr, first, m)
    /\ ph = "shuffle" => AtShuffle(j, lc, mgr, first, m)
    /\ ph = "partition" => AtPartition(j, lc, mgr, first, m)
    /\ ph = "bits" => AtBits(j, lc, mgr, first, m)
    /\ ph = "unpad" => AtUnpad(j, lc, mgr, first, m)
    /\ ph = "compose" => AtCompose(j, lc, mgr, first, m)

SortInv(j, ph, rs, lc, mgr, first, m) ==
    ph \in ColumnPhases => Columns(j, rs, lc, m) /\ At(j, ph, lc, mgr, first, m)

\* The columns are permuted: after a sort by the pairs reserved for them, after a shuffle by
\* pairs made for each.
ApplyInv(j, ph, rs, lc, mgr, first, m) ==
    ph = "apply" =>
        \/ /\ j.op = "table_sort" /\ rs = j.rows
           /\ Stocked(mgr, first, m, j.parties, 0, Cardinality(DOMAIN j.rows[1]))
        \/ j.op = "shuffle" /\ mgr \in Ready(m) /\ mgr.pairs = 0

CcsInv(j, ph, rs, lc, mgr, m) ==
    ph = "ccs" =>
        /\ j.op = "radix_sort_ccs" /\ rs = j.rows /\ DOMAIN lc.col = {"v", "pivots", "opened"}
        /\ lc.col.v \in [1 .. m -> Int] /\ lc.permutation \in PermutationsOf(m) /\ lc.i \in Nat
        /\ mgr.size = m /\ mgr.pairs = 0

Served(j, ph, rs, lc, mgr, first) ==
    /\ Framed(j, ph, lc, mgr) /\ Rests(j, ph, mgr, first)
    /\ SortInv(j, ph, rs, lc, mgr, first, Len(j.rows))
    /\ ApplyInv(j, ph, rs, lc, mgr, first, Len(j.rows)) /\ CcsInv(j, ph, rs, lc, mgr, Len(j.rows))

ServedInv == Served(job, phase, rows, loc, pm, at = 1)

-----------------------------------------------------------------------------
(***************************************************************************)
(* Steps that sort nothing.                                                *)
(***************************************************************************)
\* A job that has just been started needs no more of the manager than that it fits and has
\* no pairs left over.
LEMMA StartIsServed ==
    ASSUME NEW j, Len(j.spec) \in Nat, NEW mgr \in FittingManagers, mgr.pairs = 0, NEW first, first => mgr = EmptyManager
    PROVE  Served(j, "start", j.rows, NoLocals, mgr, first)
<1>1. /\ NoLocals.C = 0 /\ NoLocals.sort_permutation = <<>> /\ NoLocals.permutation = <<>> /\ 0 \in 0 .. Len(j.spec)
  BY DEF NoLocals
<1>2. Framed(j, "start", NoLocals, mgr)
  BY <1>1 DEF Framed, Phases
<1>3. Rests(j, "start", mgr, first)
  BY DEF Rests, Resting
<1>4. SortInv(j, "start", j.rows, NoLocals, mgr, first, Len(j.rows))
  BY DEF SortInv, ColumnPhases
<1>5. QED
  BY <1>2, <1>3, <1>4 DEF Served, ApplyInv, CcsInv

LEMMA InitServed == Init => ServedInv
<1> SUFFICES ASSUME Init PROVE ServedInv
  OBVIOUS
<1>1. phase = "start" /\ loc = NoLocals /\ pm = EmptyManager /\ at = 1 /\ rows = job.rows
  BY DEF Init, job
<1>2. JobFits(job)
  BY InitInv, Unfolded
<1>3. Len(job.spec) \in Nat
  BY <1>2 DEF JobFits
<1>4. Served(job, "start", job.rows, NoLocals, pm, at = 1)
  BY <1>1, <1>3, EmptyFits, StartIsServed
<1>5. QED
  BY <1>1, <1>4 DEF ServedInv

LEMMA NextJobServed == OperatorsInv /\ OperatorsInv' /\ ServedInv /\ NextJob => ServedInv'
<1> SUFFICES ASSUME OperatorsInv, OperatorsInv', ServedInv, NextJob PROVE ServedInv'
  OBVIOUS
<1>1. /\ phase = "done" /\ at' = at + 1 /\ phase' = "start" /\ rows' = program[at'].rows /\ loc' = NoLocals
      /\ program' = program /\ pm' = pm
  BY DEF NextJob
<1>2. at \in 1 .. Len(program) /\ program' \in Programs /\ at' \in 1 .. Len(program')
  BY DEF OperatorsInv
<1>3. at' # 1
  BY <1>1, <1>2
<1>4. job' = program[at'] /\ rows' = job'.rows
  BY <1>1 DEF job
<1>5. Len(job'.spec) \in Nat
  <2>1. program \in Programs /\ at' \in 1 .. Len(program)
    BY <1>1, <1>2
  <2>2. JobFits(program[at'])
    BY <2>1, ProgramsFit
  <2>3. QED
    BY <1>4, <2>2 DEF JobFits
<1>6. pm \in FittingManagers /\ pm.pairs = 0
  BY <1>1 DEF ServedInv, Served, Framed, Rests, Resting
<1>7. Served(job', "start", job'.rows, NoLocals, pm, FALSE)
  BY <1>5, <1>6, StartIsServed
<1>8. Served(job', phase', rows', loc', pm', at' = 1)
  BY <1>1, <1>3, <1>4, <1>7
<1>9. QED
  BY <1>8 DEF ServedInv

\* What is known of a job where a step is taken, in terms of the job.
LEMMA ServedUnfolded ==
    ASSUME OperatorsInv, ServedInv
    PROVE  /\ Framed(job, phase, loc, pm) /\ Rests(job, phase, pm, at = 1)
           /\ SortInv(job, phase, rows, loc, pm, at = 1, Len(job.rows))
           /\ ApplyInv(job, phase, rows, loc, pm, at = 1, Len(job.rows))
           /\ CcsInv(job, phase, rows, loc, pm, Len(job.rows))
           /\ JobFits(job) /\ Len(job.rows) \in Nat /\ Len(job.spec) \in Nat
  BY Unfolded DEF ServedInv, Served, JobFits

LEMMA ServedFolded ==
    ASSUME program' = program, at' = at, Served(job, phase', rows', loc', pm', at = 1)
    PROVE  ServedInv'
<1>1. job' = job /\ (at' = 1) = (at = 1)
  BY DEF job
<1>2. QED
  BY <1>1 DEF ServedInv

\* A step of another operation: neither the manager nor what sorting uses is changed, except
\* for a permutation that is drawn.
Plain ==
    /\ program' = program /\ at' = at /\ pm' = pm
    /\ phase \in Resting \ {"done"} /\ phase' \in Resting \ {"start"} /\ job.op \notin Sorts
    /\ phase' = "draw" => job.op = "gen_perm"
    /\ DOMAIN loc' = DOMAIN loc /\ loc'.C = loc.C /\ loc'.sort_permutation = loc.sort_permutation
    /\ loc'.permutation = loc.permutation \/ IsPermutation(loc'.permutation)

LEMMA PlainServed == OperatorsInv /\ ServedInv /\ Plain => ServedInv'
<1> SUFFICES ASSUME OperatorsInv, ServedInv, Plain PROVE ServedInv'
  OBVIOUS
<1>1. /\ Framed(job, phase, loc, pm) /\ Rests(job, phase, pm, at = 1)
  BY ServedUnfolded
<1>2. /\ program' = program /\ at' = at /\ pm' = pm
      /\ phase \in Resting /\ phase' \in Resting \ {"start"} /\ job.op \notin Sorts
      /\ phase' = "draw" => job.op = "gen_perm"
      /\ DOMAIN loc' = DOMAIN loc /\ loc'.C = loc.C /\ loc'.sort_permutation = loc.sort_permutation
      /\ loc'.permutation = loc.permutation \/ IsPermutation(loc'.permutation)
  BY DEF Plain
<1>3. Framed(job, phase', loc', pm')
  <2>1. phase' \in Phases
    BY <1>2 DEF Resting, Phases
  <2>2. QED
    BY <1>1, <1>2, <2>1 DEF Framed
<1>4. Rests(job, phase', pm', at = 1)
  BY <1>1, <1>2 DEF Rests
<1>5. phase' \notin ColumnPhases /\ phase' # "apply" /\ phase' # "ccs"
  BY <1>2 DEF Resting, ColumnPhases
<1>6. SortInv(job, phase', rows', loc', pm', at = 1, Len(job.rows))
  BY <1>5 DEF SortInv, ColumnPhases
<1>7. Served(job, phase', rows', loc', pm', at = 1)
  BY <1>3, <1>4, <1>5, <1>6 DEF Served, ApplyInv, CcsInv
<1>8. QED
  BY <1>2, <1>7, ServedFolded

\* A change of one local keeps the others.
LEMMA LocalNames ==
    DOMAIN NoLocals = {"net", "C", "sort_permutation", "permutation", "col", "i", "shares", "delta", "draws"}
  BY DEF NoLocals

OtherOperations ==
    \/ SortWithNetwork \/ NetworkRound \/ NetworkEnds
    \/ ApplyDMShardedPerm \/ ReceiverMasks \/ SenderPermutes \/ ApplyHMShardedPerm \/ GroupStep
    \/ GeneratePermutation \/ DrawElement
    \/ TumblingWindow \/ GapWindow \/ ThresholdWindow \/ tree_prefix_sum \/ PrefixLevel \/ CartesianJoin
    \/ CompressBits \/ DecompressBits \/ DecomposeBits \/ UnpackBit

LEMMA OthersPlain == OperatorsInv /\ OperatorsInv' /\ ServedInv /\ OtherOperations => Plain
<1> SUFFICES ASSUME OperatorsInv, OperatorsInv', ServedInv, OtherOperations PROVE Plain
  OBVIOUS
<1> DEFINE Names == {"net", "C", "sort_permutation", "permutation", "col", "i", "shares", "delta", "draws"}
           Unnamed == /\ DOMAIN loc' = DOMAIN loc /\ loc'.C = loc.C
                      /\ loc'.sort_permutation = loc.sort_permutation /\ loc'.permutation = loc.permutation
<1>1. DOMAIN loc = Names
  BY ServedUnfolded, LocalNames DEF Framed
<1>2. /\ phase \in Resting \ {"start", "done"} => job.op \notin Sorts
      /\ phase = "draw" => job.op = "gen_perm"
  BY ServedUnfolded DEF Rests
<1>3. {"network", "dm_send", "dm_receive", "groups", "draw", "prefix", "packed"} \subseteq Resting \ {"start", "done"}
  BY DEF Resting
<1>4. "start" \in Resting \ {"done"} /\ "done" \in Resting \ {"start"}
  BY DEF Resting
<1> HIDE DEF Unnamed
<1>5. CASE SortWithNetwork
  <2>1. Unnamed
    BY <1>1, <1>5 DEF SortWithNetwork, Starts, Goto, Unnamed
  <2>2. QED
    BY <1>2, <1>3, <1>4, <1>5, <2>1 DEF SortWithNetwork, Starts, Goto, Plain, Unnamed, Sorts
<1>6. CASE NetworkRound
  <2>1. Unnamed
    BY <1>1, <1>6 DEF NetworkRound, Unnamed
  <2>2. QED
    BY <1>2, <1>3, <1>4, <1>6, <2>1 DEF NetworkRound, Plain, Unnamed, Sorts
<1>7. CASE NetworkEnds
  <2>1. Unnamed
    BY <1>1, <1>7 DEF NetworkEnds, Goto, Unnamed
  <2>2. QED
    BY <1>2, <1>3, <1>4, <1>7, <2>1 DEF NetworkEnds, Goto, Plain, Unnamed, Sorts
<1>8. CASE ApplyDMShardedPerm
  <2>1. Unnamed
    BY <1>1, <1>8 DEF ApplyDMShardedPerm, Starts, Goto, Unnamed
  <2>2. QED
    BY <1>2, <1>3, <1>4, <1>8, <2>1 DEF ApplyDMShardedPerm, Starts, Goto, Plain, Unnamed, Sorts
<1>9. CASE ReceiverMasks
  <2>1. Unnamed
    BY <1>1, <1>9 DEF ReceiverMasks, Goto, Unnamed
  <2>2. QED
    BY <1>2, <1>3, <1>4, <1>9, <2>1 DEF ReceiverMasks, Goto, Plain, Unnamed, Sorts
<1>10. CASE SenderPermutes
  <2>1. Unnamed
    BY <1>1, <1>10 DEF SenderPermutes, Goto, Unnamed
  <2>2. QED
    BY <1>2, <1>3, <1>4, <1>10, <2>1 DEF SenderPermutes, Goto, Plain, Unnamed, Sorts
<1>11. CASE ApplyHMShardedPerm
  <2>1. Unnamed
    BY <1>1, <1>11 DEF ApplyHMShardedPerm, Starts, Goto, Unnamed
  <2>2. QED
    BY <1>2, <1>3, <1>4, <1>11, <2>1 DEF ApplyHMShardedPerm, Starts, Goto, Plain, Unnamed, Sorts
<1>12. CASE GroupStep
  <2>1. Unnamed
    BY <1>1, <1>12 DEF GroupStep, Goto, Unnamed
  <2>2. QED
    BY <1>2, <1>3, <1>4, <1>12, <2>1 DEF GroupStep, Goto, Plain, Unnamed, Sorts
<1>13. CASE TumblingWindow
  <2>1. Unnamed
    BY <1>1, <1>13 DEF TumblingWindow, Starts, WindowIs, Goto, Unnamed
  <2>2. QED
    BY <1>2, <1>3, <1>4, <1>13, <2>1 DEF TumblingWindow, Starts, WindowIs, Goto, Plain, Unnamed, Sorts
<1>14. CASE GapWindow
  <2>1. Unnamed
    BY <1>1, <1>14 DEF GapWindow, Starts, WindowIs, Goto, Unnamed
  <2>2. QED
    BY <1>2, <1>3, <1>4, <1>14, <2>1 DEF GapWindow, Starts, WindowIs, Goto, Plain, Unnamed, Sorts
<1>15. CASE ThresholdWindow
  <2>1. Unnamed
    BY <1>1, <1>15 DEF ThresholdWindow, Starts, WindowIs, Goto, Unnamed
  <2>2. QED
    BY <1>2, <1>3, <1>4, <1>15, <2>1 DEF ThresholdWindow, Starts, WindowIs, Goto, Plain, Unnamed, Sorts
<1>16. CASE tree_prefix_sum
  <2>1. Unnamed
    BY <1>1, <1>16 DEF tree_prefix_sum, Starts, Goto, Unnamed
  <2>2. QED
    BY <1>2, <1>3, <1>4, <1>16, <2>1 DEF tree_prefix_sum, Starts, Goto, Plain, Unnamed, Sorts
<1>17. CASE PrefixLevel
  <2>1. Unnamed
    BY <1>1, <1>17 DEF PrefixLevel, Goto, Unnamed
  <2>2. QED
    BY <1>2, <1>3, <1>4, <1>17, <2>1 DEF PrefixLevel, Goto, Plain, Unnamed, Sorts
<1>18. CASE CartesianJoin
  <2>1. Unnamed
    BY <1>1, <1>18 DEF CartesianJoin, Starts, Goto, Unnamed
  <2>2. QED
    BY <1>2, <1>3, <1>4, <1>18, <2>1 DEF CartesianJoin, Starts, Goto, Plain, Unnamed, Sorts
<1>19. CASE CompressBits
  <2>1. Unnamed
    BY <1>1, <1>19 DEF CompressBits, Starts, Goto, Unnamed
  <2>2. QED
    BY <1>2, <1>3, <1>4, <1>19, <2>1 DEF CompressBits, Starts, Goto, Plain, Unnamed, Sorts
<1>20. CASE DecompressBits
  <2>1. Unnamed
    BY <1>1, <1>20 DEF DecompressBits, Goto, Unnamed
  <2>2. QED
    BY <1>2, <1>3, <1>4, <1>20, <2>1 DEF DecompressBits, Goto, Plain, Unnamed, Sorts
<1>21. CASE DecomposeBits
  <2>1. Unnamed
    BY <1>1, <1>21 DEF DecomposeBits, Starts, Goto, Unnamed
  <2>2. QED
    BY <1>2, <1>3, <1>4, <1>21, <2>1 DEF DecomposeBits, Starts, Goto, Plain, Unnamed, Sorts
<1>22. CASE UnpackBit
  <2>1. Unnamed
    BY <1>1, <1>22 DEF UnpackBit, Goto, Unnamed
  <2>2. QED
    BY <1>2, <1>3, <1>4, <1>22, <2>1 DEF UnpackBit, Goto, Plain, Unnamed, Sorts
<1>23. CASE GeneratePermutation
  <2>1. /\ DOMAIN loc' = DOMAIN loc /\ loc'.C = loc.C /\ loc'.sort_permutation = loc.sort_permutation
        /\ loc'.permutation = Identity(n)
    BY <1>1, <1>23 DEF GeneratePermutation, Starts, Goto
  <2>2. rows = job.rows /\ Len(job.rows) \in Nat
    BY <1>23, Unfolded, ServedUnfolded DEF GeneratePermutation, Starts, Fresh
  <2>3. n \in Nat
    BY <2>2 DEF n
  <2>4. Identity(n) \in PermutationsOf(n)
    BY <2>3, IdentityIsPermutation
  <2>5. IsPermutation(loc'.permutation)
    BY <2>1, <2>4 DEF PermutationsOf
  <2>6. QED
    BY <1>2, <1>3, <1>4, <1>23, <2>1, <2>5 DEF GeneratePermutation, Starts, Goto, Plain, Sorts
<1>24. CASE DrawElement
  <2>1. PICK rand : loc' = [loc EXCEPT !.permutation = GenPermStep(@, loc.i, rand), !.draws = Append(@, rand), !.i = @ + 1]
    BY <1>24 DEF DrawElement
  <2>2. DOMAIN loc' = DOMAIN loc /\ loc'.C = loc.C /\ loc'.sort_permutation = loc.sort_permutation
    BY <1>1, <2>1
  <2>3. phase = "draw" /\ job.op = "gen_perm" /\ program' = program /\ at' = at /\ phase' \in {"draw", "done"} /\ pm' = pm
    BY <1>2, <1>24 DEF DrawElement, Goto
  <2>4. job' = job
    BY <2>3 DEF job
  <2>5. DrawInv(job, phase', rows', loc')
    BY <2>4 DEF OperatorsInv, Good
  <2>6. loc'.i \in Nat /\ Drawing(Len(job.rows), loc')
    BY <2>3, <2>5 DEF DrawInv
  <2>7. PICK f : Trace(Len(job.rows), loc'.draws, loc'.i, f) /\ loc'.permutation = f[loc'.i]
    BY <2>6 DEF Drawing
  <2>8. loc'.permutation \in PermutationsOf(Len(job.rows))
    BY <2>6, <2>7 DEF Trace
  <2>9. IsPermutation(loc'.permutation)
    BY <2>8 DEF PermutationsOf
  <2>10. QED
    BY <1>3, <1>4, <2>2, <2>3, <2>9 DEF Plain, Sorts
<1>25. QED
  BY <1>5, <1>6, <1>7, <1>8, <1>9, <1>10, <1>11, <1>12, <1>13, <1>14, <1>15, <1>16, <1>17, <1>18, <1>19, <1>20, <1>21, <1>22, <1>23, <1>24 DEF OtherOperations

(***************************************************************************)
(* Shuffles, and the radix sort that composes permutations.                *)
(***************************************************************************)
LEMMA ColumnsServed ==
    ASSUME NEW j, NEW ph \in ColumnPhases, NEW rs, NEW lc, NEW mgr, NEW first, Framed(j, ph, lc, mgr),
           SortInv(j, ph, rs, lc, mgr, first, Len(j.rows))
    PROVE  Served(j, ph, rs, lc, mgr, first)
<1>1. ph \notin Resting /\ ph # "apply" /\ ph # "ccs"
  BY DEF ColumnPhases, Resting
<1>2. Rests(j, ph, mgr, first)
  BY <1>1 DEF Rests, Resting
<1>3. QED
  BY <1>1, <1>2 DEF Served, ApplyInv, CcsInv

\* Any other phase.
LEMMA OthersServed ==
    ASSUME NEW j, NEW ph \in Phases \ ColumnPhases, NEW rs, NEW lc, NEW mgr, NEW first, Framed(j, ph, lc, mgr),
           Rests(j, ph, mgr, first), ApplyInv(j, ph, rs, lc, mgr, first, Len(j.rows)), CcsInv(j, ph, rs, lc, mgr, Len(j.rows))
    PROVE  Served(j, ph, rs, lc, mgr, first)
  BY DEF Served, SortInv, ColumnPhases

LEMMA SortJob ==
    ASSUME NEW j, JobFits(j), j.op \in Sorts \cup {"radix_sort_ccs"}
    PROVE  LET m == Len(j.rows)
           IN  /\ SortFits(j, m) /\ m \in Nat /\ m > 0 /\ m \in 1 .. INDEX \div 2
               /\ Len(j.spec) \in Nat /\ Len(j.spec) > 0
               /\ IsFiniteSet(DOMAIN j.rows[1]) /\ MaskOf(j.parties, m) \in PermutationsOf(m)
<1>1. SortFits(j, Len(j.rows)) /\ Len(j.rows) \in Nat /\ Len(j.spec) \in Nat
  BY DEF JobFits, Sorts
<1>2. QED
  BY <1>1 DEF SortFits

LEMMA ShuffleColumnsServed == OperatorsInv /\ OperatorsInv' /\ ServedInv /\ ShuffleColumns => ServedInv'
<1> SUFFICES ASSUME OperatorsInv, OperatorsInv', ServedInv, ShuffleColumns PROVE ServedInv'
  OBVIOUS
<1> DEFINE m == Len(job.rows)
<1>1. /\ phase = "start" /\ job.op = "shuffle" /\ phase' = "apply" /\ program' = program /\ at' = at /\ rows' = rows
      /\ pm' = getNext(pm, n, job.parties)
  BY DEF ShuffleColumns, Starts, Goto
<1>2. /\ Framed(job, phase, loc, pm) /\ pm \in FittingManagers /\ pm.pairs = 0 /\ m \in Nat
      /\ DOMAIN loc = DOMAIN NoLocals
  BY <1>1, ServedUnfolded DEF Rests, Resting, Framed
<1>3. n = m
  BY <1>1, Unfolded DEF Fresh, n
<1>4. pm' \in Ready(m) /\ pm'.pairs = 0
  BY <1>1, <1>2, <1>3, OneReady
<1>5. job' = job
  BY <1>1 DEF job
<1>6. ShuffleInv(job, phase', rows', loc')
  BY <1>5 DEF OperatorsInv, Good
<1>7. loc'.sort_permutation \in PermutationsOf(m)
  BY <1>1, <1>6 DEF ShuffleInv
<1>8. PICK e : loc' = [loc EXCEPT !.sort_permutation = e]
  BY DEF ShuffleColumns
<1>9. DOMAIN loc' = DOMAIN loc /\ loc'.C = loc.C /\ loc'.permutation = loc.permutation
  BY <1>2, <1>8, LocalNames
<1> HIDE DEF m
<1>10. IsPermutation(loc'.sort_permutation) /\ pm' \in FittingManagers
  BY <1>4, <1>7 DEF PermutationsOf, Ready
<1>11. Framed(job, phase', loc', pm')
  BY <1>1, <1>2, <1>9, <1>10 DEF Framed, Phases
<1>12. Rests(job, phase', pm', at = 1)
  BY <1>1 DEF Rests, Resting
<1>13. ApplyInv(job, phase', rows', loc', pm', at = 1, Len(job.rows)) /\ CcsInv(job, phase', rows', loc', pm', Len(job.rows))
  BY <1>1, <1>4 DEF ApplyInv, CcsInv, m
<1>14. phase' \in Phases \ ColumnPhases
  BY <1>1 DEF Phases, ColumnPhases
<1>15. Served(job, phase', rows', loc', pm', at = 1)
  BY <1>11, <1>12, <1>13, <1>14, OthersServed
<1>16. QED
  BY <1>1, <1>15, ServedFolded

LEMMA ApplyToColumnsServed == OperatorsInv /\ ServedInv /\ ApplyToColumns => ServedInv'
<1> SUFFICES ASSUME OperatorsInv, ServedInv, ApplyToColumns PROVE ServedInv'
  OBVIOUS
<1> DEFINE m == Len(job.rows)
           K == Cardinality(DOMAIN job.rows[1])
           out == NextPairs(pm, m, job.parties, K)
<1>1. /\ phase = "apply" /\ phase' = "done" /\ program' = program /\ at' = at /\ loc' = loc
      /\ pm' = NextPairs(pm, n, job.parties, Cardinality(DOMAIN rows[1]))
  BY DEF ApplyToColumns, Goto
<1>2. /\ Framed(job, phase, loc, pm) /\ pm \in FittingManagers /\ m \in Nat
      /\ ApplyInv(job, phase, rows, loc, pm, at = 1, m) /\ JobFits(job)
  BY ServedUnfolded DEF Framed
<1>3. rows = job.rows /\ IsFiniteSet(DOMAIN job.rows[1])
  <2>1. CASE job.op = "table_sort"
    <3>1. rows = job.rows
      BY <1>1, <1>2, <2>1 DEF ApplyInv
    <3>2. QED
      BY <1>2, <2>1, <3>1, SortJob DEF Sorts
  <2>2. CASE job.op = "shuffle"
    <3>1. rows = job.rows
      BY <1>1, <2>2, Unfolded DEF ShuffleInv
    <3>2. QED
      BY <1>2, <2>2, <3>1 DEF JobFits, ShuffleFits
  <2>3. QED
    BY <1>1, <1>2, <2>1, <2>2 DEF ApplyInv
<1>4. K \in Nat /\ pm' = out
  BY <1>1, <1>3, FS_CardinalityType DEF n
<1> HIDE DEF K, out
<1>5. /\ out \in FittingManagers /\ out.pairs = 0
      /\ job.op \in Sorts /\ at = 1 => out.perms = 0 /\ out.late = 0
  <2>1. CASE job.op = "table_sort"
    <3>1. Stocked(pm, at = 1, m, job.parties, 0, K)
      BY <1>1, <1>2, <2>1 DEF ApplyInv, K
    <3> DEFINE first == at = 1
    <3>2. first \in BOOLEAN /\ Stocked(pm, first, m, job.parties, 0, K)
      BY <3>1
    <3> HIDE DEF first, m
    <3>3. out \in FittingManagers /\ Stocked(out, first, m, job.parties, 0, 0)
      BY <1>2, <1>4, <3>2, PairsUsed DEF out
    <3>4. out.pairs = 0 /\ (first => out.perms = 0 /\ out.late = 0)
      BY <3>3 DEF Stocked
    <3>5. QED
      BY <3>3, <3>4 DEF first
  <2>2. CASE job.op = "shuffle"
    <3>1. pm \in Ready(m) /\ pm.pairs = 0
      BY <1>1, <1>2, <2>2 DEF ApplyInv
    <3> HIDE DEF m
    <3>2. out \in FittingManagers /\ out.pairs = 0
      BY <1>2, <1>4, <3>1, PairsMade DEF out
    <3>3. QED
      BY <2>2, <3>2 DEF Sorts
  <2>3. QED
    BY <1>1, <1>2, <2>1, <2>2 DEF ApplyInv
<1>6. Framed(job, phase', loc', pm')
  BY <1>1, <1>2, <1>4, <1>5 DEF Framed, Phases
<1>7. Rests(job, phase', pm', at = 1)
  BY <1>1, <1>4, <1>5 DEF Rests, Resting
<1>8. phase' \in Phases \ ColumnPhases
  BY <1>1 DEF Phases, ColumnPhases
<1>9. ApplyInv(job, phase', rows', loc', pm', at = 1, Len(job.rows)) /\ CcsInv(job, phase', rows', loc', pm', Len(job.rows))
  BY <1>1 DEF ApplyInv, CcsInv
<1>10. Served(job, phase', rows', loc', pm', at = 1)
  BY <1>6, <1>7, <1>8, <1>9, OthersServed
<1>11. QED
  BY <1>1, <1>10, ServedFolded

LEMMA RadixSortCcsServed == OperatorsInv /\ ServedInv /\ RadixSortCcs => ServedInv'
<1> SUFFICES ASSUME OperatorsInv, ServedInv, RadixSortCcs PROVE ServedInv'
  OBVIOUS
<1> DEFINE m == Len(job.rows)
           v == Values(job.spec[1][1])
<1>1. /\ phase = "start" /\ job.op = "radix_sort_ccs" /\ phase' = "ccs" /\ program' = program /\ at' = at /\ rows' = rows
      /\ pm' = reserve(pm, n, job.parties, KEY_BITS + 2, 0)
      /\ loc' = [loc EXCEPT !.C = 1, !.col.v = v, !.permutation = Identity(n)]
  BY DEF RadixSortCcs, Starts, Goto
<1>2. pm \in FittingManagers /\ pm.pairs = 0 /\ JobFits(job)
  BY <1>1, ServedUnfolded DEF Rests, Resting, Framed
<1>3. rows = job.rows /\ loc = NoLocals /\ n = m
  BY <1>1, Unfolded DEF Fresh, n
<1>4. SortFits(job, m) /\ m \in Nat /\ m > 0 /\ Len(job.spec) \in Nat /\ Len(job.spec) > 0
  BY <1>1, <1>2, SortJob
<1>5. v \in [1 .. m -> Int]
  <2>1. 1 \in 1 .. Len(job.spec)
    BY <1>4
  <2>2. \A k \in 1 .. m : rows[k][job.spec[1][1]] \in Int
    BY <1>3, <1>4, <2>1 DEF SortFits
  <2>3. QED
    BY <1>3, <2>2 DEF Values
<1>6. Identity(m) \in PermutationsOf(m)
  BY <1>4, IdentityIsPermutation
<1> HIDE DEF m, v
<1>7. pm' \in FittingManagers /\ pm'.size = m /\ pm'.pairs = 0
  <2>1. KEY_BITS + 2 \in Nat
    BY KeyBitsPositive
  <2>2. QED
    BY <1>1, <1>2, <1>3, <1>4, <2>1, ReserveSizes
<1>8. /\ DOMAIN loc' = DOMAIN NoLocals /\ loc'.C = 1 /\ loc'.sort_permutation = <<>> /\ loc'.permutation = Identity(m)
      /\ DOMAIN loc'.col = {"v", "pivots", "opened"} /\ loc'.col.v = v /\ loc'.i = 0
  BY <1>1, <1>3 DEF NoLocals
<1>9. Framed(job, phase', loc', pm')
  BY <1>1, <1>4, <1>6, <1>7, <1>8 DEF Framed, Phases, PermutationsOf
<1>10. CcsInv(job, phase', rows', loc', pm', m)
  BY <1>1, <1>3, <1>5, <1>6, <1>7, <1>8 DEF CcsInv
<1>11. Rests(job, phase', pm', at = 1) /\ ApplyInv(job, phase', rows', loc', pm', at = 1, m)
  BY <1>1 DEF Rests, Resting, ApplyInv
<1>12. phase' \in Phases \ ColumnPhases
  BY <1>1 DEF Phases, ColumnPhases
<1>13. Served(job, phase', rows', loc', pm', at = 1)
  BY <1>9, <1>10, <1>11, <1>12, OthersServed DEF m
<1>14. QED
  BY <1>1, <1>13, ServedFolded

LEMMA SortBitCcsServed == OperatorsInv /\ ServedInv /\ SortBitCcs => ServedInv'
<1> SUFFICES ASSUME OperatorsInv, ServedInv, SortBitCcs PROVE ServedInv'
  OBVIOUS
<1> DEFINE m == Len(job.rows)
           f1 == [k \in 1 .. n |-> KeyBit(loc.col.v[k], loc.i, KEY_BITS, TRUE)]
           p == BitPermutation(f1)
           w == oblivious_apply_elementwise_perm(loc.col.v, p, Mask)
           q == compose_permutations(loc.permutation, p, Mask)
<1>1. /\ phase = "ccs" /\ phase' \in {"ccs", "done"} /\ program' = program /\ at' = at /\ rows' = rows
      /\ pm' = getNext(getNextPair(pm, n, job.parties), n, job.parties)
  BY DEF SortBitCcs, Goto
<1>2. loc' = [loc EXCEPT !.col.v = w, !.permutation = q, !.i = @ + 1]
  BY DEF SortBitCcs
<1>3. /\ Framed(job, phase, loc, pm) /\ CcsInv(job, phase, rows, loc, pm, m) /\ JobFits(job)
      /\ pm \in FittingManagers /\ DOMAIN loc = DOMAIN NoLocals
  BY ServedUnfolded DEF Framed
<1>4. /\ job.op = "radix_sort_ccs" /\ rows = job.rows /\ DOMAIN loc.col = {"v", "pivots", "opened"}
      /\ loc.col.v \in [1 .. m -> Int] /\ loc.permutation \in PermutationsOf(m) /\ loc.i \in Nat
      /\ pm.size = m /\ pm.pairs = 0
  BY <1>1, <1>3 DEF CcsInv
<1>5. m \in Nat /\ m > 0 /\ MaskOf(job.parties, m) \in PermutationsOf(m)
  BY <1>3, <1>4, SortJob
<1>6. n = m /\ Mask \in PermutationsOf(m)
  BY <1>4, <1>5 DEF n, Mask
<1> HIDE DEF m
<1>7. f1 \in [1 .. m -> {0, 1}]
  <2>1. \A k \in 1 .. m : KeyBit(loc.col.v[k], loc.i, KEY_BITS, TRUE) \in {0, 1}
    BY <1>4, KeyBitIsBit
  <2>2. QED
    BY <1>6, <2>1
<1> HIDE DEF f1
<1>8. p \in PermutationsOf(m)
  BY <1>5, <1>7, BitPermutationIs
<1> HIDE DEF p
<1>9. w \in [1 .. m -> Int]
  <2> DEFINE v == loc.col.v
             pi == Mask
  <2>0. m \in Nat /\ v \in [1 .. m -> Int] /\ pi \in PermutationsOf(m)
    BY <1>4, <1>5, <1>6
  <2> HIDE DEF v, pi, w
  <2>1. oblivious_apply_elementwise_perm(v, p, pi) = local_apply_perm(v, p)
    BY ONLY <1>8, <2>0, ObliviousApplied
  <2>2. local_apply_perm(v, p) \in [1 .. m -> Int]
    BY <1>8, <2>0, MovedRearranges DEF Rearranges
  <2>3. w = local_apply_perm(v, p)
    BY <2>1, Zenon DEF v, w, pi
  <2>4. QED
    BY <2>2, <2>3
<1>10. q \in PermutationsOf(m)
  BY <1>4, <1>5, <1>6, <1>8, Composed
<1> HIDE DEF w, q
<1>11. /\ DOMAIN loc' = DOMAIN NoLocals /\ loc'.C = loc.C /\ loc'.sort_permutation = loc.sort_permutation
       /\ loc'.permutation = q /\ loc'.i = loc.i + 1 /\ DOMAIN loc'.col = {"v", "pivots", "opened"} /\ loc'.col.v = w
  BY <1>2, <1>3, <1>4, LocalNames
<1>12. pm' \in FittingManagers /\ pm'.size = m /\ pm'.pairs = 0
  <2> DEFINE g == getNextPair(pm, m, job.parties)
  <2>1. pm \in Ready(m)
    BY <1>3, <1>4 DEF Ready
  <2>2. g \in Ready(m) /\ g.pairs = 0 /\ g.size = m
    BY <1>4, <1>5, <2>1, PairReady
  <2> HIDE DEF g
  <2>3. getNext(g, m, job.parties) \in Ready(m) /\ getNext(g, m, job.parties).pairs = 0 /\ getNext(g, m, job.parties).size = m
    BY <1>5, <2>2, OneReady DEF Ready
  <2>4. QED
    BY <1>1, <1>6, <2>3 DEF g, Ready
<1>13. Framed(job, phase', loc', pm')
  BY <1>1, <1>3, <1>10, <1>11, <1>12 DEF Framed, Phases, PermutationsOf
<1>14. CcsInv(job, phase', rows', loc', pm', m)
  BY <1>1, <1>4, <1>9, <1>10, <1>11, <1>12 DEF CcsInv
<1>15. Rests(job, phase', pm', at = 1) /\ ApplyInv(job, phase', rows', loc', pm', at = 1, m)
  BY <1>1, <1>4, <1>12 DEF Rests, Resting, ApplyInv, Sorts
<1>16. phase' \in Phases \ ColumnPhases
  BY <1>1 DEF Phases, ColumnPhases
<1>17. Served(job, phase', rows', loc', pm', at = 1)
  BY <1>13, <1>14, <1>15, <1>16, OthersServed DEF m
<1>18. QED
  BY <1>1, <1>17, ServedFolded

(***************************************************************************)
(* Quicksort and radix sort.                                               *)
(***************************************************************************)
\* What table_sort reserves is what its columns take: the column sorted first takes one
\* permutation and one pair less than the others.
LEMMA CountsAre ==
    ASSUME NEW j, JobFits(j), j.op = "table_sort"
    PROVE  LET L == Len(j.spec)
               ns == Cardinality({k \in 1 .. L : j.spec[k][1] \in SingleBits})
               counts == get_perm_counts(L - ns, ns, Cardinality(DOMAIN j.rows[1]) - L, KEY_BITS, j.protocol, j.parties)
           IN  /\ counts.perms = RestPerms(j, L) - 1 /\ counts.pairs = RestPairs(j, L) - 1
               /\ counts.perms \in Nat /\ counts.pairs \in Nat
<1> DEFINE L == Len(j.spec)
           s == Singles(j, L)
           W == Cardinality(DOMAIN j.rows[1])
           B == KEY_BITS
           h == Shared(j)
           x == (L - s) * B
           quick == j.protocol = "QUICKSORT"
           radix == j.protocol = "RADIXSORT"
           counts == get_perm_counts(L - s, s, W - L, B, j.protocol, j.parties)
<1>1. L \in Nat /\ L > 0 /\ IsFiniteSet(DOMAIN j.rows[1])
  BY SortJob DEF Sorts
<1>2. s \in 0 .. L
  BY <1>1, SinglesCount
<1>3. W \in Nat
  BY <1>1, FS_CardinalityType
<1>4. B \in Nat /\ h \in {0, 1}
  BY KeyBitsPositive DEF Shared
<1>5. counts.perms = (L - s) + s - 1 + (IF quick THEN L - s ELSE 0) + (IF j.parties # 2 THEN (L - s) + s ELSE 0)
  BY DEF get_perm_counts
<1>6. counts.pairs = 4 * s + 3 * (L - s) + (W - L) - 1 + (IF radix THEN x ELSE 0)
  BY DEF get_perm_counts
<1>7. RestPerms(j, L) = L + L * h + (IF quick THEN L - s ELSE 0)
  BY DEF RestPerms, Wide
<1>8. RestPairs(j, L) = 2 * L + s + W + (IF radix THEN x ELSE 0)
  BY DEF RestPairs, Wide
<1>9. L * h = IF j.parties # 2 THEN L ELSE 0
  <2>1. h = IF j.parties # 2 THEN 1 ELSE 0
    BY DEF Shared
  <2> HIDE DEF L, h
  <2>2. L * 1 = L /\ L * 0 = 0
    BY <1>1
  <2>3. QED
    BY <2>1, <2>2
<1>10. x \in Nat
  <2> DEFINE d == L - s
  <2>1. d \in Nat
    BY <1>1, <1>2
  <2> HIDE DEF d, B
  <2>2. d * B \in Nat
    BY <1>4, <2>1
  <2>3. QED
    BY <2>2 DEF d
<1>11. s = Cardinality({k \in 1 .. L : j.spec[k][1] \in SingleBits})
  BY DEF Singles
<1> HIDE DEF L, s, W, B, h, x, quick, radix, counts
<1>12. counts.perms = RestPerms(j, L) - 1 /\ counts.perms \in Nat
  BY <1>1, <1>2, <1>5, <1>7, <1>9
<1>13. counts.pairs = RestPairs(j, L) - 1 /\ counts.pairs \in Nat
  BY <1>1, <1>2, <1>3, <1>6, <1>8, <1>10
<1>14. QED
  BY <1>11, <1>12, <1>13 DEF L, W, B, counts

LEMMA TableSortServed == OperatorsInv /\ ServedInv /\ TableSort => ServedInv'
<1> SUFFICES ASSUME OperatorsInv, ServedInv, TableSort PROVE ServedInv'
  OBVIOUS
<1> DEFINE m == Len(job.rows)
           L == Len(job.spec)
           ns == Cardinality({k \in 1 .. L : job.spec[k][1] \in SingleBits})
           counts == get_perm_counts(L - ns, ns, Cardinality(DOMAIN job.rows[1]) - L, KEY_BITS, job.protocol, job.parties)
           first == at = 1
<1>1. /\ phase = "start" /\ job.op = "table_sort" /\ phase' = "column" /\ program' = program /\ at' = at /\ rows' = rows
      /\ loc' = [loc EXCEPT !.C = L]
  BY DEF TableSort, Starts, Goto
<1>2. /\ pm \in FittingManagers /\ pm.pairs = 0 /\ JobFits(job) /\ first \in BOOLEAN /\ (first => pm = EmptyManager)
  BY <1>1, ServedUnfolded DEF Rests, Resting, Framed
<1>3. rows = job.rows /\ loc = NoLocals /\ n = m
  BY <1>1, Unfolded DEF Fresh, n
<1>4. pm' = reserve(pm, m, job.parties, counts.perms, counts.pairs)
  BY <1>3 DEF TableSort, Others
<1>5. m \in Nat /\ m > 0 /\ L \in Nat /\ L > 0
  BY <1>1, <1>2, SortJob DEF Sorts
<1>6. /\ counts.perms = RestPerms(job, L) - 1 /\ counts.pairs = RestPairs(job, L) - 1
      /\ counts.perms \in Nat /\ counts.pairs \in Nat
  BY <1>1, <1>2, CountsAre
<1>7. IsFiniteSet(DOMAIN job.rows[1])
  BY <1>1, <1>2, SortJob DEF Sorts
<1>8. /\ DOMAIN loc' = DOMAIN NoLocals /\ loc'.C = L /\ loc'.sort_permutation = <<>> /\ loc'.permutation = <<>>
      /\ DOMAIN loc'.col = {"v", "pivots", "opened"} /\ loc'.col.opened = <<>>
  BY <1>1, <1>3 DEF NoLocals
<1> HIDE DEF m, L, counts, first
<1>9. pm' \in FittingManagers /\ Stocked(pm', first, m, job.parties, counts.perms, counts.pairs)
  BY <1>2, <1>4, <1>5, <1>6, ReserveStocks
<1>10. /\ counts.perms = RestPerms(job, L) + Later(loc') - 1 /\ counts.pairs = RestPairs(job, L) + Later(loc') - 1
  <2>1. RestPerms(job, L) \in Nat /\ RestPairs(job, L) \in Nat
    BY <1>1, <1>5, <1>7, RestIsNat
  <2>2. Later(loc') = 0
    BY <1>8 DEF Later
  <2>3. QED
    BY <1>6, <2>1, <2>2
<1>11. AtColumn(job, loc', pm', first, m)
  BY <1>1, <1>8, <1>9, <1>10 DEF AtColumn
<1>12. Columns(job, rows', loc', m)
  <2>1. Len(loc'.col.opened) = 0
    BY <1>8
  <2>2. Ordered(job, loc')
    BY <1>8 DEF Ordered, L
  <2>3. loc'.C \in 1 .. L
    BY <1>5, <1>8
  <2>4. QED
    BY <1>1, <1>3, <1>5, <1>8, <2>1, <2>2, <2>3 DEF Columns, Sorts, L
<1>13. Framed(job, phase', loc', pm')
  BY <1>1, <1>5, <1>8, <1>9 DEF Framed, Phases, L
<1>14. SortInv(job, phase', rows', loc', pm', first, m)
  BY <1>1, <1>11, <1>12 DEF SortInv, At
<1>15. Served(job, phase', rows', loc', pm', at = 1)
  BY <1>1, <1>13, <1>14, ColumnsServed DEF ColumnPhases, m, first
<1>16. QED
  BY <1>1, <1>15, ServedFolded

LEMMA VectorSortServed == OperatorsInv /\ ServedInv /\ VectorSort => ServedInv'
<1> SUFFICES ASSUME OperatorsInv, ServedInv, VectorSort PROVE ServedInv'
  OBVIOUS
<1> DEFINE m == Len(job.rows)
           L == Len(job.spec)
           first == at = 1
<1>1. /\ phase = "start" /\ job.op = "vector_sort" /\ phase' = "column" /\ program' = program /\ at' = at /\ rows' = rows
      /\ pm' = pm /\ loc' = [loc EXCEPT !.C = 1]
  BY DEF VectorSort, Starts, Goto
<1>2. /\ pm \in FittingManagers /\ pm.pairs = 0 /\ JobFits(job) /\ (first => pm = EmptyManager)
  BY <1>1, ServedUnfolded DEF Rests, Resting, Framed
<1>3. rows = job.rows /\ loc = NoLocals
  BY <1>1, Unfolded DEF Fresh
<1>4. m \in Nat /\ m > 0 /\ L \in Nat /\ L > 0
  BY <1>1, <1>2, SortJob DEF Sorts
<1>5. /\ DOMAIN loc' = DOMAIN NoLocals /\ loc'.C = 1 /\ loc'.sort_permutation = <<>> /\ loc'.permutation = <<>>
      /\ DOMAIN loc'.col = {"v", "pivots", "opened"} /\ loc'.col.opened = <<>>
  BY <1>1, <1>3 DEF NoLocals
<1> HIDE DEF m, L, first
<1>6. AtColumn(job, loc', pm', first, m)
  BY <1>1, <1>2 DEF AtColumn
<1>7. Columns(job, rows', loc', m)
  <2>1. Len(loc'.col.opened) = 0
    BY <1>5
  <2>2. Ordered(job, loc')
    BY <1>1, <1>5 DEF Ordered
  <2>3. loc'.C \in 1 .. L
    BY <1>4, <1>5
  <2>4. QED
    BY <1>1, <1>3, <1>4, <1>5, <2>1, <2>2, <2>3 DEF Columns, Sorts, L
<1>8. Framed(job, phase', loc', pm')
  BY <1>1, <1>2, <1>4, <1>5 DEF Framed, Phases, L
<1>9. SortInv(job, phase', rows', loc', pm', first, m)
  BY <1>1, <1>6, <1>7 DEF SortInv, At
<1>10. Served(job, phase', rows', loc', pm', at = 1)
  BY <1>1, <1>8, <1>9, ColumnsServed DEF ColumnPhases, m, first
<1>11. QED
  BY <1>1, <1>10, ServedFolded

LEMMA ColumnReserves ==
    ASSUME NEW j, JobFits(j), j.op \in Sorts, NEW lc, lc.C \in 1 .. Len(j.spec), Ordered(j, lc),
           NEW mgr \in FittingManagers, NEW first \in BOOLEAN, AtColumn(j, lc, mgr, first, Len(j.rows))
    PROVE  LET m == Len(j.rows)
               b == bits(j.spec[lc.C][1])
               g == IF Later(lc) = 0 THEN mgr ELSE getNextPair(mgr, m, j.parties)
               out == IF Radix(j, lc.C) THEN reserve(g, m, j.parties, Shared(j), b + 1)
                      ELSE reserve(g, m, j.parties, Shared(j) + 1, 1)
           IN  /\ out \in FittingManagers
               /\ Stocked(out, first, m, j.parties, StillPerms(j, lc) + (IF Radix(j, lc.C) THEN 0 ELSE 1),
                          StillPairs(j, lc) + (IF Radix(j, lc.C) THEN b ELSE 0))
<1> DEFINE m == Len(j.rows)
           col == lc.C
           b == bits(j.spec[col][1])
           f == Later(lc)
           g == IF f = 0 THEN mgr ELSE getNextPair(mgr, m, j.parties)
           h == Shared(j)
           x == IF Radix(j, col) THEN h ELSE h + 1
           y == IF Radix(j, col) THEN b + 1 ELSE 1
           out == reserve(g, m, j.parties, x, y)
           R == RestPerms(j, col - 1)
           Q == RestPairs(j, col - 1)
<1>1. m \in Nat /\ Len(j.spec) \in Nat /\ IsFiniteSet(DOMAIN j.rows[1]) /\ j.protocol \in {"QUICKSORT", "RADIXSORT"}
  BY SortJob DEF SortFits
<1>2. col \in Nat \ {0} /\ col - 1 \in Nat
  BY <1>1
<1>3. R \in Nat /\ Q \in Nat
  <2>1. j.op \in {"table_sort", "vector_sort"}
    BY DEF Sorts
  <2>2. IsFiniteSet(DOMAIN j.rows[1])
    BY <1>1
  <2>3. \A e \in Nat : RestPerms(j, e) \in Nat /\ RestPairs(j, e) \in Nat
    BY ONLY <2>1, <2>2, RestIsNat
  <2>4. QED
    BY <1>2, <2>3
<1>4. b \in Nat /\ h \in {0, 1} /\ f \in {0, 1}
  BY KeyBitsPositive DEF bits, Shared, Later
<1>5. x \in Nat /\ y \in Nat
  BY <1>4
<1>6. StillPerms(j, lc) = h + f + R /\ StillPairs(j, lc) = 1 + Q
  BY DEF StillPerms, StillPairs
<1> DEFINE goal == /\ out \in FittingManagers
                   /\ Stocked(out, first, m, j.parties, (h + f + R) + (IF Radix(j, col) THEN 0 ELSE 1),
                              (1 + Q) + (IF Radix(j, col) THEN b ELSE 0))
<1>7. ASSUME j.op = "table_sort" PROVE goal
  <2> DEFINE A == RestPerms(j, col)
             B == RestPairs(j, col)
  <2>1. /\ A = R + 1 + h + (IF Radix(j, col) THEN 0 ELSE 1)
        /\ B = Q + 2 + (IF Radix(j, col) THEN b ELSE 0)
    BY <1>1, <1>2, <1>7, RestGrows
  <2>2. Stocked(mgr, first, m, j.parties, A + f - 1, B + f - 1)
    BY <1>7 DEF AtColumn
  <2> HIDE DEF A, B, R, Q, m, col, b, f, h, g, out, x, y
  <2>3. A \in Nat /\ B \in Nat /\ B > 0
    BY <1>3, <1>4, <2>1
  <2>4. g \in FittingManagers /\ Stocked(g, first, m, j.parties, A + f - 1, B - 1)
    <3>1. CASE f = 0
      <4>1. A + f - 1 = A + f - 1 /\ B + f - 1 = B - 1
        BY <2>3, <3>1
      <4>2. QED
        BY <2>2, <3>1, <4>1 DEF g
    <3>2. CASE f = 1
      <4>1. B + f - 1 > 0 /\ (B + f - 1) - 1 = B - 1
        BY <2>3, <3>2
      <4> DEFINE c == A + f - 1
                 d == B + f - 1
      <4>2. Stocked(mgr, first, m, j.parties, c, d) /\ d > 0 /\ d - 1 = B - 1
        BY <2>2, <4>1
      <4> HIDE DEF c, d
      <4>3. /\ getNextPair(mgr, m, j.parties) \in FittingManagers
            /\ Stocked(getNextPair(mgr, m, j.parties), first, m, j.parties, c, d - 1)
        BY <1>1, <4>2, TakesPair
      <4>4. g = getNextPair(mgr, m, j.parties)
        BY <3>2 DEF g
      <4>5. QED
        BY <4>2, <4>3, <4>4 DEF c
    <3>3. QED
      BY <1>4, <3>1, <3>2
  <2>5. /\ A + f - 1 = (h + f + R) + (IF Radix(j, col) THEN 0 ELSE 1)
        /\ B - 1 = (1 + Q) + (IF Radix(j, col) THEN b ELSE 0)
    BY <1>3, <1>4, <2>1
  <2>6. x <= A + f - 1 /\ y <= B - 1
    BY <1>3, <1>4, <2>5 DEF x, y
  <2>7. out = g
    <3> DEFINE c == A + f - 1
               d == B - 1
    <3>1. Stocked(g, first, m, j.parties, c, d) /\ x <= c /\ y <= d
      BY <2>4, <2>6
    <3> HIDE DEF c, d
    <3>2. QED
      BY <1>1, <1>5, <2>4, <3>1, ReserveWithin DEF out
  <2>8. QED
    BY <2>4, <2>5, <2>7
<1>8. ASSUME j.op = "vector_sort" PROVE goal
  <2>1. mgr.pairs = 0 /\ (first => mgr = EmptyManager) /\ f = 0 /\ R = 0 /\ Q = 0
    BY <1>8 DEF AtColumn, Ordered, Later, RestPerms, RestPairs
  <2>2. g = mgr
    BY <2>1
  <2> HIDE DEF R, Q, m, col, b, f, h, g, out, x, y
  <2>3. out \in FittingManagers /\ Stocked(out, first, m, j.parties, x, y)
    BY <1>1, <1>5, <2>1, <2>2, ReserveStocks DEF out
  <2>4. x = (h + f + R) + (IF Radix(j, col) THEN 0 ELSE 1) /\ y = (1 + Q) + (IF Radix(j, col) THEN b ELSE 0)
    BY <1>4, <2>1 DEF x, y
  <2>5. QED
    BY <2>3, <2>4
<1>9. goal
  <2> HIDE DEF goal
  <2>1. QED
    BY <1>7, <1>8 DEF Sorts
<1>10. CASE Radix(j, col)
  <2>1. out = reserve(g, m, j.parties, h, b + 1)
    BY <1>10
  <2>2. QED
    BY <1>6, <1>9, <1>10, <2>1
<1>11. CASE ~Radix(j, col)
  <2>1. out = reserve(g, m, j.parties, h + 1, 1)
    BY <1>11
  <2>2. QED
    BY <1>6, <1>9, <1>11, <2>1
<1>12. QED
  BY <1>10, <1>11

\* While columns are sorted.
LEMMA InColumns ==
    ASSUME OperatorsInv, ServedInv, phase \in ColumnPhases
    PROVE  LET m == Len(job.rows)
           IN  /\ JobFits(job) /\ m \in Nat /\ m > 0 /\ m \in 1 .. INDEX \div 2 /\ n = m
               /\ Columns(job, rows, loc, m) /\ At(job, phase, loc, pm, at = 1, m)
               /\ rows = job.rows /\ job.op \in Sorts /\ loc.C \in 1 .. Len(job.spec) /\ Len(job.spec) \in Nat
               /\ DOMAIN loc = DOMAIN NoLocals /\ DOMAIN loc.col = {"v", "pivots", "opened"}
               /\ pm \in FittingManagers /\ Mask \in PermutationsOf(m) /\ Shuffles(job, m) \subseteq PermutationsOf(m)
               /\ (loc.sort_permutation = <<>> \/ loc.sort_permutation \in PermutationsOf(m)) /\ Ordered(job, loc)
               /\ Values(Key) \in [1 .. m -> Int]
               /\ RestPerms(job, loc.C - 1) \in Nat /\ RestPairs(job, loc.C - 1) \in Nat
<1> DEFINE m == Len(job.rows)
<1>1. /\ Framed(job, phase, loc, pm) /\ JobFits(job) /\ Columns(job, rows, loc, m) /\ At(job, phase, loc, pm, at = 1, m)
  BY ServedUnfolded DEF SortInv
<1>2. /\ rows = job.rows /\ job.op \in Sorts /\ loc.C \in 1 .. Len(job.spec) /\ DOMAIN loc.col = {"v", "pivots", "opened"}
      /\ (loc.sort_permutation = <<>> \/ loc.sort_permutation \in PermutationsOf(m)) /\ Ordered(job, loc)
  BY <1>1 DEF Columns
<1>3. DOMAIN loc = DOMAIN NoLocals /\ pm \in FittingManagers
  BY <1>1 DEF Framed
<1>4. /\ SortFits(job, m) /\ m \in Nat /\ m > 0 /\ m \in 1 .. INDEX \div 2 /\ Len(job.spec) \in Nat
      /\ IsFiniteSet(DOMAIN job.rows[1]) /\ MaskOf(job.parties, m) \in PermutationsOf(m)
  BY <1>1, <1>2, SortJob
<1>5. n = m /\ Mask \in PermutationsOf(m) /\ Shuffles(job, m) \subseteq PermutationsOf(m)
  BY <1>2, <1>4 DEF n, Mask, SortFits
<1>6. Values(Key) \in [1 .. m -> Int]
  <2>1. \A k \in 1 .. m : rows[k][job.spec[loc.C][1]] \in Int
    BY <1>2, <1>4 DEF SortFits
  <2>2. QED
    BY <1>5, <2>1 DEF Values, Key
<1>7. RestPerms(job, loc.C - 1) \in Nat /\ RestPairs(job, loc.C - 1) \in Nat
  <2>1. IsFiniteSet(DOMAIN job.rows[1])
    BY <1>4
  <2>2. job.op \in {"table_sort", "vector_sort"}
    BY <1>2 DEF Sorts
  <2>3. \A e \in Nat : RestPerms(job, e) \in Nat /\ RestPairs(job, e) \in Nat
    BY ONLY <2>1, <2>2, RestIsNat
  <2>4. QED
    BY <1>2, <1>4, <2>3
<1>8. QED
  BY <1>1, <1>2, <1>3, <1>4, <1>5, <1>6, <1>7

\* A step within a column.
LEMMA ColumnStep ==
    ASSUME OperatorsInv, ServedInv, phase \in ColumnPhases, program' = program, at' = at, rows' = rows,
           phase' \in ColumnPhases, pm' \in FittingManagers,
           DOMAIN loc' = DOMAIN loc, loc'.C = loc.C, loc'.sort_permutation = loc.sort_permutation,
           loc'.permutation = loc.permutation \/ loc'.permutation \in PermutationsOf(Len(job.rows)),
           DOMAIN loc'.col = {"v", "pivots", "opened"}, Len(loc'.col.opened) \in 0 .. Len(job.rows),
           At(job, phase', loc', pm', at = 1, Len(job.rows))
    PROVE  ServedInv'
<1>1. Framed(job, phase, loc, pm)
  BY ServedUnfolded
<1>2. Columns(job, rows, loc, Len(job.rows))
  BY InColumns
<1>3. Framed(job, phase', loc', pm')
  <2>1. phase' \in Phases
    BY DEF ColumnPhases, Phases
  <2>2. loc'.permutation = <<>> \/ IsPermutation(loc'.permutation)
    BY <1>1 DEF Framed, PermutationsOf
  <2>3. QED
    BY <1>1, <2>1, <2>2 DEF Framed
<1>4. Columns(job, rows', loc', Len(job.rows))
  BY <1>2 DEF Columns, Ordered
<1>5. Served(job, phase', rows', loc', pm', at = 1)
  BY <1>3, <1>4, ColumnsServed DEF SortInv
<1>6. QED
  BY <1>5, ServedFolded

LEMMA SortColumnServed == OperatorsInv /\ ServedInv /\ SortColumn => ServedInv'
<1> SUFFICES ASSUME OperatorsInv, ServedInv, SortColumn PROVE ServedInv'
  OBVIOUS
<1> DEFINE m == Len(job.rows)
           first == at = 1
           c == job.spec[loc.C][1]
           s == loc.sort_permutation
           v == IF s = <<>> THEN Values(Key) ELSE oblivious_apply_elementwise_perm(Values(Key), s, Mask)
           w == pad_input(v, Reversed)
           g == IF Later(loc) = 0 THEN pm ELSE getNextPair(pm, m, job.parties)
           radix == Radix(job, loc.C)
<1>1. /\ phase = "column" /\ program' = program /\ at' = at /\ rows' = rows
      /\ phase' = (IF ByRadix(Key) THEN "bits" ELSE "shuffle")
      /\ loc' = [loc EXCEPT !.col.v = w, !.i = 0]
      /\ pm' = OwnReserve(IF s = <<>> THEN pm ELSE getNextPair(pm, n, job.parties), Key)
  BY DEF SortColumn, Goto
<1>2. phase \in ColumnPhases
  BY <1>1 DEF ColumnPhases
<1>3. /\ JobFits(job) /\ m \in Nat /\ m > 0 /\ m \in 1 .. INDEX \div 2 /\ n = m
      /\ At(job, phase, loc, pm, at = 1, m) /\ Columns(job, rows, loc, m)
      /\ job.op \in Sorts /\ loc.C \in 1 .. Len(job.spec) /\ Ordered(job, loc) /\ pm \in FittingManagers
  BY <1>2, InColumns
<1>4. /\ DOMAIN loc = DOMAIN NoLocals /\ DOMAIN loc.col = {"v", "pivots", "opened"} /\ Mask \in PermutationsOf(m)
      /\ (s = <<>> \/ s \in PermutationsOf(m)) /\ Values(Key) \in [1 .. m -> Int]
  BY <1>2, InColumns
<1>5. Key = c /\ Reversed = Descends(job, loc) /\ ByRadix(Key) = radix /\ Reversed \in BOOLEAN
  BY DEF Key, Reversed, Descends, ByRadix, Radix
<1>6. v \in [1 .. m -> Int]
  <2>1. CASE s = <<>>
    BY <1>4, <2>1
  <2>2. CASE s # <<>>
    <3> DEFINE x == Values(Key)
               pi == Mask
    <3>1. m \in Nat /\ x \in [1 .. m -> Int] /\ pi \in PermutationsOf(m) /\ s \in PermutationsOf(m)
      BY <1>3, <1>4, <2>2
    <3>2. v = oblivious_apply_elementwise_perm(x, s, pi)
      BY <2>2
    <3> HIDE DEF x, pi, s, v, m
    <3>3. oblivious_apply_elementwise_perm(x, s, pi) = local_apply_perm(x, s)
      BY ONLY <3>1, ObliviousApplied
    <3>4. local_apply_perm(x, s) \in [1 .. m -> Int]
      BY <3>1, MovedRearranges DEF Rearranges
    <3>5. QED
      BY <3>2, <3>3, <3>4
  <2>3. QED
    BY <2>1, <2>2
<1> HIDE DEF v
<1>7. Indexed(m, Descends(job, loc), w)
  BY <1>3, <1>5, <1>6, PaddedIndexed
<1> HIDE DEF w
<1>8. /\ DOMAIN loc' = DOMAIN loc /\ loc'.C = loc.C /\ loc'.sort_permutation = s /\ loc'.permutation = loc.permutation
      /\ DOMAIN loc'.col = {"v", "pivots", "opened"} /\ loc'.col.opened = loc.col.opened /\ loc'.col.v = w /\ loc'.i = 0
  BY <1>1, <1>4, LocalNames
<1>9. AtColumn(job, loc, pm, first, m) /\ first \in BOOLEAN
  BY <1>1, <1>3 DEF At
<1>10. /\ pm' = IF radix THEN reserve(g, m, job.parties, Shared(job), bits(c) + 1)
                ELSE reserve(g, m, job.parties, Shared(job) + 1, 1)
  <2>1. g = IF s = <<>> THEN pm ELSE getNextPair(pm, n, job.parties)
    BY <1>3 DEF Later
  <2>2. pm' = OwnReserve(g, Key)
    BY <1>1, <2>1
  <2> HIDE DEF g
  <2>3. CASE job.parties = 2
    <3>1. Shared(job) = 0 /\ Shared(job) + 1 = 1
      BY <2>3 DEF Shared
    <3>2. QED
      BY <1>3, <1>5, <2>2, <2>3, <3>1 DEF OwnReserve
  <2>4. CASE job.parties # 2
    <3>1. Shared(job) = 1 /\ Shared(job) + 1 = 2
      BY <2>4 DEF Shared
    <3>2. QED
      BY <1>3, <1>5, <2>2, <2>4, <3>1 DEF OwnReserve
  <2>5. QED
    BY <2>3, <2>4
<1>11. /\ pm' \in FittingManagers
       /\ Stocked(pm', first, m, job.parties, StillPerms(job, loc) + (IF radix THEN 0 ELSE 1),
                  StillPairs(job, loc) + (IF radix THEN bits(c) ELSE 0))
  BY <1>3, <1>9, <1>10, ColumnReserves
<1>12. /\ StillPerms(job, loc') = StillPerms(job, loc) /\ StillPairs(job, loc') = StillPairs(job, loc)
       /\ Descends(job, loc') = Descends(job, loc) /\ Radix(job, loc'.C) = radix
  BY <1>8 DEF StillPerms, StillPairs, Later, Descends
<1>13. StillPerms(job, loc) \in Nat /\ StillPairs(job, loc) \in Nat /\ bits(c) \in Nat /\ bits(c) > 0
  <2>1. RestPerms(job, loc.C - 1) \in Nat /\ RestPairs(job, loc.C - 1) \in Nat
    BY <1>2, InColumns
  <2>2. Shared(job) \in Nat /\ Later(loc) \in Nat /\ bits(c) \in Nat /\ bits(c) > 0
    BY KeyBitsPositive DEF Shared, Later, bits
  <2>3. QED
    BY <2>1, <2>2 DEF StillPerms, StillPairs
<1> HIDE DEF g, c
<1>14. At(job, phase', loc', pm', first, m)
  <2>1. CASE radix
    <3>1. phase' = "bits"
      BY <1>1, <1>5, <2>1
    <3>2. loc'.i \in 0 .. bits(c) - 1
      BY <1>8, <1>13
    <3>3. StillPerms(job, loc) + 0 = StillPerms(job, loc) /\ StillPairs(job, loc) + bits(c) = bits(c) - loc'.i + StillPairs(job, loc)
      BY <1>8, <1>13
    <3>4. Stocked(pm', first, m, job.parties, StillPerms(job, loc'), bits(c) - loc'.i + StillPairs(job, loc'))
      BY <1>11, <1>12, <2>1, <3>3
    <3>5. AtBits(job, loc', pm', first, m)
      BY <1>7, <1>8, <1>12, <2>1, <3>2, <3>4 DEF AtBits, c
    <3>6. QED
      BY <3>1, <3>5 DEF At
  <2>2. CASE ~radix
    <3>1. phase' = "shuffle"
      BY <1>1, <1>5, <2>2
    <3>2. StillPairs(job, loc) + 0 = StillPairs(job, loc)
      BY <1>13
    <3>3. Stocked(pm', first, m, job.parties, StillPerms(job, loc') + 1, StillPairs(job, loc'))
      BY <1>11, <1>12, <2>2, <3>2
    <3>4. AtShuffle(job, loc', pm', first, m)
      BY <1>7, <1>8, <1>12, <2>2, <3>3 DEF AtShuffle
    <3>5. QED
      BY <3>1, <3>4 DEF At
  <2>3. QED
    BY <2>1, <2>2
<1>15. Len(loc'.col.opened) \in 0 .. m
  BY <1>3, <1>8 DEF Columns
<1>16. phase' \in ColumnPhases
  BY <1>1 DEF ColumnPhases
<1>17. QED
  BY <1>1, <1>2, <1>8, <1>11, <1>14, <1>15, <1>16, ColumnStep

LEMMA ShuffleColumnServed == OperatorsInv /\ ServedInv /\ ShuffleColumn => ServedInv'
<1> SUFFICES ASSUME OperatorsInv, ServedInv, ShuffleColumn PROVE ServedInv'
  OBVIOUS
<1> DEFINE m == Len(job.rows)
           first == at = 1
           a == StillPerms(job, loc)
           b == StillPairs(job, loc)
<1>1. /\ phase = "shuffle" /\ program' = program /\ at' = at /\ rows' = rows /\ phase' = "partition"
      /\ pm' = getNext(pm, n, job.parties)
  BY DEF ShuffleColumn, Goto
<1>2. PICK pi \in Shuffles(job, n) : loc' = [loc EXCEPT !.col = QuickStart(loc.col.v, pi)]
  BY DEF ShuffleColumn
<1>3. phase \in ColumnPhases /\ phase' \in ColumnPhases
  BY <1>1 DEF ColumnPhases
<1>4. /\ m \in Nat /\ m > 0 /\ n = m /\ At(job, phase, loc, pm, at = 1, m) /\ pm \in FittingManagers
      /\ DOMAIN loc = DOMAIN NoLocals /\ Shuffles(job, m) \subseteq PermutationsOf(m)
      /\ RestPerms(job, loc.C - 1) \in Nat /\ RestPairs(job, loc.C - 1) \in Nat
  BY <1>3, InColumns
<1>5. /\ Indexed(m, Descends(job, loc), loc.col.v) /\ Stocked(pm, first, m, job.parties, a + 1, b) /\ first \in BOOLEAN
  BY <1>1, <1>4 DEF At, AtShuffle
<1>6. a \in Nat
  <2>1. Shared(job) \in Nat /\ Later(loc) \in Nat
    BY DEF Shared, Later
  <2>2. QED
    BY <1>4, <2>1 DEF StillPerms
<1> HIDE DEF m, first
<1> DEFINE col == QuickStart(loc.col.v, pi)
<1>7. Quick(m, Descends(job, loc), col) /\ Due(m, col)
  BY <1>2, <1>4, <1>5, QuickStarts
<1> HIDE DEF col
<1>8. /\ DOMAIN loc' = DOMAIN loc /\ loc'.C = loc.C /\ loc'.sort_permutation = loc.sort_permutation
      /\ loc'.permutation = loc.permutation /\ loc'.col = col
  BY <1>2, <1>4, LocalNames DEF col
<1>9. DOMAIN col = {"v", "pivots", "opened"}
  BY <1>7 DEF Quick, QuickStates
<1>10. Len(col.opened) \in 0 .. m
  BY <1>4, <1>7, QuickBounded
<1>11. pm' \in FittingManagers /\ Stocked(pm', first, m, job.parties, a, b)
  <2> HIDE DEF a, b
  <2> DEFINE e == a + 1
  <2>1. Stocked(pm, first, m, job.parties, e, b) /\ e > 0 /\ e - 1 = a
    BY <1>5, <1>6
  <2> HIDE DEF e
  <2>2. pm' = getNext(pm, m, job.parties)
    BY <1>1, <1>4
  <2>3. QED
    BY <1>4, <1>5, <2>1, <2>2, TakesOne
<1>12. StillPerms(job, loc') = a /\ StillPairs(job, loc') = b /\ Descends(job, loc') = Descends(job, loc)
  BY <1>8 DEF StillPerms, StillPairs, Later, Descends
<1>13. AtPartition(job, loc', pm', first, m)
  BY <1>7, <1>8, <1>11, <1>12 DEF AtPartition
<1>14. At(job, phase', loc', pm', first, m)
  BY <1>1, <1>13 DEF At
<1>15. QED
  BY <1>1, <1>3, <1>8, <1>9, <1>10, <1>11, <1>14, ColumnStep DEF m, first

LEMMA PartitionColumnServed == OperatorsInv /\ ServedInv /\ PartitionColumn => ServedInv'
<1> SUFFICES ASSUME OperatorsInv, ServedInv, PartitionColumn PROVE ServedInv'
  OBVIOUS
<1> DEFINE m == Len(job.rows)
           first == at = 1
           a == StillPerms(job, loc)
           b == StillPairs(job, loc)
           col == QuickRound(loc.col)
<1>1. /\ phase = "partition" /\ program' = program /\ at' = at /\ rows' = rows /\ pm' = pm
      /\ phase' = (IF QuickDone(loc'.col) THEN "unpad" ELSE "partition")
      /\ loc' = [loc EXCEPT !.col = col]
  BY DEF PartitionColumn, Goto
<1>2. phase \in ColumnPhases /\ phase' \in ColumnPhases
  BY <1>1 DEF ColumnPhases
<1>3. /\ m \in Nat /\ m > 0 /\ At(job, phase, loc, pm, at = 1, m) /\ pm \in FittingManagers
      /\ DOMAIN loc = DOMAIN NoLocals
  BY <1>2, InColumns
<1>4. /\ Quick(m, Descends(job, loc), loc.col) /\ Due(m, loc.col) /\ Stocked(pm, first, m, job.parties, a, b)
  BY <1>1, <1>3 DEF At, AtPartition
<1> HIDE DEF m, first, col
<1>5. Quick(m, Descends(job, loc), col)
  BY <1>3, <1>4, QuickOn DEF col
<1>6. /\ DOMAIN loc' = DOMAIN loc /\ loc'.C = loc.C /\ loc'.sort_permutation = loc.sort_permutation
      /\ loc'.permutation = loc.permutation /\ loc'.col = col
  BY <1>1, <1>3, LocalNames
<1>7. DOMAIN col = {"v", "pivots", "opened"} /\ Indexed(m, Descends(job, loc), col.v)
  BY <1>5 DEF Quick, QuickStates
<1>8. Len(col.opened) \in 0 .. m
  BY <1>3, <1>5, QuickBounded
<1>9. StillPerms(job, loc') = a /\ StillPairs(job, loc') = b /\ Descends(job, loc') = Descends(job, loc)
  BY <1>6 DEF StillPerms, StillPairs, Later, Descends
<1>10. At(job, phase', loc', pm', first, m)
  <2>1. CASE QuickDone(col)
    <3>1. AtUnpad(job, loc', pm', first, m)
      BY <1>1, <1>4, <1>6, <1>7, <1>9 DEF AtUnpad
    <3>2. QED
      BY <1>1, <1>6, <2>1, <3>1 DEF At
  <2>2. CASE ~QuickDone(col)
    <3>1. Due(m, col)
      BY <2>2 DEF Due
    <3>2. AtPartition(job, loc', pm', first, m)
      BY <1>1, <1>4, <1>5, <1>6, <1>9, <3>1 DEF AtPartition
    <3>3. QED
      BY <1>1, <1>6, <2>2, <3>2 DEF At
  <2>3. QED
    BY <2>1, <2>2
<1>11. QED
  BY <1>1, <1>2, <1>3, <1>6, <1>7, <1>8, <1>10, ColumnStep DEF m, first

LEMMA SortBitServed == OperatorsInv /\ ServedInv /\ SortBit => ServedInv'
<1> SUFFICES ASSUME OperatorsInv, ServedInv, SortBit PROVE ServedInv'
  OBVIOUS
<1> DEFINE m == Len(job.rows)
           first == at = 1
           a == StillPerms(job, loc)
           b == StillPairs(job, loc)
           B == bits(Key)
           i == loc.i
           w == RadixRound(loc.col.v, i, B, B = KEY_BITS, Mask)
<1>1. /\ phase = "bits" /\ program' = program /\ at' = at /\ rows' = rows /\ pm' = getNextPair(pm, n, job.parties)
      /\ phase' = (IF loc'.i = B THEN "unpad" ELSE "bits")
      /\ loc' = [loc EXCEPT !.col.v = w, !.i = i + 1]
  BY DEF SortBit, Goto
<1>2. phase \in ColumnPhases /\ phase' \in ColumnPhases
  BY <1>1 DEF ColumnPhases
<1>3. /\ m \in Nat /\ m > 0 /\ n = m /\ At(job, phase, loc, pm, at = 1, m) /\ pm \in FittingManagers
      /\ DOMAIN loc = DOMAIN NoLocals /\ DOMAIN loc.col = {"v", "pivots", "opened"} /\ Mask \in PermutationsOf(m)
      /\ Columns(job, rows, loc, m)
      /\ RestPerms(job, loc.C - 1) \in Nat /\ RestPairs(job, loc.C - 1) \in Nat
  BY <1>2, InColumns
<1>4. /\ Radix(job, loc.C) /\ Indexed(m, Descends(job, loc), loc.col.v) /\ i \in 0 .. B - 1
      /\ Stocked(pm, first, m, job.parties, a, B - i + b) /\ first \in BOOLEAN
  BY <1>1, <1>3 DEF At, AtBits, Key
<1>5. B \in Nat /\ i \in Nat
  BY <1>4, KeyBitsPositive DEF bits
<1>6. b \in Nat
  BY <1>3 DEF StillPairs
<1> HIDE DEF m, first, B, i, w
<1>7. Indexed(m, Descends(job, loc), w)
  <2>1. loc.col.v \in [1 .. m -> Int]
    BY <1>4 DEF Indexed
  <2>2. Rearranges(m, loc.col.v, w)
    BY <1>3, <1>5, <2>1, RadixRearranges DEF w
  <2>3. QED
    BY <1>3, <1>4, <2>2, RearrangedIndexed
<1>8. /\ DOMAIN loc' = DOMAIN loc /\ loc'.C = loc.C /\ loc'.sort_permutation = loc.sort_permutation
      /\ loc'.permutation = loc.permutation /\ DOMAIN loc'.col = {"v", "pivots", "opened"} /\ loc'.col.v = w
      /\ loc'.i = i + 1 /\ loc'.col.opened = loc.col.opened
  BY <1>1, <1>3, LocalNames
<1>9. /\ StillPerms(job, loc') = a /\ StillPairs(job, loc') = b /\ Descends(job, loc') = Descends(job, loc)
      /\ bits(job.spec[loc'.C][1]) = B
  BY <1>8 DEF StillPerms, StillPairs, Later, Descends, B, Key
<1>10. pm' \in FittingManagers /\ Stocked(pm', first, m, job.parties, a, B - (i + 1) + b)
  <2> HIDE DEF a, b
  <2> DEFINE d == B - i + b
  <2>1. Stocked(pm, first, m, job.parties, a, d) /\ d > 0 /\ d - 1 = B - (i + 1) + b
    BY <1>4, <1>5, <1>6
  <2> HIDE DEF d
  <2>2. pm' = getNextPair(pm, m, job.parties)
    BY <1>1, <1>3
  <2>3. QED
    BY <1>3, <1>4, <2>1, <2>2, TakesPair
<1>11. At(job, phase', loc', pm', first, m)
  <2>1. CASE i + 1 = B
    <3>1. B - (i + 1) + b = b
      BY <1>5, <1>6, <2>1
    <3>2. AtUnpad(job, loc', pm', first, m)
      BY <1>7, <1>8, <1>9, <1>10, <3>1 DEF AtUnpad
    <3>3. QED
      BY <1>1, <1>8, <2>1, <3>2 DEF At
  <2>2. CASE i + 1 # B
    <3>1. loc'.i \in 0 .. B - 1
      BY <1>4, <1>5, <1>8, <2>2
    <3>2. AtBits(job, loc', pm', first, m)
      BY <1>4, <1>7, <1>8, <1>9, <1>10, <3>1 DEF AtBits
    <3>3. QED
      BY <1>1, <1>8, <2>2, <3>2 DEF At
  <2>3. QED
    BY <2>1, <2>2
<1>12. Len(loc'.col.opened) \in 0 .. m
  BY <1>3, <1>8 DEF Columns
<1>13. QED
  BY <1>1, <1>2, <1>8, <1>10, <1>11, <1>12, ColumnStep DEF m, first

\* The permutation that the padding hides is converted and inverted.
LEMMA UnpadTakes ==
    ASSUME NEW mgr \in FittingManagers, NEW m \in Nat, NEW j, NEW a \in Nat, NEW b \in Nat, NEW first \in BOOLEAN,
           Stocked(mgr, first, m, j.parties, Shared(j) + a, 1 + b)
    PROVE  LET g == IF j.parties = 2 THEN mgr ELSE getNext(mgr, m, j.parties)
           IN  /\ getNextPair(g, m, j.parties) \in FittingManagers
               /\ Stocked(getNextPair(g, m, j.parties), first, m, j.parties, a, b)
<1> DEFINE parties == j.parties
           g == IF parties = 2 THEN mgr ELSE getNext(mgr, m, parties)
           x == Shared(j) + a
           y == 1 + b
<1>1. Stocked(mgr, first, m, parties, x, y) /\ y > 0 /\ y - 1 = b
  OBVIOUS
<1>2. IF parties = 2 THEN x = a ELSE x > 0 /\ x - 1 = a
  BY DEF Shared
<1> HIDE DEF x, y, parties, g
<1>3. g \in FittingManagers /\ Stocked(g, first, m, parties, a, y)
  <2>1. CASE parties = 2
    BY <1>1, <1>2, <2>1 DEF g
  <2>2. CASE parties # 2
    BY <1>1, <1>2, <2>2, TakesOne DEF g
  <2>3. QED
    BY <2>1, <2>2
<1>4. getNextPair(g, m, parties) \in FittingManagers /\ Stocked(getNextPair(g, m, parties), first, m, parties, a, y - 1)
  BY <1>1, <1>3, TakesPair
<1>5. QED
  BY <1>1, <1>4 DEF g, parties

LEMMA UnpadColumnServed == OperatorsInv /\ ServedInv /\ UnpadColumn => ServedInv'
<1> SUFFICES ASSUME OperatorsInv, ServedInv, UnpadColumn PROVE ServedInv'
  OBVIOUS
<1> DEFINE m == Len(job.rows)
           first == at = 1
           a == Later(loc) + RestPerms(job, loc.C - 1)
           b == RestPairs(job, loc.C - 1)
           padded == IF Reversed THEN reversed_view(loc.col.v) ELSE loc.col.v
           back == remove_padding(padded, Reversed, job.parties, Mask)
           perm == invert(back, Mask)
           g == IF job.parties = 2 THEN pm ELSE getNext(pm, m, job.parties)
<1>1. /\ phase = "unpad" /\ program' = program /\ at' = at /\ rows' = rows
      /\ phase' = (IF job.op = "table_sort" THEN "compose" ELSE "done")
      /\ loc' = [loc EXCEPT !.col.v = Unpadded(padded), !.permutation = perm]
  BY DEF UnpadColumn, Goto
<1>2. phase \in ColumnPhases
  BY <1>1 DEF ColumnPhases
<1>3. /\ m \in Nat /\ m > 0 /\ m \in 1 .. INDEX \div 2 /\ n = m /\ At(job, phase, loc, pm, at = 1, m) /\ pm \in FittingManagers
      /\ DOMAIN loc = DOMAIN NoLocals /\ DOMAIN loc.col = {"v", "pivots", "opened"} /\ Mask \in PermutationsOf(m)
      /\ Columns(job, rows, loc, m) /\ job.op \in Sorts /\ Ordered(job, loc)
      /\ RestPerms(job, loc.C - 1) \in Nat /\ RestPairs(job, loc.C - 1) \in Nat
  BY <1>2, InColumns
<1>4. pm' = getNextPair(g, m, job.parties)
  BY <1>3 DEF UnpadColumn
<1>5. /\ Indexed(m, Descends(job, loc), loc.col.v) /\ first \in BOOLEAN
      /\ Stocked(pm, first, m, job.parties, StillPerms(job, loc), StillPairs(job, loc))
  BY <1>1, <1>3 DEF At, AtUnpad
<1>6. a \in Nat /\ b \in Nat /\ StillPerms(job, loc) = Shared(job) + a /\ StillPairs(job, loc) = 1 + b
  <2>1. Shared(job) \in Nat /\ Later(loc) \in Nat
    BY DEF Shared, Later
  <2>2. QED
    BY <1>3, <2>1 DEF StillPerms, StillPairs
<1>7. Reversed = Descends(job, loc) /\ Reversed \in BOOLEAN
  BY DEF Reversed, Descends
<1> HIDE DEF m, first
<1>8. Indexed(m, Reversed, padded)
  <2>1. loc.col.v \in [1 .. m -> Int]
    BY <1>5 DEF Indexed
  <2>2. Rearranges(m, loc.col.v, reversed_view(loc.col.v))
    BY <1>3, <2>1, ReversedRearranges
  <2>3. Indexed(m, Reversed, reversed_view(loc.col.v))
    BY <1>3, <1>5, <1>7, <2>2, RearrangedIndexed
  <2>4. QED
    BY <1>5, <1>7, <2>3
<1> HIDE DEF padded
<1>9. back \in PermutationsOf(m)
  BY <1>3, <1>7, <1>8, PaddingRemoved
<1> HIDE DEF back
<1>10. perm \in PermutationsOf(m)
  BY <1>3, <1>9, Inverted
<1> HIDE DEF perm
<1>11. /\ DOMAIN loc' = DOMAIN loc /\ loc'.C = loc.C /\ loc'.sort_permutation = loc.sort_permutation
       /\ loc'.permutation = perm /\ DOMAIN loc'.col = {"v", "pivots", "opened"} /\ loc'.col.opened = loc.col.opened
  BY <1>1, <1>3, LocalNames
<1>12. pm' \in FittingManagers /\ Stocked(pm', first, m, job.parties, a, b)
  <2>1. Stocked(pm, first, m, job.parties, Shared(job) + a, 1 + b)
    BY <1>5, <1>6
  <2> HIDE DEF a, b
  <2>2. QED
    BY <1>3, <1>4, <1>5, <1>6, <2>1, UnpadTakes
<1>13. CASE job.op = "table_sort"
  <2>1. phase' = "compose" /\ phase' \in ColumnPhases
    BY <1>1, <1>13 DEF ColumnPhases
  <2>2. Later(loc') + RestPerms(job, loc'.C - 1) = a /\ RestPairs(job, loc'.C - 1) = b
    BY <1>11 DEF Later
  <2>3. AtCompose(job, loc', pm', first, m)
    BY <1>10, <1>11, <1>12, <1>13, <2>2 DEF AtCompose
  <2>4. At(job, phase', loc', pm', first, m)
    BY <2>1, <2>3 DEF At
  <2>5. Len(loc'.col.opened) \in 0 .. m
    BY <1>3, <1>11 DEF Columns
  <2>6. QED
    BY <1>1, <1>2, <1>10, <1>11, <1>12, <2>1, <2>4, <2>5, ColumnStep DEF m, first
<1>14. CASE job.op = "vector_sort"
  <2>1. phase' = "done"
    BY <1>1, <1>14
  <2>2. a = 0 /\ b = 0
    BY <1>3, <1>14 DEF Ordered, Later, RestPerms, RestPairs
  <2>3. Stocked(pm', first, m, job.parties, 0, 0)
    BY <1>12, <2>2
  <2>4. pm'.pairs = 0 /\ (first => pm'.perms = 0 /\ pm'.late = 0)
    BY <2>3 DEF Stocked
  <2>5. Framed(job, phase, loc, pm)
    BY ServedUnfolded
  <2>6. Framed(job, phase', loc', pm')
    BY <1>10, <1>11, <1>12, <2>1, <2>5 DEF Framed, Phases, PermutationsOf
  <2>7. Rests(job, phase', pm', at = 1)
    BY <2>1, <2>4 DEF Rests, Resting, first
  <2>8. /\ phase' \in Phases \ ColumnPhases /\ ApplyInv(job, phase', rows', loc', pm', at = 1, Len(job.rows))
        /\ CcsInv(job, phase', rows', loc', pm', Len(job.rows))
    BY <2>1 DEF Phases, ColumnPhases, ApplyInv, CcsInv
  <2>9. Served(job, phase', rows', loc', pm', at = 1)
    BY <2>6, <2>7, <2>8, OthersServed
  <2>10. QED
    BY <1>1, <2>9, ServedFolded
<1>15. QED
  BY <1>3, <1>13, <1>14 DEF Sorts

LEMMA NoColumnsLeft ==
    ASSUME NEW j, JobFits(j), j.op = "table_sort"
    PROVE  RestPerms(j, 0) = 0 /\ RestPairs(j, 0) = Cardinality(DOMAIN j.rows[1])
<1> DEFINE W == Cardinality(DOMAIN j.rows[1])
<1>1. IsFiniteSet(DOMAIN j.rows[1])
  BY SortJob DEF Sorts
<1>2. W \in Nat
  BY <1>1, FS_CardinalityType
<1>3. Singles(j, 0) = 0
  BY SinglesCount
<1>4. Wide(j, 0) = 0 /\ KEY_BITS \in Nat /\ Shared(j) \in Nat
  BY <1>3, KeyBitsPositive DEF Wide, Shared
<1>5. 0 * KEY_BITS = 0 /\ 0 * Shared(j) = 0
  BY <1>4
<1> HIDE DEF W
<1>6. RestPairs(j, 0) = 2 * 0 + 0 + W + (IF j.protocol = "RADIXSORT" THEN 0 * KEY_BITS ELSE 0)
  BY <1>3, <1>4 DEF RestPairs, W
<1>7. RestPerms(j, 0) = 0 + 0 * Shared(j) + (IF j.protocol = "QUICKSORT" THEN 0 ELSE 0)
  BY <1>4 DEF RestPerms
<1>8. QED
  BY <1>2, <1>5, <1>6, <1>7 DEF W

LEMMA ComposeColumnServed == OperatorsInv /\ ServedInv /\ ComposeColumn => ServedInv'
<1> SUFFICES ASSUME OperatorsInv, ServedInv, ComposeColumn PROVE ServedInv'
  OBVIOUS
<1> DEFINE m == Len(job.rows)
           first == at = 1
           s == loc.sort_permutation
           p == loc.permutation
           t == IF s = <<>> THEN p ELSE compose_permutations(s, p, Mask)
           a == RestPerms(job, loc.C - 1)
           b == RestPairs(job, loc.C - 1)
<1>1. /\ phase = "compose" /\ program' = program /\ at' = at /\ rows' = rows
      /\ phase' = (IF loc.C = 1 THEN "apply" ELSE "column")
      /\ loc' = [loc EXCEPT !.C = @ - 1, !.sort_permutation = t]
      /\ pm' = IF s = <<>> THEN pm ELSE getNext(pm, n, job.parties)
  BY DEF ComposeColumn, Goto
<1>2. phase \in ColumnPhases
  BY <1>1 DEF ColumnPhases
<1>3. /\ m \in Nat /\ m > 0 /\ n = m /\ At(job, phase, loc, pm, at = 1, m) /\ pm \in FittingManagers /\ JobFits(job)
      /\ DOMAIN loc = DOMAIN NoLocals /\ DOMAIN loc.col = {"v", "pivots", "opened"} /\ Mask \in PermutationsOf(m)
      /\ Columns(job, rows, loc, m) /\ rows = job.rows /\ (s = <<>> \/ s \in PermutationsOf(m))
      /\ loc.C \in 1 .. Len(job.spec) /\ Len(job.spec) \in Nat /\ a \in Nat /\ b \in Nat
  BY <1>2, InColumns
<1>4. /\ job.op = "table_sort" /\ p \in PermutationsOf(m) /\ first \in BOOLEAN
      /\ Stocked(pm, first, m, job.parties, Later(loc) + a, b)
  BY <1>1, <1>3 DEF At, AtCompose
<1> HIDE DEF m, first, s, p
<1>5. t \in PermutationsOf(m)
  <2>1. CASE s = <<>>
    BY <1>4, <2>1
  <2>2. CASE s # <<>>
    <3>1. s \in PermutationsOf(m) /\ t = compose_permutations(s, p, Mask)
      BY <1>3, <2>2
    <3>2. QED
      BY <1>3, <1>4, <3>1, Composed
  <2>3. QED
    BY <2>1, <2>2
<1> HIDE DEF t
<1>6. t # <<>> /\ IsPermutation(t)
  <2>1. Len(t) = m /\ IsPermutation(t)
    BY <1>3, <1>5, OccursInPermutation
  <2>2. Len(<<>>) = 0
    OBVIOUS
  <2>3. QED
    BY <1>3, <2>1, <2>2
<1>7. /\ DOMAIN loc' = DOMAIN NoLocals /\ loc'.C = loc.C - 1 /\ loc'.sort_permutation = t
      /\ loc'.permutation = loc.permutation /\ loc'.col = loc.col
  BY <1>1, <1>3, LocalNames
<1>8. Later(loc') = 1
  BY <1>6, <1>7 DEF Later
<1>9. pm' \in FittingManagers /\ Stocked(pm', first, m, job.parties, a, b)
  <2> HIDE DEF a, b
  <2>1. CASE s = <<>>
    <3>1. Later(loc) + a = a /\ pm' = pm
      BY <1>1, <1>3, <2>1 DEF Later, s
    <3>2. QED
      BY <1>3, <1>4, <3>1
  <2>2. CASE s # <<>>
    <3> DEFINE e == Later(loc) + a
    <3>1. e > 0 /\ e - 1 = a /\ Stocked(pm, first, m, job.parties, e, b)
      BY <1>3, <1>4, <2>2 DEF Later, s
    <3>2. pm' = getNext(pm, m, job.parties)
      BY <1>1, <1>3, <2>2
    <3> HIDE DEF e
    <3>3. QED
      BY <1>3, <1>4, <3>1, <3>2, TakesOne
  <2>3. QED
    BY <2>1, <2>2
<1>10. Framed(job, phase, loc, pm)
  BY ServedUnfolded
<1>11. loc'.C \in 0 .. Len(job.spec)
  BY <1>3, <1>7
<1>12. CASE loc.C = 1
  <2>1. phase' = "apply"
    BY <1>1, <1>12
  <2>2. Framed(job, phase', loc', pm')
    BY <1>6, <1>7, <1>9, <1>10, <1>11, <2>1 DEF Framed, Phases
  <2>3. loc.C - 1 = 0
    BY <1>12
  <2>4. a = 0 /\ b = Cardinality(DOMAIN job.rows[1])
    BY <1>3, <1>4, <2>3, NoColumnsLeft
  <2>5. ApplyInv(job, phase', rows', loc', pm', at = 1, Len(job.rows))
    BY <1>1, <1>3, <1>4, <1>9, <2>4 DEF ApplyInv, m, first
  <2>6. Rests(job, phase', pm', at = 1) /\ CcsInv(job, phase', rows', loc', pm', Len(job.rows))
    BY <2>1 DEF Rests, Resting, CcsInv
  <2>7. phase' \in Phases \ ColumnPhases
    BY <2>1 DEF Phases, ColumnPhases
  <2>8. Served(job, phase', rows', loc', pm', at = 1)
    BY <2>2, <2>5, <2>6, <2>7, OthersServed
  <2>9. QED
    BY <1>1, <2>8, ServedFolded
<1>13. CASE loc.C # 1
  <2>1. phase' = "column"
    BY <1>1, <1>13
  <2>2. Framed(job, phase', loc', pm')
    BY <1>6, <1>7, <1>9, <1>10, <1>11, <2>1 DEF Framed, Phases
  <2>3. RestPerms(job, loc'.C) + Later(loc') - 1 = a /\ RestPairs(job, loc'.C) + Later(loc') - 1 = b
    BY <1>3, <1>7, <1>8
  <2>4. AtColumn(job, loc', pm', first, m)
    BY <1>4, <1>9, <2>3 DEF AtColumn
  <2>5. loc'.C \in 1 .. Len(job.spec) /\ loc'.C # Len(job.spec)
    BY <1>3, <1>7, <1>13
  <2>6. Ordered(job, loc')
    BY <1>4, <1>6, <1>7, <2>5 DEF Ordered
  <2>7. Columns(job, rows', loc', m)
    BY <1>1, <1>3, <1>4, <1>5, <1>7, <2>5, <2>6 DEF Columns, Sorts
  <2>8. SortInv(job, phase', rows', loc', pm', first, m)
    BY <2>1, <2>4, <2>7 DEF SortInv, At
  <2>9. Served(job, phase', rows', loc', pm', at = 1)
    BY <2>1, <2>2, <2>8, ColumnsServed DEF ColumnPhases, m, first
  <2>10. QED
    BY <1>1, <2>9, ServedFolded
<1>14. QED
  BY <1>12, <1>13

LEMMA NextServes == OperatorsInv /\ OperatorsInv' /\ ServedInv /\ [Next]_vars => ServedInv'
<1> SUFFICES ASSUME OperatorsInv, OperatorsInv', ServedInv, [Next]_vars PROVE ServedInv'
  OBVIOUS
<1>1. CASE UNCHANGED vars
  <2>1. job' = job /\ phase' = phase /\ rows' = rows /\ loc' = loc /\ pm' = pm /\ at' = at
    BY <1>1 DEF vars, job
  <2>2. QED
    BY <2>1 DEF ServedInv
<1>2. CASE NextJob
  BY <1>2, NextJobServed
<1>3. CASE OtherOperations
  BY <1>3, OthersPlain, PlainServed
<1>4. CASE TableSort
  BY <1>4, TableSortServed
<1>5. CASE VectorSort
  BY <1>5, VectorSortServed
<1>6. CASE SortColumn
  BY <1>6, SortColumnServed
<1>7. CASE ShuffleColumn
  BY <1>7, ShuffleColumnServed
<1>8. CASE PartitionColumn
  BY <1>8, PartitionColumnServed
<1>9. CASE SortBit
  BY <1>9, SortBitServed
<1>10. CASE UnpadColumn
  BY <1>10, UnpadColumnServed
<1>11. CASE ComposeColumn
  BY <1>11, ComposeColumnServed
<1>12. CASE ApplyToColumns
  BY <1>12, ApplyToColumnsServed
<1>13. CASE RadixSortCcs
  BY <1>13, RadixSortCcsServed
<1>14. CASE SortBitCcs
  BY <1>14, SortBitCcsServed
<1>15. CASE ShuffleColumns
  BY <1>15, ShuffleColumnsServed
<1>16. Next => \/ NextJob \/ OtherOperations \/ TableSort \/ VectorSort \/ SortColumn \/ ShuffleColumn
               \/ PartitionColumn \/ SortBit \/ UnpadColumn \/ ComposeColumn \/ ApplyToColumns
               \/ RadixSortCcs \/ SortBitCcs \/ ShuffleColumns
  BY DEF Next, OtherOperations
<1>17. QED
  BY <1>1, <1>2, <1>3, <1>4, <1>5, <1>6, <1>7, <1>8, <1>9, <1>10, <1>11, <1>12, <1>13, <1>14, <1>15, <1>16

LEMMA InvServes == OperatorsInv /\ ServedInv => PermutationsServed
<1> SUFFICES ASSUME OperatorsInv, ServedInv PROVE PermutationsServed
  OBVIOUS
<1>1. /\ Framed(job, phase, loc, pm) /\ Rests(job, phase, pm, at = 1) /\ at \in 1 .. Len(program)
  BY ServedUnfolded, Unfolded
<1>2. pm \in FittingManagers
  BY <1>1 DEF Framed
<1>3. pm.perms \in Nat /\ pm.pairs \in Nat /\ pm.size \in Nat /\ pm.misfits = 0
  BY <1>2 DEF FittingManagers
<1>4. TypeOK
  BY <1>1, <1>3 DEF TypeOK, Framed
<1>5. ReservedIsUsed
  BY <1>1 DEF ReservedIsUsed, Ended, Rests, Resting, Sorts
<1>6. QED
  BY <1>3, <1>4, <1>5 DEF PermutationsServed, PermutationsFit

LEMMA InvEnds == OperatorsInv /\ ServedInv => QuicksortEnds
<1> SUFFICES ASSUME OperatorsInv, ServedInv, phase \in {"partition", "unpad"} PROVE Len(loc.col.opened) <= n
  BY DEF QuicksortEnds
<1>1. phase \in ColumnPhases
  BY DEF ColumnPhases
<1>2. Columns(job, rows, loc, Len(job.rows)) /\ n = Len(job.rows) /\ n \in Nat
  BY <1>1, InColumns
<1>3. QED
  BY <1>2 DEF Columns

\* The manager always has what the sort under way will still take: an inductive invariant,
\* for all programs that fit, of tables of any number of columns.
THEOREM ServedInvariant == Spec => []ServedInv
<1>1. Init => ServedInv
  BY InitServed
<1>2. OperatorsInv /\ OperatorsInv' /\ ServedInv /\ [Next]_vars => ServedInv'
  BY NextServes
<1>3. QED
  BY <1>1, <1>2, OperatorsInvariant, PTL DEF Spec

\* PermutationsServed: whatever the operations before it left in the permutation manager, none
\* is handed a permutation of another size; table_sort (table_sort.h) reserves with
\* get_perm_counts exactly what its columns take; and what sorting, shuffling and drawing make
\* are permutations.
THEOREM PermutationsAreServed == Spec => []PermutationsServed
<1>1. OperatorsInv /\ ServedInv => PermutationsServed
  BY InvServes
<1>2. QED
  BY <1>1, OperatorsInvariant, ServedInvariant, PTL

\* QuicksortEnds: every round of quicksort's loop finds the place of one more element at least,
\* so that a vector of n elements, of any keys and shuffled in any way, takes n rounds at most.
THEOREM QuicksortRounds == Spec => []QuicksortEnds
<1>1. OperatorsInv /\ ServedInv => QuicksortEnds
  BY InvEnds
<1>2. QED
  BY <1>1, OperatorsInvariant, ServedInvariant, PTL
=============================================================================
