------------------------------ MODULE ModLemmas ------------------------------
(***************************************************************************)
(* Facts about natural numbers that the proofs about the components share: *)
(* division with remainder, on which the ring's indices and the runtime's  *)
(* batch boundaries rest, and induction in the form of a statement about   *)
(* sets.                                                                   *)
(***************************************************************************)
EXTENDS Integers, WellFoundedInduction, TLAPS

(* Quotient and remainder put the dividend together again.                 *)
LEMMA DivMod ==
    ASSUME NEW a \in Nat, NEW n \in Nat, n > 0
    PROVE  a % n \in 0 .. n - 1 /\ a \div n \in Int /\ a = n * (a \div n) + (a % n)
OBVIOUS

(* The quotient of naturals is a natural.                                  *)
LEMMA DivNat ==
    ASSUME NEW a \in Nat, NEW n \in Nat, n > 0
    PROVE  a \div n \in Nat
<1>1. a \div n \in Int /\ a % n \in 0 .. n - 1 /\ a = n * (a \div n) + (a % n)
  BY DivMod
<1>2. SUFFICES ASSUME a \div n <= -1 PROVE FALSE
  BY <1>1
<1>3. n * (a \div n) <= n * (-1)
  BY <1>1, <1>2
<1>4. QED
  BY <1>1, <1>3

(* Quotient and remainder are determined by that equation.                 *)
LEMMA DivModUnique ==
    ASSUME NEW n \in Nat, n > 0, NEW q \in Int, NEW r \in 0 .. n - 1
    PROVE  (n * q + r) % n = r /\ (n * q + r) \div n = q
OBVIOUS

(* Counting on one and then reducing is the same as reducing first.        *)
LEMMA ModStep ==
    ASSUME NEW a \in Nat, NEW n \in Nat, n > 0
    PROVE  ((a % n) + 1) % n = (a + 1) % n
<1> DEFINE q == a \div n
           r == a % n
<1>1. q \in Int /\ r \in 0 .. n - 1 /\ a = n * q + r
  BY DivMod
<1> HIDE DEF q, r
<1>2. CASE r + 1 < n
  <2>1. (n * q + (r + 1)) % n = r + 1 /\ (n * 0 + (r + 1)) % n = r + 1
    BY <1>1, <1>2, DivModUnique
  <2>2. n * q + (r + 1) = a + 1 /\ n * 0 + (r + 1) = r + 1
    BY <1>1
  <2>3. QED
    BY <2>1, <2>2, <1>1 DEF r
<1>3. CASE r + 1 = n
  <2>1. (n * (q + 1) + 0) % n = 0 /\ (n * 1 + 0) % n = 0
    BY <1>1, DivModUnique
  <2>2. n * (q + 1) + 0 = a + 1 /\ n * 1 + 0 = r + 1
    BY <1>1, <1>3
  <2>3. QED
    BY <2>1, <2>2, <1>1 DEF r
<1>4. QED
  BY <1>1, <1>2, <1>3

(* Two numbers less than n apart with the same remainder are equal.        *)
LEMMA ModInjective ==
    ASSUME NEW a \in Nat, NEW b \in Nat, NEW n \in Nat, n > 0,
           a <= b, b < a + n, a % n = b % n
    PROVE  a = b
<1> DEFINE qa == a \div n
           qb == b \div n
           r == a % n
<1>1. /\ qa \in Int /\ qb \in Int /\ r \in 0 .. n - 1
      /\ a = n * qa + r /\ b = n * qb + r
  BY DivMod
<1> HIDE DEF qa, qb, r
<1>2. n * qa <= n * qb /\ n * qb < n * qa + n
  BY <1>1
<1>3. n * (qb - qa) = n * qb - n * qa
  BY <1>1
<1>4. qb - qa < 1
  <2>1. SUFFICES ASSUME qb - qa >= 1 PROVE FALSE
    BY <1>1
  <2>2. n * (qb - qa) >= n * 1
    BY <2>1, <1>1
  <2>3. QED
    BY <2>2, <1>2, <1>3, <1>1
<1>5. qb - qa > -1
  <2>1. SUFFICES ASSUME qb - qa <= -1 PROVE FALSE
    BY <1>1
  <2>2. n * (qb - qa) <= n * (-1)
    BY <2>1, <1>1
  <2>3. QED
    BY <2>2, <1>2, <1>3, <1>1
<1>6. qa = qb
  BY <1>4, <1>5, <1>1
<1>7. QED
  BY <1>1, <1>6

(* The remainder of a number less than n is the number itself.             *)
LEMMA ModSmall ==
    ASSUME NEW n \in Nat, n > 0, NEW r \in 0 .. n - 1
    PROVE  r % n = r
<1>1. (n * 0 + r) % n = r
  BY DivModUnique
<1>2. n * 0 + r = r
  OBVIOUS
<1>3. QED
  BY <1>1, <1>2

(* Reducing a summand first makes no difference.                           *)
LEMMA ModAdd ==
    ASSUME NEW a \in Nat, NEW b \in Nat, NEW n \in Nat, n > 0
    PROVE  ((a % n) + b) % n = (a + b) % n
<1> DEFINE q == a \div n
           r == a % n
           p == (r + b) \div n
           s == (r + b) % n
<1>1. q \in Int /\ r \in 0 .. n - 1 /\ r \in Nat /\ a = n * q + r
  BY DivMod
<1>2. p \in Int /\ s \in 0 .. n - 1 /\ r + b = n * p + s
  <2>1. r + b \in Nat
    BY <1>1
  <2>2. QED
    BY <2>1, DivMod
<1> HIDE DEF q, r, p, s
<1>3. a + b = n * (q + p) + s
  BY <1>1, <1>2
<1>4. (n * (q + p) + s) % n = s
  <2>1. q + p \in Int
    BY <1>1, <1>2
  <2>2. QED
    BY <2>1, <1>2, DivModUnique
<1>5. QED
  BY <1>3, <1>4 DEF s, r

(* The distance of two numbers less than n apart, from their remainders.   *)
LEMMA ModDistance ==
    ASSUME NEW a \in Nat, NEW b \in Nat, NEW n \in Nat, n > 0, a <= b, b < a + n
    PROVE  ((b % n) - (a % n)) % n = b - a
<1> DEFINE p == a \div n
           r == a % n
           q == b \div n
           s == b % n
<1>1. p \in Int /\ r \in 0 .. n - 1 /\ a = n * p + r
  BY DivMod
<1>2. q \in Int /\ s \in 0 .. n - 1 /\ b = n * q + s
  BY DivMod
<1> HIDE DEF p, q, r, s
<1>3. s - r = n * (p - q) + (b - a)
  BY <1>1, <1>2
<1>4. (n * (p - q) + (b - a)) % n = b - a
  <2>1. b - a \in 0 .. n - 1 /\ p - q \in Int
    BY <1>1, <1>2
  <2>2. QED
    BY <2>1, DivModUnique
<1>5. QED
  BY <1>3, <1>4 DEF s, r

(* Multiplying by a natural keeps the order.                               *)
LEMMA MulMono ==
    ASSUME NEW a \in Int, NEW b \in Int, NEW c \in Nat, a <= b
    PROVE  a * c <= b * c /\ c * a <= c * b
OBVIOUS

(* Multiples of d: sums and products.                                      *)
LEMMA MultipleSum ==
    ASSUME NEW a \in Nat, NEW b \in Nat, NEW d \in Nat, d > 0, a % d = 0, b % d = 0
    PROVE  (a + b) % d = 0
<1>1. ((a % d) + b) % d = (a + b) % d
  BY ModAdd
<1>2. QED
  BY <1>1

LEMMA MultipleProduct ==
    ASSUME NEW a \in Nat, NEW k \in Nat, NEW d \in Nat, d > 0, a % d = 0
    PROVE  (k * a) % d = 0
<1> DEFINE q == a \div d
<1>1. q \in Int /\ a = d * q
  BY DivMod
<1> HIDE DEF q
<1>2. k * a = d * (k * q) + 0 /\ k * q \in Int /\ 0 \in 0 .. d - 1
  BY <1>1
<1>3. QED
  BY <1>2, DivModUnique

(* A division that rounds up: the quotient is a natural, and that many     *)
(* pieces are enough.                                                      *)
LEMMA RoundedUp ==
    ASSUME NEW a \in Nat, NEW n \in Nat, n > 0
    PROVE  /\ (a + n - 1) \div n \in Nat
           /\ a <= n * ((a + n - 1) \div n)
           /\ a > 0 => (a + n - 1) \div n > 0
<1> DEFINE q == (a + n - 1) \div n
           r == (a + n - 1) % n
<1>1. a + n - 1 \in Nat
  OBVIOUS
<1>2. q \in Nat /\ r \in 0 .. n - 1 /\ a + n - 1 = n * q + r
  BY <1>1, DivMod, DivNat
<1> HIDE DEF q, r
<1>3. a <= n * q
  BY <1>2
<1>4. a > 0 => q > 0
  BY <1>2, <1>3
<1>5. QED
  BY <1>2, <1>3, <1>4 DEF q

-----------------------------------------------------------------------------
(* Every set of naturals that is not empty has a least element.            *)
LEMMA LeastNumber ==
    ASSUME NEW S \in SUBSET Nat, S # {}
    PROVE  \E m \in S : \A n \in S : m <= n
<1> DEFINE R == OpToRel(<, Nat)
<1>1. IsWellFoundedOn(R, Nat)
  BY NatLessThanWellFounded
<1>2. \A x, y \in Nat : x < y => <<x, y>> \in R
  BY DEF OpToRel
<1> HIDE DEF R
<1>3. \E x \in S : \A y \in S : ~(<<y, x>> \in R)
  BY <1>1, WFMin
<1>4. PICK x \in S : \A y \in S : <<y, x>> \notin R
  BY <1>3
<1>5. \A y \in S : x <= y
  <2> TAKE y \in S
  <2>1. x \in Nat /\ y \in Nat /\ ~(y < x)
    BY <1>2, <1>4
  <2>2. QED
    BY <2>1
<1>6. QED
  BY <1>5

(* Induction: a set that contains 0 and with every number the next one     *)
(* contains every number.                                                  *)
LEMMA SetInduction ==
    ASSUME NEW S, 0 \in S, \A n \in Nat : n \in S => n + 1 \in S
    PROVE  \A n \in Nat : n \in S
<1> DEFINE B == {n \in Nat : n \notin S}
<1>1. SUFFICES ASSUME B # {} PROVE FALSE
  OBVIOUS
<1>2. PICK m \in B : \A n \in B : m <= n
  BY <1>1, LeastNumber
<1>3. m # 0 /\ m - 1 \in Nat
  BY <1>2
<1>4. m - 1 \notin B
  BY <1>2, <1>3
<1>5. QED
  BY <1>3, <1>4

(* The same up to a bound.                                                 *)
LEMMA BoundedInduction ==
    ASSUME NEW N \in Nat, NEW S, 0 \in S, \A n \in 1 .. N : n - 1 \in S => n \in S
    PROVE  \A n \in 0 .. N : n \in S
<1> DEFINE T == {n \in Nat : n <= N => n \in S}
<1>1. 0 \in T
  OBVIOUS
<1>2. ASSUME NEW n \in Nat, n \in T PROVE n + 1 \in T
  <2>1. SUFFICES ASSUME n + 1 <= N PROVE n + 1 \in S
    OBVIOUS
  <2>2. n \in S /\ n + 1 \in 1 .. N /\ (n + 1) - 1 = n
    BY <1>2, <2>1
  <2>3. QED
    BY <2>2
<1> HIDE DEF T
<1>3. \A n \in Nat : n \in T
  BY <1>1, <1>2, SetInduction
<1>4. QED
  BY <1>3 DEF T

(* Recursion up to a bound: a function that starts with base and goes on   *)
(* by step exists, and its values are typed.                               *)
Recurs(f, N, V, base, step) ==
    /\ f \in [0 .. N -> V]
    /\ f[0] = base
    /\ \A i \in 1 .. N : f[i] = step[i][f[i - 1]]

Recursor(N, V, base, step) == CHOOSE f : Recurs(f, N, V, base, step)

LEMMA BoundedRecursion ==
    ASSUME NEW N \in Nat, NEW V, NEW base \in V, NEW step \in [1 .. N -> [V -> V]]
    PROVE  Recurs(Recursor(N, V, base, step), N, V, base, step)
<1> DEFINE Is(f, n) == /\ f \in [0 .. n -> V]
                       /\ f[0] = base
                       /\ \A i \in 1 .. n : f[i] = step[i][f[i - 1]]
           S == {n \in 0 .. N : \E f : Is(f, n)}
<1>1. 0 \in S
  <2>1. Is([i \in 0 .. 0 |-> base], 0)
    OBVIOUS
  <2> HIDE DEF Is
  <2>2. 0 \in 0 .. N
    OBVIOUS
  <2>3. QED
    BY <2>1, <2>2, Zenon
<1>2. ASSUME NEW n \in 1 .. N, n - 1 \in S PROVE n \in S
  <2>1. PICK f : Is(f, n - 1)
    BY <1>2
  <2> DEFINE g == [i \in 0 .. n |-> IF i = n THEN step[n][f[n - 1]] ELSE f[i]]
  <2>2. f[n - 1] \in V /\ step[n][f[n - 1]] \in V
    BY <2>1
  <2>3. g \in [0 .. n -> V]
    BY <2>1, <2>2
  <2>4. g[0] = base
    BY <2>1
  <2>5. \A i \in 1 .. n : g[i] = step[i][g[i - 1]]
    <3>1. \A i \in 1 .. n : g[i - 1] = f[i - 1] /\ (i # n => i \in 1 .. n - 1 /\ g[i] = f[i])
      OBVIOUS
    <3>2. QED
      BY <2>1, <3>1
  <2>6. Is(g, n)
    BY <2>3, <2>4, <2>5
  <2> HIDE DEF Is, g
  <2>7. n \in 0 .. N
    OBVIOUS
  <2>8. QED
    BY <2>6, <2>7, Zenon
<1>3. \A n \in 0 .. N : n \in S
  <2> HIDE DEF S
  <2>1. QED
    BY <1>1, <1>2, BoundedInduction
<1>4. PICK f : Is(f, N)
  BY <1>3
<1>5. Recurs(f, N, V, base, step)
  BY <1>4 DEF Recurs
<1>6. QED
  BY <1>5, Zenon DEF Recursor
=============================================================================
