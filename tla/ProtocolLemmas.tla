--------------------------- MODULE ProtocolLemmas ---------------------------
(***************************************************************************)
(* What the proofs about the protocols rest on.                            *)
(*                                                                         *)
(* First the words of Ring2k, for every width: the ring operations stay in *)
(* the ring, the exclusive or that is computed from the conjunction is     *)
(* one, both additions are commutative and associative, and a sum of words *)
(* can be taken in any grouping.  Then what draws from common generators,  *)
(* local operators and resharing preserve, and what dividing two signed    *)
(* halves of a word leaves of the word itself: the sum of the quotients is *)
(* the quotient, up to a wrap of the ring and one remainder for each half. *)
(*                                                                         *)
(* Last, what each operation of each protocol preserves: from shared       *)
(* operands and honest generators it computes a shared result, leaves the  *)
(* generators of every group in step and passes its own checks; and what   *)
(* the result is worth, from the values of the operands.                   *)
(***************************************************************************)
EXTENDS Beaver2PC, Replicated3PC, Custom4PC, Dalskov4PC, ModLemmas, FiniteSetTheorems


-----------------------------------------------------------------------------
(* The powers of two are what the recursion says.                          *)
LEMMA Powers ==
    /\ Power[0] = 1
    /\ \A n \in 1 .. Width : Power[n] = 2 * Power[n - 1]
    /\ \A n \in 0 .. Width : Power[n] \in Nat /\ Power[n] >= 1
<1> DEFINE step == [i \in 1 .. Width |-> [v \in Nat |-> 2 * v]]
<1>1. Width \in Nat
  BY WidthAssumption
<1>2. step \in [1 .. Width -> [Nat -> Nat]]
  OBVIOUS
<1> DEFINE f == Recursor(Width, Nat, 1, step)
<1> HIDE DEF step
<1>3. /\ f \in [0 .. Width -> Nat]
      /\ f[0] = 1
      /\ \A i \in 1 .. Width : f[i] = step[i][f[i - 1]]
  <2>1. 1 \in Nat
    OBVIOUS
  <2>2. Recurs(f, Width, Nat, 1, step)
    BY <1>1, <1>2, <2>1, BoundedRecursion, Zenon
  <2>3. QED
    BY <2>2 DEF Recurs
<1> HIDE DEF f
<1>4. f = [n \in 0 .. Width |-> IF n = 0 THEN 1 ELSE 2 * f[n - 1]]
  <2>1. \A n \in 0 .. Width : f[n] = IF n = 0 THEN 1 ELSE 2 * f[n - 1]
    <3>1. \A n \in 1 .. Width : n - 1 \in 0 .. Width /\ f[n - 1] \in Nat
      BY <1>1, <1>3
    <3>2. \A n \in 1 .. Width : f[n] = 2 * f[n - 1]
      BY <1>3, <3>1 DEF step
    <3>3. QED
      BY <1>1, <1>3, <3>2
  <2>2. QED
    BY <1>3, <2>1
<1>5. Power = [n \in 0 .. Width |-> IF n = 0 THEN 1 ELSE 2 * Power[n - 1]]
  BY <1>4 DEF Power
<1>6. Power[0] = 1 /\ \A n \in 1 .. Width : Power[n] = 2 * Power[n - 1]
  <2>1. \A n \in 0 .. Width : Power[n] = IF n = 0 THEN 1 ELSE 2 * Power[n - 1]
    BY <1>5, Zenon
  <2>2. 0 \in 0 .. Width /\ \A n \in 1 .. Width : n \in 0 .. Width /\ n # 0
    BY <1>1
  <2>3. QED
    BY <2>1, <2>2, Zenon
<1> DEFINE S == {n \in Nat : Power[n] \in Nat /\ Power[n] >= 1}
<1>7. 0 \in S /\ \A n \in 1 .. Width : n - 1 \in S => n \in S
  BY <1>6
<1>8. \A n \in 0 .. Width : n \in S
  <2> HIDE DEF S
  <2>1. QED
    BY <1>1, <1>7, BoundedInduction
<1>9. QED
  BY <1>6, <1>8

LEMMA ModulusType == Modulus \in Nat /\ Modulus > 1
<1>1. Width \in Nat /\ Width - 1 \in 0 .. Width /\ Width \in 1 .. Width
  BY WidthAssumption
<1>2. QED
  BY <1>1, Powers DEF Modulus

(* Division with remainder of integers.                                    *)
LEMMA IntDivMod ==
    ASSUME NEW a \in Int, NEW n \in Nat, n > 0
    PROVE  a % n \in 0 .. n - 1 /\ a \div n \in Int /\ a = n * (a \div n) + (a % n)
OBVIOUS

LEMMA WrapType == \A i \in Int : Wrap(i) \in Word
  BY ModulusType, IntDivMod DEF Wrap, Word

LEMMA ZeroWord == 0 \in Word /\ 1 \in Word /\ \A w \in Word : w \in Nat /\ w \in Int
  BY ModulusType DEF Word

-----------------------------------------------------------------------------
(* The i highest bits of a, and the lowest of these.                       *)
High(a, i) == a \div Power[Width - i]
Bit(a, i)  == High(a, i) % 2

(* Taking one bit more doubles the number and adds the bit.                *)
LEMMA HighBits ==
    ASSUME NEW a \in Nat
    PROVE  /\ \A i \in 0 .. Width : High(a, i) \in Nat
           /\ \A i \in 1 .. Width : Bit(a, i) \in {0, 1} /\ High(a, i) = 2 * High(a, i - 1) + Bit(a, i)
           /\ High(a, Width) = a
           /\ a \in Word => High(a, 0) = 0
<1>1. Width \in Nat /\ Width > 0
  BY WidthAssumption
<1>2. ASSUME NEW i \in 0 .. Width PROVE High(a, i) \in Nat
  <2>1. Width - i \in 0 .. Width
    BY <1>1
  <2>2. Power[Width - i] \in Nat /\ Power[Width - i] > 0
    BY <2>1, Powers
  <2>3. QED
    BY <2>2, DivNat DEF High
<1>3. ASSUME NEW i \in 1 .. Width
      PROVE  Bit(a, i) \in {0, 1} /\ High(a, i) = 2 * High(a, i - 1) + Bit(a, i)
  <2> DEFINE P == Power[Width - i]
             q == a \div P
             r == a % P
             h == q \div 2
             b == q % 2
  <2>1. Width - i \in 0 .. Width /\ Width - (i - 1) \in 1 .. Width
        /\ (Width - (i - 1)) - 1 = Width - i
    BY <1>1
  <2>2. P \in Nat /\ P > 0 /\ Power[Width - (i - 1)] = 2 * P
    BY <2>1, Powers
  <2> HIDE DEF P
  <2>3. q \in Nat /\ r \in 0 .. P - 1 /\ a = P * q + r
    BY <2>2, DivMod, DivNat
  <2> HIDE DEF q, r
  <2>4. h \in Nat /\ b \in 0 .. 1 /\ q = 2 * h + b
    BY <2>3, DivMod, DivNat
  <2> HIDE DEF h, b
  <2>5. P * b + r \in 0 .. (2 * P) - 1 /\ a = (2 * P) * h + (P * b + r)
    <3> DEFINE m == P * b
               M == (2 * P) * h
    <3>1. m \in Int /\ 0 <= m /\ m <= P
      <4>1. P * 0 = 0 /\ P * 1 = P /\ (b = 0 \/ b = 1)
        BY <2>2, <2>4
      <4>2. QED
        BY <2>2, <4>1
    <3>2. P * q = M + m /\ M \in Int
      <4>1. P * (2 * h + b) = (2 * P) * h + P * b /\ (2 * P) * h \in Int
        BY <2>2, <2>4
      <4>2. QED
        BY <2>4, <4>1
    <3> HIDE DEF m, M
    <3>3. m + r \in 0 .. (2 * P) - 1 /\ a = M + (m + r)
      BY <2>2, <2>3, <3>1, <3>2
    <3>4. QED
      BY <3>3 DEF m, M
  <2>6. a \div (2 * P) = h
    <3>1. 2 * P \in Nat /\ 2 * P > 0 /\ h \in Int
      BY <2>2, <2>4
    <3>2. QED
      BY <2>5, <3>1, DivModUnique
  <2>7. High(a, i) = q /\ Bit(a, i) = b /\ High(a, i - 1) = h
    BY <2>2, <2>6 DEF High, Bit, q, b, P
  <2>8. QED
    BY <2>4, <2>7
<1>4. High(a, Width) = a
  <2>1. Width - Width = 0 /\ Power[0] = 1 /\ a \div 1 = a
    BY <1>1, Powers
  <2>2. QED
    BY <2>1 DEF High
<1>5. ASSUME a \in Word PROVE High(a, 0) = 0
  <2>1. Width - 0 = Width /\ a \in 0 .. Modulus - 1 /\ Modulus \in Nat /\ Modulus > 0
    BY <1>1, <1>5, ModulusType DEF Word
  <2>2. (Modulus * 0 + a) \div Modulus = 0 /\ Modulus * 0 + a = a
    BY <2>1, DivModUnique
  <2>3. QED
    BY <2>1, <2>2 DEF High, Modulus
<1>6. QED
  BY <1>2, <1>3, <1>4, <1>5

(* A number determines its last bit and its half.                          *)
LEMMA DoubledAndBit ==
    ASSUME NEW x \in Int, NEW y \in Int, NEW b \in {0, 1}, NEW c \in {0, 1}, 2 * x + b = 2 * y + c
    PROVE  x = y /\ b = c
OBVIOUS

(* A word is determined by its bits.                                       *)
LEMMA WordsByBits ==
    ASSUME NEW a \in Word, NEW b \in Word, \A i \in 1 .. Width : Bit(a, i) = Bit(b, i)
    PROVE  a = b
<1> DEFINE S == {i \in Nat : High(a, i) = High(b, i)}
<1>1. Width \in Nat /\ a \in Nat /\ b \in Nat
  BY WidthAssumption, ZeroWord
<1>2. 0 \in S
  BY <1>1, HighBits
<1>3. ASSUME NEW i \in 1 .. Width, i - 1 \in S PROVE i \in S
  <2>1. /\ High(a, i) = 2 * High(a, i - 1) + Bit(a, i)
        /\ High(b, i) = 2 * High(b, i - 1) + Bit(b, i)
    BY <1>1, HighBits
  <2>2. High(a, i - 1) = High(b, i - 1) /\ Bit(a, i) = Bit(b, i)
    BY <1>3
  <2>3. QED
    BY <2>1, <2>2
<1>4. Width \in 0 .. Width /\ \A i \in 0 .. Width : i \in S
  <2> HIDE DEF S
  <2>1. QED
    BY <1>1, <1>2, <1>3, BoundedInduction
<1>5. QED
  BY <1>1, <1>4, HighBits

(* A number put together from bits, highest first, has these bits.         *)
LEMMA PutTogether ==
    ASSUME NEW h, \A i \in 0 .. Width : h[i] \in Int, h[0] = 0,
           NEW c, \A i \in 1 .. Width : c[i] \in {0, 1} /\ h[i] = 2 * h[i - 1] + c[i]
    PROVE  h[Width] \in Word /\ \A i \in 1 .. Width : Bit(h[Width], i) = c[i]
<1>1. Width \in Nat /\ Width > 0
  BY WidthAssumption
<1> DEFINE S == {i \in Nat : h[i] \in Nat /\ h[i] < Power[i]}
<1>2. 0 \in S
  BY <1>1, Powers
<1>3. ASSUME NEW i \in 1 .. Width, i - 1 \in S PROVE i \in S
  <2>1. i - 1 \in 0 .. Width /\ Power[i] = 2 * Power[i - 1] /\ Power[i - 1] \in Nat
    BY <1>1, Powers
  <2>2. h[i - 1] \in Nat /\ h[i - 1] < Power[i - 1]
    BY <1>3
  <2>3. c[i] \in {0, 1} /\ h[i] = 2 * h[i - 1] + c[i]
    OBVIOUS
  <2>4. h[i] \in Nat /\ h[i] < Power[i]
    BY <2>1, <2>2, <2>3
  <2>5. QED
    BY <2>4
<1>4. \A i \in 0 .. Width : i \in S
  <2> HIDE DEF S
  <2>1. QED
    BY <1>1, <1>2, <1>3, BoundedInduction
<1> DEFINE n == h[Width]
<1>5. n \in Nat /\ n \in Word
  <2>1. Width \in S /\ Power[Width] \in Nat
    BY <1>1, <1>4, Powers
  <2>2. QED
    BY <2>1 DEF Word, Modulus
<1> HIDE DEF n
<1> DEFINE T == {j \in Nat : High(n, Width - j) = h[Width - j]}
<1>6. 0 \in T
  <2>1. Width - 0 = Width
    BY <1>1
  <2>2. High(n, Width) = h[Width]
    BY <1>5, HighBits DEF n
  <2>3. QED
    BY <2>1, <2>2
<1>7. ASSUME NEW j \in 1 .. Width, j - 1 \in T PROVE j \in T
  <2> DEFINE i == Width - (j - 1)
  <2>1. i \in 1 .. Width /\ i - 1 = Width - j /\ i - 1 \in 0 .. Width
    BY <1>1
  <2>2. High(n, i) = h[i]
    BY <1>7
  <2> HIDE DEF i
  <2>3. High(n, i) = 2 * High(n, i - 1) + Bit(n, i) /\ Bit(n, i) \in {0, 1} /\ High(n, i - 1) \in Nat
    BY <1>5, <2>1, HighBits
  <2>4. h[i] = 2 * h[i - 1] + c[i] /\ c[i] \in {0, 1} /\ h[i - 1] \in Int
    BY <2>1
  <2>5. High(n, i - 1) = h[i - 1]
    <3>1. 2 * High(n, i - 1) + Bit(n, i) = 2 * h[i - 1] + c[i]
      BY <2>2, <2>3, <2>4, Zenon
    <3> DEFINE X == High(n, i - 1)
               Y == h[i - 1]
               B == Bit(n, i)
               C == c[i]
    <3>2. X \in Int /\ Y \in Int /\ B \in {0, 1} /\ C \in {0, 1} /\ 2 * X + B = 2 * Y + C
      BY <2>3, <2>4, <3>1
    <3> HIDE DEF X, Y, B, C
    <3>3. X = Y
      BY <3>2, DoubledAndBit
    <3>4. QED
      BY <3>3 DEF X, Y
  <2>6. QED
    BY <2>1, <2>5
<1>8. \A j \in 0 .. Width : j \in T
  <2> HIDE DEF T
  <2>1. QED
    BY <1>1, <1>6, <1>7, BoundedInduction
<1>9. ASSUME NEW i \in 0 .. Width PROVE High(n, i) = h[i]
  <2>1. Width - i \in 0 .. Width /\ Width - (Width - i) = i
    BY <1>1
  <2>2. QED
    BY <1>8, <2>1
<1>10. ASSUME NEW i \in 1 .. Width PROVE Bit(n, i) = c[i]
  <2>1. i \in 0 .. Width /\ i - 1 \in 0 .. Width
    BY <1>1
  <2>2. /\ High(n, i) = 2 * High(n, i - 1) + Bit(n, i) /\ Bit(n, i) \in {0, 1}
        /\ High(n, i - 1) \in Nat
    BY <1>5, <2>1, HighBits
  <2>3. High(n, i) = h[i] /\ High(n, i - 1) = h[i - 1] /\ h[i] = 2 * h[i - 1] + c[i] /\ c[i] \in {0, 1}
    BY <1>9, <2>1
  <2>4. QED
    BY <2>2, <2>3
<1>11. QED
  BY <1>5, <1>10 DEF n

-----------------------------------------------------------------------------
(* The conjunction of two words, as its recursion computes it.             *)
LEMMA AndRecursion ==
    ASSUME NEW a \in Word, NEW b \in Word
    PROVE  \E f \in [0 .. Width -> Nat] :
              /\ f[0] = 0
              /\ \A i \in 1 .. Width : f[i] = 2 * f[i - 1] + Bit(a, i) * Bit(b, i)
              /\ BitAnd(a, b) = f[Width]
<1> DEFINE step == [i \in 1 .. Width |-> [v \in Nat |-> 2 * v + Bit(a, i) * Bit(b, i)]]
           f == Recursor(Width, Nat, 0, step)
           body(g) == [i \in 0 .. Width |->
                         IF i = 0 THEN 0
                         ELSE 2 * g[i - 1] + ((a \div Power[Width - i]) % 2) * ((b \div Power[Width - i]) % 2)]
<1>1. Width \in Nat /\ a \in Nat /\ b \in Nat
  BY WidthAssumption, ZeroWord
<1>2. \A i \in 1 .. Width : Bit(a, i) * Bit(b, i) \in {0, 1}
  <2>1. \A i \in 1 .. Width : Bit(a, i) \in {0, 1} /\ Bit(b, i) \in {0, 1}
    BY <1>1, HighBits
  <2>2. QED
    BY <2>1
<1>3. step \in [1 .. Width -> [Nat -> Nat]]
  BY <1>2
<1> HIDE DEF step
<1>4. Recurs(f, Width, Nat, 0, step)
  <2>1. 0 \in Nat
    OBVIOUS
  <2>2. QED
    BY <1>1, <1>3, <2>1, BoundedRecursion, Zenon
<1> HIDE DEF f
<1>5. f \in [0 .. Width -> Nat] /\ f[0] = 0
  BY <1>4 DEF Recurs
<1>6. \A i \in 1 .. Width : f[i] = 2 * f[i - 1] + Bit(a, i) * Bit(b, i)
  <2>1. \A i \in 1 .. Width : f[i] = step[i][f[i - 1]]
    BY <1>4 DEF Recurs
  <2>2. \A i \in 1 .. Width : f[i - 1] \in Nat
    BY <1>1, <1>5
  <2>3. QED
    BY <2>1, <2>2, Zenon DEF step
<1>7. f = body(f)
  <2>1. \A i \in 0 .. Width : i # 0 => i \in 1 .. Width
    BY <1>1
  <2>2. \A i \in 0 .. Width : f[i] = body(f)[i]
    BY <1>5, <1>6, <2>1, Zenon DEF Bit, High
  <2>3. DOMAIN body(f) = 0 .. Width /\ body(f) = [i \in 0 .. Width |-> body(f)[i]]
    BY Zenon
  <2>4. f = [i \in 0 .. Width |-> f[i]]
    BY <1>5
  <2>5. QED
    BY <2>2, <2>3, <2>4, Zenon
<1> DEFINE g == CHOOSE h : h = body(h)
<1>8. g = body(g)
  BY <1>7, Zenon
<1>9. BitAnd(a, b) = g[Width]
  BY Zenon DEF BitAnd, AndTable
<1> HIDE DEF g
<1>10. g[0] = 0 /\ \A i \in 1 .. Width : g[i] = 2 * g[i - 1] + Bit(a, i) * Bit(b, i)
  <2>1. \A i \in 0 .. Width : g[i] = IF i = 0 THEN 0 ELSE 2 * g[i - 1] + Bit(a, i) * Bit(b, i)
    BY <1>8, Zenon DEF Bit, High
  <2>2. 0 \in 0 .. Width /\ \A i \in 1 .. Width : i \in 0 .. Width /\ i # 0
    BY <1>1
  <2>3. QED
    BY <2>1, <2>2, Zenon
<1> HIDE DEF body
<1> DEFINE S == {i \in Nat : g[i] = f[i]}
<1>11. 0 \in S /\ \A i \in 1 .. Width : i - 1 \in S => i \in S
  BY <1>5, <1>6, <1>10
<1>12. g[Width] = f[Width]
  <2> HIDE DEF S
  <2>1. \A i \in 0 .. Width : i \in S
    BY <1>1, <1>11, BoundedInduction
  <2>2. QED
    BY <1>1, <2>1 DEF S
<1>13. QED
  BY <1>5, <1>6, <1>9, <1>12

LEMMA AndBits ==
    ASSUME NEW a \in Word, NEW b \in Word
    PROVE  BitAnd(a, b) \in Word /\ \A i \in 1 .. Width : Bit(BitAnd(a, b), i) = Bit(a, i) * Bit(b, i)
<1> DEFINE c == [i \in 1 .. Width |-> Bit(a, i) * Bit(b, i)]
<1>1. PICK f \in [0 .. Width -> Nat] :
         /\ f[0] = 0
         /\ \A i \in 1 .. Width : f[i] = 2 * f[i - 1] + Bit(a, i) * Bit(b, i)
         /\ BitAnd(a, b) = f[Width]
  BY AndRecursion
<1>2. \A i \in 1 .. Width : Bit(a, i) \in {0, 1} /\ Bit(b, i) \in {0, 1}
  BY ZeroWord, HighBits
<1>3. \A i \in 1 .. Width : c[i] \in {0, 1} /\ c[i] = Bit(a, i) * Bit(b, i)
  BY <1>2
<1> HIDE DEF c
<1>4. \A i \in 1 .. Width : c[i] \in {0, 1} /\ f[i] = 2 * f[i - 1] + c[i]
  BY <1>1, <1>3
<1>5. f[0] = 0 /\ \A i \in 0 .. Width : f[i] \in Int
  BY <1>1
<1>6. f[Width] \in Word /\ \A i \in 1 .. Width : Bit(f[Width], i) = c[i]
  <2> DEFINE h == f
  <2>1. /\ h[0] = 0 /\ \A i \in 0 .. Width : h[i] \in Int
        /\ \A i \in 1 .. Width : c[i] \in {0, 1} /\ h[i] = 2 * h[i - 1] + c[i]
    BY <1>4, <1>5
  <2> HIDE DEF h
  <2>2. h[Width] \in Word /\ \A i \in 1 .. Width : Bit(h[Width], i) = c[i]
    BY <2>1, PutTogether
  <2>3. QED
    BY <2>2 DEF h
<1>7. QED
  BY <1>1, <1>3, <1>6

(* a + b - 2 (a & b) is the exclusive or, bit by bit.                      *)
LEMMA XorBits ==
    ASSUME NEW a \in Word, NEW b \in Word
    PROVE  /\ BitXor(a, b) \in Word
           /\ \A i \in 1 .. Width :
                 Bit(BitXor(a, b), i) = Bit(a, i) + Bit(b, i) - 2 * (Bit(a, i) * Bit(b, i))
<1> DEFINE c == [i \in 1 .. Width |-> Bit(a, i) + Bit(b, i) - 2 * (Bit(a, i) * Bit(b, i))]
<1>1. PICK f \in [0 .. Width -> Nat] :
         /\ f[0] = 0
         /\ \A i \in 1 .. Width : f[i] = 2 * f[i - 1] + Bit(a, i) * Bit(b, i)
         /\ BitAnd(a, b) = f[Width]
  BY AndRecursion
<1> DEFINE h == [i \in 0 .. Width |-> High(a, i) + High(b, i) - 2 * f[i]]
<1>2. Width \in Nat /\ a \in Nat /\ b \in Nat
  BY WidthAssumption, ZeroWord
<1>3. /\ \A i \in 0 .. Width : High(a, i) \in Nat /\ High(b, i) \in Nat
      /\ \A i \in 1 .. Width : Bit(a, i) \in {0, 1} /\ Bit(b, i) \in {0, 1}
      /\ \A i \in 1 .. Width : /\ High(a, i) = 2 * High(a, i - 1) + Bit(a, i)
                               /\ High(b, i) = 2 * High(b, i - 1) + Bit(b, i)
      /\ High(a, 0) = 0 /\ High(b, 0) = 0 /\ High(a, Width) = a /\ High(b, Width) = b
  BY <1>2, HighBits
<1>4. \A i \in 1 .. Width :
         c[i] \in {0, 1} /\ c[i] = Bit(a, i) + Bit(b, i) - 2 * (Bit(a, i) * Bit(b, i))
  BY <1>3
<1> HIDE DEF c
<1>5. \A i \in 0 .. Width : h[i] \in Int
  BY <1>3
<1>6. h[0] = 0
  BY <1>1, <1>2, <1>3
<1>7. ASSUME NEW i \in 1 .. Width PROVE h[i] = 2 * h[i - 1] + c[i]
  <2> DEFINE A == High(a, i - 1)
             B == High(b, i - 1)
             F == f[i - 1]
             u == Bit(a, i)
             v == Bit(b, i)
             w == u * v
  <2>1. i \in 0 .. Width /\ i - 1 \in 0 .. Width
    BY <1>2
  <2>2. A \in Nat /\ B \in Nat /\ F \in Nat /\ u \in {0, 1} /\ v \in {0, 1} /\ w \in {0, 1}
    BY <1>3, <2>1
  <2>3. High(a, i) = 2 * A + u /\ High(b, i) = 2 * B + v /\ f[i] = 2 * F + w
    BY <1>1, <1>3
  <2>4. h[i] = High(a, i) + High(b, i) - 2 * f[i] /\ h[i - 1] = A + B - 2 * F
    BY <2>1
  <2>5. c[i] = u + v - 2 * w
    BY <1>4
  <2> HIDE DEF A, B, F, u, v, w, h
  <2>6. QED
    BY <2>2, <2>3, <2>4, <2>5
<1>8. h[Width] = BitXor(a, b)
  BY <1>1, <1>2, <1>3 DEF BitXor, BitAnd
<1> HIDE DEF h
<1>9. h[Width] \in Word /\ \A i \in 1 .. Width : Bit(h[Width], i) = c[i]
  BY <1>4, <1>5, <1>6, <1>7, PutTogether
<1>10. QED
  BY <1>4, <1>8, <1>9

LEMMA ZeroBits == \A i \in 1 .. Width : Bit(0, i) = 0
<1>1. ASSUME NEW i \in 1 .. Width PROVE Bit(0, i) = 0
  <2>1. Width - i \in 0 .. Width /\ Width \in Nat
    BY WidthAssumption
  <2>2. Power[Width - i] \in Nat /\ Power[Width - i] > 0
    BY <2>1, Powers
  <2>3. (Power[Width - i] * 0 + 0) \div Power[Width - i] = 0 /\ Power[Width - i] * 0 + 0 = 0
    BY <2>2, DivModUnique
  <2>4. 0 \div Power[Width - i] = 0
    BY <2>3
  <2>5. QED
    BY <2>4 DEF Bit, High
<1>2. QED
  BY <1>1

(* Exclusive or is an addition in which every word is its own inverse.     *)
LEMMA XorAlgebra ==
    ASSUME NEW a \in Word, NEW b \in Word, NEW c \in Word
    PROVE  /\ BitXor(a, b) = BitXor(b, a)
           /\ BitXor(BitXor(a, b), c) = BitXor(a, BitXor(b, c))
           /\ BitXor(0, a) = a
           /\ BitXor(BitXor(a, b), b) = a
<1>1. BitXor(a, b) \in Word /\ BitXor(b, a) \in Word /\ BitXor(b, c) \in Word /\ 0 \in Word
  BY XorBits, ZeroWord
<1>2. \A i \in 1 .. Width : Bit(a, i) \in {0, 1} /\ Bit(b, i) \in {0, 1} /\ Bit(c, i) \in {0, 1}
  BY ZeroWord, HighBits
<1>3. BitXor(a, b) = BitXor(b, a)
  <2>1. ASSUME NEW i \in 1 .. Width PROVE Bit(BitXor(a, b), i) = Bit(BitXor(b, a), i)
    BY <1>2, XorBits
  <2>2. QED
    BY <1>1, <2>1, WordsByBits
<1>4. BitXor(BitXor(a, b), c) = BitXor(a, BitXor(b, c))
  <2>1. ASSUME NEW i \in 1 .. Width
        PROVE  Bit(BitXor(BitXor(a, b), c), i) = Bit(BitXor(a, BitXor(b, c)), i)
    <3> DEFINE u == Bit(a, i)
               v == Bit(b, i)
               w == Bit(c, i)
    <3>1. Bit(BitXor(a, b), i) = u + v - 2 * (u * v) /\ Bit(BitXor(b, c), i) = v + w - 2 * (v * w)
      BY XorBits
    <3>2. Bit(BitXor(BitXor(a, b), c), i) = Bit(BitXor(a, b), i) + w - 2 * (Bit(BitXor(a, b), i) * w)
      BY <1>1, XorBits
    <3>3. Bit(BitXor(a, BitXor(b, c)), i) = u + Bit(BitXor(b, c), i) - 2 * (u * Bit(BitXor(b, c), i))
      BY <1>1, XorBits
    <3>4. u \in {0, 1} /\ v \in {0, 1} /\ w \in {0, 1}
      BY <1>2
    <3> HIDE DEF u, v, w
    <3>5. QED
      BY <3>1, <3>2, <3>3, <3>4
  <2>2. BitXor(BitXor(a, b), c) \in Word /\ BitXor(a, BitXor(b, c)) \in Word
    BY <1>1, XorBits
  <2>3. QED
    BY <2>1, <2>2, WordsByBits
<1>5. BitXor(0, a) = a
  <2>1. ASSUME NEW i \in 1 .. Width PROVE Bit(BitXor(0, a), i) = Bit(a, i)
    <3>1. Bit(BitXor(0, a), i) = Bit(0, i) + Bit(a, i) - 2 * (Bit(0, i) * Bit(a, i))
      BY <1>1, XorBits
    <3>2. QED
      BY <1>2, <3>1, ZeroBits
  <2>2. BitXor(0, a) \in Word
    BY <1>1, XorBits
  <2>3. QED
    BY <2>1, <2>2, WordsByBits
<1>6. BitXor(BitXor(a, b), b) = a
  <2>1. ASSUME NEW i \in 1 .. Width PROVE Bit(BitXor(BitXor(a, b), b), i) = Bit(a, i)
    <3> DEFINE u == Bit(a, i)
               v == Bit(b, i)
    <3>1. Bit(BitXor(a, b), i) = u + v - 2 * (u * v)
      BY XorBits
    <3>2. Bit(BitXor(BitXor(a, b), b), i) = Bit(BitXor(a, b), i) + v - 2 * (Bit(BitXor(a, b), i) * v)
      BY <1>1, XorBits
    <3>3. u \in {0, 1} /\ v \in {0, 1}
      BY <1>2
    <3> HIDE DEF u, v
    <3>4. Bit(BitXor(BitXor(a, b), b), i) = u
      BY <3>1, <3>2, <3>3
    <3>5. QED
      BY <3>4 DEF u
  <2>2. BitXor(BitXor(a, b), b) \in Word
    BY <1>1, XorBits
  <2>3. QED
    BY <2>1, <2>2, WordsByBits
<1>7. QED
  BY <1>3, <1>4, <1>5, <1>6

-----------------------------------------------------------------------------
(* Wrapping around adds a multiple of the ring's size, and integers that   *)
(* differ by one wrap to the same word.                                    *)
LEMMA WrapMultiple ==
    ASSUME NEW i \in Int
    PROVE  \E m \in Int : i = Wrap(i) + Modulus * m
<1>1. i \div Modulus \in Int /\ i = Modulus * (i \div Modulus) + Wrap(i) /\ Wrap(i) \in Int
  BY ModulusType, IntDivMod DEF Wrap
<1>2. Modulus * (i \div Modulus) \in Int
  BY <1>1, ModulusType
<1>3. QED
  BY <1>1, <1>2

LEMMA WrapEqual ==
    ASSUME NEW i \in Int, NEW j \in Int, NEW m \in Int, i = j + Modulus * m
    PROVE  Wrap(i) = Wrap(j)
<1>1. PICK n \in Int : j = Wrap(j) + Modulus * n
  BY WrapMultiple
<1>2. Wrap(j) \in 0 .. Modulus - 1 /\ Modulus \in Nat /\ Modulus > 0
  BY WrapType, ModulusType DEF Word
<1>3. i = Modulus * (n + m) + Wrap(j)
  <2>1. Modulus * (n + m) = Modulus * n + Modulus * m /\ Modulus * n \in Int /\ Modulus * m \in Int
    BY <1>2
  <2>2. QED
    BY <1>1, <1>2, <2>1
<1>4. n + m \in Int
  OBVIOUS
<1>5. (Modulus * (n + m) + Wrap(j)) % Modulus = Wrap(j)
  BY <1>2, <1>4, DivModUnique
<1>6. QED
  BY <1>3, <1>5 DEF Wrap

LEMMA WrapWord == \A w \in Word : Wrap(w) = w
<1>1. ASSUME NEW w \in Word PROVE Wrap(w) = w
  BY ModulusType, ModSmall DEF Word, Wrap
<1>2. QED
  BY <1>1

(* So an operand may be wrapped before it is added, or not.                *)
LEMMA WrapSum ==
    ASSUME NEW i \in Int, NEW j \in Int
    PROVE  /\ Wrap(Wrap(i) + j) = Wrap(i + j)
           /\ Wrap(i + Wrap(j)) = Wrap(i + j)
           /\ Wrap(Wrap(i) - j) = Wrap(i - j)
           /\ Wrap(i - Wrap(j)) = Wrap(i - j)
<1>1. PICK m \in Int : i = Wrap(i) + Modulus * m
  BY WrapMultiple
<1>2. PICK n \in Int : j = Wrap(j) + Modulus * n
  BY WrapMultiple
<1>3. Wrap(i) \in Int /\ Wrap(j) \in Int /\ Modulus \in Nat
  BY WrapType, ZeroWord, ModulusType
<1> DEFINE M == Modulus * m
           N == Modulus * n
<1>4. M \in Int /\ N \in Int /\ Modulus * (-n) = -N /\ -n \in Int
  BY <1>3
<1>5. i + j = (Wrap(i) + j) + M /\ i + j = (i + Wrap(j)) + N
      /\ i - j = (Wrap(i) - j) + M /\ i - j = (i - Wrap(j)) + (-N)
  <2> DEFINE u == Wrap(i)
             v == Wrap(j)
  <2>1. u \in Int /\ v \in Int /\ i = u + M /\ j = v + N /\ M \in Int /\ N \in Int
    BY <1>1, <1>2, <1>3, <1>4
  <2> HIDE DEF u, v, M, N
  <2>2. i + j = (u + j) + M /\ i + j = (i + v) + N /\ i - j = (u - j) + M /\ i - j = (i - v) + (-N)
    BY <2>1
  <2>3. QED
    BY <2>2 DEF u, v
<1> HIDE DEF M, N
<1>6. /\ Wrap(i) + j \in Int /\ i + Wrap(j) \in Int /\ Wrap(i) - j \in Int /\ i - Wrap(j) \in Int
      /\ i + j \in Int /\ i - j \in Int
  BY <1>3
<1>7. Wrap(i + j) = Wrap(Wrap(i) + j) /\ Wrap(i - j) = Wrap(Wrap(i) - j)
  BY <1>5, <1>6, WrapEqual DEF M
<1>8. Wrap(i + j) = Wrap(i + Wrap(j))
  BY <1>5, <1>6, WrapEqual DEF N
<1>9. Wrap(i - j) = Wrap(i - Wrap(j))
  BY <1>4, <1>5, <1>6, WrapEqual
<1>10. QED
  BY <1>7, <1>8, <1>9

-----------------------------------------------------------------------------
(* The operators of both kinds of sharing stay among the words,            *)
LEMMA OperatorTypes ==
    ASSUME NEW k \in Kinds, NEW a \in Word, NEW b \in Word
    PROVE  Plus(k, a, b) \in Word /\ Minus(k, a, b) \in Word /\ Times(k, a, b) \in Word
<1>1. a \in Int /\ b \in Int
  BY ZeroWord
<1>2. a + b \in Int /\ a - b \in Int /\ a * b \in Int
  BY <1>1
<1>3. Wrap(a + b) \in Word /\ Wrap(a - b) \in Word /\ Wrap(a * b) \in Word
  BY <1>2, WrapType
<1>4. BitXor(a, b) \in Word /\ BitAnd(a, b) \in Word
  BY XorBits, AndBits
<1>5. QED
  BY <1>3, <1>4 DEF Plus, Minus, Times

(* and addition is that of a commutative group.                            *)
LEMMA PlusAlgebra ==
    ASSUME NEW k \in Kinds, NEW a \in Word, NEW b \in Word, NEW c \in Word
    PROVE  /\ Plus(k, a, b) = Plus(k, b, a)
           /\ Plus(k, Plus(k, a, b), c) = Plus(k, a, Plus(k, b, c))
           /\ Plus(k, 0, a) = a
           /\ Plus(k, Minus(k, a, b), b) = a
           /\ Minus(k, Plus(k, a, b), b) = a
<1>1. a \in Int /\ b \in Int /\ c \in Int
  BY ZeroWord
<1>2. CASE k = "a"
  <2>1. Plus(k, a, b) = Wrap(a + b) /\ Plus(k, b, a) = Wrap(b + a) /\ a + b = b + a
    BY <1>1, <1>2 DEF Plus
  <2>2. Plus(k, Plus(k, a, b), c) = Wrap(Wrap(a + b) + c) /\ Plus(k, a, Plus(k, b, c)) = Wrap(a + Wrap(b + c))
    BY <1>2 DEF Plus
  <2>3. Wrap(Wrap(a + b) + c) = Wrap((a + b) + c)
    <3>1. a + b \in Int
      BY <1>1
    <3>2. QED
      BY <1>1, <3>1, WrapSum
  <2>4. Wrap(a + Wrap(b + c)) = Wrap(a + (b + c))
    <3>1. b + c \in Int
      BY <1>1
    <3>2. QED
      BY <1>1, <3>1, WrapSum
  <2>5. (a + b) + c = a + (b + c)
    BY <1>1
  <2>6. Plus(k, 0, a) = Wrap(0 + a) /\ 0 + a = a /\ Wrap(a) = a
    BY <1>1, <1>2, WrapWord DEF Plus
  <2>7. Plus(k, Minus(k, a, b), b) = Wrap(Wrap(a - b) + b) /\ Minus(k, Plus(k, a, b), b) = Wrap(Wrap(a + b) - b)
    BY <1>2 DEF Plus, Minus
  <2>8. Wrap(Wrap(a - b) + b) = Wrap((a - b) + b) /\ (a - b) + b = a
    <3>1. a - b \in Int /\ (a - b) + b = a
      BY <1>1
    <3>2. QED
      BY <1>1, <3>1, WrapSum
  <2>9. Wrap(Wrap(a + b) - b) = Wrap((a + b) - b) /\ (a + b) - b = a
    <3>1. a + b \in Int /\ (a + b) - b = a
      BY <1>1
    <3>2. QED
      BY <1>1, <3>1, WrapSum
  <2>10. QED
    BY <2>1, <2>2, <2>3, <2>4, <2>5, <2>6, <2>7, <2>8, <2>9
<1>3. CASE k # "a"
  BY <1>3, XorAlgebra DEF Plus, Minus
<1>4. QED
  BY <1>2, <1>3

-----------------------------------------------------------------------------
(* Multiplication: a factor may be wrapped first, or not;                  *)
LEMMA WrapProduct ==
    ASSUME NEW i \in Int, NEW j \in Int
    PROVE  Wrap(i * Wrap(j)) = Wrap(i * j)
<1>1. PICK m \in Int : j = Wrap(j) + Modulus * m
  BY WrapMultiple
<1>2. Wrap(j) \in Int /\ Modulus \in Int
  BY WrapType, ZeroWord, ModulusType
<1> DEFINE w == Wrap(j)
<1>3. j = w + Modulus * m /\ w \in Int
  BY <1>1, <1>2
<1> HIDE DEF w
<1>4. i * j = i * w + Modulus * (i * m) /\ i * m \in Int /\ i * w \in Int /\ i * j \in Int
  BY <1>2, <1>3
<1>5. Wrap(i * j) = Wrap(i * w)
  BY ONLY <1>4, WrapEqual
<1>6. QED
  BY <1>5 DEF w

(* the conjunction of words commutes, and distributes over exclusive or,   *)
LEMMA AndAlgebra ==
    ASSUME NEW a \in Word, NEW b \in Word, NEW c \in Word
    PROVE  /\ BitAnd(a, b) = BitAnd(b, a)
           /\ BitAnd(a, BitXor(b, c)) = BitXor(BitAnd(a, b), BitAnd(a, c))
           /\ BitAnd(0, a) = 0
<1>1. /\ BitXor(b, c) \in Word /\ BitAnd(a, b) \in Word /\ BitAnd(b, a) \in Word
      /\ BitAnd(a, c) \in Word /\ 0 \in Word
  BY XorBits, AndBits, ZeroWord
<1>2. \A i \in 1 .. Width : Bit(a, i) \in {0, 1} /\ Bit(b, i) \in {0, 1} /\ Bit(c, i) \in {0, 1}
  BY ZeroWord, HighBits
<1>3. BitAnd(a, b) = BitAnd(b, a)
  <2>1. ASSUME NEW i \in 1 .. Width PROVE Bit(BitAnd(a, b), i) = Bit(BitAnd(b, a), i)
    BY <1>2, AndBits
  <2>2. QED
    BY <1>1, <2>1, WordsByBits
<1>4. BitAnd(a, BitXor(b, c)) = BitXor(BitAnd(a, b), BitAnd(a, c))
  <2>1. ASSUME NEW i \in 1 .. Width
        PROVE  Bit(BitAnd(a, BitXor(b, c)), i) = Bit(BitXor(BitAnd(a, b), BitAnd(a, c)), i)
    <3> DEFINE u == Bit(a, i)
               v == Bit(b, i)
               w == Bit(c, i)
    <3>1. Bit(BitXor(b, c), i) = v + w - 2 * (v * w)
      BY XorBits
    <3>2. Bit(BitAnd(a, BitXor(b, c)), i) = u * Bit(BitXor(b, c), i)
      BY <1>1, AndBits
    <3>3. Bit(BitAnd(a, b), i) = u * v /\ Bit(BitAnd(a, c), i) = u * w
      BY AndBits
    <3>4. Bit(BitXor(BitAnd(a, b), BitAnd(a, c)), i)
            = Bit(BitAnd(a, b), i) + Bit(BitAnd(a, c), i) - 2 * (Bit(BitAnd(a, b), i) * Bit(BitAnd(a, c), i))
      BY <1>1, XorBits
    <3>5. u \in {0, 1} /\ v \in {0, 1} /\ w \in {0, 1}
      BY <1>2
    <3> HIDE DEF u, v, w
    <3>6. QED
      BY <3>1, <3>2, <3>3, <3>4, <3>5
  <2>2. BitAnd(a, BitXor(b, c)) \in Word /\ BitXor(BitAnd(a, b), BitAnd(a, c)) \in Word
    BY <1>1, XorBits, AndBits
  <2>3. QED
    BY <2>1, <2>2, WordsByBits
<1>5. BitAnd(0, a) = 0
  <2>1. ASSUME NEW i \in 1 .. Width PROVE Bit(BitAnd(0, a), i) = Bit(0, i)
    <3>1. Bit(BitAnd(0, a), i) = Bit(0, i) * Bit(a, i)
      BY <1>1, AndBits
    <3>2. QED
      BY <1>2, <3>1, ZeroBits
  <2>2. BitAnd(0, a) \in Word
    BY <1>1, AndBits
  <2>3. QED
    BY <1>1, <2>1, <2>2, WordsByBits
<1>6. QED
  BY <1>3, <1>4, <1>5

(* so that both kinds of words form a commutative ring.                    *)
LEMMA TimesAlgebra ==
    ASSUME NEW k \in Kinds, NEW a \in Word, NEW b \in Word, NEW c \in Word
    PROVE  /\ Times(k, a, b) = Times(k, b, a)
           /\ Times(k, a, Plus(k, b, c)) = Plus(k, Times(k, a, b), Times(k, a, c))
           /\ Times(k, 0, a) = 0
<1>1. a \in Int /\ b \in Int /\ c \in Int
  BY ZeroWord
<1>2. CASE k = "a"
  <2>1. a * b \in Int /\ a * c \in Int /\ b + c \in Int /\ a * b = b * a /\ a * (b + c) = a * b + a * c /\ 0 * a = 0
    BY <1>1
  <2>2. Times(k, a, b) = Wrap(a * b) /\ Times(k, b, a) = Wrap(b * a) /\ Times(k, 0, a) = Wrap(0 * a)
    BY <1>2 DEF Times
  <2>3. Times(k, a, Plus(k, b, c)) = Wrap(a * Wrap(b + c))
    BY <1>2 DEF Times, Plus
  <2>4. Wrap(a * Wrap(b + c)) = Wrap(a * (b + c))
    BY ONLY <1>1, <2>1, WrapProduct
  <2>5. Plus(k, Times(k, a, b), Times(k, a, c)) = Wrap(Wrap(a * b) + Wrap(a * c))
    BY <1>2 DEF Times, Plus
  <2>6. Wrap(Wrap(a * b) + Wrap(a * c)) = Wrap(a * b + a * c)
    <3>1. Wrap(a * c) \in Int
      BY <2>1, WrapType, ZeroWord
    <3>2. Wrap(Wrap(a * b) + Wrap(a * c)) = Wrap(a * b + Wrap(a * c))
      BY ONLY <2>1, <3>1, WrapSum
    <3>3. Wrap(a * b + Wrap(a * c)) = Wrap(a * b + a * c)
      BY ONLY <2>1, WrapSum
    <3>4. QED
      BY <3>2, <3>3
  <2>7. Wrap(0) = 0
    BY WrapWord, ZeroWord
  <2>8. QED
    BY <2>1, <2>2, <2>3, <2>4, <2>5, <2>6, <2>7
<1>3. CASE k # "a"
  BY <1>3, AndAlgebra DEF Plus, Times
<1>4. QED
  BY <1>2, <1>3

(* The consequences the protocols use, in either order of the operands.    *)
LEMMA RingLaws ==
    ASSUME NEW k \in Kinds
    PROVE  /\ \A a, b \in Word : /\ Plus(k, a, b) \in Word /\ Minus(k, a, b) \in Word /\ Times(k, a, b) \in Word
                                 /\ Plus(k, a, b) = Plus(k, b, a) /\ Times(k, a, b) = Times(k, b, a)
                                 /\ Plus(k, Minus(k, a, b), b) = a /\ Minus(k, Plus(k, a, b), b) = a
                                 /\ Plus(k, b, Minus(k, a, b)) = a
           /\ \A a \in Word : /\ Plus(k, 0, a) = a /\ Plus(k, a, 0) = a /\ Minus(k, a, a) = 0 /\ Minus(k, a, 0) = a
                              /\ Times(k, 0, a) = 0 /\ Times(k, a, 0) = 0
           /\ \A a, b, c \in Word : /\ Plus(k, Plus(k, a, b), c) = Plus(k, a, Plus(k, b, c))
                                    /\ Times(k, a, Plus(k, b, c)) = Plus(k, Times(k, a, b), Times(k, a, c))
                                    /\ Times(k, Plus(k, b, c), a) = Plus(k, Times(k, b, a), Times(k, c, a))
<1>1. 0 \in Word
  BY ZeroWord
<1>2. ASSUME NEW a \in Word, NEW b \in Word
      PROVE  /\ Plus(k, a, b) \in Word /\ Minus(k, a, b) \in Word /\ Times(k, a, b) \in Word
             /\ Plus(k, a, b) = Plus(k, b, a) /\ Times(k, a, b) = Times(k, b, a)
             /\ Plus(k, Minus(k, a, b), b) = a /\ Minus(k, Plus(k, a, b), b) = a
             /\ Plus(k, b, Minus(k, a, b)) = a
  <2>1. Plus(k, a, b) \in Word /\ Minus(k, a, b) \in Word /\ Times(k, a, b) \in Word
    BY OperatorTypes
  <2>2. /\ Plus(k, a, b) = Plus(k, b, a) /\ Times(k, a, b) = Times(k, b, a)
        /\ Plus(k, Minus(k, a, b), b) = a /\ Minus(k, Plus(k, a, b), b) = a
    BY PlusAlgebra, TimesAlgebra
  <2>3. Plus(k, b, Minus(k, a, b)) = Plus(k, Minus(k, a, b), b)
    BY <2>1, PlusAlgebra
  <2>4. QED
    BY <2>1, <2>2, <2>3
<1>3. ASSUME NEW a \in Word
      PROVE  /\ Plus(k, 0, a) = a /\ Plus(k, a, 0) = a /\ Minus(k, a, a) = 0 /\ Minus(k, a, 0) = a
             /\ Times(k, 0, a) = 0 /\ Times(k, a, 0) = 0
  <2>1. Plus(k, 0, a) = a /\ Plus(k, a, 0) = a
    BY <1>1, <1>2, PlusAlgebra
  <2>2. Minus(k, Plus(k, 0, a), a) = 0 /\ Minus(k, Plus(k, a, 0), 0) = a
    BY <1>1, PlusAlgebra
  <2>3. Times(k, 0, a) = 0 /\ Times(k, a, 0) = 0
    BY <1>1, TimesAlgebra
  <2>4. QED
    BY <2>1, <2>2, <2>3
<1>4. ASSUME NEW a \in Word, NEW b \in Word, NEW c \in Word
      PROVE  /\ Plus(k, Plus(k, a, b), c) = Plus(k, a, Plus(k, b, c))
             /\ Times(k, a, Plus(k, b, c)) = Plus(k, Times(k, a, b), Times(k, a, c))
             /\ Times(k, Plus(k, b, c), a) = Plus(k, Times(k, b, a), Times(k, c, a))
  <2>1. /\ Plus(k, Plus(k, a, b), c) = Plus(k, a, Plus(k, b, c))
        /\ Times(k, a, Plus(k, b, c)) = Plus(k, Times(k, a, b), Times(k, a, c))
    BY PlusAlgebra, TimesAlgebra
  <2>2. Times(k, Plus(k, b, c), a) = Times(k, a, Plus(k, b, c))
    BY <1>2
  <2>3. Times(k, a, b) = Times(k, b, a) /\ Times(k, a, c) = Times(k, c, a)
    BY <1>2
  <2>4. QED
    BY <2>1, <2>2, <2>3
<1>5. QED
  BY <1>2, <1>3, <1>4

(* Sums of two sums may be taken crosswise.                                *)
LEMMA Crosswise ==
    ASSUME NEW k \in Kinds
    PROVE  \A a, b, c, d \in Word :
              /\ Plus(k, Plus(k, a, b), Plus(k, c, d)) = Plus(k, Plus(k, a, c), Plus(k, b, d))
              /\ Plus(k, Minus(k, a, b), Minus(k, c, d)) = Minus(k, Plus(k, a, c), Plus(k, b, d))
<1>1. ASSUME NEW a \in Word, NEW b \in Word, NEW c \in Word, NEW d \in Word
      PROVE  Plus(k, Plus(k, a, b), Plus(k, c, d)) = Plus(k, Plus(k, a, c), Plus(k, b, d))
  <2> DEFINE P(u, v) == Plus(k, u, v)
  <2>1. P(a, b) \in Word /\ P(c, d) \in Word /\ P(b, P(c, d)) \in Word /\ P(b, d) \in Word /\ P(b, c) \in Word
    BY RingLaws
  <2>2. P(P(a, b), P(c, d)) = P(a, P(b, P(c, d)))
    BY <2>1, RingLaws
  <2>3. P(b, P(c, d)) = P(P(b, c), d) /\ P(b, c) = P(c, b) /\ P(P(c, b), d) = P(c, P(b, d))
    BY <2>1, RingLaws
  <2>4. P(a, P(c, P(b, d))) = P(P(a, c), P(b, d))
    BY <2>1, RingLaws
  <2>5. QED
    BY <2>2, <2>3, <2>4
<1>2. ASSUME NEW a \in Word, NEW b \in Word, NEW c \in Word, NEW d \in Word
      PROVE  Plus(k, Minus(k, a, b), Minus(k, c, d)) = Minus(k, Plus(k, a, c), Plus(k, b, d))
  <2> DEFINE u == Minus(k, a, b)
             v == Minus(k, c, d)
             s == Plus(k, b, d)
  <2>0. u \in Word /\ v \in Word /\ s \in Word /\ Plus(k, u, b) = a /\ Plus(k, v, d) = c
    BY RingLaws
  <2> HIDE DEF u, v
  <2>1. u \in Word /\ v \in Word /\ s \in Word /\ Plus(k, u, v) \in Word /\ Plus(k, u, b) = a /\ Plus(k, v, d) = c
    BY <2>0, RingLaws
  <2>2. Plus(k, Plus(k, u, v), s) = Plus(k, Plus(k, u, b), Plus(k, v, d))
    BY <1>1, <2>1
  <2> HIDE DEF s
  <2>3. Minus(k, Plus(k, Plus(k, u, v), s), s) = Plus(k, u, v)
    BY <2>1, RingLaws
  <2>4. Plus(k, u, v) = Minus(k, Plus(k, a, c), s)
    BY <2>1, <2>2, <2>3
  <2>5. QED
    BY <2>4 DEF u, v, s
<1>3. QED
  BY <1>1, <1>2

(* The sum of the shares of three and of four parties: it is additive, can *)
(* be taken from any party on, and distributes over a factor.              *)
Sum3(k, a, b, c)    == Plus(k, Plus(k, a, b), c)
Sum4(k, a, b, c, d) == Plus(k, Plus(k, Plus(k, a, b), c), d)

Trio(a, b, c)       == a \in Word /\ b \in Word /\ c \in Word
Quartet(a, b, c, d) == a \in Word /\ b \in Word /\ c \in Word /\ d \in Word

LEMMA Sum3Turn ==
    ASSUME NEW k \in Kinds, NEW a, NEW b, NEW c, Trio(a, b, c)
    PROVE  /\ Sum3(k, a, b, c) \in Word
           /\ Sum3(k, b, c, a) = Sum3(k, a, b, c) /\ Sum3(k, c, a, b) = Sum3(k, a, b, c)
           /\ Plus(k, a, Plus(k, b, c)) = Sum3(k, a, b, c)
<1>0. a \in Word /\ b \in Word /\ c \in Word
  BY DEF Trio
<1>1. ASSUME NEW u \in Word, NEW v \in Word, NEW w \in Word
      PROVE  /\ Sum3(k, u, v, w) \in Word /\ Sum3(k, v, w, u) = Sum3(k, u, v, w)
             /\ Plus(k, u, Plus(k, v, w)) = Sum3(k, u, v, w)
  <2>1. Plus(k, u, v) \in Word /\ Plus(k, v, w) \in Word
    BY RingLaws
  <2>2. Plus(k, Plus(k, v, w), u) = Plus(k, u, Plus(k, v, w))
    BY <2>1, RingLaws
  <2>3. Plus(k, u, Plus(k, v, w)) = Plus(k, Plus(k, u, v), w) /\ Plus(k, Plus(k, u, v), w) \in Word
    BY <2>1, RingLaws
  <2>4. QED
    BY <2>2, <2>3 DEF Sum3
<1>2. /\ Sum3(k, a, b, c) \in Word /\ Sum3(k, b, c, a) = Sum3(k, a, b, c)
      /\ Plus(k, a, Plus(k, b, c)) = Sum3(k, a, b, c)
  BY ONLY <1>0, <1>1
<1>3. Sum3(k, c, a, b) = Sum3(k, b, c, a)
  BY ONLY <1>0, <1>1
<1>4. QED
  BY <1>2, <1>3

LEMMA Sum3Adds ==
    ASSUME NEW k \in Kinds, NEW a, NEW b, NEW c, Trio(a, b, c), NEW d, NEW e, NEW f, Trio(d, e, f)
    PROVE  /\ Sum3(k, Plus(k, a, d), Plus(k, b, e), Plus(k, c, f)) = Plus(k, Sum3(k, a, b, c), Sum3(k, d, e, f))
           /\ Sum3(k, Minus(k, a, d), Minus(k, b, e), Minus(k, c, f)) = Minus(k, Sum3(k, a, b, c), Sum3(k, d, e, f))
<1>0. a \in Word /\ b \in Word /\ c \in Word /\ d \in Word /\ e \in Word /\ f \in Word
  BY DEF Trio
<1>1. /\ Plus(k, Plus(k, a, d), Plus(k, b, e)) = Plus(k, Plus(k, a, b), Plus(k, d, e))
      /\ Plus(k, Minus(k, a, d), Minus(k, b, e)) = Minus(k, Plus(k, a, b), Plus(k, d, e))
  BY <1>0, Crosswise
<1>2. Plus(k, a, b) \in Word /\ Plus(k, d, e) \in Word
  BY <1>0, RingLaws
<1>3. /\ Plus(k, Plus(k, Plus(k, a, b), Plus(k, d, e)), Plus(k, c, f))
           = Plus(k, Plus(k, Plus(k, a, b), c), Plus(k, Plus(k, d, e), f))
      /\ Plus(k, Minus(k, Plus(k, a, b), Plus(k, d, e)), Minus(k, c, f))
           = Minus(k, Plus(k, Plus(k, a, b), c), Plus(k, Plus(k, d, e), f))
  BY <1>0, <1>2, Crosswise
<1>4. QED
  BY <1>1, <1>3 DEF Sum3

LEMMA Sum3Times ==
    ASSUME NEW k \in Kinds, NEW a, NEW b, NEW c, Trio(a, b, c), NEW d \in Word
    PROVE  /\ Times(k, d, Sum3(k, a, b, c)) = Sum3(k, Times(k, d, a), Times(k, d, b), Times(k, d, c))
           /\ Times(k, Sum3(k, a, b, c), d) = Sum3(k, Times(k, a, d), Times(k, b, d), Times(k, c, d))
<1>0. a \in Word /\ b \in Word /\ c \in Word
  BY DEF Trio
<1>1. Plus(k, a, b) \in Word
  BY <1>0, RingLaws
<1>2. /\ Times(k, d, Plus(k, Plus(k, a, b), c)) = Plus(k, Times(k, d, Plus(k, a, b)), Times(k, d, c))
      /\ Times(k, Plus(k, Plus(k, a, b), c), d) = Plus(k, Times(k, Plus(k, a, b), d), Times(k, c, d))
  BY <1>0, <1>1, RingLaws
<1>3. /\ Times(k, d, Plus(k, a, b)) = Plus(k, Times(k, d, a), Times(k, d, b))
      /\ Times(k, Plus(k, a, b), d) = Plus(k, Times(k, a, d), Times(k, b, d))
  BY <1>0, RingLaws
<1>4. QED
  BY <1>2, <1>3 DEF Sum3

LEMMA FourIsThreeAndOne ==
    \A k, a, b, c, d : Sum4(k, a, b, c, d) = Plus(k, Sum3(k, a, b, c), d)
  BY DEF Sum4, Sum3

LEMMA Sum4Turn ==
    ASSUME NEW k \in Kinds, NEW a, NEW b, NEW c, NEW d, Quartet(a, b, c, d)
    PROVE  /\ Sum4(k, a, b, c, d) \in Word
           /\ Sum4(k, b, c, d, a) = Sum4(k, a, b, c, d) /\ Sum4(k, c, d, a, b) = Sum4(k, a, b, c, d)
           /\ Sum4(k, d, a, b, c) = Sum4(k, a, b, c, d)
           /\ Plus(k, Plus(k, a, b), Plus(k, c, d)) = Sum4(k, a, b, c, d)
<1>0. a \in Word /\ b \in Word /\ c \in Word /\ d \in Word
  BY DEF Quartet
<1>1. ASSUME NEW u \in Word, NEW v \in Word, NEW w \in Word, NEW t \in Word
      PROVE  /\ Sum4(k, u, v, w, t) \in Word
             /\ Sum4(k, v, w, t, u) = Sum4(k, u, v, w, t)
             /\ Plus(k, Plus(k, u, v), Plus(k, w, t)) = Sum4(k, u, v, w, t)
  <2>1. Trio(u, v, w) /\ Trio(v, w, t)
    BY DEF Trio
  <2>2. Sum3(k, u, v, w) \in Word /\ Sum3(k, v, w, t) \in Word /\ Plus(k, u, v) \in Word /\ Plus(k, v, w) \in Word
    BY <2>1, RingLaws, Sum3Turn
  <2>3. Plus(k, Sum3(k, v, w, t), u) = Plus(k, u, Sum3(k, v, w, t)) /\ Plus(k, Sum3(k, u, v, w), t) \in Word
    BY <2>2, RingLaws
  <2>4. Plus(k, u, Plus(k, Plus(k, v, w), t)) = Plus(k, Plus(k, u, Plus(k, v, w)), t)
    BY <2>2, RingLaws
  <2>5. Plus(k, u, Plus(k, v, w)) = Plus(k, Plus(k, u, v), w)
    BY RingLaws
  <2>6. Plus(k, u, Sum3(k, v, w, t)) = Plus(k, Sum3(k, u, v, w), t)
    BY <2>4, <2>5 DEF Sum3
  <2>7. Plus(k, Plus(k, u, v), Plus(k, w, t)) = Plus(k, Plus(k, Plus(k, u, v), w), t)
    BY <2>2, RingLaws
  <2>8. QED
    BY <2>3, <2>6, <2>7, FourIsThreeAndOne DEF Sum3
<1>2. /\ Sum4(k, a, b, c, d) \in Word /\ Sum4(k, b, c, d, a) = Sum4(k, a, b, c, d)
      /\ Plus(k, Plus(k, a, b), Plus(k, c, d)) = Sum4(k, a, b, c, d)
  BY ONLY <1>0, <1>1
<1>3. Sum4(k, c, d, a, b) = Sum4(k, b, c, d, a)
  BY ONLY <1>0, <1>1
<1>4. Sum4(k, d, a, b, c) = Sum4(k, c, d, a, b)
  BY ONLY <1>0, <1>1
<1>5. QED
  BY <1>2, <1>3, <1>4

LEMMA Sum4Adds ==
    ASSUME NEW k \in Kinds, NEW a, NEW b, NEW c, NEW d, Quartet(a, b, c, d),
           NEW e, NEW f, NEW g, NEW h, Quartet(e, f, g, h)
    PROVE  /\ Sum4(k, Plus(k, a, e), Plus(k, b, f), Plus(k, c, g), Plus(k, d, h))
                = Plus(k, Sum4(k, a, b, c, d), Sum4(k, e, f, g, h))
           /\ Sum4(k, Minus(k, a, e), Minus(k, b, f), Minus(k, c, g), Minus(k, d, h))
                = Minus(k, Sum4(k, a, b, c, d), Sum4(k, e, f, g, h))
<1>0. Trio(a, b, c) /\ Trio(e, f, g) /\ d \in Word /\ h \in Word
  BY DEF Trio, Quartet
<1>1. /\ Sum3(k, Plus(k, a, e), Plus(k, b, f), Plus(k, c, g)) = Plus(k, Sum3(k, a, b, c), Sum3(k, e, f, g))
      /\ Sum3(k, Minus(k, a, e), Minus(k, b, f), Minus(k, c, g)) = Minus(k, Sum3(k, a, b, c), Sum3(k, e, f, g))
  BY <1>0, Sum3Adds
<1>2. Sum3(k, a, b, c) \in Word /\ Sum3(k, e, f, g) \in Word
  BY <1>0, Sum3Turn
<1>3. /\ Plus(k, Plus(k, Sum3(k, a, b, c), Sum3(k, e, f, g)), Plus(k, d, h))
           = Plus(k, Plus(k, Sum3(k, a, b, c), d), Plus(k, Sum3(k, e, f, g), h))
      /\ Plus(k, Minus(k, Sum3(k, a, b, c), Sum3(k, e, f, g)), Minus(k, d, h))
           = Minus(k, Plus(k, Sum3(k, a, b, c), d), Plus(k, Sum3(k, e, f, g), h))
  BY <1>0, <1>2, Crosswise
<1>4. QED
  BY <1>1, <1>3, FourIsThreeAndOne

LEMMA Sum4Times ==
    ASSUME NEW k \in Kinds, NEW a, NEW b, NEW c, NEW d, Quartet(a, b, c, d), NEW e \in Word
    PROVE  /\ Times(k, e, Sum4(k, a, b, c, d))
                = Sum4(k, Times(k, e, a), Times(k, e, b), Times(k, e, c), Times(k, e, d))
           /\ Times(k, Sum4(k, a, b, c, d), e)
                = Sum4(k, Times(k, a, e), Times(k, b, e), Times(k, c, e), Times(k, d, e))
<1>0. Trio(a, b, c) /\ d \in Word
  BY DEF Trio, Quartet
<1>1. Sum3(k, a, b, c) \in Word
  BY <1>0, Sum3Turn
<1>2. /\ Times(k, e, Plus(k, Sum3(k, a, b, c), d)) = Plus(k, Times(k, e, Sum3(k, a, b, c)), Times(k, e, d))
      /\ Times(k, Plus(k, Sum3(k, a, b, c), d), e) = Plus(k, Times(k, Sum3(k, a, b, c), e), Times(k, d, e))
  BY <1>0, <1>1, RingLaws
<1>3. /\ Times(k, e, Sum3(k, a, b, c)) = Sum3(k, Times(k, e, a), Times(k, e, b), Times(k, e, c))
      /\ Times(k, Sum3(k, a, b, c), e) = Sum3(k, Times(k, a, e), Times(k, b, e), Times(k, c, e))
  BY <1>0, Sum3Times
<1>4. QED
  BY <1>2, <1>3, FourIsThreeAndOne

-----------------------------------------------------------------------------
(* The sums of the first words of a sequence, as Total's recursion         *)
(* computes them.                                                          *)
Sums(k, s) ==
    CHOOSE f : f = [i \in 0 .. Len(s) |-> IF i = 0 THEN 0 ELSE Plus(k, f[i - 1], s[i])]

LEMMA TotalRecursion ==
    ASSUME NEW k \in Kinds, NEW n \in Nat, NEW s, Len(s) = n, \A i \in 1 .. n : s[i] \in Word
    PROVE  /\ \A i \in 0 .. n : Sums(k, s)[i] \in Word
           /\ Sums(k, s)[0] = 0
           /\ \A i \in 1 .. n : Sums(k, s)[i] = Plus(k, Sums(k, s)[i - 1], s[i])
           /\ Total(k, s) = Sums(k, s)[n]
<1> DEFINE step == [i \in 1 .. n |-> [v \in Word |-> Plus(k, v, s[i])]]
           f == Recursor(n, Word, 0, step)
           body(g) == [i \in 0 .. Len(s) |-> IF i = 0 THEN 0 ELSE Plus(k, g[i - 1], s[i])]
<1>1. step \in [1 .. n -> [Word -> Word]]
  BY OperatorTypes
<1> HIDE DEF step
<1>2. Recurs(f, n, Word, 0, step)
  <2>1. 0 \in Word
    BY ZeroWord
  <2>2. QED
    BY <1>1, <2>1, BoundedRecursion, Zenon
<1> HIDE DEF f
<1>3. f \in [0 .. n -> Word] /\ f[0] = 0
  BY <1>2 DEF Recurs
<1>4. \A i \in 1 .. n : f[i] = Plus(k, f[i - 1], s[i])
  <2>1. \A i \in 1 .. n : f[i] = step[i][f[i - 1]]
    BY <1>2 DEF Recurs
  <2>2. \A i \in 1 .. n : f[i - 1] \in Word
    BY <1>3
  <2>3. QED
    BY <2>1, <2>2, Zenon DEF step
<1>5. f = body(f)
  <2>1. \A i \in 0 .. n : i # 0 => i \in 1 .. n
    OBVIOUS
  <2>2. \A i \in 0 .. n : f[i] = body(f)[i]
    BY <1>3, <1>4, <2>1, Zenon
  <2>3. DOMAIN body(f) = 0 .. n /\ body(f) = [i \in 0 .. n |-> body(f)[i]]
    BY Zenon
  <2>4. f = [i \in 0 .. n |-> f[i]]
    BY <1>3
  <2>5. QED
    BY <2>2, <2>3, <2>4, Zenon
<1> DEFINE g == Sums(k, s)
<1>6. g = body(g)
  BY <1>5, Zenon DEF Sums
<1>7. Total(k, s) = g[n]
  BY Zenon DEF Total, Sums
<1> HIDE DEF g
<1>8. g[0] = 0 /\ \A i \in 1 .. n : g[i] = Plus(k, g[i - 1], s[i])
  <2>1. \A i \in 0 .. n : g[i] = IF i = 0 THEN 0 ELSE Plus(k, g[i - 1], s[i])
    BY <1>6, Zenon
  <2>2. 0 \in 0 .. n /\ \A i \in 1 .. n : i \in 0 .. n /\ i # 0
    OBVIOUS
  <2>3. QED
    BY <2>1, <2>2, Zenon
<1> HIDE DEF body
<1> DEFINE S == {i \in Nat : g[i] = f[i]}
<1>9. 0 \in S /\ \A i \in 1 .. n : i - 1 \in S => i \in S
  BY <1>3, <1>4, <1>8
<1>10. \A i \in 0 .. n : g[i] \in Word
  <2> HIDE DEF S
  <2>1. \A i \in 0 .. n : i \in S
    BY <1>9, BoundedInduction
  <2>2. QED
    BY <1>3, <2>1 DEF S
<1>11. QED
  BY <1>7, <1>8, <1>10 DEF g

LEMMA TotalType ==
    ASSUME NEW k \in Kinds, NEW n \in Nat, NEW s \in [1 .. n -> Word]
    PROVE  Total(k, s) \in Word
<1>1. Len(s) = n /\ \A i \in 1 .. n : s[i] \in Word
  OBVIOUS
<1>2. n \in 0 .. n /\ Total(k, s) = Sums(k, s)[n] /\ \A i \in 0 .. n : Sums(k, s)[i] \in Word
  BY <1>1, TotalRecursion
<1>3. QED
  BY <1>2

(* The sums of up to four words that the protocols write out.              *)
LEMMA TotalOne ==
    ASSUME NEW k \in Kinds, NEW a \in Word
    PROVE  Total(k, <<a>>) = a
<1> DEFINE s == <<a>>
           f == Sums(k, s)
<1>1. Len(s) = 1 /\ s[1] = a
  OBVIOUS
<1>2. \A i \in 1 .. 1 : s[i] \in Word
  OBVIOUS
<1> HIDE DEF s
<1>3. f[0] = 0 /\ (\A i \in 1 .. 1 : f[i] = Plus(k, f[i - 1], s[i])) /\ Total(k, s) = f[1]
  <2> DEFINE n == 1
  <2>1. n \in Nat /\ Len(s) = n /\ \A i \in 1 .. n : s[i] \in Word
    BY <1>1, <1>2
  <2> HIDE DEF n
  <2>2. f[0] = 0 /\ (\A i \in 1 .. n : f[i] = Plus(k, f[i - 1], s[i])) /\ Total(k, s) = f[n]
    BY <2>1, TotalRecursion
  <2>3. QED
    BY <2>2 DEF n
<1> HIDE DEF f
<1>4. f[1] = Plus(k, f[0], a)
  BY <1>1, <1>3
<1>5. Plus(k, 0, a) = a
  BY PlusAlgebra
<1>6. QED
  BY <1>3, <1>4, <1>5 DEF s

LEMMA TotalTwo ==
    ASSUME NEW k \in Kinds, NEW a \in Word, NEW b \in Word
    PROVE  Total(k, <<a, b>>) = Plus(k, a, b)
<1> DEFINE s == <<a, b>>
           f == Sums(k, s)
<1>1. Len(s) = 2 /\ s[1] = a /\ s[2] = b
  OBVIOUS
<1>2. \A i \in 1 .. 2 : s[i] \in Word
  OBVIOUS
<1> HIDE DEF s
<1>3. f[0] = 0 /\ (\A i \in 1 .. 2 : f[i] = Plus(k, f[i - 1], s[i])) /\ Total(k, s) = f[2]
  <2> DEFINE n == 2
  <2>1. n \in Nat /\ Len(s) = n /\ \A i \in 1 .. n : s[i] \in Word
    BY <1>1, <1>2
  <2> HIDE DEF n
  <2>2. f[0] = 0 /\ (\A i \in 1 .. n : f[i] = Plus(k, f[i - 1], s[i])) /\ Total(k, s) = f[n]
    BY <2>1, TotalRecursion
  <2>3. QED
    BY <2>2 DEF n
<1> HIDE DEF f
<1>4. f[1] = Plus(k, f[0], a) /\ f[2] = Plus(k, f[1], b)
  BY <1>1, <1>3
<1>5. Plus(k, 0, a) = a
  BY PlusAlgebra
<1>6. QED
  BY <1>3, <1>4, <1>5 DEF s

LEMMA TotalThree ==
    ASSUME NEW k \in Kinds, NEW a \in Word, NEW b \in Word, NEW c \in Word
    PROVE  Total(k, <<a, b, c>>) = Plus(k, Plus(k, a, b), c)
<1> DEFINE s == <<a, b, c>>
           f == Sums(k, s)
<1>1. Len(s) = 3 /\ s[1] = a /\ s[2] = b /\ s[3] = c
  OBVIOUS
<1>2. \A i \in 1 .. 3 : s[i] \in Word
  OBVIOUS
<1> HIDE DEF s
<1>3. f[0] = 0 /\ (\A i \in 1 .. 3 : f[i] = Plus(k, f[i - 1], s[i])) /\ Total(k, s) = f[3]
  <2> DEFINE n == 3
  <2>1. n \in Nat /\ Len(s) = n /\ \A i \in 1 .. n : s[i] \in Word
    BY <1>1, <1>2
  <2> HIDE DEF n
  <2>2. f[0] = 0 /\ (\A i \in 1 .. n : f[i] = Plus(k, f[i - 1], s[i])) /\ Total(k, s) = f[n]
    BY <2>1, TotalRecursion
  <2>3. QED
    BY <2>2 DEF n
<1> HIDE DEF f
<1>4. f[1] = Plus(k, f[0], a) /\ f[2] = Plus(k, f[1], b) /\ f[3] = Plus(k, f[2], c)
  BY <1>1, <1>3
<1>5. Plus(k, 0, a) = a
  BY PlusAlgebra
<1>6. QED
  BY <1>3, <1>4, <1>5 DEF s

LEMMA TotalFour ==
    ASSUME NEW k \in Kinds, NEW a \in Word, NEW b \in Word, NEW c \in Word, NEW d \in Word
    PROVE  Total(k, <<a, b, c, d>>) = Plus(k, Plus(k, Plus(k, a, b), c), d)
<1> DEFINE s == <<a, b, c, d>>
           f == Sums(k, s)
<1>1. Len(s) = 4 /\ s[1] = a /\ s[2] = b /\ s[3] = c /\ s[4] = d
  OBVIOUS
<1>2. \A i \in 1 .. 4 : s[i] \in Word
  OBVIOUS
<1> HIDE DEF s
<1>3. f[0] = 0 /\ (\A i \in 1 .. 4 : f[i] = Plus(k, f[i - 1], s[i])) /\ Total(k, s) = f[4]
  <2> DEFINE n == 4
  <2>1. n \in Nat /\ Len(s) = n /\ \A i \in 1 .. n : s[i] \in Word
    BY <1>1, <1>2
  <2> HIDE DEF n
  <2>2. f[0] = 0 /\ (\A i \in 1 .. n : f[i] = Plus(k, f[i - 1], s[i])) /\ Total(k, s) = f[n]
    BY <2>1, TotalRecursion
  <2>3. QED
    BY <2>2 DEF n
<1> HIDE DEF f
<1>4. f[1] = Plus(k, f[0], a) /\ f[2] = Plus(k, f[1], b) /\ f[3] = Plus(k, f[2], c) /\ f[4] = Plus(k, f[3], d)
  BY <1>1, <1>3
<1>5. Plus(k, 0, a) = a
  BY PlusAlgebra
<1>6. QED
  BY <1>3, <1>4, <1>5 DEF s

-----------------------------------------------------------------------------
(***************************************************************************)
(* The generators and the shares: how often a party draws from which       *)
(* generator, that parties which draw equally often stay in step and draw  *)
(* equal values, and what it means for a value to be shared.               *)
(***************************************************************************)

-----------------------------------------------------------------------------
(* How often generator g is among the first m of a sequence of draws.      *)
Count(s, m, g) == Cardinality({j \in 1 .. m : s[j] = g})

LEMMA CountRecursion ==
    ASSUME NEW s, NEW g
    PROVE  /\ Count(s, 0, g) = 0
           /\ \A m \in Nat : Count(s, m, g) \in Nat
           /\ \A m \in Nat : Count(s, m + 1, g) = Count(s, m, g) + (IF s[m + 1] = g THEN 1 ELSE 0)
<1> DEFINE C(m) == {j \in 1 .. m : s[j] = g}
<1>1. C(0) = {}
  OBVIOUS
<1>2. \A m \in Nat : IsFiniteSet(C(m))
  <2>1. ASSUME NEW m \in Nat PROVE IsFiniteSet(C(m))
    <3>1. IsFiniteSet(1 .. m) /\ C(m) \subseteq 1 .. m
      BY FS_Interval
    <3>2. QED
      BY <3>1, FS_Subset, Zenon
  <2>2. QED
    BY <2>1
<1>3. \A m \in Nat : Cardinality(C(m)) \in Nat
  BY <1>2, FS_CardinalityType
<1>4. ASSUME NEW m \in Nat
      PROVE  Cardinality(C(m + 1)) = Cardinality(C(m)) + (IF s[m + 1] = g THEN 1 ELSE 0)
  <2>1. CASE s[m + 1] = g
    <3>1. C(m + 1) = C(m) \cup {m + 1} /\ m + 1 \notin C(m)
      BY <2>1
    <3>2. Cardinality(C(m) \cup {m + 1}) = Cardinality(C(m)) + 1
      <4> HIDE DEF C
      <4>1. IsFiniteSet(C(m)) /\ m + 1 \notin C(m)
        BY <1>2, <3>1
      <4>2. QED
        BY <4>1, FS_AddElement
    <3>3. QED
      BY <2>1, <3>1, <3>2
  <2>2. CASE s[m + 1] # g
    <3>1. C(m + 1) = C(m)
      BY <2>2
    <3>2. QED
      BY <1>3, <2>2, <3>1
  <2>3. QED
    BY <2>1, <2>2
<1>5. Cardinality(C(0)) = 0
  BY <1>1, FS_EmptySet
<1>6. QED
  BY <1>3, <1>4, <1>5 DEF Count

(* One for an equal generator, nothing for another one.                    *)
One(a, g) == IF a = g THEN 1 ELSE 0

LEMMA CountFew ==
    ASSUME NEW s, NEW g
    PROVE  /\ Count(s, 0, g) = 0
           /\ Count(s, 1, g) = One(s[1], g)
           /\ Count(s, 2, g) = One(s[1], g) + One(s[2], g)
           /\ Count(s, 3, g) = One(s[1], g) + One(s[2], g) + One(s[3], g)
           /\ Count(s, 4, g) = One(s[1], g) + One(s[2], g) + One(s[3], g) + One(s[4], g)
           /\ Count(s, 5, g) = One(s[1], g) + One(s[2], g) + One(s[3], g) + One(s[4], g) + One(s[5], g)
<1>1. \A m \in Nat : Count(s, m + 1, g) = Count(s, m, g) + One(s[m + 1], g)
  BY CountRecursion DEF One
<1>2. Count(s, 0, g) = 0
  BY CountRecursion
<1>3. \A i : One(s[i], g) \in Nat
  BY DEF One
<1>4. Count(s, 1, g) = 0 + One(s[1], g)
  BY <1>1, <1>2
<1>5. Count(s, 2, g) = Count(s, 1, g) + One(s[2], g)
  BY <1>1
<1>6. Count(s, 3, g) = Count(s, 2, g) + One(s[3], g)
  BY <1>1
<1>7. Count(s, 4, g) = Count(s, 3, g) + One(s[4], g)
  BY <1>1
<1>8. Count(s, 5, g) = Count(s, 4, g) + One(s[5], g)
  BY <1>1
<1>9. QED
  BY <1>2, <1>3, <1>4, <1>5, <1>6, <1>7, <1>8

(* A whole sequence of draws.                                              *)
LEMMA CallsCount ==
    ASSUME NEW s, NEW m \in Nat, DOMAIN s = 1 .. m, NEW g
    PROVE  Calls(s, g) = Count(s, m, g) /\ Calls(s, g) \in Nat
<1>1. Calls(s, g) = Count(s, m, g)
  BY DEF Calls, Count
<1>2. Count(s, m, g) \in Nat
  BY CountRecursion, Zenon
<1>3. QED
  BY <1>1, <1>2

-----------------------------------------------------------------------------
(* A world as honest parties leave it: every party's generators are those  *)
(* it was given, all holders of one have drawn from it equally often, and  *)
(* no check has failed.                                                    *)
Positions(n, pos) ==
    /\ DOMAIN pos = 0 .. n - 1
    /\ \A p \in 0 .. n - 1 : pos[p] \in [HeldBy(n, p) -> Nat]

InStep(n, pos) == \A h \in Holders(n) : \A p, q \in h[2] : pos[p][h[1]] = pos[q][h[1]]

Honest(n, r) ==
    /\ r = [seed |-> r.seed, pos |-> r.pos, ok |-> r.ok]
    /\ r.seed \in Nat /\ r.ok = TRUE
    /\ Positions(n, r.pos)
    /\ InStep(n, r.pos)

(* Draws in which all holders of a generator call it equally often.        *)
Run(s) == \E m \in Nat : DOMAIN s = 1 .. m
IsDraws(n, D) == DOMAIN D = 0 .. n - 1 /\ \A p \in 0 .. n - 1 : Run(D[p])
Balanced(n, D) == \A h \in Holders(n) : \A p, q \in h[2] : Calls(D[p], h[1]) = Calls(D[q], h[1])

LEMMA HoldersHold ==
    ASSUME NEW n, NEW h \in Holders(n), NEW p \in h[2], p \in 0 .. n - 1
    PROVE  h[1] \in HeldBy(n, p)
  BY DEF HeldBy

LEMMA AfterHonest ==
    ASSUME NEW n \in {2, 3, 4}, NEW r, Honest(n, r), NEW D, IsDraws(n, D), Balanced(n, D),
           \A h \in Holders(n) : h[2] \subseteq 0 .. n - 1
    PROVE  Honest(n, After(r, D)) /\ After(r, D).seed = r.seed
<1> DEFINE P == 0 .. n - 1
           new == [p \in P |-> [g \in HeldBy(n, p) |-> r.pos[p][g] + Calls(D[p], g)]]
<1>1. /\ DOMAIN r.pos = P /\ \A p \in P : r.pos[p] \in [HeldBy(n, p) -> Nat]
      /\ r = [seed |-> r.seed, pos |-> r.pos, ok |-> r.ok]
  BY DEF Honest, Positions
<1>2. [p \in DOMAIN r.pos |-> [g \in DOMAIN r.pos[p] |-> r.pos[p][g] + Calls(D[p], g)]] = new
  BY <1>1
<1>3. After(r, D) = [seed |-> r.seed, pos |-> new, ok |-> r.ok]
  <2> HIDE DEF new
  <2>1. After(r, D) = [r EXCEPT !.pos = new]
    BY <1>2 DEF After
  <2>2. QED
    BY <1>1, <2>1
<1>4. \A p \in P : \A g : Calls(D[p], g) \in Nat
  <2>1. ASSUME NEW p \in P, NEW g PROVE Calls(D[p], g) \in Nat
    <3>1. PICK m \in Nat : DOMAIN D[p] = 1 .. m
      BY DEF IsDraws, Run
    <3>2. QED
      BY <3>1, CallsCount
  <2>2. QED
    BY <2>1
<1>5. Positions(n, new)
  <2>1. ASSUME NEW p \in P PROVE new[p] \in [HeldBy(n, p) -> Nat]
    <3>1. \A g \in HeldBy(n, p) : r.pos[p][g] \in Nat /\ Calls(D[p], g) \in Nat
      BY <1>1, <1>4
    <3>2. QED
      BY <3>1
  <2>2. QED
    BY <2>1 DEF Positions
<1>6. InStep(n, new)
  <2>1. ASSUME NEW h \in Holders(n), NEW p \in h[2], NEW q \in h[2]
        PROVE  new[p][h[1]] = new[q][h[1]]
    <3>1. p \in P /\ q \in P /\ h[1] \in HeldBy(n, p) /\ h[1] \in HeldBy(n, q)
      BY HoldersHold
    <3>2. r.pos[p][h[1]] = r.pos[q][h[1]]
      BY DEF Honest, InStep
    <3>3. Calls(D[p], h[1]) = Calls(D[q], h[1])
      BY DEF Balanced
    <3>4. new[p][h[1]] = r.pos[p][h[1]] + Calls(D[p], h[1])
          /\ new[q][h[1]] = r.pos[q][h[1]] + Calls(D[q], h[1])
      BY <3>1
    <3>5. QED
      BY <3>2, <3>3, <3>4
  <2>2. QED
    BY <2>1 DEF InStep
<1> HIDE DEF new
<1>7. /\ After(r, D).seed = r.seed /\ After(r, D).pos = new /\ After(r, D).ok = r.ok
      /\ After(r, D) = [seed |-> After(r, D).seed, pos |-> After(r, D).pos, ok |-> After(r, D).ok]
  BY <1>3
<1>8. QED
  BY <1>5, <1>6, <1>7 DEF Honest

(* A check that the parties agree on leaves the world as it was.           *)
LEMMA CheckHonest ==
    ASSUME NEW n, NEW r, Honest(n, r), NEW b, b = TRUE
    PROVE  Check(r, b) = r
  BY DEF Honest, Check

-----------------------------------------------------------------------------
(* What a draw yields.                                                     *)
LEMMA StreamType == \A seed, g, n \in Nat : Stream(seed, g, n) \in Word
<1>1. ASSUME NEW u \in Nat, NEW v \in Nat PROVE Mix(u, v) \in Word
  <2>1. u * u * v + 29 * u + v \in Nat
    OBVIOUS
  <2>2. (u * u * v + 29 * u + v) \div 4 \in Nat
    BY <2>1, DivNat
  <2>3. QED
    BY <2>2, WrapType DEF Mix, Wrap
<1>2. QED
  BY <1>1 DEF Stream

(* The m-th value from now that party p obtains from generator g.          *)
Drawn(r, p, g, m) == Stream(r.seed, g, r.pos[p][g] + m)

LEMMA DrawnValues ==
    ASSUME NEW r, NEW D, NEW p \in DOMAIN D, NEW i \in DOMAIN D[p]
    PROVE  Draw(r, D).v[p][i] = Drawn(r, p, D[p][i], Count(D[p], i - 1, D[p][i]))
  BY DEF Draw, getNext, Nonce, Drawn, Count

LEMMA DrawnWorld ==
    ASSUME NEW r, NEW D
    PROVE  Draw(r, D).r = After(r, D) /\ DOMAIN Draw(r, D).v = DOMAIN D
           /\ \A p \in DOMAIN D : DOMAIN Draw(r, D).v[p] = DOMAIN D[p]
  BY DEF Draw

(* Honest parties that hold the same generator obtain the same from it.    *)
LEMMA DrawnAlike ==
    ASSUME NEW n, NEW r, Honest(n, r), NEW g, NEW H, <<g, H>> \in Holders(n),
           NEW p \in H, NEW q \in H, NEW m
    PROVE  Drawn(r, p, g, m) = Drawn(r, q, g, m)
<1>1. r.pos[p][g] = r.pos[q][g]
  BY DEF Honest, InStep
<1>2. QED
  BY <1>1 DEF Drawn

LEMMA DrawnType ==
    ASSUME NEW n, NEW r, Honest(n, r), NEW g \in Nat, NEW H, <<g, H>> \in Holders(n),
           NEW p \in H, p \in 0 .. n - 1, NEW m \in Nat
    PROVE  Drawn(r, p, g, m) \in Word
<1>1. g \in HeldBy(n, p)
  BY HoldersHold
<1>2. r.pos[p][g] \in Nat /\ r.seed \in Nat
  BY <1>1 DEF Honest, Positions
<1>3. r.pos[p][g] + m \in Nat
  BY <1>2
<1>4. QED
  BY <1>2, <1>3, StreamType DEF Drawn

-----------------------------------------------------------------------------
(* The generators of two, three and four parties and who holds them.       *)
LEMMA GroupNumbers ==
    /\ GroupPRG({0, 1}) = 19 /\ GroupPRG({0, 2}) = 21 /\ GroupPRG({1, 2}) = 22
    /\ GroupPRG({0, 1, 2}) = 23 /\ GroupPRG({1, 2, 3}) = 30 /\ GroupPRG({0, 2, 3}) = 29
    /\ GroupPRG({0, 1, 3}) = 27 /\ GroupPRG({0, 1, 2, 3}) = 31
  BY DEF GroupPRG

LEMMA Intervals == 0 .. 1 = {0, 1} /\ 0 .. 2 = {0, 1, 2} /\ 0 .. 3 = {0, 1, 2, 3}
  OBVIOUS

LEMMA Holders2 ==
    Holders(2) = {<<0, {0}>>, <<1, {1}>>, <<19, {0, 1}>>, <<60, {0, 1}>>, <<61, {0, 1}>>}
<1> DEFINE P == {0, 1}
<1>1. 0 .. 2 - 1 = P
  OBVIOUS
<1>2. {<<localPRG(p), {p}>> : p \in P} = {<<0, {0}>>, <<1, {1}>>}
  BY DEF localPRG
<1>3. Groups(2) = {}
  BY DEF Groups
<1>4. {<<GroupPRG(G), G>> : G \in {} \cup {P}} = {<<19, {0, 1}>>}
  BY GroupNumbers, Zenon
<1>5. {<<OLE(k), P>> : k \in Kinds} = {<<60, {0, 1}>>, <<61, {0, 1}>>}
  <2>1. OLE("a") = 60 /\ OLE("b") = 61 /\ Kinds = {"a", "b"}
    BY DEF OLE, Kinds
  <2>2. {<<OLE(k), P>> : k \in {"a", "b"}} = {<<OLE("a"), P>>, <<OLE("b"), P>>}
    BY Zenon
  <2>3. QED
    BY <2>1, <2>2, Zenon
<1>6. Holders(2) = {<<localPRG(p), {p}>> : p \in 0 .. 2 - 1}
                     \cup {<<GroupPRG(G), G>> : G \in Groups(2) \cup {0 .. 2 - 1}}
                     \cup {<<OLE(k), 0 .. 2 - 1>> : k \in Kinds}
  BY DEF Holders
<1>7. Holders(2) = {<<0, {0}>>, <<1, {1}>>} \cup {<<19, {0, 1}>>}
                     \cup {<<60, {0, 1}>>, <<61, {0, 1}>>}
  <2> DEFINE A == {<<localPRG(p), {p}>> : p \in P}
             B(S) == {<<GroupPRG(G), G>> : G \in S}
             C == {<<OLE(k), P>> : k \in Kinds}
  <2>1. Holders(2) = A \cup B(Groups(2) \cup {P}) \cup C
    BY <1>1, <1>6, Zenon
  <2>2. Holders(2) = A \cup B({} \cup {P}) \cup C
    BY <1>3, <2>1, Zenon
  <2> HIDE DEF A, B, C
  <2>3. QED
    BY <1>2, <1>4, <1>5, <2>2, Zenon DEF A, B, C
<1>8. QED
  BY <1>7

LEMMA Holders3 ==
    Holders(3) = {<<0, {0}>>, <<1, {1}>>, <<2, {2}>>,
                  <<19, {0, 1}>>, <<21, {0, 2}>>, <<22, {1, 2}>>, <<23, {0, 1, 2}>>,
                  <<40, {0, 1}>>, <<41, {1, 2}>>, <<42, {2, 0}>>}
<1> DEFINE P == {0, 1, 2}
<1>1. 0 .. 3 - 1 = P
  OBVIOUS
<1>2. {<<localPRG(p), {p}>> : p \in P} = {<<0, {0}>>, <<1, {1}>>, <<2, {2}>>}
  BY DEF localPRG
<1>3. Groups(3) = {{0, 1}, {0, 2}, {1, 2}}
  BY DEF Groups
<1>4. {<<GroupPRG(G), G>> : G \in {{0, 1}, {0, 2}, {1, 2}} \cup {P}} =
        {<<19, {0, 1}>>, <<21, {0, 2}>>, <<22, {1, 2}>>, <<23, {0, 1, 2}>>}
  BY GroupNumbers, Zenon
<1>5. {<<NextPRG(p), {p, (p + 1) % 3}>> : p \in P} = {<<40, {0, 1}>>, <<41, {1, 2}>>, <<42, {2, 0}>>}
  <2>1. NextPRG(0) = 40 /\ NextPRG(1) = 41 /\ NextPRG(2) = 42
        /\ (0 + 1) % 3 = 1 /\ (1 + 1) % 3 = 2 /\ (2 + 1) % 3 = 0
    BY DEF NextPRG
  <2>2. QED
    BY <2>1, Zenon
<1>6. Holders(3) = {<<localPRG(p), {p}>> : p \in 0 .. 3 - 1}
                     \cup {<<GroupPRG(G), G>> : G \in Groups(3) \cup {0 .. 3 - 1}}
                     \cup {<<NextPRG(p), {p, (p + 1) % 3}>> : p \in 0 .. 3 - 1}
  BY DEF Holders
<1>7. QED
  BY <1>1, <1>2, <1>3, <1>4, <1>5, <1>6, Zenon

LEMMA Holders4 ==
    Holders(4) = {<<0, {0}>>, <<1, {1}>>, <<2, {2}>>, <<3, {3}>>,
                  <<23, {0, 1, 2}>>, <<30, {1, 2, 3}>>, <<29, {0, 2, 3}>>, <<27, {0, 1, 3}>>,
                  <<31, {0, 1, 2, 3}>>,
                  <<50, {1, 2, 3}>>, <<51, {0, 2, 3}>>, <<52, {0, 1, 3}>>, <<53, {0, 1, 2}>>}
<1> DEFINE P == {0, 1, 2, 3}
<1>1. 0 .. 4 - 1 = P
  OBVIOUS
<1>2. {<<localPRG(p), {p}>> : p \in P} = {<<0, {0}>>, <<1, {1}>>, <<2, {2}>>, <<3, {3}>>}
  BY DEF localPRG
<1>3. Groups(4) = {{0, 1, 2}, {1, 2, 3}, {0, 2, 3}, {0, 1, 3}}
  BY DEF Groups
<1>4. {<<GroupPRG(G), G>> : G \in {{0, 1, 2}, {1, 2, 3}, {0, 2, 3}, {0, 1, 3}} \cup {P}} =
        {<<23, {0, 1, 2}>>, <<30, {1, 2, 3}>>, <<29, {0, 2, 3}>>, <<27, {0, 1, 3}>>, <<31, {0, 1, 2, 3}>>}
  BY GroupNumbers, Zenon
<1>5. {<<WithoutPRG(e), P \ {e}>> : e \in P} =
        {<<50, {1, 2, 3}>>, <<51, {0, 2, 3}>>, <<52, {0, 1, 3}>>, <<53, {0, 1, 2}>>}
  <2>1. WithoutPRG(0) = 50 /\ WithoutPRG(1) = 51 /\ WithoutPRG(2) = 52 /\ WithoutPRG(3) = 53
    BY DEF WithoutPRG
  <2>2. P \ {0} = {1, 2, 3} /\ P \ {1} = {0, 2, 3} /\ P \ {2} = {0, 1, 3} /\ P \ {3} = {0, 1, 2}
    OBVIOUS
  <2>3. {<<WithoutPRG(e), P \ {e}>> : e \in P} =
          {<<WithoutPRG(0), P \ {0}>>, <<WithoutPRG(1), P \ {1}>>,
           <<WithoutPRG(2), P \ {2}>>, <<WithoutPRG(3), P \ {3}>>}
    BY Zenon
  <2>4. QED
    BY <2>1, <2>2, <2>3, Zenon
<1>6. Holders(4) = {<<localPRG(p), {p}>> : p \in 0 .. 4 - 1}
                     \cup {<<GroupPRG(G), G>> : G \in Groups(4) \cup {0 .. 4 - 1}}
                     \cup {<<WithoutPRG(e), (0 .. 4 - 1) \ {e}>> : e \in 0 .. 4 - 1}
  BY DEF Holders
<1>7. Holders(4) =
        {<<0, {0}>>, <<1, {1}>>, <<2, {2}>>, <<3, {3}>>}
        \cup {<<23, {0, 1, 2}>>, <<30, {1, 2, 3}>>, <<29, {0, 2, 3}>>, <<27, {0, 1, 3}>>, <<31, {0, 1, 2, 3}>>}
        \cup {<<50, {1, 2, 3}>>, <<51, {0, 2, 3}>>, <<52, {0, 1, 3}>>, <<53, {0, 1, 2}>>}
  <2> DEFINE A == {<<localPRG(p), {p}>> : p \in P}
             B(S) == {<<GroupPRG(G), G>> : G \in S}
             C == {<<WithoutPRG(e), P \ {e}>> : e \in P}
  <2>1. Holders(4) = A \cup B(Groups(4) \cup {P}) \cup C
    BY <1>1, <1>6, Zenon
  <2>2. Holders(4) = A \cup B({{0, 1, 2}, {1, 2, 3}, {0, 2, 3}, {0, 1, 3}} \cup {P}) \cup C
    BY <1>3, <2>1, Zenon
  <2> HIDE DEF A, B, C
  <2>3. QED
    BY <1>2, <1>4, <1>5, <2>2, Zenon DEF A, B, C
<1>8. QED
  BY <1>7

LEMMA HoldersAreParties ==
    /\ \A h \in Holders(2) : h[1] \in Nat /\ h[2] \subseteq 0 .. 2 - 1
    /\ \A h \in Holders(3) : h[1] \in Nat /\ h[2] \subseteq 0 .. 3 - 1
    /\ \A h \in Holders(4) : h[1] \in Nat /\ h[2] \subseteq 0 .. 4 - 1
<1>1. \A h \in Holders(2) : h[1] \in Nat /\ h[2] \subseteq 0 .. 2 - 1
  BY Holders2
<1>2. \A h \in Holders(3) : h[1] \in Nat /\ h[2] \subseteq 0 .. 3 - 1
  BY Holders3
<1>3. \A h \in Holders(4) : h[1] \in Nat /\ h[2] \subseteq 0 .. 4 - 1
  BY Holders4
<1>4. QED
  BY <1>1, <1>2, <1>3

(* To stay in step it is enough to look at the generators held in common.  *)
LEMMA Balanced2 ==
    ASSUME NEW D, \A g \in {19, 60, 61} : Calls(D[0], g) = Calls(D[1], g)
    PROVE  Balanced(2, D)
<1>1. ASSUME NEW h \in Holders(2), NEW p \in h[2], NEW q \in h[2]
      PROVE  Calls(D[p], h[1]) = Calls(D[q], h[1])
  BY Holders2
<1>2. QED
  BY <1>1 DEF Balanced

LEMMA Balanced3 ==
    ASSUME NEW D,
           \A g \in {19, 40} : Calls(D[0], g) = Calls(D[1], g),
           \A g \in {21, 42} : Calls(D[0], g) = Calls(D[2], g),
           \A g \in {22, 41} : Calls(D[1], g) = Calls(D[2], g),
           Calls(D[0], 23) = Calls(D[1], 23), Calls(D[0], 23) = Calls(D[2], 23)
    PROVE  Balanced(3, D)
<1>1. ASSUME NEW h \in Holders(3), NEW p \in h[2], NEW q \in h[2]
      PROVE  Calls(D[p], h[1]) = Calls(D[q], h[1])
  BY Holders3
<1>2. QED
  BY <1>1 DEF Balanced

LEMMA Balanced4 ==
    ASSUME NEW D,
           \A g \in {30, 50} : Calls(D[1], g) = Calls(D[2], g) /\ Calls(D[1], g) = Calls(D[3], g),
           \A g \in {29, 51} : Calls(D[0], g) = Calls(D[2], g) /\ Calls(D[0], g) = Calls(D[3], g),
           \A g \in {27, 52} : Calls(D[0], g) = Calls(D[1], g) /\ Calls(D[0], g) = Calls(D[3], g),
           \A g \in {23, 53} : Calls(D[0], g) = Calls(D[1], g) /\ Calls(D[0], g) = Calls(D[2], g),
           \A p \in {1, 2, 3} : Calls(D[0], 31) = Calls(D[p], 31)
    PROVE  Balanced(4, D)
<1>1. ASSUME NEW h \in Holders(4), NEW p \in h[2], NEW q \in h[2]
      PROVE  Calls(D[p], h[1]) = Calls(D[q], h[1])
  BY Holders4
<1>2. QED
  BY <1>1 DEF Balanced

-----------------------------------------------------------------------------
(* A shared value: party p holds words, and a share that several parties   *)
(* hold is the same at all of them.                                        *)
Words(n, rep, z) == z \in [0 .. n - 1 -> [1 .. rep -> Word]]

Replicated(n, rep, z) ==
    /\ Words(n, rep, z)
    /\ \A p, q \in 0 .. n - 1 : \A i, j \in 1 .. rep : (p + i) % n = (q + j) % n => z[p][i] = z[q][j]

LEMMA Replicated2 ==
    ASSUME NEW z
    PROVE  Replicated(2, 1, z) <=> Words(2, 1, z)
<1>1. \A p, q \in 0 .. 2 - 1 : \A i, j \in 1 .. 1 : (p + i) % 2 = (q + j) % 2 => p = q /\ i = j
  OBVIOUS
<1>2. QED
  BY <1>1 DEF Replicated

LEMMA Replicated3 ==
    ASSUME NEW z
    PROVE  Replicated(3, 2, z) <=>
              /\ Words(3, 2, z)
              /\ z[0][2] = z[1][1] /\ z[1][2] = z[2][1] /\ z[2][2] = z[0][1]
<1> DEFINE Same(p, q, i, j) == (p + i) % 3 = (q + j) % 3 => z[p][i] = z[q][j]
<1>1. ASSUME z[0][2] = z[1][1], z[1][2] = z[2][1], z[2][2] = z[0][1],
             NEW p \in 0 .. 3 - 1, NEW q \in 0 .. 3 - 1, NEW i \in 1 .. 2, NEW j \in 1 .. 2
      PROVE  Same(p, q, i, j)
  <2>1. (p = 0 \/ p = 1 \/ p = 2) /\ (q = 0 \/ q = 1 \/ q = 2) /\ (i = 1 \/ i = 2) /\ (j = 1 \/ j = 2)
    OBVIOUS
  <2>2. QED
    BY <1>1, <2>1
<1>2. ASSUME Replicated(3, 2, z)
      PROVE  z[0][2] = z[1][1] /\ z[1][2] = z[2][1] /\ z[2][2] = z[0][1]
  <2>1. Same(0, 1, 2, 1) /\ Same(1, 2, 2, 1) /\ Same(2, 0, 2, 1)
    BY <1>2 DEF Replicated
  <2>2. QED
    BY <2>1
<1>3. QED
  BY <1>1, <1>2 DEF Replicated

LEMMA Replicated4 ==
    ASSUME NEW z
    PROVE  Replicated(4, 3, z) <=>
              /\ Words(4, 3, z)
              /\ z[0][1] = z[2][3] /\ z[0][1] = z[3][2] /\ z[0][2] = z[1][1] /\ z[0][2] = z[3][3]
              /\ z[0][3] = z[1][2] /\ z[0][3] = z[2][1] /\ z[1][3] = z[2][2] /\ z[1][3] = z[3][1]
<1> DEFINE Same(p, q, i, j) == (p + i) % 4 = (q + j) % 4 => z[p][i] = z[q][j]
<1>1. ASSUME z[0][1] = z[2][3], z[0][1] = z[3][2], z[0][2] = z[1][1], z[0][2] = z[3][3],
             z[0][3] = z[1][2], z[0][3] = z[2][1], z[1][3] = z[2][2], z[1][3] = z[3][1],
             NEW p \in 0 .. 4 - 1, NEW q \in 0 .. 4 - 1, NEW i \in 1 .. 3, NEW j \in 1 .. 3
      PROVE  Same(p, q, i, j)
  <2> DEFINE share(t) == IF t = 0 THEN z[1][3] ELSE z[0][t]
  <2>1. ASSUME NEW a \in 0 .. 4 - 1, NEW m \in 1 .. 3 PROVE z[a][m] = share((a + m) % 4)
    <3>1. CASE a = 0
      BY <1>1, <3>1
    <3>2. CASE a = 1
      <4>1. /\ z[1][1] = share(2) /\ z[1][2] = share(3) /\ z[1][3] = share(0)
            /\ (1 + 1) % 4 = 2 /\ (1 + 2) % 4 = 3 /\ (1 + 3) % 4 = 0
        BY <1>1
      <4> HIDE DEF share
      <4>2. m = 1 \/ m = 2 \/ m = 3
        OBVIOUS
      <4>3. QED
        BY <3>2, <4>1, <4>2, Zenon
    <3>3. CASE a = 2
      <4>1. /\ z[2][1] = share(3) /\ z[2][2] = share(0) /\ z[2][3] = share(1)
            /\ (2 + 1) % 4 = 3 /\ (2 + 2) % 4 = 0 /\ (2 + 3) % 4 = 1
        BY <1>1
      <4> HIDE DEF share
      <4>2. m = 1 \/ m = 2 \/ m = 3
        OBVIOUS
      <4>3. QED
        BY <3>3, <4>1, <4>2, Zenon
    <3>4. CASE a = 3
      BY <1>1, <3>4
    <3>5. QED
      BY <3>1, <3>2, <3>3, <3>4
  <2> HIDE DEF share
  <2>2. z[p][i] = share((p + i) % 4) /\ z[q][j] = share((q + j) % 4)
    BY <2>1
  <2>3. QED
    BY <2>2
<1>2. ASSUME Replicated(4, 3, z)
      PROVE  /\ z[0][1] = z[2][3] /\ z[0][1] = z[3][2] /\ z[0][2] = z[1][1] /\ z[0][2] = z[3][3]
             /\ z[0][3] = z[1][2] /\ z[0][3] = z[2][1] /\ z[1][3] = z[2][2] /\ z[1][3] = z[3][1]
  <2>1. /\ Same(0, 2, 1, 3) /\ Same(0, 3, 1, 2) /\ Same(0, 1, 2, 1) /\ Same(0, 3, 2, 3)
        /\ Same(0, 1, 3, 2) /\ Same(0, 2, 3, 1) /\ Same(1, 2, 3, 2) /\ Same(1, 3, 3, 1)
    BY <1>2 DEF Replicated
  <2>2. QED
    BY <2>1
<1>3. QED
  BY <1>1, <1>2 DEF Replicated

-----------------------------------------------------------------------------
(* What each party computes from its own shares is shared again.           *)
LEMMA PlusReplicated ==
    ASSUME NEW n \in Nat, NEW rep \in Nat, NEW k \in Kinds, NEW x, Replicated(n, rep, x),
           NEW y, Replicated(n, rep, y)
    PROVE  /\ Replicated(n, rep, PlusShares(k, x, y))
           /\ Replicated(n, rep, MinusShares(k, x, y))
<1> DEFINE P == 0 .. n - 1
<1>1. /\ DOMAIN x = P /\ DOMAIN y = P
      /\ \A p \in P : DOMAIN x[p] = 1 .. rep /\ DOMAIN y[p] = 1 .. rep
      /\ \A p \in P : \A i \in 1 .. rep : x[p][i] \in Word /\ y[p][i] \in Word
  BY DEF Replicated, Words
<1>2. /\ PlusShares(k, x, y) = [p \in P |-> [i \in 1 .. rep |-> Plus(k, x[p][i], y[p][i])]]
      /\ MinusShares(k, x, y) = [p \in P |-> [i \in 1 .. rep |-> Minus(k, x[p][i], y[p][i])]]
  BY <1>1 DEF PlusShares, MinusShares
<1>3. \A p \in P : \A i \in 1 .. rep : Plus(k, x[p][i], y[p][i]) \in Word /\ Minus(k, x[p][i], y[p][i]) \in Word
  BY <1>1, OperatorTypes
<1>4. \A p, q \in P : \A i, j \in 1 .. rep :
        (p + i) % n = (q + j) % n => x[p][i] = x[q][j] /\ y[p][i] = y[q][j]
  BY DEF Replicated
<1>5. QED
  BY <1>2, <1>3, <1>4 DEF Replicated, Words

LEMMA LowBitType == \A w \in Word : LowBit(w) \in Word
<1>1. ASSUME NEW w \in Word PROVE LowBit(w) \in Word
  <2>1. w \in Nat
    BY ZeroWord
  <2>2. w % 2 = 0 \/ w % 2 = 1
    BY <2>1
  <2>3. QED
    BY <2>2, ZeroWord DEF LowBit
<1>2. QED
  BY <1>1

LEMMA MaskReplicated ==
    ASSUME NEW n \in Nat, NEW rep \in Nat, NEW x, Replicated(n, rep, x)
    PROVE  Replicated(n, rep, MaskShares(x))
<1> DEFINE P == 0 .. n - 1
<1>1. /\ DOMAIN x = P
      /\ \A p \in P : DOMAIN x[p] = 1 .. rep
      /\ \A p \in P : \A i \in 1 .. rep : x[p][i] \in Word
  BY DEF Replicated, Words
<1>2. MaskShares(x) = [p \in P |-> [i \in 1 .. rep |-> LowBit(x[p][i])]]
  BY <1>1 DEF MaskShares
<1>3. \A p \in P : \A i \in 1 .. rep : LowBit(x[p][i]) \in Word
  BY <1>1, LowBitType
<1>4. \A p, q \in P : \A i, j \in 1 .. rep : (p + i) % n = (q + j) % n => x[p][i] = x[q][j]
  BY DEF Replicated
<1>5. QED
  BY <1>2, <1>3, <1>4 DEF Replicated, Words

LEMMA ZeroReplicated ==
    ASSUME NEW n \in Nat, NEW rep \in Nat
    PROVE  Replicated(n, rep, ZeroShares(n, rep))
  BY ZeroWord DEF ZeroShares, Replicated, Words

(* What an operation returns: a shared value and an honest world.          *)
Good(n, rep, res)    == Replicated(n, rep, res.z) /\ Honest(n, res.r)
GoodTwo(n, rep, res) == Replicated(n, rep, res.u) /\ Replicated(n, rep, res.v) /\ Honest(n, res.r)

LEMMA ResultFields ==
    ASSUME NEW u, NEW v, NEW r
    PROVE  /\ Result(u, r).z = u /\ Result(u, r).r = r
           /\ Two(u, v, r).u = u /\ Two(u, v, r).v = v /\ Two(u, v, r).r = r
  BY DEF Result, Two

(* The operands of a scalar product.                                       *)
Operands(n, rep, X) == \E m \in Nat : X \in [1 .. m -> {z \in [0 .. n - 1 -> [1 .. rep -> Word]] : Replicated(n, rep, z)}]

LEMMA ProdType ==
    ASSUME NEW n \in Nat, NEW rep \in Nat, NEW k \in Kinds, NEW X, Operands(n, rep, X),
           NEW Y, Operands(n, rep, Y), Len(X) = Len(Y),
           NEW p \in 0 .. n - 1, NEW i \in 1 .. rep, NEW j \in 1 .. rep
    PROVE  Prod(k, X, Y, p, i, j) \in Word
<1>1. PICK m \in Nat : X \in [1 .. m -> {z \in [0 .. n - 1 -> [1 .. rep -> Word]] : Replicated(n, rep, z)}]
  BY DEF Operands
<1>2. PICK l \in Nat : Y \in [1 .. l -> {z \in [0 .. n - 1 -> [1 .. rep -> Word]] : Replicated(n, rep, z)}]
  BY DEF Operands
<1>3. Len(X) = m /\ l = m
  <2>1. Len(X) = m /\ Len(Y) = l
    BY <1>1, <1>2
  <2>2. QED
    BY <2>1
<1>4. \A t \in 1 .. m : X[t][p][i] \in Word /\ Y[t][p][j] \in Word
  BY <1>1, <1>2, <1>3
<1> DEFINE s == [t \in 1 .. m |-> Times(k, X[t][p][i], Y[t][p][j])]
<1>5. s \in [1 .. m -> Word]
  BY <1>4, OperatorTypes
<1>6. Total(k, s) \in Word
  <2> HIDE DEF s
  <2>1. QED
    BY <1>5, TotalType
<1>7. QED
  BY <1>3, <1>6 DEF Prod

(* Two places that keep the same share.                                    *)
Meet(n, rep, p, i, q, j) ==
    /\ p \in 0 .. n - 1 /\ q \in 0 .. n - 1 /\ i \in 1 .. rep /\ j \in 1 .. rep
    /\ (p + i) % n = (q + j) % n

LEMMA SameAt ==
    \A n, rep, z, p, i, q, j : Replicated(n, rep, z) /\ Meet(n, rep, p, i, q, j) => z[p][i] = z[q][j]
<1>1. ASSUME NEW n, NEW rep, NEW z, NEW p, NEW i, NEW q, NEW j,
             Replicated(n, rep, z), Meet(n, rep, p, i, q, j)
      PROVE  z[p][i] = z[q][j]
  <2>1. \A a, b \in 0 .. n - 1 : \A c, d \in 1 .. rep : (a + c) % n = (b + d) % n => z[a][c] = z[b][d]
    BY <1>1, Zenon DEF Replicated
  <2>2. (p + i) % n = (q + j) % n => z[p][i] = z[q][j]
    BY <1>1, <2>1, Zenon DEF Meet
  <2>3. QED
    BY <1>1, <2>2, Zenon DEF Meet
<1>2. QED
  BY <1>1

(* Two parties that hold the same shares compute the same product.         *)
LEMMA ProdAlike ==
    ASSUME NEW n \in Nat, NEW rep \in Nat, NEW k, NEW X, Operands(n, rep, X),
           NEW Y, Operands(n, rep, Y), Len(X) = Len(Y),
           NEW p, NEW i, NEW j, NEW q, NEW a, NEW b,
           Meet(n, rep, p, i, q, a), Meet(n, rep, p, j, q, b)
    PROVE  Prod(k, X, Y, p, i, j) = Prod(k, X, Y, q, a, b)
<1>0. ASSUME NEW z, Replicated(n, rep, z) PROVE z[p][i] = z[q][a] /\ z[p][j] = z[q][b]
  <2>1. z[p][i] = z[q][a]
    BY <1>0, SameAt
  <2>2. z[p][j] = z[q][b]
    BY <1>0, SameAt
  <2>3. QED
    BY <2>1, <2>2
<1>1. PICK m \in Nat : X \in [1 .. m -> {z \in [0 .. n - 1 -> [1 .. rep -> Word]] : Replicated(n, rep, z)}]
  BY DEF Operands
<1>2. PICK l \in Nat : Y \in [1 .. l -> {z \in [0 .. n - 1 -> [1 .. rep -> Word]] : Replicated(n, rep, z)}]
  BY DEF Operands
<1>3. Len(X) = m /\ l = m
  <2>1. Len(X) = m /\ Len(Y) = l
    BY <1>1, <1>2
  <2>2. QED
    BY <2>1
<1>4. ASSUME NEW t \in 1 .. m PROVE X[t][p][i] = X[t][q][a] /\ Y[t][p][j] = Y[t][q][b]
  <2>1. Replicated(n, rep, X[t]) /\ Replicated(n, rep, Y[t])
    BY <1>1, <1>2, <1>3
  <2>2. QED
    BY <1>0, <2>1, Zenon
<1>5. [t \in 1 .. m |-> Times(k, X[t][p][i], Y[t][p][j])] = [t \in 1 .. m |-> Times(k, X[t][q][a], Y[t][q][b])]
  BY <1>4
<1>6. QED
  BY <1>3, <1>5, Zenon DEF Prod

LEMMA OneOperand ==
    ASSUME NEW n \in Nat, NEW rep \in Nat, NEW x, Replicated(n, rep, x), NEW y, Replicated(n, rep, y)
    PROVE  /\ Operands(n, rep, <<x>>) /\ Len(<<x>>) = 1
           /\ Operands(n, rep, <<x, y>>) /\ Len(<<x, y>>) = 2
<1> DEFINE S == {z \in [0 .. n - 1 -> [1 .. rep -> Word]] : Replicated(n, rep, z)}
<1>1. x \in S /\ y \in S
  BY DEF Replicated, Words
<1> HIDE DEF S
<1>2. <<x>> \in [1 .. 1 -> S] /\ <<x, y>> \in [1 .. 2 -> S]
  BY <1>1
<1>3. Len(<<x>>) = 1 /\ Len(<<x, y>>) = 2
  OBVIOUS
<1>4. QED
  BY <1>2, <1>3 DEF Operands, S

-----------------------------------------------------------------------------
(* The words that the local steps of the protocols compute.                *)
LEMMA SignedType == \A a \in Word : Signed(a) \in Int /\ Negative(a) \in {0, 1}
  BY ModulusType DEF Word, Signed, Negative

LEMMA ShiftType ==
    ASSUME NEW a \in Word, NEW d \in 0 .. Width
    PROVE  ShiftRight(a, d) \in Word
<1>1. Power[d] \in Nat /\ Power[d] > 0
  BY Powers
<1>2. Signed(a) \in Int
  BY SignedType
<1>3. Signed(a) \div Power[d] \in Int
  BY <1>1, <1>2, IntDivMod
<1>4. QED
  BY <1>3, WrapType DEF ShiftRight

LEMMA HalfTypes ==
    ASSUME NEW s \in Word, NEW c \in Nat, c > 0, NEW e \in Int
    PROVE  HalfQuotient(s, c) \in Word /\ HalfRemainder(s, c) \in Word
           /\ Wrap(HalfRemainder(s, c) - e) \in Word
<1>1. Signed(s) \in Int /\ Negative(s) \in Int
  BY SignedType
<1>2. \A i \in Int : i \div c \in Int
  BY IntDivMod
<1>3. Towards0(Signed(s), c) \in Int
  BY <1>1, <1>2 DEF Towards0
<1>4. Quotient(s, c) \in Int
  BY <1>3 DEF Quotient
<1>5. c * Quotient(s, c) \in Int
  BY <1>4
<1>6. Remainder(s, c) \in Int
  BY <1>1, <1>5 DEF Remainder
<1>7. Negative(s) * c \in Int
  BY <1>1
<1>8. HalfQuotient(s, c) \in Word /\ HalfRemainder(s, c) \in Word
  BY <1>1, <1>4, <1>6, <1>7, WrapType DEF HalfQuotient, HalfRemainder
<1>9. HalfRemainder(s, c) - e \in Int
  BY <1>8, ZeroWord
<1>10. QED
  BY <1>8, <1>9, WrapType

LEMMA NotTypes == \A a \in Word : BitNot(a) \in Word /\ LogicalNot(a) \in Word
  BY ZeroWord, ModulusType DEF Word, BitNot, LogicalNot

LEMMA SumType == \A a, b \in Word : Wrap(a + b) \in Word /\ Wrap(a - b) \in Word /\ Wrap(-a) \in Word
<1>1. ASSUME NEW a \in Word, NEW b \in Word PROVE a + b \in Int /\ a - b \in Int /\ -a \in Int
  BY ZeroWord
<1>2. QED
  BY <1>1, WrapType

-----------------------------------------------------------------------------
(* Draws written out.                                                      *)
LEMMA CallsFew ==
    \A g : /\ Calls(<<>>, g) = 0
           /\ \A a : Calls(<<a>>, g) = One(a, g)
           /\ \A a, b : Calls(<<a, b>>, g) = One(a, g) + One(b, g)
           /\ \A a, b, c : Calls(<<a, b, c>>, g) = One(a, g) + One(b, g) + One(c, g)
           /\ \A a, b, c, d : Calls(<<a, b, c, d>>, g) = One(a, g) + One(b, g) + One(c, g) + One(d, g)
           /\ \A a, b, c, d, e :
                 Calls(<<a, b, c, d, e>>, g) = One(a, g) + One(b, g) + One(c, g) + One(d, g) + One(e, g)
<1>0. ASSUME NEW g
      PROVE  Calls(<<>>, g) = 0
  <2>1. DOMAIN <<>> = 1 .. 0
    OBVIOUS
  <2>2. QED
    BY <2>1, CallsCount, CountFew
<1>1. ASSUME NEW g, NEW a
      PROVE  Calls(<<a>>, g) = One(a, g)
  <2> DEFINE s == <<a>>
  <2>1. DOMAIN s = 1 .. 1 /\ s[1] = a
    OBVIOUS
  <2> HIDE DEF s
  <2>2. Calls(s, g) = Count(s, 1, g)
    BY <2>1, CallsCount
  <2>3. Calls(s, g) = One(a, g)
    BY <2>1, <2>2, CountFew
  <2>4. QED
    BY <2>3 DEF s
<1>2. ASSUME NEW g, NEW a, NEW b
      PROVE  Calls(<<a, b>>, g) = One(a, g) + One(b, g)
  <2> DEFINE s == <<a, b>>
  <2>1. DOMAIN s = 1 .. 2 /\ s[1] = a /\ s[2] = b
    OBVIOUS
  <2> HIDE DEF s
  <2>2. Calls(s, g) = Count(s, 2, g)
    BY <2>1, CallsCount
  <2>3. Calls(s, g) = One(a, g) + One(b, g)
    BY <2>1, <2>2, CountFew
  <2>4. QED
    BY <2>3 DEF s
<1>3. ASSUME NEW g, NEW a, NEW b, NEW c
      PROVE  Calls(<<a, b, c>>, g) = One(a, g) + One(b, g) + One(c, g)
  <2> DEFINE s == <<a, b, c>>
  <2>1. DOMAIN s = 1 .. 3 /\ s[1] = a /\ s[2] = b /\ s[3] = c
    OBVIOUS
  <2> HIDE DEF s
  <2>2. Calls(s, g) = Count(s, 3, g)
    BY <2>1, CallsCount
  <2>3. Calls(s, g) = One(a, g) + One(b, g) + One(c, g)
    BY <2>1, <2>2, CountFew
  <2>4. QED
    BY <2>3 DEF s
<1>4. ASSUME NEW g, NEW a, NEW b, NEW c, NEW d
      PROVE  Calls(<<a, b, c, d>>, g) = One(a, g) + One(b, g) + One(c, g) + One(d, g)
  <2> DEFINE s == <<a, b, c, d>>
  <2>1. DOMAIN s = 1 .. 4 /\ s[1] = a /\ s[2] = b /\ s[3] = c /\ s[4] = d
    OBVIOUS
  <2> HIDE DEF s
  <2>2. Calls(s, g) = Count(s, 4, g)
    BY <2>1, CallsCount
  <2>3. Calls(s, g) = One(a, g) + One(b, g) + One(c, g) + One(d, g)
    BY <2>1, <2>2, CountFew
  <2>4. QED
    BY <2>3 DEF s
<1>5. ASSUME NEW g, NEW a, NEW b, NEW c, NEW d, NEW e
      PROVE  Calls(<<a, b, c, d, e>>, g) = One(a, g) + One(b, g) + One(c, g) + One(d, g) + One(e, g)
  <2> DEFINE s == <<a, b, c, d, e>>
  <2>1. DOMAIN s = 1 .. 5 /\ s[1] = a /\ s[2] = b /\ s[3] = c /\ s[4] = d /\ s[5] = e
    OBVIOUS
  <2> HIDE DEF s
  <2>2. Calls(s, g) = Count(s, 5, g)
    BY <2>1, CallsCount
  <2>3. Calls(s, g) = One(a, g) + One(b, g) + One(c, g) + One(d, g) + One(e, g)
    BY <2>1, <2>2, CountFew
  <2>4. QED
    BY <2>3 DEF s
<1>6. QED
  BY <1>0, <1>1, <1>2, <1>3, <1>4, <1>5

LEMMA Runs ==
    /\ Run(<<>>)
    /\ \A a : Run(<<a>>)
    /\ \A a, b : Run(<<a, b>>)
    /\ \A a, b, c : Run(<<a, b, c>>)
    /\ \A a, b, c, d : Run(<<a, b, c, d>>)
    /\ \A a, b, c, d, e : Run(<<a, b, c, d, e>>)
    /\ \A a : \A m \in Nat : Run([i \in 1 .. m |-> a])
<1> SUFFICES ASSUME NEW a, NEW b, NEW c, NEW d, NEW e, NEW m \in Nat
             PROVE  /\ Run(<<>>) /\ Run(<<a>>) /\ Run(<<a, b>>) /\ Run(<<a, b, c>>)
                    /\ Run(<<a, b, c, d>>) /\ Run(<<a, b, c, d, e>>) /\ Run([i \in 1 .. m |-> a])
  BY Zenon
<1>1. /\ DOMAIN <<>> = 1 .. 0 /\ DOMAIN <<a>> = 1 .. 1 /\ DOMAIN <<a, b>> = 1 .. 2
      /\ DOMAIN <<a, b, c>> = 1 .. 3 /\ DOMAIN <<a, b, c, d>> = 1 .. 4
      /\ DOMAIN <<a, b, c, d, e>> = 1 .. 5 /\ DOMAIN [i \in 1 .. m |-> a] = 1 .. m
  OBVIOUS
<1>2. \A s : \A j \in Nat : DOMAIN s = 1 .. j => Run(s)
  BY DEF Run
<1>3. 0 \in Nat /\ 1 \in Nat /\ 2 \in Nat /\ 3 \in Nat /\ 4 \in Nat /\ 5 \in Nat
  OBVIOUS
<1>4. QED
  BY <1>1, <1>2, <1>3, Zenon

LEMMA DrawHonest ==
    ASSUME NEW n \in {2, 3, 4}, NEW r, Honest(n, r), NEW D, IsDraws(n, D), Balanced(n, D)
    PROVE  Honest(n, Draw(r, D).r) /\ Honest(n, After(r, D))
<1>1. \A h \in Holders(n) : h[2] \subseteq 0 .. n - 1
  BY HoldersAreParties
<1>2. QED
  BY <1>1, AfterHonest, DrawnWorld

(* A draw from a generator that the party holds yields a word, and two     *)
(* parties that have called it equally often before obtain the same.       *)
LEMMA DrawWord ==
    ASSUME NEW n \in {2, 3, 4}, NEW r, Honest(n, r), NEW D, NEW p \in DOMAIN D, NEW i \in Nat, i - 1 \in Nat,
           i \in DOMAIN D[p], NEW g, D[p][i] = g, NEW H, <<g, H>> \in Holders(n), p \in H
    PROVE  Draw(r, D).v[p][i] \in Word
<1>1. <<g, H>>[1] = g /\ <<g, H>>[2] = H
  OBVIOUS
<1>2. g \in Nat /\ H \subseteq 0 .. n - 1
  BY <1>1, HoldersAreParties
<1>3. Count(D[p], i - 1, g) \in Nat
  BY CountRecursion
<1>4. Draw(r, D).v[p][i] = Drawn(r, p, g, Count(D[p], i - 1, g))
  BY DrawnValues
<1>5. p \in 0 .. n - 1
  BY <1>2
<1> DEFINE m == Count(D[p], i - 1, g)
<1> HIDE DEF m
<1>6. Drawn(r, p, g, m) \in Word
  BY <1>2, <1>3, <1>5, DrawnType DEF m
<1>7. QED
  BY <1>4, <1>6 DEF m

LEMMA DrawSame ==
    ASSUME NEW n, NEW r, Honest(n, r), NEW D, NEW p \in DOMAIN D, NEW i \in DOMAIN D[p],
           NEW q \in DOMAIN D, NEW j \in DOMAIN D[q], NEW g, D[p][i] = g, D[q][j] = g,
           Count(D[p], i - 1, g) = Count(D[q], j - 1, g),
           NEW H, <<g, H>> \in Holders(n), p \in H, q \in H
    PROVE  Draw(r, D).v[p][i] = Draw(r, D).v[q][j]
<1> DEFINE m == Count(D[p], i - 1, g)
<1>1. Draw(r, D).v[p][i] = Drawn(r, p, g, m)
  BY DrawnValues
<1>2. Draw(r, D).v[q][j] = Drawn(r, q, g, m)
  BY DrawnValues
<1> HIDE DEF m
<1>3. Drawn(r, p, g, m) = Drawn(r, q, g, m)
  BY DrawnAlike
<1>4. QED
  BY <1>1, <1>2, <1>3

(* The draws of one party as a sequence of words, and its completion to a  *)
(* sharing of a value: what get_shares computes.                           *)
LEMMA AppendWord ==
    ASSUME NEW m \in Nat, NEW s \in [1 .. m -> Word], NEW e \in Word
    PROVE  /\ Append(s, e) \in [1 .. m + 1 -> Word]
           /\ \A i \in 1 .. m : Append(s, e)[i] = s[i]
           /\ Append(s, e)[m + 1] = e
<1>1. s \in Seq(Word) /\ Len(s) = m
  OBVIOUS
<1>2. /\ DOMAIN Append(s, e) = 1 .. m + 1 /\ Append(s, e)[m + 1] = e
      /\ \A i \in 1 .. m : Append(s, e)[i] = s[i]
      /\ Append(s, e) \in Seq(Word)
  BY <1>1
<1>3. Append(s, e) \in [1 .. m + 1 -> Word]
  <2> DEFINE t == Append(s, e)
  <2>1. t \in Seq(Word) /\ Len(t) = m + 1
    BY <1>1
  <2> HIDE DEF t
  <2>2. t \in [1 .. m + 1 -> Word]
    BY <2>1
  <2>3. QED
    BY <2>2 DEF t
<1>4. QED
  BY <1>2, <1>3

LEMMA CompleteWords ==
    ASSUME NEW m \in Nat, NEW s \in [1 .. m -> Word], NEW k \in Kinds, NEW v \in Word
    PROVE  /\ Append(s, Minus(k, v, Total(k, s))) \in [1 .. m + 1 -> Word]
           /\ \A i \in 1 .. m : Append(s, Minus(k, v, Total(k, s)))[i] = s[i]
<1>1. Total(k, s) \in Word
  BY TotalType
<1>2. Minus(k, v, Total(k, s)) \in Word
  BY <1>1, OperatorTypes
<1>3. QED
  BY <1>2, AppendWord

\* The last share makes the sum the value.
LEMMA CompleteSums ==
    ASSUME NEW k \in Kinds, NEW v \in Word, NEW s, NEW t, t = Append(s, Minus(k, v, Total(k, s)))
    PROVE  /\ s \in [1 .. 2 -> Word] => Sum3(k, t[1], t[2], t[3]) = v
           /\ s \in [1 .. 3 -> Word] => Sum4(k, t[1], t[2], t[3], t[4]) = v
<1>0. \A a, b \in Word : Plus(k, b, Minus(k, a, b)) = a
  BY RingLaws
<1>1. ASSUME s \in [1 .. 2 -> Word] PROVE Sum3(k, t[1], t[2], t[3]) = v
  <2>1. s = <<s[1], s[2]>> /\ s[1] \in Word /\ s[2] \in Word /\ Len(s) = 2
    BY <1>1
  <2>2. Total(k, s) = Plus(k, s[1], s[2])
    BY <2>1, TotalTwo
  <2>3. Total(k, s) \in Word
    BY <2>1, <2>2, OperatorTypes
  <2> DEFINE e == Minus(k, v, Total(k, s))
  <2>4. Plus(k, Total(k, s), e) = v
    BY <1>0, <2>3
  <2>5. e \in Word /\ t = Append(s, e)
    BY <2>3, OperatorTypes
  <2> HIDE DEF e
  <2>6. t[1] = s[1] /\ t[2] = s[2] /\ t[3] = e
    <3> DEFINE m == 2
    <3>1. m \in Nat /\ s \in [1 .. m -> Word]
      BY <1>1
    <3> HIDE DEF m
    <3>2. (\A i \in 1 .. m : Append(s, e)[i] = s[i]) /\ Append(s, e)[m + 1] = e
      BY ONLY <2>5, <3>1, AppendWord
    <3>3. (\A i \in 1 .. m : t[i] = s[i]) /\ t[m + 1] = e
      BY ONLY <2>5, <3>2
    <3>4. QED
      BY ONLY <3>3 DEF m
  <2>7. QED
    BY <2>2, <2>4, <2>6 DEF Sum3
<1>2. ASSUME s \in [1 .. 3 -> Word] PROVE Sum4(k, t[1], t[2], t[3], t[4]) = v
  <2>1. s = <<s[1], s[2], s[3]>> /\ s[1] \in Word /\ s[2] \in Word /\ s[3] \in Word /\ Len(s) = 3
    BY <1>2
  <2>2. Total(k, s) = Plus(k, Plus(k, s[1], s[2]), s[3])
    BY <2>1, TotalThree
  <2>3. Total(k, s) \in Word
    BY <2>1, <2>2, OperatorTypes
  <2> DEFINE e == Minus(k, v, Total(k, s))
  <2>4. Plus(k, Total(k, s), e) = v
    BY <1>0, <2>3
  <2>5. e \in Word /\ t = Append(s, e)
    BY <2>3, OperatorTypes
  <2> HIDE DEF e
  <2>6. t[1] = s[1] /\ t[2] = s[2] /\ t[3] = s[3] /\ t[4] = e
    <3> DEFINE m == 3
    <3>1. m \in Nat /\ s \in [1 .. m -> Word]
      BY <1>2
    <3> HIDE DEF m
    <3>2. (\A i \in 1 .. m : Append(s, e)[i] = s[i]) /\ Append(s, e)[m + 1] = e
      BY ONLY <2>5, <3>1, AppendWord
    <3>3. (\A i \in 1 .. m : t[i] = s[i]) /\ t[m + 1] = e
      BY ONLY <2>5, <3>2
    <3>4. QED
      BY ONLY <3>3 DEF m
  <2>7. QED
    BY <2>2, <2>4, <2>6 DEF Sum4
<1>3. QED
  BY <1>1, <1>2

-----------------------------------------------------------------------------
(* Resharing: the members of a group obtain one sharing of zero.           *)
LEMMA GroupHolders ==
    ASSUME NEW n \in {3, 4}, NEW G \in Groups(n)
    PROVE  /\ <<GroupPRG(G), G>> \in Holders(n) /\ G \subseteq 0 .. n - 1
           /\ \A h \in Holders(n) : h[1] = GroupPRG(G) => h[2] = G
<1>1. CASE n = 3
  <2>1. G \in {{0, 1}, {0, 2}, {1, 2}}
    BY <1>1 DEF Groups
  <2>2. CASE G = {0, 1}
    <3>1. GroupPRG(G) = 19
      BY <2>2, GroupNumbers
    <3>2. QED
      BY <1>1, <2>2, <3>1, Holders3
  <2>3. CASE G = {0, 2}
    <3>1. GroupPRG(G) = 21
      BY <2>3, GroupNumbers
    <3>2. QED
      BY <1>1, <2>3, <3>1, Holders3
  <2>4. CASE G = {1, 2}
    <3>1. GroupPRG(G) = 22
      BY <2>4, GroupNumbers
    <3>2. QED
      BY <1>1, <2>4, <3>1, Holders3
  <2>5. QED
    BY <2>1, <2>2, <2>3, <2>4
<1>2. CASE n = 4
  <2>1. G \in {{0, 1, 2}, {1, 2, 3}, {0, 2, 3}, {0, 1, 3}}
    BY <1>2 DEF Groups
  <2>2. CASE G = {0, 1, 2}
    <3>1. GroupPRG(G) = 23
      BY <2>2, GroupNumbers
    <3>2. QED
      BY <1>2, <2>2, <3>1, Holders4
  <2>3. CASE G = {1, 2, 3}
    <3>1. GroupPRG(G) = 30
      BY <2>3, GroupNumbers
    <3>2. QED
      BY <1>2, <2>3, <3>1, Holders4
  <2>4. CASE G = {0, 2, 3}
    <3>1. GroupPRG(G) = 29
      BY <2>4, GroupNumbers
    <3>2. QED
      BY <1>2, <2>4, <3>1, Holders4
  <2>5. CASE G = {0, 1, 3}
    <3>1. GroupPRG(G) = 27
      BY <2>5, GroupNumbers
    <3>2. QED
      BY <1>2, <2>5, <3>1, Holders4
  <2>6. QED
    BY <2>1, <2>2, <2>3, <2>4, <2>5
<1>3. QED
  BY <1>1, <1>2

\* The n words of T sum to zero; to every share in R the share of T of the same
\* number has been added.
SumsToZero(n, k, T) ==
    /\ n = 3 => Sum3(k, T[1], T[2], T[3]) = 0
    /\ n = 4 => Sum4(k, T[1], T[2], T[3], T[4]) = 0

AddedTo(n, k, x, G, T, R) ==
    \A p \in G : \A i \in 1 .. n - 1 : R[p][i] = Plus(k, x[p][i], T[((p + i - 1) % n) + 1])

AddsZero(n, k, x, G, R) ==
    \E T \in [1 .. n -> Word] : SumsToZero(n, k, T) /\ AddedTo(n, k, x, G, T, R)

LEMMA GroupZero ==
    ASSUME NEW n \in {3, 4}, NEW k \in Kinds, NEW G \in Groups(n), NEW w, Honest(n, w)
    PROVE  /\ Honest(n, groupGetNext(n, k, G, w).r)
           /\ \E T \in [1 .. n -> Word] : SumsToZero(n, k, T) /\ \A p \in G : groupGetNext(n, k, G, w).z[p] = T
<1> DEFINE P == 0 .. n - 1
           a == GroupPRG(G)
           D == [p \in P |-> IF p \in G THEN [i \in 1 .. n - 1 |-> a] ELSE <<>>]
           v == Draw(w, D).v
           z(p) == Append(v[p], Minus(k, 0, Total(k, v[p])))
<1>1. /\ groupGetNext(n, k, G, w).r = Draw(w, D).r
      /\ \A p \in G : groupGetNext(n, k, G, w).z[p] = z(p)
  BY DEF groupGetNext
<1>2. /\ DOMAIN D = P
      /\ \A p \in P : p \in G => D[p] = [i \in 1 .. n - 1 |-> a]
      /\ \A p \in P : p \notin G => D[p] = <<>>
  OBVIOUS
<1>3. /\ <<a, G>> \in Holders(n) /\ G \subseteq P
      /\ \A h \in Holders(n) : h[1] = a => h[2] = G
  BY GroupHolders
<1>4. n - 1 \in Nat /\ n \in Nat /\ (n - 1) + 1 = n /\ n \in {2, 3, 4}
  OBVIOUS
<1> HIDE DEF D, a
<1>5. IsDraws(n, D)
  <2>1. \A p \in P : Run(D[p])
    BY <1>2, <1>4, Runs
  <2>2. QED
    BY <1>2, <2>1 DEF IsDraws
<1>6. Balanced(n, D)
  <2>1. ASSUME NEW h \in Holders(n), NEW p \in h[2], NEW q \in h[2]
        PROVE  Calls(D[p], h[1]) = Calls(D[q], h[1])
    <3>1. p \in P /\ q \in P
      BY HoldersAreParties
    <3>2. CASE h[1] = a
      BY <1>2, <1>3, <3>1, <3>2
    <3>3. ASSUME h[1] # a, NEW t \in P PROVE Calls(D[t], h[1]) = 0
      <4>1. CASE t \in G
        <5>1. {i \in DOMAIN D[t] : D[t][i] = h[1]} = {}
          BY <1>2, <3>3, <4>1
        <5>2. QED
          BY <5>1, FS_EmptySet, Zenon DEF Calls
      <4>2. CASE t \notin G
        BY <1>2, <4>2, CallsFew
      <4>3. QED
        BY <4>1, <4>2
    <3>4. QED
      BY <3>1, <3>2, <3>3
  <2>2. QED
    BY <2>1 DEF Balanced
<1>7. Honest(n, Draw(w, D).r)
  BY <1>4, <1>5, <1>6, DrawHonest
<1>8. ASSUME NEW p \in G
      PROVE  /\ v[p] = [i \in 1 .. n - 1 |-> v[p][i]]
             /\ \A i \in 1 .. n - 1 : v[p][i] \in Word
             /\ \A i \in 1 .. n - 1 : v[p][i] = Drawn(w, p, a, Count([j \in 1 .. n - 1 |-> a], i - 1, a))
  <2>1. p \in P /\ D[p] = [i \in 1 .. n - 1 |-> a] /\ p \in DOMAIN D
    BY <1>2, <1>3
  <2>2. DOMAIN v[p] = 1 .. n - 1 /\ v[p] = [i \in 1 .. n - 1 |-> v[p][i]]
    BY <2>1 DEF Draw
  <2>3. ASSUME NEW i \in 1 .. n - 1
        PROVE  v[p][i] = Drawn(w, p, a, Count([j \in 1 .. n - 1 |-> a], i - 1, a)) /\ v[p][i] \in Word
    <3>1. i \in DOMAIN D[p] /\ D[p][i] = a /\ i \in Nat /\ i - 1 \in Nat
      BY <2>1
    <3>2. v[p][i] \in Word
      BY <1>3, <1>4, <2>1, <3>1, DrawWord
    <3>3. v[p][i] = Drawn(w, p, D[p][i], Count(D[p], i - 1, D[p][i]))
      BY <2>1, <3>1, DrawnValues
    <3>4. QED
      BY <2>1, <3>1, <3>2, <3>3
  <2> HIDE DEF v
  <2>4. QED
    BY <2>2, <2>3
<1> HIDE DEF v
<1>9. ASSUME NEW p \in G, NEW q \in G PROVE v[p] = v[q]
  <2>1. \A m : Drawn(w, p, a, m) = Drawn(w, q, a, m)
    BY <1>3, DrawnAlike
  <2>2. ASSUME NEW i \in 1 .. n - 1 PROVE v[p][i] = v[q][i]
    <3> DEFINE c == Count([j \in 1 .. n - 1 |-> a], i - 1, a)
    <3>1. v[p][i] = Drawn(w, p, a, c) /\ v[q][i] = Drawn(w, q, a, c)
      BY <1>8
    <3> HIDE DEF c
    <3>2. QED
      BY <2>1, <3>1
  <2>3. v[p] = [i \in 1 .. n - 1 |-> v[p][i]] /\ v[q] = [i \in 1 .. n - 1 |-> v[q][i]]
    BY <1>8
  <2>4. QED
    BY <2>2, <2>3
<1>10. \E p : p \in G
  BY DEF Groups
<1>11. PICK p : p \in G
  BY <1>10
<1>12. v[p] \in [1 .. n - 1 -> Word] /\ 0 \in Word
  BY <1>8, <1>11, ZeroWord
<1>13. z(p) \in [1 .. (n - 1) + 1 -> Word]
  BY <1>4, <1>12, CompleteWords
<1>14. \A q \in G : z(q) = z(p)
  BY <1>9, <1>11
<1>15. SumsToZero(n, k, z(p))
  <2> DEFINE s == v[p]
             t == z(p)
  <2>1. t = Append(s, Minus(k, 0, Total(k, s)))
    OBVIOUS
  <2>2. n = 3 => s \in [1 .. 2 -> Word]
    BY <1>12
  <2>3. n = 4 => s \in [1 .. 3 -> Word]
    BY <1>12
  <2> HIDE DEF s, t
  <2>4. n = 3 => Sum3(k, t[1], t[2], t[3]) = 0
    BY ONLY k \in Kinds, <1>12, <2>1, <2>2, CompleteSums
  <2>5. n = 4 => Sum4(k, t[1], t[2], t[3], t[4]) = 0
    BY ONLY k \in Kinds, <1>12, <2>1, <2>3, CompleteSums
  <2>6. SumsToZero(n, k, t)
    BY <2>4, <2>5 DEF SumsToZero
  <2>7. QED
    BY <2>6 DEF t
<1> HIDE DEF z
<1>16. QED
  BY <1>1, <1>4, <1>7, <1>13, <1>14, <1>15

(* The members of a group hold words and agree on what they hold in common.*)
AlikeAmong(n, rep, G, z) ==
    /\ \A p \in G : z[p] \in [1 .. rep -> Word]
    /\ \A p, q \in G : \A i, j \in 1 .. rep : (p + i) % n = (q + j) % n => z[p][i] = z[q][j]

LEMMA RerandomisedAlike ==
    ASSUME NEW n \in {3, 4}, NEW k \in Kinds, NEW x, Replicated(n, n - 1, x), NEW G, G \subseteq 0 .. n - 1,
           NEW zs, NEW T \in [1 .. n -> Word], \A p \in G : zs[p] = T
    PROVE  /\ DOMAIN Rerandomised(n, k, x, G, zs) = 0 .. n - 1
           /\ AlikeAmong(n, n - 1, G, Rerandomised(n, k, x, G, zs))
           /\ AddedTo(n, k, x, G, T, Rerandomised(n, k, x, G, zs))
<1> DEFINE P == 0 .. n - 1
           R == Rerandomised(n, k, x, G, zs)
<1>1. x \in [P -> [1 .. n - 1 -> Word]]
  BY DEF Replicated, Words
<1>2. \A p \in P : Len(x[p]) = n - 1 /\ DOMAIN x[p] = 1 .. n - 1
  BY <1>1
<1>3. R = [p \in P |-> IF p \in G THEN [i \in 1 .. n - 1 |-> Plus(k, x[p][i], zs[p][Holds(n, n - 1, p)[i] + 1])]
                                  ELSE x[p]]
  BY <1>1, <1>2 DEF Rerandomised
<1>4. \A p \in P : \A i \in 1 .. n - 1 : Holds(n, n - 1, p)[i] = (p + i - 1) % n
  BY DEF Holds
<1>5. \A p \in G : \A i \in 1 .. n - 1 : R[p][i] = Plus(k, x[p][i], T[((p + i - 1) % n) + 1])
  <2>1. ASSUME NEW p \in G, NEW i \in 1 .. n - 1 PROVE R[p][i] = Plus(k, x[p][i], T[((p + i - 1) % n) + 1])
    <3>1. R[p][i] = Plus(k, x[p][i], zs[p][Holds(n, n - 1, p)[i] + 1])
      BY <1>3
    <3>2. QED
      BY <1>4, <3>1
  <2>2. QED
    BY <2>1
<1>6. \A p \in P : \A i \in 1 .. n - 1 : ((p + i - 1) % n) + 1 \in 1 .. n
  <2>1. CASE n = 3
    BY <2>1
  <2>2. CASE n = 4
    BY <2>2
  <2>3. QED
    BY <2>1, <2>2
<1>7. \A p, q \in P : \A i, j \in 1 .. n - 1 :
        (p + i) % n = (q + j) % n => (p + i - 1) % n = (q + j - 1) % n
  <2>1. CASE n = 3
    BY <2>1
  <2>2. CASE n = 4
    BY <2>2
  <2>3. QED
    BY <2>1, <2>2
<1>8. \A p \in G : R[p] = [i \in 1 .. n - 1 |-> R[p][i]] /\ \A i \in 1 .. n - 1 : R[p][i] \in Word
  <2>1. ASSUME NEW p \in G, NEW i \in 1 .. n - 1 PROVE R[p][i] \in Word
    <3>1. x[p][i] \in Word /\ T[((p + i - 1) % n) + 1] \in Word
      BY <1>1, <1>6
    <3>2. QED
      BY <1>5, <3>1, OperatorTypes
  <2>2. \A p \in G : R[p] = [i \in 1 .. n - 1 |-> R[p][i]]
    BY <1>3
  <2>3. QED
    BY <2>1, <2>2
<1>9. DOMAIN R = P
  BY <1>3
<1>10. ASSUME NEW p \in G, NEW q \in G, NEW i \in 1 .. n - 1, NEW j \in 1 .. n - 1,
              (p + i) % n = (q + j) % n
       PROVE  R[p][i] = R[q][j]
  <2>1. x[p][i] = x[q][j]
    <3>1. Meet(n, n - 1, p, i, q, j)
      BY <1>10 DEF Meet
    <3>2. QED
      BY <3>1, SameAt
  <2>2. (p + i - 1) % n = (q + j - 1) % n
    BY <1>7, <1>10
  <2> HIDE DEF R
  <2>3. QED
    BY <1>5, <2>1, <2>2
<1> HIDE DEF R
<1>11. \A p \in G : R[p] \in [1 .. n - 1 -> Word]
  BY <1>8
<1>12. AlikeAmong(n, n - 1, G, R)
  BY <1>10, <1>11 DEF AlikeAmong
<1>13. AddedTo(n, k, x, G, T, R)
  BY <1>5 DEF AddedTo
<1>14. QED
  BY <1>9, <1>12, <1>13 DEF R

-----------------------------------------------------------------------------
(* Four parties.  A value is shared when there are four words of which     *)
(* every party keeps its three.                                            *)
LEMMA FromShares4 ==
    ASSUME NEW z, NEW sh \in [0 .. 3 -> Word],
           z = [p \in 0 .. 3 |-> [i \in 1 .. 3 |-> z[p][i]]],
           \A p \in 0 .. 3 : \A i \in 1 .. 3 : z[p][i] = sh[(p + i) % 4]
    PROVE  Replicated(4, 3, z)
<1>1. \A p \in 0 .. 3 : \A i \in 1 .. 3 : (p + i) % 4 \in 0 .. 3
  OBVIOUS
<1>2. \A p \in 0 .. 3 : \A i \in 1 .. 3 : z[p][i] \in Word
  BY <1>1
<1>3. z \in [0 .. 4 - 1 -> [1 .. 3 -> Word]]
  <2>1. 0 .. 4 - 1 = 0 .. 3
    OBVIOUS
  <2>2. \A p \in 0 .. 3 : [i \in 1 .. 3 |-> z[p][i]] \in [1 .. 3 -> Word]
    BY <1>2
  <2>3. QED
    BY <2>1, <2>2
<1>4. \A p, q \in 0 .. 3 : \A i, j \in 1 .. 3 : (p + i) % 4 = (q + j) % 4 => z[p][i] = z[q][j]
  <2>1. ASSUME NEW p \in 0 .. 3, NEW q \in 0 .. 3, NEW i \in 1 .. 3, NEW j \in 1 .. 3,
               (p + i) % 4 = (q + j) % 4
        PROVE  z[p][i] = z[q][j]
    <3>1. z[p][i] = sh[(p + i) % 4] /\ z[q][j] = sh[(q + j) % 4]
      OBVIOUS
    <3>2. QED
      BY <2>1, <3>1, Zenon
  <2>2. QED
    BY <2>1
<1>5. 0 .. 4 - 1 = 0 .. 3
  OBVIOUS
<1>6. QED
  BY <1>3, <1>4, <1>5 DEF Replicated, Words

LEMMA Shared4 ==
    ASSUME NEW z, z = [p \in 0 .. 3 |-> [i \in 1 .. 3 |-> z[p][i]]],
           NEW a \in Word, NEW b \in Word, NEW c \in Word, NEW d \in Word,
           z[0][1] = a, z[0][2] = b, z[0][3] = c, z[1][1] = b, z[1][2] = c, z[1][3] = d,
           z[2][1] = c, z[2][2] = d, z[2][3] = a, z[3][1] = d, z[3][2] = a, z[3][3] = b
    PROVE  Replicated(4, 3, z)
<1>1. Words(4, 3, z)
  <2>1. 0 .. 4 - 1 = 0 .. 3
    OBVIOUS
  <2>2. \A p \in 0 .. 3 : \A i \in 1 .. 3 : z[p][i] \in Word
    <3>1. \A p \in 0 .. 3 : p = 0 \/ p = 1 \/ p = 2 \/ p = 3
      OBVIOUS
    <3>2. \A i \in 1 .. 3 : i = 1 \/ i = 2 \/ i = 3
      OBVIOUS
    <3>3. QED
      BY <3>1, <3>2
  <2>3. \A p \in 0 .. 3 : [i \in 1 .. 3 |-> z[p][i]] \in [1 .. 3 -> Word]
    BY <2>2
  <2>4. QED
    BY <2>1, <2>3 DEF Words
<1>2. QED
  BY <1>1, Replicated4

LEMMA Shares4 ==
    ASSUME NEW z, Replicated(4, 3, z)
    PROVE  /\ DOMAIN z = 0 .. 3 /\ z = [p \in 0 .. 3 |-> [i \in 1 .. 3 |-> z[p][i]]]
           /\ \A p \in 0 .. 3 : DOMAIN z[p] = 1 .. 3 /\ Len(z[p]) = 3 /\ z[p] = <<z[p][1], z[p][2], z[p][3]>>
           /\ \A p \in 0 .. 3 : z[p][1] \in Word /\ z[p][2] \in Word /\ z[p][3] \in Word
           /\ z[2][3] = z[0][1] /\ z[3][2] = z[0][1] /\ z[1][1] = z[0][2] /\ z[3][3] = z[0][2]
           /\ z[1][2] = z[0][3] /\ z[2][1] = z[0][3] /\ z[2][2] = z[1][3] /\ z[3][1] = z[1][3]
<1>0. 0 .. 4 - 1 = 0 .. 3
  OBVIOUS
<1>1. z \in [0 .. 3 -> [1 .. 3 -> Word]]
  BY <1>0, Replicated4 DEF Words
<1>2. \A p \in 0 .. 3 : z[p] = [i \in 1 .. 3 |-> z[p][i]] /\ z[p] = <<z[p][1], z[p][2], z[p][3]>>
  BY <1>1
<1>3. z = [p \in 0 .. 3 |-> [i \in 1 .. 3 |-> z[p][i]]]
  BY <1>1, <1>2
<1>4. \A p \in 0 .. 3 : DOMAIN z[p] = 1 .. 3 /\ Len(z[p]) = 3
  BY <1>1
<1>5. \A p \in 0 .. 3 : z[p][1] \in Word /\ z[p][2] \in Word /\ z[p][3] \in Word
  BY <1>1
<1>6. DOMAIN z = 0 .. 3
  BY <1>1
<1>7. QED
  BY <1>2, <1>3, <1>4, <1>5, <1>6, Replicated4

(* The generator that excludes g, as its holder p addresses it.            *)
LEMMA Get4 ==
    /\ get(4, 0, 1) = 51 /\ get(4, 0, 2) = 52 /\ get(4, 0, -1) = 53
    /\ get(4, 1, 1) = 52 /\ get(4, 1, 2) = 53 /\ get(4, 1, -1) = 50
    /\ get(4, 2, 1) = 53 /\ get(4, 2, 2) = 50 /\ get(4, 2, -1) = 51
    /\ get(4, 3, 1) = 50 /\ get(4, 3, 2) = 51 /\ get(4, 3, -1) = 52
    /\ \A p, g \in 0 .. 3 : get(4, p, g - p) = 50 + g
<1>1. \A p \in 0 .. 3 : \A j \in Int : get(4, p, j) = 50 + ((p + j) % 4)
  BY DEF get, WithoutPRG
<1>2. /\ (0 + 1) % 4 = 1 /\ (0 + 2) % 4 = 2 /\ (1 + 1) % 4 = 2 /\ (1 + 2) % 4 = 3 /\ (1 + -1) % 4 = 0
      /\ (2 + 1) % 4 = 3 /\ (2 + 2) % 4 = 0 /\ (2 + -1) % 4 = 1
      /\ (3 + 1) % 4 = 0 /\ (3 + 2) % 4 = 1 /\ (3 + -1) % 4 = 2
  OBVIOUS
<1>3. (0 + -1) % 4 = 3
  <2> DEFINE a == 0 + -1  n == 4
  <2>1. a \in Int /\ n \in Nat /\ n > 0
    OBVIOUS
  <2> HIDE DEF a, n
  <2>2. a % n \in 0 .. n - 1 /\ a \div n \in Int /\ a = n * (a \div n) + (a % n)
    BY <2>1, IntDivMod
  <2>3. \A q \in Int, m \in 0 .. 3 : -1 = 4 * q + m => m = 3
    OBVIOUS
  <2>4. n = 4 /\ a = -1
    BY DEF n, a
  <2>5. a % n = 3
    BY <2>2, <2>3, <2>4
  <2>6. QED
    BY <2>5 DEF a, n
<1>4. \A p, g \in 0 .. 3 : get(4, p, g - p) = 50 + g
  <2>1. ASSUME NEW p \in 0 .. 3, NEW g \in 0 .. 3 PROVE get(4, p, g - p) = 50 + g
    <3>1. g - p \in Int /\ p + (g - p) = g /\ g % 4 = g
      OBVIOUS
    <3>2. QED
      BY <1>1, <3>1
  <2>2. QED
    BY <2>1
<1>5. -1 \in Int /\ 1 \in Int /\ 2 \in Int /\ 0 \in 0 .. 3 /\ 1 \in 0 .. 3 /\ 2 \in 0 .. 3 /\ 3 \in 0 .. 3
  OBVIOUS
<1>6. /\ get(4, 0, 1) = 51 /\ get(4, 0, 2) = 52 /\ get(4, 0, -1) = 53
      /\ get(4, 1, 1) = 52 /\ get(4, 1, 2) = 53 /\ get(4, 1, -1) = 50
      /\ get(4, 2, 1) = 53 /\ get(4, 2, 2) = 50 /\ get(4, 2, -1) = 51
      /\ get(4, 3, 1) = 50 /\ get(4, 3, 2) = 51 /\ get(4, 3, -1) = 52
  BY <1>1, <1>2, <1>3, <1>5
<1>7. QED
  BY <1>4, <1>6

LEMMA Common4 ==
    /\ <<50, {1, 2, 3}>> \in Holders(4) /\ <<51, {0, 2, 3}>> \in Holders(4)
    /\ <<52, {0, 1, 3}>> \in Holders(4) /\ <<53, {0, 1, 2}>> \in Holders(4)
    /\ \A g \in 0 .. 3 : <<50 + g, 0 .. 3 \ {g}>> \in Holders(4)
    /\ \A p \in 0 .. 3 : <<p, {p}>> \in Holders(4)
<1>1. 0 .. 3 = {0, 1, 2, 3}
  OBVIOUS
<1>2. /\ 0 .. 3 \ {0} = {1, 2, 3} /\ 0 .. 3 \ {1} = {0, 2, 3}
      /\ 0 .. 3 \ {2} = {0, 1, 3} /\ 0 .. 3 \ {3} = {0, 1, 2}
  OBVIOUS
<1>3. /\ <<50, {1, 2, 3}>> \in Holders(4) /\ <<51, {0, 2, 3}>> \in Holders(4)
      /\ <<52, {0, 1, 3}>> \in Holders(4) /\ <<53, {0, 1, 2}>> \in Holders(4)
  BY Holders4
<1>4. <<0, {0}>> \in Holders(4) /\ <<1, {1}>> \in Holders(4) /\ <<2, {2}>> \in Holders(4) /\ <<3, {3}>> \in Holders(4)
  BY Holders4
<1>5. ASSUME NEW g \in 0 .. 3 PROVE <<50 + g, 0 .. 3 \ {g}>> \in Holders(4)
  <2>1. CASE g = 0
    BY <1>2, <1>3, <2>1
  <2>2. CASE g = 1
    BY <1>2, <1>3, <2>2
  <2>3. CASE g = 2
    BY <1>2, <1>3, <2>3
  <2>4. CASE g = 3
    BY <1>2, <1>3, <2>4
  <2>5. QED
    BY <2>1, <2>2, <2>3, <2>4
<1>6. \A p \in 0 .. 3 : <<p, {p}>> \in Holders(4)
  BY <1>1, <1>4
<1>7. QED
  BY <1>3, <1>5, <1>6

LEMMA DrawsHonest4 ==
    ASSUME NEW w, Honest(4, w), NEW D, DOMAIN D = 0 .. 3, \A p \in 0 .. 3 : Run(D[p]),
           \A g \in {30, 50} : Calls(D[1], g) = Calls(D[2], g) /\ Calls(D[1], g) = Calls(D[3], g),
           \A g \in {29, 51} : Calls(D[0], g) = Calls(D[2], g) /\ Calls(D[0], g) = Calls(D[3], g),
           \A g \in {27, 52} : Calls(D[0], g) = Calls(D[1], g) /\ Calls(D[0], g) = Calls(D[3], g),
           \A g \in {23, 53} : Calls(D[0], g) = Calls(D[1], g) /\ Calls(D[0], g) = Calls(D[2], g),
           \A p \in {1, 2, 3} : Calls(D[0], 31) = Calls(D[p], 31)
    PROVE  Honest(4, Draw(w, D).r)
<1>1. IsDraws(4, D)
  <2>1. 0 .. 4 - 1 = 0 .. 3
    OBVIOUS
  <2>2. QED
    BY <2>1 DEF IsDraws
<1>2. Balanced(4, D)
  BY Balanced4
<1>3. QED
  BY <1>1, <1>2, DrawHonest

(* One value drawn by everyone except g.                                   *)
OneWord(v, g) == \E V \in Word : \A p \in 0 .. 3 \ {g} : v[p][1] = V

LEMMA OneDraw4 ==
    ASSUME NEW w, Honest(4, w), NEW g \in 0 .. 3, NEW D,
           D = [p \in 0 .. 3 |-> IF p = g THEN <<>> ELSE <<get(4, p, g - p)>>]
    PROVE  /\ Honest(4, Draw(w, D).r)
           /\ OneWord(Draw(w, D).v, g)
<1>1. /\ DOMAIN D = 0 .. 3 /\ D[g] = <<>>
      /\ \A p \in 0 .. 3 : p # g => D[p] = <<50 + g>>
  BY Get4
<1>2. Honest(4, Draw(w, D).r)
  <2>1. \A p \in 0 .. 3 : Run(D[p])
    BY <1>1, Runs
  <2>2. \A p \in 0 .. 3 : \A a : p # g => Calls(D[p], a) = One(50 + g, a)
    BY <1>1, CallsFew
  <2>3. \A a : Calls(D[g], a) = 0
    BY <1>1, CallsFew
  <2>4. \A p \in 0 .. 3 : \A a : a # 50 + g => Calls(D[p], a) = 0
    BY <2>2, <2>3 DEF One
  <2>5. \A p \in 0 .. 3 : p # g => Calls(D[p], 50 + g) = 1
    BY <2>2 DEF One
  <2>6. \A a \in {23, 27, 29, 30, 31} : a # 50 + g
    OBVIOUS
  <2>7. \A p, q \in 0 .. 3 : \A a : (a # 50 + g \/ (p # g /\ q # g)) => Calls(D[p], a) = Calls(D[q], a)
    <3>1. ASSUME NEW p \in 0 .. 3, NEW q \in 0 .. 3, NEW a, a # 50 + g \/ (p # g /\ q # g)
          PROVE  Calls(D[p], a) = Calls(D[q], a)
      <4>1. CASE a # 50 + g
        BY ONLY <2>4, <4>1, p \in 0 .. 3, q \in 0 .. 3
      <4>2. CASE a = 50 + g
        BY ONLY <2>5, <3>1, <4>2, p \in 0 .. 3, q \in 0 .. 3
      <4>3. QED
        BY <4>1, <4>2
    <3>2. QED
      BY <3>1
  <2>8. /\ \A a \in {30, 50} : Calls(D[1], a) = Calls(D[2], a) /\ Calls(D[1], a) = Calls(D[3], a)
        /\ \A a \in {29, 51} : Calls(D[0], a) = Calls(D[2], a) /\ Calls(D[0], a) = Calls(D[3], a)
    BY <2>6, <2>7
  <2>9. /\ \A a \in {27, 52} : Calls(D[0], a) = Calls(D[1], a) /\ Calls(D[0], a) = Calls(D[3], a)
        /\ \A a \in {23, 53} : Calls(D[0], a) = Calls(D[1], a) /\ Calls(D[0], a) = Calls(D[2], a)
    BY <2>6, <2>7
  <2>10. \A p \in {1, 2, 3} : Calls(D[0], 31) = Calls(D[p], 31)
    <3>1. \A p \in 0 .. 3 : Calls(D[p], 31) = 0
      BY <2>4, <2>6
    <3>2. QED
      BY <3>1
  <2>11. DOMAIN D = 0 .. 3
    BY <1>1
  <2>12. QED
    BY ONLY Honest(4, w), <2>1, <2>8, <2>9, <2>10, <2>11, DrawsHonest4
<1>3. ASSUME NEW p \in 0 .. 3 \ {g}, NEW q \in 0 .. 3 \ {g}
      PROVE  Draw(w, D).v[p][1] \in Word /\ Draw(w, D).v[p][1] = Draw(w, D).v[q][1]
  <2>1. /\ p \in DOMAIN D /\ q \in DOMAIN D /\ 1 \in DOMAIN D[p] /\ 1 \in DOMAIN D[q]
        /\ D[p][1] = 50 + g /\ D[q][1] = 50 + g /\ 1 - 1 \in Nat /\ 1 \in Nat
    BY <1>1
  <2>2. <<50 + g, 0 .. 3 \ {g}>> \in Holders(4)
    BY Common4
  <2>3. Count(D[p], 1 - 1, 50 + g) = Count(D[q], 1 - 1, 50 + g)
    BY CountFew
  <2>4. 4 \in {2, 3, 4} /\ p \in 0 .. 3 \ {g} /\ q \in 0 .. 3 \ {g}
    OBVIOUS
  <2>5. Draw(w, D).v[p][1] \in Word
    BY <2>1, <2>2, <2>4, DrawWord
  <2>6. Draw(w, D).v[p][1] = Draw(w, D).v[q][1]
    <3> DEFINE a == 50 + g  H == 0 .. 3 \ {g}  i == 1  n == 4
    <3>1. /\ p \in DOMAIN D /\ q \in DOMAIN D /\ i \in DOMAIN D[p] /\ i \in DOMAIN D[q]
          /\ D[p][i] = a /\ D[q][i] = a /\ <<a, H>> \in Holders(n) /\ p \in H /\ q \in H
          /\ Count(D[p], i - 1, a) = Count(D[q], i - 1, a) /\ Honest(n, w)
      BY <2>1, <2>2, <2>3, <2>4
    <3> HIDE DEF a, H, i, n
    <3>2. Draw(w, D).v[p][i] = Draw(w, D).v[q][i]
      BY ONLY <3>1, DrawSame
    <3>3. QED
      BY <3>2 DEF i
  <2>7. QED
    BY <2>5, <2>6
<1>4. \E p : p \in 0 .. 3 \ {g}
  <2>1. CASE g = 0
    BY <2>1
  <2>2. CASE g # 0
    BY <2>2
  <2>3. QED
    BY <2>1, <2>2
<1>5. PICK p : p \in 0 .. 3 \ {g}
  BY <1>4
<1>6. OneWord(Draw(w, D).v, g)
  <2> DEFINE v == Draw(w, D).v
  <2>1. v[p][1] \in Word /\ \A q \in 0 .. 3 \ {g} : v[q][1] = v[p][1]
    BY <1>3, <1>5
  <2> HIDE DEF v
  <2>2. OneWord(v, g)
    BY <2>1 DEF OneWord
  <2>3. QED
    BY <2>2 DEF v
<1>7. QED
  BY <1>2, <1>6

(* One party draws from its own generator, nobody else draws.              *)
LEMMA OwnDraws4 ==
    ASSUME NEW w, Honest(4, w), NEW who \in 0 .. 3, NEW D,
           D = [p \in 0 .. 3 |-> IF p = who THEN [i \in 1 .. 3 |-> p] ELSE <<>>]
    PROVE  Honest(4, Draw(w, D).r) /\ Draw(w, D).v[who] \in [1 .. 3 -> Word]
<1> DEFINE s == Draw(w, D).v[who]
<1>1. DOMAIN D = 0 .. 3 /\ D[who] = <<who, who, who>> /\ \A p \in 0 .. 3 : p # who => D[p] = <<>>
  <2>1. [i \in 1 .. 3 |-> who] = <<who, who, who>>
    OBVIOUS
  <2>2. QED
    BY <2>1
<1>2. Honest(4, Draw(w, D).r)
  <2>1. ASSUME NEW p \in 0 .. 3, NEW g \in Nat, g > 10 PROVE Calls(D[p], g) = 0 /\ Run(D[p])
    <3>1. One(who, g) = 0
      BY <2>1 DEF One
    <3>2. Calls(<<>>, g) = 0 /\ Calls(<<who, who, who>>, g) = 0 /\ Run(<<>>) /\ Run(<<who, who, who>>)
      BY <3>1, CallsFew, Runs
    <3>3. QED
      BY <1>1, <3>2
  <2>2. \A p \in 0 .. 3 : Run(D[p])
    <3>1. 11 \in Nat /\ 11 > 10
      OBVIOUS
    <3>2. QED
      BY <2>1, <3>1
  <2>3. /\ \A g \in {30, 50} : Calls(D[1], g) = Calls(D[2], g) /\ Calls(D[1], g) = Calls(D[3], g)
        /\ \A g \in {29, 51} : Calls(D[0], g) = Calls(D[2], g) /\ Calls(D[0], g) = Calls(D[3], g)
        /\ \A g \in {27, 52} : Calls(D[0], g) = Calls(D[1], g) /\ Calls(D[0], g) = Calls(D[3], g)
        /\ \A g \in {23, 53} : Calls(D[0], g) = Calls(D[1], g) /\ Calls(D[0], g) = Calls(D[2], g)
        /\ \A p \in {1, 2, 3} : Calls(D[0], 31) = Calls(D[p], 31)
    BY <2>1
  <2>4. QED
    BY <1>1, <2>2, <2>3, DrawsHonest4
<1>3. DOMAIN s = 1 .. 3 /\ s = [i \in 1 .. 3 |-> s[i]]
  BY <1>1 DEF Draw
<1>4. ASSUME NEW i \in 1 .. 3 PROVE s[i] \in Word
  <2> DEFINE n == 4  H == {who}
  <2>1. <<who, H>> \in Holders(n) /\ who \in H /\ n \in {2, 3, 4} /\ Honest(n, w)
    BY Common4
  <2>0. D[who] = [j \in 1 .. 3 |-> who] /\ who \in DOMAIN D
    OBVIOUS
  <2>4. i \in DOMAIN D[who] /\ D[who][i] = who /\ i \in Nat /\ i - 1 \in Nat
    BY <2>0
  <2> HIDE DEF n, H
  <2>2. Draw(w, D).v[who][i] \in Word
    BY ONLY <2>0, <2>1, <2>4, DrawWord
  <2>3. QED
    BY <2>2
<1> HIDE DEF s
<1>5. s \in [1 .. 3 -> Word]
  BY <1>3, <1>4
<1>6. QED
  BY <1>2, <1>5 DEF s

(* Where the dealt shares go.                                              *)
LEMMA ModFour ==
    ASSUME NEW a \in Int, NEW b \in Int, NEW m \in Int, a = b + 4 * m
    PROVE  a % 4 = b % 4
<1> DEFINE n == 4  q == b \div n  c == b % n
<1>1. n \in Nat /\ n > 0
  OBVIOUS
<1> HIDE DEF n
<1>2. c \in 0 .. n - 1 /\ q \in Int /\ b = n * q + c
  BY <1>1, IntDivMod
<1> HIDE DEF q, c
<1>3. n = 4
  BY DEF n
<1>4. a = n * (q + m) + c /\ q + m \in Int
  BY <1>2, <1>3
<1>5. a % n = c
  BY <1>1, <1>2, <1>4, DivModUnique
<1>6. QED
  BY <1>5 DEF n, c

LEMMA DealtTo4 ==
    ASSUME NEW p \in 0 .. 3, NEW who \in 0 .. 3, NEW i \in 1 .. 3
    PROVE  /\ (p - who + i - 1) % 4 = (((p + i) % 4) + 7 - who) % 4
           /\ (p - who + i) % 4 = (((p + i) % 4) + 8 - who) % 4
<1> DEFINE c == (p + i) % 4
<1>1. c \in Int /\ (p + i = c \/ p + i = c + 4)
  OBVIOUS
<1> HIDE DEF c
<1>2. /\ p - who + i - 1 \in Int /\ p - who + i \in Int /\ c + 7 - who \in Int /\ c + 8 - who \in Int
      /\ -2 \in Int /\ -1 \in Int
  BY <1>1
<1>3. CASE p + i = c
  <2>1. p - who + i - 1 = (c + 7 - who) + 4 * (-2) /\ p - who + i = (c + 8 - who) + 4 * (-2)
    BY <1>1, <1>3
  <2>2. QED
    BY <1>2, <2>1, ModFour DEF c
<1>4. CASE p + i = c + 4
  <2>1. p - who + i - 1 = (c + 7 - who) + 4 * (-1) /\ p - who + i = (c + 8 - who) + 4 * (-1)
    BY <1>1, <1>4
  <2>2. QED
    BY <1>2, <2>1, ModFour DEF c
<1>5. QED
  BY <1>1, <1>3, <1>4

(* A member of the group keeps the value at the place of share i of p.     *)
From4(G, R, p, i, a) == \E q \in G : \E j \in 1 .. 3 : (p + i) % 4 = (q + j) % 4 /\ a = R[q][j]

(* The party outside a group gets each of its shares from a member.        *)
LEMMA ReceivedReplicated ==
    ASSUME NEW R, DOMAIN R = 0 .. 3, R = [p \in 0 .. 3 |-> R[p]], NEW e \in 0 .. 3, NEW G, G = 0 .. 3 \ {e},
           AlikeAmong(4, 3, G, R), NEW row, row = [i \in 1 .. 3 |-> row[i]],
           \A i \in 1 .. 3 : From4(G, R, e, i, row[i])
    PROVE  Replicated(4, 3, [R EXCEPT ![e] = row])
<1> DEFINE z == [R EXCEPT ![e] = row]
<1>1. /\ \A p \in G : R[p] \in [1 .. 3 -> Word]
      /\ \A p, q \in G : \A i, j \in 1 .. 3 : (p + i) % 4 = (q + j) % 4 => R[p][i] = R[q][j]
  BY DEF AlikeAmong
<1>2. z[e] = row /\ \A p \in G : z[p] = R[p]
  OBVIOUS
<1>3. z = [p \in 0 .. 3 |-> z[p]]
  OBVIOUS
<1> HIDE DEF z
<1>4. row \in [1 .. 3 -> Word]
  <2>1. ASSUME NEW i \in 1 .. 3 PROVE row[i] \in Word
    <3>1. PICK q \in G, j \in 1 .. 3 : row[i] = R[q][j]
      BY DEF From4
    <3>2. QED
      BY <1>1, <3>1
  <2>2. QED
    BY <2>1
<1>5. \A p \in 0 .. 3 : z[p] \in [1 .. 3 -> Word]
  BY <1>1, <1>2, <1>4
<1>6. z \in [0 .. 3 -> [1 .. 3 -> Word]]
  BY <1>3, <1>5
<1>7. ASSUME NEW p \in 0 .. 3, NEW i \in 1 .. 3 PROVE From4(G, R, p, i, z[p][i])
  <2>1. CASE p = e
    BY <1>2, <2>1
  <2>2. CASE p # e
    BY <1>2, <2>2 DEF From4
  <2>3. QED
    BY <2>1, <2>2
<1>8. ASSUME NEW p \in 0 .. 3, NEW q \in 0 .. 3, NEW i \in 1 .. 3, NEW j \in 1 .. 3, (p + i) % 4 = (q + j) % 4
      PROVE  z[p][i] = z[q][j]
  <2>1. PICK a \in G, b \in 1 .. 3 : (p + i) % 4 = (a + b) % 4 /\ z[p][i] = R[a][b]
    BY <1>7 DEF From4
  <2>2. PICK c \in G, d \in 1 .. 3 : (q + j) % 4 = (c + d) % 4 /\ z[q][j] = R[c][d]
    BY <1>7 DEF From4
  <2>3. (a + b) % 4 = (c + d) % 4
    BY <1>8, <2>1, <2>2, Zenon
  <2>4. R[a][b] = R[c][d]
    BY ONLY a \in G, c \in G, b \in 1 .. 3, d \in 1 .. 3, <1>1, <2>3
  <2>5. QED
    BY <2>1, <2>2, <2>4
<1>9. Replicated(4, 3, z)
  <2>1. 0 .. 4 - 1 = 0 .. 3
    OBVIOUS
  <2>2. Words(4, 3, z)
    BY <1>6, <2>1 DEF Words
  <2>3. \A p, q \in 0 .. 4 - 1 : \A i, j \in 1 .. 3 : (p + i) % 4 = (q + j) % 4 => z[p][i] = z[q][j]
    BY ONLY <1>8, <2>1
  <2>4. QED
    BY <2>2, <2>3, Zenon DEF Replicated
<1>10. QED
  BY <1>9 DEF z

(* A group of four parties leaves out one.                                 *)
LEMMA Outside4 ==
    ASSUME NEW G \in Groups(4)
    PROVE  \E e \in 0 .. 3 : G = 0 .. 3 \ {e} /\ e = (CHOOSE p \in 0 .. 3 : p \notin G)
<1>1. \E e \in 0 .. 3 : G = 0 .. 3 \ {e}
  <2>1. /\ 0 .. 3 \ {0} = {1, 2, 3} /\ 0 .. 3 \ {1} = {0, 2, 3}
        /\ 0 .. 3 \ {2} = {0, 1, 3} /\ 0 .. 3 \ {3} = {0, 1, 2}
    OBVIOUS
  <2>2. G \in {{0, 1, 2}, {1, 2, 3}, {0, 2, 3}, {0, 1, 3}}
    BY DEF Groups
  <2>3. 0 \in 0 .. 3 /\ 1 \in 0 .. 3 /\ 2 \in 0 .. 3 /\ 3 \in 0 .. 3
    OBVIOUS
  <2>4. QED
    BY <2>1, <2>2, <2>3
<1>2. PICK e \in 0 .. 3 : G = 0 .. 3 \ {e}
  BY <1>1
<1>3. \A p \in 0 .. 3 : p \notin G <=> p = e
  BY <1>2
<1>4. e = (CHOOSE p \in 0 .. 3 : p \notin G)
  BY <1>3
<1>5. QED
  BY <1>2, <1>4

(* What the members of the group compute before they pass it on.           *)
LEMMA GroupShares4 ==
    ASSUME NEW k \in Kinds, NEW u, Replicated(4, 3, u), NEW G \in Groups(4), NEW w, Honest(4, w),
           NEW zs, zs = groupGetNext(4, k, G, w), NEW R, R = Rerandomised(4, k, u, G, zs.z)
    PROVE  /\ Honest(4, zs.r) /\ DOMAIN R = 0 .. 3 /\ R = [p \in 0 .. 3 |-> R[p]]
           /\ AlikeAmong(4, 3, G, R) /\ AddsZero(4, k, u, G, R)
<1> DEFINE n == 4
<1>1. /\ n \in {3, 4} /\ n - 1 = 3 /\ Replicated(n, n - 1, u) /\ G \in Groups(n) /\ Honest(n, w)
      /\ zs = groupGetNext(n, k, G, w) /\ R = Rerandomised(n, k, u, G, zs.z)
  OBVIOUS
<1> HIDE DEF n
<1>2. G \subseteq 0 .. n - 1
  BY <1>1, GroupHolders
<1>3. /\ Honest(n, groupGetNext(n, k, G, w).r)
      /\ \E T \in [1 .. n -> Word] : SumsToZero(n, k, T) /\ \A p \in G : groupGetNext(n, k, G, w).z[p] = T
  BY ONLY k \in Kinds, <1>1, GroupZero
<1>4. PICK T \in [1 .. n -> Word] : SumsToZero(n, k, T) /\ \A p \in G : zs.z[p] = T
  BY <1>1, <1>3
<1> DEFINE t == zs.z
<1>5. (\A p \in G : t[p] = T) /\ R = Rerandomised(n, k, u, G, t)
  BY <1>1, <1>4
<1> HIDE DEF t
<1>6. /\ DOMAIN Rerandomised(n, k, u, G, t) = 0 .. n - 1
      /\ AlikeAmong(n, n - 1, G, Rerandomised(n, k, u, G, t))
      /\ AddedTo(n, k, u, G, T, Rerandomised(n, k, u, G, t))
  BY ONLY k \in Kinds, T \in [1 .. n -> Word], <1>1, <1>2, <1>5, RerandomisedAlike
<1>7. DOMAIN R = 0 .. n - 1 /\ AlikeAmong(n, n - 1, G, R) /\ AddsZero(n, k, u, G, R)
  BY <1>4, <1>5, <1>6 DEF AddsZero
<1>8. R = [p \in DOMAIN R |-> R[p]]
  <2>1. R = Rerandomised(n, k, u, G, t)
    BY <1>5
  <2>2. QED
    BY <2>1 DEF Rerandomised
<1>9. Honest(n, zs.r)
  BY <1>1, <1>3
<1>10. 0 .. n - 1 = 0 .. 3 /\ n = 4
  BY DEF n
<1>11. QED
  BY <1>1, <1>7, <1>8, <1>9, <1>10

-----------------------------------------------------------------------------
(* The value of a sharing is the sum of the first shares of all parties.   *)
LEMMA ReconstructSums ==
    ASSUME NEW k \in Kinds, NEW u
    PROVE  /\ (Replicated(2, 1, u) => Reconstruct(k, u) = Plus(k, u[0][1], u[1][1]))
           /\ (Replicated(3, 2, u) => Reconstruct(k, u) = Plus(k, Plus(k, u[0][1], u[1][1]), u[2][1]))
           /\ (Replicated(4, 3, u) =>
                 Reconstruct(k, u) = Plus(k, Plus(k, Plus(k, u[0][1], u[1][1]), u[2][1]), u[3][1]))
<1>1. ASSUME NEW n \in 1 .. 4, NEW m \in 1 .. 3, Replicated(n, m, u)
      PROVE  /\ Reconstruct(k, u) = Total(k, [i \in 1 .. n |-> u[i - 1][1]])
             /\ \A p \in 0 .. n - 1 : u[p][1] \in Word
  <2>1. DOMAIN u = 0 .. n - 1 /\ \A p \in 0 .. n - 1 : u[p][1] \in Word
    <3>1. u \in [0 .. n - 1 -> [1 .. m -> Word]] /\ 1 \in 1 .. m
      BY <1>1 DEF Replicated, Words
    <3>2. QED
      BY ONLY <3>1
  <2>2. Cardinality(0 .. n - 1) = n
    BY FS_Interval
  <2>3. QED
    BY <2>1, <2>2 DEF Reconstruct
<1>2. ASSUME Replicated(2, 1, u) PROVE Reconstruct(k, u) = Plus(k, u[0][1], u[1][1])
  <2> DEFINE a == u[0][1]  b == u[1][1]  s == [i \in 1 .. 2 |-> u[i - 1][1]]
  <2>1. Reconstruct(k, u) = Total(k, s) /\ a \in Word /\ b \in Word
    BY <1>1, <1>2
  <2>2. s = <<a, b>>
    OBVIOUS
  <2> HIDE DEF a, b, s
  <2>3. Total(k, <<a, b>>) = Plus(k, a, b)
    BY <2>1, TotalTwo
  <2>4. QED
    BY <2>1, <2>2, <2>3 DEF a, b
<1>3. ASSUME Replicated(3, 2, u) PROVE Reconstruct(k, u) = Plus(k, Plus(k, u[0][1], u[1][1]), u[2][1])
  <2> DEFINE a == u[0][1]  b == u[1][1]  c == u[2][1]  s == [i \in 1 .. 3 |-> u[i - 1][1]]
  <2>1. Reconstruct(k, u) = Total(k, s) /\ a \in Word /\ b \in Word /\ c \in Word
    BY <1>1, <1>3
  <2>2. s = <<a, b, c>>
    OBVIOUS
  <2> HIDE DEF a, b, c, s
  <2>3. Total(k, <<a, b, c>>) = Plus(k, Plus(k, a, b), c)
    BY <2>1, TotalThree
  <2>4. QED
    BY <2>1, <2>2, <2>3 DEF a, b, c
<1>4. ASSUME Replicated(4, 3, u)
      PROVE  Reconstruct(k, u) = Plus(k, Plus(k, Plus(k, u[0][1], u[1][1]), u[2][1]), u[3][1])
  <2> DEFINE a == u[0][1]  b == u[1][1]  c == u[2][1]  d == u[3][1]  s == [i \in 1 .. 4 |-> u[i - 1][1]]
  <2>1. Reconstruct(k, u) = Total(k, s) /\ a \in Word /\ b \in Word /\ c \in Word /\ d \in Word
    BY <1>1, <1>4
  <2>2. s = <<a, b, c, d>>
    OBVIOUS
  <2> HIDE DEF a, b, c, d, s
  <2>3. Total(k, <<a, b, c, d>>) = Plus(k, Plus(k, Plus(k, a, b), c), d)
    BY <2>1, TotalFour
  <2>4. QED
    BY <2>1, <2>2, <2>3 DEF a, b, c, d
<1>5. QED
  BY <1>2, <1>3, <1>4

(* Sums do not depend on where one starts.                                 *)
LEMMA TurnThree ==
    ASSUME NEW k \in Kinds, NEW a \in Word, NEW b \in Word, NEW c \in Word
    PROVE  Plus(k, Plus(k, b, c), a) = Plus(k, Plus(k, a, b), c)
<1>1. Plus(k, b, c) \in Word
  BY OperatorTypes
<1>2. Plus(k, Plus(k, b, c), a) = Plus(k, a, Plus(k, b, c))
  BY <1>1, PlusAlgebra
<1>3. Plus(k, Plus(k, a, b), c) = Plus(k, a, Plus(k, b, c))
  BY PlusAlgebra
<1>4. QED
  BY <1>2, <1>3

LEMMA TurnFour ==
    ASSUME NEW k \in Kinds, NEW a \in Word, NEW b \in Word, NEW c \in Word, NEW d \in Word
    PROVE  Plus(k, Plus(k, Plus(k, b, c), d), a) = Plus(k, Plus(k, Plus(k, a, b), c), d)
<1> DEFINE e == Plus(k, b, c)
<1>1. e \in Word
  BY OperatorTypes
<1>2. Plus(k, Plus(k, a, b), c) = Plus(k, a, e)
  BY PlusAlgebra
<1> HIDE DEF e
<1>3. Plus(k, Plus(k, e, d), a) = Plus(k, Plus(k, a, e), d)
  BY <1>1, TurnThree
<1>4. QED
  BY <1>2, <1>3 DEF e

LEMMA Values ==
    ASSUME NEW k \in Kinds, NEW u
    PROVE  /\ Replicated(2, 1, u) =>
                 u[0][1] \in Word /\ u[1][1] \in Word /\ Reconstruct(k, u) = Plus(k, u[0][1], u[1][1])
           /\ Replicated(3, 2, u) => /\ Trio(u[0][1], u[1][1], u[2][1])
                                     /\ Reconstruct(k, u) = Sum3(k, u[0][1], u[1][1], u[2][1])
           /\ Replicated(4, 3, u) => /\ Quartet(u[0][1], u[1][1], u[2][1], u[3][1])
                                     /\ Reconstruct(k, u) = Sum4(k, u[0][1], u[1][1], u[2][1], u[3][1])
<1>1. ASSUME NEW n \in 1 .. 4, NEW m \in 1 .. 3, Replicated(n, m, u)
      PROVE  \A p \in 0 .. n - 1 : u[p][1] \in Word
  <2>1. u \in [0 .. n - 1 -> [1 .. m -> Word]] /\ 1 \in 1 .. m
    BY <1>1 DEF Replicated, Words
  <2>2. QED
    BY ONLY <2>1
<1>2. Replicated(2, 1, u) => u[0][1] \in Word /\ u[1][1] \in Word
  BY <1>1
<1>3. Replicated(3, 2, u) => Trio(u[0][1], u[1][1], u[2][1])
  BY <1>1 DEF Trio
<1>4. Replicated(4, 3, u) => Quartet(u[0][1], u[1][1], u[2][1], u[3][1])
  BY <1>1 DEF Quartet
<1>5. QED
  BY <1>2, <1>3, <1>4, ReconstructSums DEF Sum3, Sum4

Size(n) == n = 2 \/ n = 3 \/ n = 4

LEMMA ValueType ==
    ASSUME NEW k \in Kinds, NEW n, Size(n), NEW u, Replicated(n, n - 1, u)
    PROVE  Reconstruct(k, u) \in Word
<1>1. CASE n = 2
  <2>1. u[0][1] \in Word /\ u[1][1] \in Word /\ Reconstruct(k, u) = Plus(k, u[0][1], u[1][1])
    BY <1>1, Values
  <2>2. QED
    BY <2>1, OperatorTypes
<1>2. CASE n = 3
  BY <1>2, Values, Sum3Turn
<1>3. CASE n = 4
  BY <1>3, Values, Sum4Turn
<1>4. QED
  BY <1>1, <1>2, <1>3 DEF Size

(* Adding and subtracting share by share adds and subtracts the values.    *)
LEMMA AddedValues ==
    ASSUME NEW k \in Kinds, NEW n, Size(n), NEW u, Replicated(n, n - 1, u), NEW v, Replicated(n, n - 1, v)
    PROVE  /\ Reconstruct(k, PlusShares(k, u, v)) = Plus(k, Reconstruct(k, u), Reconstruct(k, v))
           /\ Reconstruct(k, MinusShares(k, u, v)) = Minus(k, Reconstruct(k, u), Reconstruct(k, v))
<1> DEFINE s == PlusShares(k, u, v)
           d == MinusShares(k, u, v)
<1>0. n \in Nat /\ n - 1 \in Nat /\ 1 \in 1 .. n - 1
  BY DEF Size
<1>1. Replicated(n, n - 1, s) /\ Replicated(n, n - 1, d)
  BY ONLY <1>0, PlusReplicated, Replicated(n, n - 1, u), Replicated(n, n - 1, v), k \in Kinds
<1>2. \A p \in 0 .. n - 1 : s[p][1] = Plus(k, u[p][1], v[p][1]) /\ d[p][1] = Minus(k, u[p][1], v[p][1])
  <2>1. DOMAIN u = 0 .. n - 1 /\ \A p \in 0 .. n - 1 : DOMAIN u[p] = 1 .. n - 1
    BY DEF Replicated, Words
  <2>2. QED
    BY <1>0, <2>1 DEF PlusShares, MinusShares
<1> HIDE DEF s, d
<1>3. CASE n = 2
  <2>1. s[0][1] = Plus(k, u[0][1], v[0][1]) /\ s[1][1] = Plus(k, u[1][1], v[1][1])
        /\ d[0][1] = Minus(k, u[0][1], v[0][1]) /\ d[1][1] = Minus(k, u[1][1], v[1][1])
    BY <1>2, <1>3
  <2>2. /\ Reconstruct(k, s) = Plus(k, s[0][1], s[1][1]) /\ Reconstruct(k, d) = Plus(k, d[0][1], d[1][1])
        /\ Reconstruct(k, u) = Plus(k, u[0][1], u[1][1]) /\ Reconstruct(k, v) = Plus(k, v[0][1], v[1][1])
        /\ u[0][1] \in Word /\ u[1][1] \in Word /\ v[0][1] \in Word /\ v[1][1] \in Word
    BY <1>1, <1>3, Values
  <2>3. QED
    BY <2>1, <2>2, Crosswise DEF s, d
<1>4. CASE n = 3
  <2>1. /\ s[0][1] = Plus(k, u[0][1], v[0][1]) /\ s[1][1] = Plus(k, u[1][1], v[1][1])
        /\ s[2][1] = Plus(k, u[2][1], v[2][1])
        /\ d[0][1] = Minus(k, u[0][1], v[0][1]) /\ d[1][1] = Minus(k, u[1][1], v[1][1])
        /\ d[2][1] = Minus(k, u[2][1], v[2][1])
    BY <1>2, <1>4
  <2>2. /\ Reconstruct(k, s) = Sum3(k, s[0][1], s[1][1], s[2][1])
        /\ Reconstruct(k, d) = Sum3(k, d[0][1], d[1][1], d[2][1])
        /\ Reconstruct(k, u) = Sum3(k, u[0][1], u[1][1], u[2][1])
        /\ Reconstruct(k, v) = Sum3(k, v[0][1], v[1][1], v[2][1])
        /\ Trio(u[0][1], u[1][1], u[2][1]) /\ Trio(v[0][1], v[1][1], v[2][1])
    BY <1>1, <1>4, Values
  <2>3. QED
    BY <2>1, <2>2, Sum3Adds DEF s, d
<1>5. CASE n = 4
  <2>1. /\ s[0][1] = Plus(k, u[0][1], v[0][1]) /\ s[1][1] = Plus(k, u[1][1], v[1][1])
        /\ s[2][1] = Plus(k, u[2][1], v[2][1]) /\ s[3][1] = Plus(k, u[3][1], v[3][1])
        /\ d[0][1] = Minus(k, u[0][1], v[0][1]) /\ d[1][1] = Minus(k, u[1][1], v[1][1])
        /\ d[2][1] = Minus(k, u[2][1], v[2][1]) /\ d[3][1] = Minus(k, u[3][1], v[3][1])
    BY <1>2, <1>5
  <2>2. /\ Reconstruct(k, s) = Sum4(k, s[0][1], s[1][1], s[2][1], s[3][1])
        /\ Reconstruct(k, d) = Sum4(k, d[0][1], d[1][1], d[2][1], d[3][1])
        /\ Reconstruct(k, u) = Sum4(k, u[0][1], u[1][1], u[2][1], u[3][1])
        /\ Reconstruct(k, v) = Sum4(k, v[0][1], v[1][1], v[2][1], v[3][1])
        /\ Quartet(u[0][1], u[1][1], u[2][1], u[3][1]) /\ Quartet(v[0][1], v[1][1], v[2][1], v[3][1])
    BY <1>1, <1>5, Values
  <2>3. QED
    BY <2>1, <2>2, Sum4Adds DEF s, d
<1>6. QED
  BY <1>3, <1>4, <1>5 DEF Size

LEMMA ZeroValue ==
    ASSUME NEW k \in Kinds, NEW n, Size(n)
    PROVE  Reconstruct(k, ZeroShares(n, n - 1)) = 0
<1> DEFINE z == ZeroShares(n, n - 1)
<1>0. n \in Nat /\ n - 1 \in Nat /\ 1 \in 1 .. n - 1
  BY DEF Size
<1>1. Replicated(n, n - 1, z)
  BY ONLY <1>0, ZeroReplicated
<1>2. \A p \in 0 .. n - 1 : z[p][1] = 0
  BY <1>0 DEF ZeroShares
<1>3. Plus(k, 0, 0) = 0
  BY RingLaws, ZeroWord
<1> HIDE DEF z
<1>4. CASE n = 2
  <2>1. z[0][1] = 0 /\ z[1][1] = 0
    BY <1>2, <1>4
  <2>2. QED
    BY <1>1, <1>3, <1>4, <2>1, Values DEF z
<1>5. CASE n = 3
  <2>1. z[0][1] = 0 /\ z[1][1] = 0 /\ z[2][1] = 0
    BY <1>2, <1>5
  <2>2. QED
    BY <1>1, <1>3, <1>5, <2>1, Values DEF z, Sum3
<1>6. CASE n = 4
  <2>1. z[0][1] = 0 /\ z[1][1] = 0 /\ z[2][1] = 0 /\ z[3][1] = 0
    BY <1>2, <1>6
  <2>2. QED
    BY <1>1, <1>3, <1>6, <2>1, Values DEF z, Sum4
<1>7. QED
  BY <1>4, <1>5, <1>6 DEF Size, z

-----------------------------------------------------------------------------
(* Bits.  The last bit of an exclusive or is that of the last bits, and    *)
(* the complement is the exclusive or with the word of all ones.           *)
LEMMA BitValues ==
    /\ BitXor(0, 0) = 0 /\ BitXor(0, 1) = 1 /\ BitXor(1, 0) = 1 /\ BitXor(1, 1) = 0
<1>1. 0 \in Word /\ 1 \in Word
  BY ZeroWord
<1>2. BitXor(0, 0) = 0 /\ BitXor(0, 1) = 1 /\ BitXor(0, 1) = BitXor(1, 0) /\ BitXor(BitXor(0, 1), 1) = 0
  BY <1>1, XorAlgebra
<1>3. QED
  BY <1>2

LEMMA LowBits ==
    ASSUME NEW a \in Word
    PROVE  LowBit(a) \in {0, 1} /\ LowBit(a) \in Word /\ LowBit(a) = Bit(a, Width)
<1>1. a \in Nat /\ LowBit(a) \in Word
  BY ZeroWord, LowBitType
<1>2. High(a, Width) = a /\ \A i \in 1 .. Width : Bit(a, i) \in {0, 1}
  BY <1>1, HighBits
<1>3. Width \in 1 .. Width
  BY WidthAssumption
<1>4. QED
  BY <1>1, <1>2, <1>3 DEF Bit, LowBit

LEMMA LowBitOfXor ==
    ASSUME NEW a \in Word, NEW b \in Word
    PROVE  LowBit(BitXor(a, b)) = BitXor(LowBit(a), LowBit(b))
<1> DEFINE u == LowBit(a)
           v == LowBit(b)
<1>1. Width \in 1 .. Width /\ BitXor(a, b) \in Word
  BY WidthAssumption, XorBits
<1>2. LowBit(BitXor(a, b)) = Bit(BitXor(a, b), Width) /\ u = Bit(a, Width) /\ v = Bit(b, Width)
      /\ u \in {0, 1} /\ v \in {0, 1}
  BY <1>1, LowBits
<1>3. Bit(BitXor(a, b), Width) = Bit(a, Width) + Bit(b, Width) - 2 * (Bit(a, Width) * Bit(b, Width))
  BY <1>1, XorBits
<1> HIDE DEF u, v
<1>4. LowBit(BitXor(a, b)) = u + v - 2 * (u * v)
  BY <1>2, <1>3
<1>5. u + v - 2 * (u * v) = BitXor(u, v)
  <2>1. /\ u = 0 /\ v = 0 => u + v - 2 * (u * v) = 0
        /\ u = 0 /\ v = 1 => u + v - 2 * (u * v) = 1
        /\ u = 1 /\ v = 0 => u + v - 2 * (u * v) = 1
        /\ u = 1 /\ v = 1 => u + v - 2 * (u * v) = 0
    OBVIOUS
  <2>2. QED
    BY <1>2, <2>1, BitValues
<1>6. QED
  BY <1>4, <1>5 DEF u, v

LEMMA AllOnes == Modulus - 1 \in Word /\ \A i \in 1 .. Width : Bit(Modulus - 1, i) = 1
<1> DEFINE h == [i \in 0 .. Width |-> Power[i] - 1]
           c == [i \in 1 .. Width |-> 1]
<1>1. Width \in 0 .. Width /\ 0 \in 0 .. Width
  BY WidthAssumption
<1>2. \A i \in 0 .. Width : h[i] \in Int
  BY Powers
<1>3. h[0] = 0
  BY <1>1, Powers
<1>4. \A i \in 1 .. Width : c[i] \in {0, 1} /\ h[i] = 2 * h[i - 1] + c[i]
  <2>1. ASSUME NEW i \in 1 .. Width PROVE h[i] = 2 * h[i - 1] + 1
    <3>1. i \in 0 .. Width /\ i - 1 \in 0 .. Width
      BY WidthAssumption
    <3>2. Power[i] = 2 * Power[i - 1] /\ Power[i - 1] \in Nat
      BY <3>1, Powers
    <3>3. h[i] = Power[i] - 1 /\ h[i - 1] = Power[i - 1] - 1
      BY <3>1
    <3> HIDE DEF h
    <3>4. QED
      BY <3>2, <3>3
  <2>2. QED
    BY <2>1
<1>5. h[Width] = Modulus - 1
  BY <1>1 DEF Modulus
<1> HIDE DEF h
<1>6. \A i \in 1 .. Width : c[i] = 1
  OBVIOUS
<1> HIDE DEF c
<1>7. h[Width] \in Word /\ \A i \in 1 .. Width : Bit(h[Width], i) = c[i]
  BY ONLY <1>2, <1>3, <1>4, PutTogether
<1>8. QED
  BY <1>5, <1>6, <1>7

LEMMA NotIsXor ==
    ASSUME NEW a \in Word
    PROVE  BitNot(a) = BitXor(Modulus - 1, a)
<1> DEFINE o == Modulus - 1
<1>1. o \in Word /\ \A i \in 1 .. Width : Bit(o, i) = 1
  BY AllOnes
<1> HIDE DEF o
<1>2. BitAnd(o, a) = a
  <2>1. BitAnd(o, a) \in Word /\ \A i \in 1 .. Width : Bit(BitAnd(o, a), i) = Bit(o, i) * Bit(a, i)
    BY <1>1, AndBits
  <2>2. \A i \in 1 .. Width : Bit(a, i) \in {0, 1}
    BY ZeroWord, HighBits
  <2>3. \A i \in 1 .. Width : Bit(BitAnd(o, a), i) = Bit(a, i)
    BY <1>1, <2>1, <2>2
  <2>4. QED
    BY <2>1, <2>3, WordsByBits
<1>3. BitXor(o, a) = o + a - 2 * BitAnd(o, a)
  BY DEF BitXor, BitAnd
<1>4. BitXor(o, a) = o - a
  <2>1. o \in Int /\ a \in Int
    BY <1>1, ZeroWord
  <2>2. QED
    BY <1>2, <1>3, <2>1
<1>5. QED
  BY <1>4 DEF BitNot, o

(* The logical complement of a bit is its exclusive or with one.           *)
LEMMA LogicalNotIsXor ==
    ASSUME NEW a \in {0, 1}
    PROVE  LogicalNot(a) = BitXor(1, a) /\ LogicalNot(a) = 1 - a
<1>1. CASE a = 0
  BY <1>1, BitValues DEF LogicalNot
<1>2. CASE a = 1
  BY <1>2, BitValues DEF LogicalNot
<1>3. QED
  BY <1>1, <1>2

(* The last bits of the shares share the last bit of the value.            *)
LEMMA MaskedValue ==
    ASSUME NEW n, Size(n), NEW u, Replicated(n, n - 1, u)
    PROVE  Reconstruct("b", MaskShares(u)) = LowBit(Reconstruct("b", u))
<1> DEFINE m == MaskShares(u)
<1>0. n \in Nat /\ n - 1 \in Nat /\ 1 \in 1 .. n - 1 /\ "b" \in Kinds
  BY DEF Size, Kinds
<1>1. Replicated(n, n - 1, m)
  BY ONLY <1>0, MaskReplicated, Replicated(n, n - 1, u)
<1>2. \A p \in 0 .. n - 1 : m[p][1] = LowBit(u[p][1])
  <2>1. DOMAIN u = 0 .. n - 1 /\ \A p \in 0 .. n - 1 : DOMAIN u[p] = 1 .. n - 1
    BY DEF Replicated, Words
  <2>2. QED
    BY <1>0, <2>1 DEF MaskShares
<1>3. \A a, b : Plus("b", a, b) = BitXor(a, b)
  BY DEF Plus
<1> HIDE DEF m
<1>4. CASE n = 2
  <2>1. m[0][1] = LowBit(u[0][1]) /\ m[1][1] = LowBit(u[1][1])
    BY <1>2, <1>4
  <2>2. /\ Reconstruct("b", m) = BitXor(m[0][1], m[1][1]) /\ Reconstruct("b", u) = BitXor(u[0][1], u[1][1])
        /\ u[0][1] \in Word /\ u[1][1] \in Word
    BY <1>0, <1>1, <1>3, <1>4, Values
  <2>3. QED
    BY <2>1, <2>2, LowBitOfXor DEF m
<1>5. CASE n = 3
  <2> DEFINE a == u[0][1]  b == u[1][1]  c == u[2][1]
  <2>1. m[0][1] = LowBit(a) /\ m[1][1] = LowBit(b) /\ m[2][1] = LowBit(c)
    BY <1>2, <1>5
  <2>2. /\ Reconstruct("b", m) = BitXor(BitXor(m[0][1], m[1][1]), m[2][1])
        /\ Reconstruct("b", u) = BitXor(BitXor(a, b), c) /\ a \in Word /\ b \in Word /\ c \in Word
    BY <1>0, <1>1, <1>3, <1>5, Values DEF Sum3, Trio
  <2> HIDE DEF a, b, c
  <2>3. BitXor(a, b) \in Word /\ LowBit(BitXor(a, b)) = BitXor(LowBit(a), LowBit(b))
    BY <2>2, LowBitOfXor, XorBits
  <2>4. LowBit(BitXor(BitXor(a, b), c)) = BitXor(LowBit(BitXor(a, b)), LowBit(c))
    BY <2>2, <2>3, LowBitOfXor
  <2>5. QED
    BY <2>1, <2>2, <2>3, <2>4 DEF m
<1>6. CASE n = 4
  <2> DEFINE a == u[0][1]  b == u[1][1]  c == u[2][1]  d == u[3][1]
  <2>1. m[0][1] = LowBit(a) /\ m[1][1] = LowBit(b) /\ m[2][1] = LowBit(c) /\ m[3][1] = LowBit(d)
    BY <1>2, <1>6
  <2>2. /\ Reconstruct("b", m) = BitXor(BitXor(BitXor(m[0][1], m[1][1]), m[2][1]), m[3][1])
        /\ Reconstruct("b", u) = BitXor(BitXor(BitXor(a, b), c), d)
        /\ a \in Word /\ b \in Word /\ c \in Word /\ d \in Word
    BY <1>0, <1>1, <1>3, <1>6, Values DEF Sum4, Quartet
  <2> HIDE DEF a, b, c, d
  <2>3. BitXor(a, b) \in Word /\ LowBit(BitXor(a, b)) = BitXor(LowBit(a), LowBit(b))
    BY <2>2, LowBitOfXor, XorBits
  <2>4. /\ BitXor(BitXor(a, b), c) \in Word
        /\ LowBit(BitXor(BitXor(a, b), c)) = BitXor(LowBit(BitXor(a, b)), LowBit(c))
    BY <2>2, <2>3, LowBitOfXor, XorBits
  <2>5. LowBit(BitXor(BitXor(BitXor(a, b), c), d)) = BitXor(LowBit(BitXor(BitXor(a, b), c)), LowBit(d))
    BY <2>2, <2>4, LowBitOfXor
  <2>6. QED
    BY <2>1, <2>2, <2>3, <2>4, <2>5 DEF m
<1>7. QED
  BY <1>4, <1>5, <1>6 DEF Size, m

-----------------------------------------------------------------------------
(***************************************************************************)
(* Dividing by halves.  The signed halves of a word add up to the word,    *)
(* give or take the size of the ring; each half leaves a remainder of its  *)
(* own, and the remainders add up.                                         *)
(***************************************************************************)
Lifted(v) == {Signed(v) - Modulus, Signed(v), Signed(v) + Modulus}

LEMMA SignedSum ==
    ASSUME NEW a \in Word, NEW b \in Word
    PROVE  Signed(a) + Signed(b) \in Lifted(Wrap(a + b))
<1> DEFINE M == Modulus
           v == Wrap(a + b)
<1>1. M \in Nat /\ M > 1 /\ a \in 0 .. M - 1 /\ b \in 0 .. M - 1
  BY ModulusType DEF Word
<1>2. v = a + b \/ v = a + b - M
  <2>1. CASE a + b < M
    <3>1. a + b \in Word
      BY <1>1, <2>1 DEF Word
    <3>2. QED
      BY <3>1, WrapWord
  <2>2. CASE a + b >= M
    <3>1. a + b - M \in Word
      BY <1>1, <2>2 DEF Word
    <3>2. a + b \in Int /\ a + b - M \in Int /\ 1 \in Int /\ a + b = (a + b - M) + Modulus * 1
      BY <1>1
    <3>3. Wrap(a + b) = Wrap(a + b - M)
      BY ONLY <3>2, WrapEqual
    <3>4. QED
      BY <3>1, <3>3, WrapWord
  <2>3. QED
    BY <1>1, <2>1, <2>2
<1>3. v \in 0 .. M - 1
  BY <1>1, WrapType DEF Word
<1>4. /\ Signed(a) = IF 2 * a < M THEN a ELSE a - M
      /\ Signed(b) = IF 2 * b < M THEN b ELSE b - M
      /\ Signed(v) = IF 2 * v < M THEN v ELSE v - M
  BY DEF Signed
<1> HIDE DEF M, v
<1>5. \/ Signed(a) + Signed(b) = Signed(v) - M \/ Signed(a) + Signed(b) = Signed(v)
      \/ Signed(a) + Signed(b) = Signed(v) + M
  BY ONLY <1>1, <1>2, <1>3, <1>4
<1>6. QED
  BY <1>5 DEF M, v, Lifted

\* s is c times q and r more.
Splits(s, c, q, r) == q \in Int /\ r \in 0 .. c /\ Signed(s) = c * q + r

LEMMA HalfDivision ==
    ASSUME NEW s \in Word, NEW c \in Nat, c > 0
    PROVE  \E q, r : Splits(s, c, q, r) /\ HalfQuotient(s, c) = Wrap(q) /\ HalfRemainder(s, c) = Wrap(r)
<1> DEFINE S == Signed(s)
           Q == Quotient(s, c)
           n == Negative(s)
           R == Remainder(s, c)
<1>1. S \in Int /\ s \in Nat /\ Modulus \in Nat /\ n \in {0, 1} /\ s < Modulus
  BY SignedType, ZeroWord, ModulusType DEF Word
<1>2. (S >= 0 /\ n = 0) \/ (S < 0 /\ n = 1)
  BY <1>1 DEF Signed, Negative
<1>3. HalfQuotient(s, c) = Wrap(Q - n) /\ HalfRemainder(s, c) = Wrap(R + n * c) /\ R = S - c * Q
  BY DEF HalfQuotient, HalfRemainder, Remainder
<1>4. Q = IF S < 0 THEN -((-S) \div c) ELSE S \div c
  BY DEF Quotient, Towards0
<1> HIDE DEF S, Q, n, R
<1>5. CASE S >= 0 /\ n = 0
  <2> DEFINE q == S \div c
             r == S % c
  <2>1. q \in Int /\ r \in 0 .. c - 1 /\ S = c * q + r
    BY <1>1, IntDivMod
  <2>2. Q = q
    BY <1>1, <1>4, <1>5
  <2> HIDE DEF q, r
  <2>3. c * q \in Int
    BY <2>1
  <2>4. Q - n = q /\ R + n * c = r /\ r \in 0 .. c
    BY <1>3, <1>5, <2>1, <2>2, <2>3
  <2>5. QED
    BY <1>3, <2>1, <2>4 DEF Splits, S
<1>6. CASE S < 0 /\ n = 1
  <2> DEFINE q == (-S) \div c
             r == (-S) % c
  <2>1. q \in Int /\ r \in 0 .. c - 1 /\ -S = c * q + r
    <3>1. -S \in Int
      BY <1>1
    <3>2. QED
      BY <3>1, IntDivMod
  <2>2. Q = -q
    BY <1>1, <1>4, <1>6
  <2> HIDE DEF q, r
  <2>3. c * q \in Int /\ c * (-q) = -(c * q) /\ c * (-q - 1) = -(c * q) - c
    BY <2>1
  <2> DEFINE m == c * q
  <2>4. m \in Int /\ c * (-q) = -m /\ c * (-q - 1) = -m - c /\ -S = m + r
    BY <2>1, <2>3
  <2> HIDE DEF m
  <2>5. R = S + m
    BY <1>1, <1>3, <2>2, <2>4
  <2>6. Q - n = -q - 1 /\ R + n * c = c - r /\ c - r \in 0 .. c /\ -q - 1 \in Int /\ S = c * (-q - 1) + (c - r)
    BY <1>1, <1>6, <2>1, <2>2, <2>4, <2>5
  <2>7. QED
    BY <1>3, <2>6 DEF Splits, S
<1>7. QED
  BY <1>2, <1>5, <1>6

LEMMA ShiftDivision ==
    ASSUME NEW s \in Word, NEW d \in 0 .. Width
    PROVE  \E q, r : Splits(s, Power[d], q, r) /\ ShiftRight(s, d) = Wrap(q)
<1> DEFINE c == Power[d]
           q == Signed(s) \div c
           r == Signed(s) % c
<1>1. c \in Nat /\ c > 0 /\ Signed(s) \in Int
  BY Powers, SignedType
<1> HIDE DEF c
<1>2. q \in Int /\ r \in 0 .. c - 1 /\ Signed(s) = c * q + r
  BY <1>1, IntDivMod
<1>3. ShiftRight(s, d) = Wrap(q)
  BY DEF ShiftRight, c
<1> HIDE DEF q, r
<1>4. r \in 0 .. c
  BY <1>1, <1>2
<1>5. QED
  BY <1>2, <1>3, <1>4 DEF Splits, c

\* w is v divided by c, with h left over.
Rounded(v, c, h, w) == \E g \in Lifted(v) : (g - h) % c = 0 /\ w = Wrap((g - h) \div c)

LEMMA SumOfSplits ==
    ASSUME NEW a \in Word, NEW b \in Word, NEW c \in Nat, c > 0, NEW q, NEW r, Splits(a, c, q, r),
           NEW s, NEW t, Splits(b, c, s, t)
    PROVE  /\ Rounded(Plus("a", a, b), c, r + t, Plus("a", Wrap(q), Wrap(s)))
           /\ r + t \in 0 .. 2 * c
<1>1. q \in Int /\ r \in 0 .. c /\ Signed(a) = c * q + r /\ s \in Int /\ t \in 0 .. c /\ Signed(b) = c * s + t
  BY DEF Splits
<1> DEFINE g == Signed(a) + Signed(b)
           h == r + t
           m == q + s
<1>2. m \in Int /\ h \in 0 .. 2 * c
  BY <1>1
<1>3. c * m = c * q + c * s /\ c * q \in Int /\ c * s \in Int
  BY <1>1
<1>4. g - h = c * m + 0
  <2> DEFINE u == c * q
             v == c * s
             w == c * m
  <2>1. w = u + v /\ u \in Int /\ v \in Int /\ Signed(a) = u + r /\ Signed(b) = v + t /\ r \in Int /\ t \in Int
    BY <1>1, <1>3
  <2> HIDE DEF u, v, w
  <2>2. g - h = w + 0
    BY <2>1
  <2>3. QED
    BY <2>2 DEF w
<1>5. g \in Lifted(Plus("a", a, b))
  BY SignedSum DEF Plus
<1>6. Plus("a", Wrap(q), Wrap(s)) = Wrap(m)
  <2>1. Wrap(q) \in Int /\ Wrap(s) \in Int
    BY <1>1, WrapType, ZeroWord
  <2>2. Wrap(Wrap(q) + Wrap(s)) = Wrap(q + Wrap(s))
    BY <1>1, <2>1, WrapSum
  <2>3. Wrap(q + Wrap(s)) = Wrap(q + s)
    BY <1>1, WrapSum
  <2>4. QED
    BY <2>2, <2>3 DEF Plus
<1> HIDE DEF g, h, m
<1>7. 0 \in 0 .. c - 1
  OBVIOUS
<1>8. (c * m + 0) % c = 0 /\ (c * m + 0) \div c = m
  BY <1>2, <1>7, DivModUnique
<1>9. (g - h) % c = 0 /\ Plus("a", Wrap(q), Wrap(s)) = Wrap((g - h) \div c)
  BY <1>4, <1>6, <1>8
<1>10. Rounded(Plus("a", a, b), c, h, Plus("a", Wrap(q), Wrap(s)))
  BY <1>5, <1>9 DEF Rounded
<1>11. QED
  BY <1>2, <1>10 DEF h

-----------------------------------------------------------------------------
(***************************************************************************)
(* What the results of a truncation, of a division and of splitting a word *)
(* are worth, for two words a and b that add up to the input.              *)
(***************************************************************************)
Halved(u, a, b) == a \in Word /\ b \in Word /\ Plus("a", a, b) = Reconstruct("a", u)

Shifted(u, d, res) ==
    \E a, b : /\ Halved(u, a, b)
              /\ Reconstruct("a", res.z) = Plus("a", ShiftRight(a, d), ShiftRight(b, d))

Divided(u, c, res) ==
    \E a, b : /\ Halved(u, a, b)
              /\ Reconstruct("a", res.u) = Plus("a", HalfQuotient(a, c), HalfQuotient(b, c))
              /\ Reconstruct("a", res.v) = Plus("a", HalfRemainder(a, c), Wrap(HalfRemainder(b, c) - c))

SplitInTwo(u, res) == Halved(u, Reconstruct("b", res.u), Reconstruct("b", res.v))

-----------------------------------------------------------------------------
(***************************************************************************)
(* Two parties: every share is held once, so that what has to be shown is  *)
(* that shares are words and that the generators are drawn from alike.     *)
(***************************************************************************)
LEMMA Shared2 ==
    ASSUME NEW z, z = [p \in P2 |-> <<z[p][1]>>], z[0][1] \in Word, z[1][1] \in Word
    PROVE  Replicated(2, 1, z)
<1>1. \A p \in P2 : z[p] = <<z[p][1]>> /\ z[p][1] \in Word
  BY DEF P2
<1>2. \A p \in P2 : z[p] \in [1 .. 1 -> Word]
  BY <1>1
<1>3. 0 .. 2 - 1 = P2
  BY DEF P2
<1>4. DOMAIN z = P2 /\ z = [p \in P2 |-> z[p]]
  BY <1>1
<1>5. z \in [P2 -> [1 .. 1 -> Word]]
  BY <1>2, <1>4
<1>6. Words(2, 1, z)
  BY <1>3, <1>5 DEF Words
<1>7. QED
  BY <1>6, Replicated2

LEMMA Shares2 ==
    ASSUME NEW z, Replicated(2, 1, z)
    PROVE  /\ z[0][1] \in Word /\ z[1][1] \in Word
           /\ DOMAIN z = P2 /\ DOMAIN z[0] = 1 .. 1 /\ DOMAIN z[1] = 1 .. 1
  BY DEF Replicated, Words, P2

(* The draws of two parties.                                               *)
LEMMA Draws2 ==
    ASSUME NEW D, DOMAIN D = P2, Run(D[0]), Run(D[1])
    PROVE  IsDraws(2, D)
  BY DEF IsDraws, P2

LEMMA TripleHonest ==
    ASSUME NEW k \in Kinds, NEW w, Honest(2, w)
    PROVE  Honest(2, BeaverTriple(k, w).r)
<1> DEFINE D == [p \in P2 |-> <<OLE(k), OLE(k)>>]
<1>1. DOMAIN D = P2 /\ D[0] = <<OLE(k), OLE(k)>> /\ D[1] = D[0]
  BY DEF P2
<1>2. BeaverTriple(k, w).r = After(w, D)
  BY DEF BeaverTriple
<1> HIDE DEF D
<1>3. IsDraws(2, D)
  BY <1>1, Draws2, Runs
<1>4. Balanced(2, D)
  BY <1>1, Balanced2
<1>5. QED
  BY <1>2, <1>3, <1>4, DrawHonest

IsTriple(t) == \A p \in P2 : t[p].a[1] \in Word /\ t[p].b[1] \in Word /\ t[p].c[1] \in Word

LEMMA OLETypes ==
    ASSUME NEW k \in Kinds, NEW seed \in Nat, NEW n \in Nat, NEW p
    PROVE  OLEShare(k, seed, n, p)[1] \in Word /\ OLEShare(k, seed, n, p)[2] \in Word
<1> DEFINE word(i) == Stream(seed, OLE(k), 3 * n + i)
           C == word(0)  E == word(1)  A == word(2)
<1>1. C \in Word /\ E \in Word /\ A \in Word
  <2>1. OLE(k) \in Nat
    BY DEF OLE
  <2>2. 3 * n + 0 \in Nat /\ 3 * n + 1 \in Nat /\ 3 * n + 2 \in Nat
    OBVIOUS
  <2>3. QED
    BY <2>1, <2>2, StreamType
<1>2. OLEShare(k, seed, n, p) = IF p = 0 THEN <<C, A>> ELSE <<E, Minus(k, Times(k, C, E), A)>>
  BY DEF OLEShare
<1> HIDE DEF C, E, A
<1>3. Minus(k, Times(k, C, E), A) \in Word
  BY <1>1, OperatorTypes
<1>4. QED
  BY <1>1, <1>2, <1>3

LEMMA TripleTypes ==
    ASSUME NEW k \in Kinds, NEW w, Honest(2, w)
    PROVE  IsTriple(BeaverTriple(k, w).t)
<1> DEFINE D == [p \in P2 |-> <<OLE(k), OLE(k)>>]
           ole(p, i) == OLEShare(k, w.seed, Nonce(w, D, p, i), p)
           triple(u, v) == [a |-> <<u[1]>>, b |-> <<v[1]>>,
                            c |-> <<Total(k, <<Times(k, u[1], v[1]), u[2], v[2]>>)>>]
<1>1. BeaverTriple(k, w).t = [p \in P2 |-> triple(ole(p, 1 + p), ole(p, 2 - p))]
  BY DEF BeaverTriple
<1>2. ASSUME NEW p \in P2, NEW i \in {1, 2} PROVE Nonce(w, D, p, i) \in Nat
  <2>1. D[p][i] = OLE(k) /\ OLE(k) \in {60, 61}
    BY DEF OLE
  <2>2. OLE(k) \in HeldBy(2, p)
    <3>1. <<60, {0, 1}>> \in Holders(2) /\ <<61, {0, 1}>> \in Holders(2)
      BY Holders2
    <3>2. \A g : <<g, {0, 1}>> \in Holders(2) => g \in HeldBy(2, p)
      <4>1. ASSUME NEW g, <<g, {0, 1}>> \in Holders(2) PROVE g \in HeldBy(2, p)
        <5>1. <<g, {0, 1}>> \in {h \in Holders(2) : p \in h[2]}
          BY <4>1 DEF P2
        <5>2. <<g, {0, 1}>>[1] = g
          OBVIOUS
        <5>3. QED
          BY <5>1, <5>2, Zenon DEF HeldBy
      <4>2. QED
        BY <4>1
    <3>3. QED
      BY <2>1, <3>1, <3>2
  <2>3. w.pos[p][OLE(k)] \in Nat
    <3>1. p \in 0 .. 2 - 1
      BY DEF P2
    <3>2. QED
      BY <2>2, <3>1 DEF Honest, Positions
  <2>4. Count(D[p], i - 1, D[p][i]) \in Nat
    <3>1. i - 1 \in Nat
      OBVIOUS
    <3> HIDE DEF D
    <3>2. QED
      BY <3>1, CountRecursion
  <2>5. Nonce(w, D, p, i) = w.pos[p][D[p][i]] + Count(D[p], i - 1, D[p][i])
    BY DEF Nonce, Count
  <2>6. QED
    BY <2>1, <2>3, <2>4, <2>5
<1>3. ASSUME NEW p \in P2, NEW i \in {1, 2} PROVE ole(p, i)[1] \in Word /\ ole(p, i)[2] \in Word
  <2>1. w.seed \in Nat
    BY DEF Honest
  <2>2. QED
    BY <1>2, <1>3, <2>1, OLETypes
<1>4. ASSUME NEW u, NEW v, u[1] \in Word, u[2] \in Word, v[1] \in Word, v[2] \in Word
      PROVE  triple(u, v).a[1] \in Word /\ triple(u, v).b[1] \in Word /\ triple(u, v).c[1] \in Word
  <2>1. Times(k, u[1], v[1]) \in Word
    BY <1>4, OperatorTypes
  <2>2. Plus(k, Plus(k, Times(k, u[1], v[1]), u[2]), v[2]) \in Word
    BY <1>4, <2>1, OperatorTypes
  <2>3. Total(k, <<Times(k, u[1], v[1]), u[2], v[2]>>) \in Word
    BY <1>4, <2>1, <2>2, TotalThree
  <2>4. QED
    BY <1>4, <2>3
<1> HIDE DEF ole, triple
<1>5. ASSUME NEW p \in P2 PROVE 1 + p \in {1, 2} /\ 2 - p \in {1, 2}
  BY DEF P2
<1>6. QED
  BY <1>1, <1>3, <1>4, <1>5 DEF IsTriple

LEMMA MaskedShared ==
    ASSUME NEW k \in Kinds, NEW u, Replicated(2, 1, u), NEW v, Replicated(2, 1, v), NEW t, IsTriple(t)
    PROVE  Replicated(2, 1, Masked(k, u, v, t))
<1> DEFINE A == open_2PC(k, PlusShares(k, u, [p \in P2 |-> t[p].a]))
           B == open_2PC(k, PlusShares(k, v, [p \in P2 |-> t[p].b]))
           z == [p \in P2 |-> <<Plus(k, Minus(k, Times(k, v[p][1], A[p]), Times(k, t[p].a[1], B[p])), t[p].c[1])>>]
<1>1. Masked(k, u, v, t) = z
  BY DEF Masked
<1>2. ASSUME NEW p \in P2
      PROVE  u[p][1] \in Word /\ v[p][1] \in Word /\ u[1 - p][1] \in Word /\ v[1 - p][1] \in Word
             /\ t[p].a[1] \in Word /\ t[p].b[1] \in Word /\ t[p].c[1] \in Word
             /\ t[1 - p].a[1] \in Word /\ t[1 - p].b[1] \in Word
  BY Shares2 DEF P2, IsTriple
<1>3. ASSUME NEW p \in P2 PROVE A[p] \in Word /\ B[p] \in Word
  <2>1. /\ A[p] = Plus(k, Plus(k, u[p][1], t[p].a[1]), Plus(k, u[1 - p][1], t[1 - p].a[1]))
        /\ B[p] = Plus(k, Plus(k, v[p][1], t[p].b[1]), Plus(k, v[1 - p][1], t[1 - p].b[1]))
    BY Shares2 DEF open_2PC, PlusShares, P2
  <2> HIDE DEF A, B
  <2>2. QED
    BY <1>2, <2>1, OperatorTypes
<1> HIDE DEF A, B
<1>4. ASSUME NEW p \in P2 PROVE z[p] = <<z[p][1]>> /\ z[p][1] \in Word
  BY <1>2, <1>3, OperatorTypes
<1>5. z = [p \in P2 |-> <<z[p][1]>>] /\ z[0][1] \in Word /\ z[1][1] \in Word
  BY <1>4 DEF P2
<1>6. QED
  BY <1>1, <1>5, Shared2, Zenon

LEMMA MultiplyGood2 ==
    ASSUME NEW k \in Kinds, NEW u, Replicated(2, 1, u), NEW v, Replicated(2, 1, v), NEW w, Honest(2, w)
    PROVE  Good(2, 1, MultiplyBeaver(k, u, v, BeaverTriple(k, w)))
<1>1. Replicated(2, 1, Masked(k, u, v, BeaverTriple(k, w).t))
  BY TripleTypes, MaskedShared
<1>2. Honest(2, BeaverTriple(k, w).r)
  BY TripleHonest
<1>3. QED
  BY <1>1, <1>2, ResultFields DEF Good, MultiplyBeaver

LEMMA SumGood2 ==
    ASSUME NEW u, Replicated(2, 1, u), NEW v, Replicated(2, 1, v), NEW w, Honest(2, w)
    PROVE  Good(2, 1, ProductSum_2PC(<<u, v>>, <<v, u>>, w))
<1> DEFINE X == <<u, v>>
           Y == <<v, u>>
           M(t) == Masked("a", X[t], Y[t], ZeroTriple)
           z == [p \in P2 |-> <<Total("a", [t \in DOMAIN X |-> M(t)[p][1]])>>]
<1>1. ProductSum_2PC(X, Y, w) = Result(z, w)
  <2>1. ProductSum_2PC(X, Y, w) =
          Result([p \in P2 |-> <<Total("a", [t \in DOMAIN X |-> [s \in DOMAIN X |-> M(s)][t][p][1]])>>], w)
    BY DEF ProductSum_2PC
  <2>2. \A t \in DOMAIN X : [s \in DOMAIN X |-> M(s)][t] = M(t)
    OBVIOUS
  <2> HIDE DEF X, Y, M
  <2>3. \A p : [t \in DOMAIN X |-> [s \in DOMAIN X |-> M(s)][t][p][1]] = [t \in DOMAIN X |-> M(t)[p][1]]
    BY <2>2
  <2>4. QED
    BY <2>1, <2>3
<1>2. "a" \in Kinds
  BY DEF Kinds
<1>3. IsTriple(ZeroTriple)
  <2>1. ASSUME NEW p \in P2
        PROVE  ZeroTriple[p].a = <<0>> /\ ZeroTriple[p].b = <<0>> /\ ZeroTriple[p].c = <<0>>
    BY DEF ZeroTriple
  <2>2. QED
    BY <2>1, ZeroWord DEF IsTriple
<1>4. DOMAIN X = 1 .. 2 /\ X[1] = u /\ X[2] = v /\ Y[1] = v /\ Y[2] = u
  OBVIOUS
<1>5. \A t \in 1 .. 2 : Replicated(2, 1, M(t))
  <2>1. Replicated(2, 1, Masked("a", u, v, ZeroTriple)) /\ Replicated(2, 1, Masked("a", v, u, ZeroTriple))
    BY <1>2, <1>3, MaskedShared
  <2>2. M(1) = Masked("a", u, v, ZeroTriple) /\ M(2) = Masked("a", v, u, ZeroTriple)
    BY <1>4
  <2>3. \A t \in 1 .. 2 : t = 1 \/ t = 2
    OBVIOUS
  <2> HIDE DEF M
  <2>4. QED
    BY <2>1, <2>2, <2>3
<1> HIDE DEF X, Y, M
<1>6. ASSUME NEW p \in P2 PROVE Total("a", [t \in DOMAIN X |-> M(t)[p][1]]) \in Word
  <2> DEFINE s == [t \in 1 .. 2 |-> M(t)[p][1]]
  <2>1. \A t \in 1 .. 2 : M(t)[p][1] \in Word
    BY <1>5, Shares2 DEF P2
  <2>2. s \in [1 .. 2 -> Word]
    BY <2>1
  <2>3. Total("a", s) \in Word
    <3> HIDE DEF s
    <3> DEFINE m == 2
    <3>1. m \in Nat /\ s \in [1 .. m -> Word]
      BY <2>2
    <3> HIDE DEF m
    <3>2. QED
      BY <1>2, <3>1, TotalType
  <2>4. QED
    BY <1>4, <2>3
<1>7. z = [p \in P2 |-> <<z[p][1]>>] /\ z[0][1] \in Word /\ z[1][1] \in Word
  BY <1>6 DEF P2
<1>8. Replicated(2, 1, z)
  <2> HIDE DEF z
  <2>1. QED
    BY <1>7, Shared2
<1>9. QED
  BY <1>1, <1>8, ResultFields DEF Good, X, Y

LEMMA LocalGood2 ==
    ASSUME NEW u, Replicated(2, 1, u), NEW w, Honest(2, w),
           NEW d \in 0 .. Width, NEW c \in Nat, c > 0
    PROVE  /\ Good(2, 1, truncate_2PC(u, d, w)) /\ Shifted(u, d, truncate_2PC(u, d, w))
           /\ GoodTwo(2, 1, div_const_2PC(u, c, w)) /\ Divided(u, c, div_const_2PC(u, c, w))
           /\ Replicated(2, 1, not_b_2PC(u)) /\ Replicated(2, 1, not_b_1_2PC(u))
<1>1. u[0][1] \in Word /\ u[1][1] \in Word /\ DOMAIN u = P2 /\ DOMAIN u[0] = 1 .. 1 /\ DOMAIN u[1] = 1 .. 1
  BY Shares2
<1>0. "a" \in Kinds /\ Halved(u, u[0][1], u[1][1])
  BY <1>1, ReconstructSums DEF Halved, Kinds
<1>2. Good(2, 1, truncate_2PC(u, d, w)) /\ Shifted(u, d, truncate_2PC(u, d, w))
  <2> DEFINE z == [p \in P2 |-> <<ShiftRight(u[p][1], d)>>]
  <2>1. z = [p \in P2 |-> <<z[p][1]>>] /\ z[0][1] \in Word /\ z[1][1] \in Word
    BY <1>1, ShiftType DEF P2
  <2>2. truncate_2PC(u, d, w) = Result(z, w)
    BY DEF truncate_2PC
  <2>3. z[0][1] = ShiftRight(u[0][1], d) /\ z[1][1] = ShiftRight(u[1][1], d)
    BY DEF P2
  <2> HIDE DEF z
  <2>4. Replicated(2, 1, z)
    BY <2>1, Shared2
  <2>5. Reconstruct("a", z) = Plus("a", ShiftRight(u[0][1], d), ShiftRight(u[1][1], d))
    BY <1>0, <2>3, <2>4, ReconstructSums
  <2>6. QED
    BY <1>0, <2>2, <2>4, <2>5, ResultFields DEF Good, Shifted
<1>3. GoodTwo(2, 1, div_const_2PC(u, c, w)) /\ Divided(u, c, div_const_2PC(u, c, w))
  <2> DEFINE z == [p \in P2 |-> <<HalfQuotient(u[p][1], c)>>]
             e == [p \in P2 |-> <<Wrap(HalfRemainder(u[p][1], c) - p * c)>>]
  <2>1. \A p \in P2 : p * c \in Int /\ u[p][1] \in Word
    BY <1>1 DEF P2
  <2>2. z = [p \in P2 |-> <<z[p][1]>>] /\ z[0][1] \in Word /\ z[1][1] \in Word
    BY <1>1, HalfTypes DEF P2
  <2>3. e = [p \in P2 |-> <<e[p][1]>>] /\ e[0][1] \in Word /\ e[1][1] \in Word
    BY <2>1, HalfTypes DEF P2
  <2>4. div_const_2PC(u, c, w) = Two(z, e, w)
    BY DEF div_const_2PC
  <2>5. /\ z[0][1] = HalfQuotient(u[0][1], c) /\ z[1][1] = HalfQuotient(u[1][1], c)
        /\ e[0][1] = Wrap(HalfRemainder(u[0][1], c) - 0) /\ e[1][1] = Wrap(HalfRemainder(u[1][1], c) - c)
    <3>1. 0 * c = 0 /\ 1 * c = c /\ 0 \in P2 /\ 1 \in P2
      BY DEF P2
    <3>2. QED
      BY <3>1
  <2>6. Wrap(HalfRemainder(u[0][1], c) - 0) = HalfRemainder(u[0][1], c)
    <3>1. HalfRemainder(u[0][1], c) \in Word
      BY <1>1, HalfTypes
    <3>2. \A i \in Word : Wrap(i - 0) = i
      BY WrapWord, ZeroWord
    <3>3. QED
      BY <3>1, <3>2
  <2> HIDE DEF z, e
  <2>7. Replicated(2, 1, z) /\ Replicated(2, 1, e)
    BY <2>2, <2>3, Shared2
  <2>8. /\ Reconstruct("a", z) = Plus("a", HalfQuotient(u[0][1], c), HalfQuotient(u[1][1], c))
        /\ Reconstruct("a", e) = Plus("a", HalfRemainder(u[0][1], c), Wrap(HalfRemainder(u[1][1], c) - c))
    BY <1>0, <2>5, <2>6, <2>7, ReconstructSums
  <2>9. QED
    BY <1>0, <2>4, <2>7, <2>8, ResultFields DEF GoodTwo, Divided
<1>4. u = [p \in P2 |-> <<u[p][1]>>]
  <2>1. u \in [P2 -> [1 .. 1 -> Word]]
    BY DEF Replicated, Words, P2
  <2>2. \A p \in P2 : u[p] = <<u[p][1]>>
    BY <2>1
  <2>3. QED
    BY <2>1, <2>2
<1>5. ASSUME NEW a \in Word PROVE Replicated(2, 1, [u EXCEPT ![0] = <<a>>])
  <2> DEFINE z == [u EXCEPT ![0] = <<a>>]
  <2>1. z = [p \in P2 |-> IF p = 0 THEN <<a>> ELSE u[p]]
    BY <1>4
  <2>2. \A p \in P2 : u[p] = <<u[p][1]>>
    BY <1>4
  <2>3. z = [p \in P2 |-> <<z[p][1]>>] /\ z[0][1] \in Word /\ z[1][1] \in Word
    BY <1>1, <2>1, <2>2 DEF P2
  <2> HIDE DEF z
  <2>4. QED
    BY <2>3, Shared2 DEF z
<1>6. Replicated(2, 1, not_b_2PC(u)) /\ Replicated(2, 1, not_b_1_2PC(u))
  BY <1>1, <1>5, NotTypes DEF not_b_2PC, not_b_1_2PC
<1>7. QED
  BY <1>2, <1>3, <1>6

LEMMA ShareGood2 ==
    ASSUME NEW k \in Kinds, NEW v \in Word, NEW who \in P2, NEW w, Honest(2, w)
    PROVE  /\ Good(2, 1, secret_share_2PC(k, v, who, w))
           /\ Reconstruct(k, secret_share_2PC(k, v, who, w).z) = v
<1> DEFINE D == [p \in P2 |-> IF p = who THEN <<localPRG(p)>> ELSE <<>>]
           s == Draw(w, D).v[who][1]
           z == [p \in P2 |-> IF p = who THEN <<s>> ELSE <<Minus(k, v, s)>>]
<1>1. secret_share_2PC(k, v, who, w) = Result(z, Draw(w, D).r)
  BY DEF secret_share_2PC
<1>2. DOMAIN D = P2 /\ D[who] = <<who>> /\ \A p \in P2 : p # who => D[p] = <<>>
  BY DEF localPRG
<1> HIDE DEF D
<1>3. s = Drawn(w, who, who, 0)
  <2>1. 1 \in DOMAIN D[who] /\ D[who][1] = who /\ 1 - 1 = 0
    BY <1>2
  <2>2. Count(D[who], 0, who) = 0
    BY CountFew
  <2>3. QED
    BY <1>2, <2>1, <2>2, DrawnValues
<1>4. s \in Word
  <2>1. <<who, {who}>> \in Holders(2)
    BY Holders2 DEF P2
  <2>2. who \in 0 .. 2 - 1 /\ who \in Nat /\ who \in {who} /\ 0 \in Nat
    BY DEF P2
  <2>3. QED
    BY <1>3, <2>1, <2>2, DrawnType, Zenon
<1>5. Honest(2, Draw(w, D).r)
  <2>1. IsDraws(2, D)
    BY <1>2, Draws2, Runs DEF P2
  <2>2. ASSUME NEW g \in {19, 60, 61} PROVE Calls(D[0], g) = Calls(D[1], g)
    <3>0. One(who, g) = 0
      BY DEF One, P2
    <3>1. Calls(<<>>, g) = 0 /\ Calls(<<who>>, g) = 0
      BY <3>0, CallsFew
    <3>2. QED
      BY <1>2, <3>1 DEF P2
  <2>3. Balanced(2, D)
    BY <2>2, Balanced2
  <2>4. QED
    BY <2>1, <2>3, DrawHonest
<1> HIDE DEF s
<1>6. Minus(k, v, s) \in Word
  BY <1>4, OperatorTypes
<1>7. z = [p \in P2 |-> <<z[p][1]>>] /\ z[0][1] \in Word /\ z[1][1] \in Word
  BY <1>4, <1>6 DEF P2
<1>8. Replicated(2, 1, z)
  <2> HIDE DEF z
  <2>1. QED
    BY <1>7, Shared2
<1>9. Reconstruct(k, z) = v
  <2>1. (z[0][1] = s /\ z[1][1] = Minus(k, v, s)) \/ (z[0][1] = Minus(k, v, s) /\ z[1][1] = s)
    BY DEF P2
  <2> HIDE DEF z
  <2>2. Reconstruct(k, z) = Plus(k, z[0][1], z[1][1])
    BY <1>8, ReconstructSums
  <2>3. Plus(k, s, Minus(k, v, s)) = v /\ Plus(k, Minus(k, v, s), s) = v
    BY <1>4, RingLaws
  <2>4. QED
    BY <2>1, <2>2, <2>3
<1>10. QED
  BY <1>1, <1>5, <1>8, <1>9, ResultFields DEF Good, s

LEMMA RedistributeGood2 ==
    ASSUME NEW u, Replicated(2, 1, u), NEW w, Honest(2, w)
    PROVE  GoodTwo(2, 1, redistribute_2PC(u, w)) /\ SplitInTwo(u, redistribute_2PC(u, w))
<1> DEFINE a == secret_share_2PC("b", u[0][1], 0, w)
           b == secret_share_2PC("b", u[1][1], 1, a.r)
<1>1. redistribute_2PC(u, w) = Two(a.z, b.z, b.r)
  BY DEF redistribute_2PC
<1>2. u[0][1] \in Word /\ u[1][1] \in Word /\ "b" \in Kinds /\ 0 \in P2 /\ 1 \in P2
  BY Shares2 DEF Kinds, P2
<1>3. Good(2, 1, a) /\ Reconstruct("b", a.z) = u[0][1]
  BY <1>2, ShareGood2
<1> HIDE DEF a
<1>4. Good(2, 1, b) /\ Reconstruct("b", b.z) = u[1][1]
  <2> DEFINE r == a.r
             v == u[1][1]
  <2>1. Honest(2, r) /\ v \in Word
    BY <1>2, <1>3 DEF Good
  <2> HIDE DEF r, v
  <2>2. /\ Good(2, 1, secret_share_2PC("b", v, 1, r))
        /\ Reconstruct("b", secret_share_2PC("b", v, 1, r).z) = v
    BY ONLY <1>2, <2>1, ShareGood2
  <2>3. QED
    BY <2>2 DEF r, v
<1> HIDE DEF b
<1>5. Halved(u, u[0][1], u[1][1])
  BY <1>2, ReconstructSums DEF Halved, Kinds
<1>6. QED
  BY <1>1, <1>3, <1>4, <1>5, ResultFields DEF Good, GoodTwo, SplitInTwo

LEMMA PublicShared2 ==
    ASSUME NEW v \in Word, NEW knows
    PROVE  Replicated(2, 1, public_share_2PC(v, knows))
<1> DEFINE z == public_share_2PC(v, knows)
<1>1. z = [p \in P2 |-> <<z[p][1]>>] /\ z[0][1] \in Word /\ z[1][1] \in Word
  BY ZeroWord DEF public_share_2PC, P2
<1> HIDE DEF z
<1>2. QED
  BY <1>1, Shared2 DEF z

-----------------------------------------------------------------------------
(***************************************************************************)
(* Three parties: party p holds shares p and p + 1.                        *)
(***************************************************************************)
LEMMA Parties3 == P3 = {0, 1, 2} /\ 0 .. 3 - 1 = P3
  BY DEF P3

LEMMA Shared3 ==
    ASSUME NEW z, z = [p \in P3 |-> <<z[p][1], z[p][2]>>],
           z[0][1] \in Word, z[1][1] \in Word, z[2][1] \in Word,
           z[0][2] = z[1][1], z[1][2] = z[2][1], z[2][2] = z[0][1]
    PROVE  Replicated(3, 2, z)
<1>1. \A p \in P3 : z[p] = <<z[p][1], z[p][2]>> /\ z[p][1] \in Word /\ z[p][2] \in Word
  BY Parties3
<1>2. \A p \in P3 : z[p] \in [1 .. 2 -> Word]
  BY <1>1
<1>3. DOMAIN z = P3 /\ z = [p \in P3 |-> z[p]]
  BY <1>1
<1>4. z \in [P3 -> [1 .. 2 -> Word]]
  BY <1>2, <1>3
<1>5. Words(3, 2, z)
  BY <1>4, Parties3 DEF Words
<1>6. QED
  BY <1>5, Replicated3

LEMMA Shares3 ==
    ASSUME NEW z, Replicated(3, 2, z)
    PROVE  /\ z = [p \in P3 |-> <<z[p][1], z[p][2]>>] /\ DOMAIN z = P3
           /\ \A p \in P3 : z[p][1] \in Word /\ z[p][2] \in Word /\ DOMAIN z[p] = 1 .. 2
           /\ z[0][2] = z[1][1] /\ z[1][2] = z[2][1] /\ z[2][2] = z[0][1]
<1>1. z \in [P3 -> [1 .. 2 -> Word]]
  BY Replicated3, Parties3 DEF Words
<1>2. \A p \in P3 : z[p] = <<z[p][1], z[p][2]>>
  BY <1>1
<1>3. QED
  BY <1>1, <1>2, Replicated3

LEMMA ReplicateShared ==
    ASSUME NEW f, f[0] \in Word, f[1] \in Word, f[2] \in Word
    PROVE  Replicated(3, 2, Replicate(f))
<1> DEFINE z == Replicate(f)
<1>1. (0 + 1) % 3 = 1 /\ (1 + 1) % 3 = 2 /\ (2 + 1) % 3 = 0
  OBVIOUS
<1>2. z[0] = <<f[0], f[1]>> /\ z[1] = <<f[1], f[2]>> /\ z[2] = <<f[2], f[0]>>
  BY <1>1, Parties3 DEF Replicate
<1>3. z = [p \in P3 |-> <<z[p][1], z[p][2]>>]
  BY DEF Replicate
<1> HIDE DEF z
<1>4. Replicated(3, 2, z)
  BY <1>2, <1>3, Shared3
<1>5. QED
  BY <1>4 DEF z

(* The generators that neighbours share, and draws that keep them in step. *)
LEMMA Get3 ==
    /\ get(3, 0, 1) = 40 /\ get(3, 1, 1) = 41 /\ get(3, 2, 1) = 42
    /\ get(3, 0, -1) = 42 /\ get(3, 1, -1) = 40 /\ get(3, 2, -1) = 41
<1>1. 1 % 3 = 1 /\ (0 + 2) % 3 = 2 /\ (1 + 2) % 3 = 0 /\ (2 + 2) % 3 = 1
  OBVIOUS
<1>3. (-1) % 3 = 2
  <2> DEFINE a == -1  n == 3
  <2>1. a \in Int /\ n \in Nat /\ n > 0
    OBVIOUS
  <2> HIDE DEF a, n
  <2>2. a % n \in 0 .. n - 1 /\ a \div n \in Int /\ a = n * (a \div n) + (a % n)
    BY <2>1, IntDivMod
  <2>3. \A q \in Int, m \in 0 .. 2 : -1 = 3 * q + m => m = 2
    OBVIOUS
  <2>4. n = 3 /\ a = -1
    BY DEF n, a
  <2>5. a % n = 2
    BY <2>2, <2>3, <2>4
  <2>6. QED
    BY <2>5 DEF a, n
<1>2. QED
  BY <1>1, <1>3 DEF get, NextPRG

LEMMA Common3 ==
    /\ <<40, {0, 1}>> \in Holders(3) /\ <<41, {1, 2}>> \in Holders(3) /\ <<42, {2, 0}>> \in Holders(3)
    /\ <<23, {0, 1, 2}>> \in Holders(3) /\ <<19, {0, 1}>> \in Holders(3)
    /\ <<21, {0, 2}>> \in Holders(3) /\ <<22, {1, 2}>> \in Holders(3)
    /\ \A p \in P3 : <<p, {p}>> \in Holders(3)
  BY Holders3, Parties3

LEMMA DrawsHonest3 ==
    ASSUME NEW w, Honest(3, w), NEW D, DOMAIN D = P3, Run(D[0]), Run(D[1]), Run(D[2]),
           \A g \in {19, 40} : Calls(D[0], g) = Calls(D[1], g),
           \A g \in {21, 42} : Calls(D[0], g) = Calls(D[2], g),
           \A g \in {22, 41} : Calls(D[1], g) = Calls(D[2], g),
           Calls(D[0], 23) = Calls(D[1], 23), Calls(D[0], 23) = Calls(D[2], 23)
    PROVE  Honest(3, Draw(w, D).r)
<1>1. IsDraws(3, D)
  BY Parties3 DEF IsDraws
<1>2. Balanced(3, D)
  BY Balanced3
<1>3. QED
  BY <1>1, <1>2, DrawHonest

LEMMA ZeroGood ==
    ASSUME NEW k \in Kinds, NEW w, Honest(3, w)
    PROVE  /\ \A p \in P3 : getNextZero(k, w).z[p] \in Word
           /\ DOMAIN getNextZero(k, w).z = P3
           /\ Honest(3, getNextZero(k, w).r)
<1> DEFINE D == ZeroDraws
           d == Draw(w, D)
<1>1. DOMAIN D = P3 /\ D[0] = <<42, 40>> /\ D[1] = <<40, 41>> /\ D[2] = <<41, 42>>
  BY Get3, Parties3 DEF ZeroDraws
<1>2. /\ getNextZero(k, w).z = [p \in P3 |-> Minus(k, d.v[p][1], d.v[p][2])]
      /\ getNextZero(k, w).r = d.r
  BY DEF getNextZero, P3
<1> HIDE DEF D
<1>3. Honest(3, d.r)
  <2>1. /\ \A g : Calls(D[0], g) = One(42, g) + One(40, g)
        /\ \A g : Calls(D[1], g) = One(40, g) + One(41, g)
        /\ \A g : Calls(D[2], g) = One(41, g) + One(42, g)
    BY <1>1, CallsFew
  <2>2. Run(D[0]) /\ Run(D[1]) /\ Run(D[2])
    BY <1>1, Runs
  <2>3. /\ \A g \in {19, 40} : Calls(D[0], g) = Calls(D[1], g)
        /\ \A g \in {21, 42} : Calls(D[0], g) = Calls(D[2], g)
        /\ \A g \in {22, 41} : Calls(D[1], g) = Calls(D[2], g)
        /\ Calls(D[0], 23) = Calls(D[1], 23) /\ Calls(D[0], 23) = Calls(D[2], 23)
    BY <2>1 DEF One
  <2>4. QED
    BY <1>1, <2>2, <2>3, DrawsHonest3
<1>4. ASSUME NEW p \in P3 PROVE d.v[p][1] \in Word /\ d.v[p][2] \in Word
  <2>1. 1 \in DOMAIN D[p] /\ 2 \in DOMAIN D[p] /\ 1 \in Nat /\ 2 \in Nat /\ 1 - 1 \in Nat /\ 2 - 1 \in Nat
    BY <1>1, Parties3
  <2>2. \A i \in {1, 2} : \E H : <<D[p][i], H>> \in Holders(3) /\ p \in H
    BY <1>1, Common3, Parties3
  <2>3. p \in DOMAIN D
    BY <1>1
  <2>4. QED
    BY <2>1, <2>2, <2>3, DrawWord
<1> HIDE DEF d
<1>5. QED
  BY <1>2, <1>3, <1>4, OperatorTypes

LEMMA MultiplyGood3 ==
    ASSUME NEW k \in Kinds, NEW X, Operands(3, 2, X), NEW Y, Operands(3, 2, Y), Len(X) = Len(Y),
           NEW w, Honest(3, w)
    PROVE  Good(3, 2, Multiply3(k, X, Y, w))
<1> DEFINE zs == getNextZero(k, w)
           f == [p \in P3 |-> Total(k, <<zs.z[p], Prod(k, X, Y, p, 1, 1),
                                         Prod(k, X, Y, p, 1, 2), Prod(k, X, Y, p, 2, 1)>>)]
<1>1. Multiply3(k, X, Y, w) = Result(Replicate(f), zs.r)
  BY DEF Multiply3
<1>2. ASSUME NEW p \in P3, NEW i \in {1, 2}, NEW j \in {1, 2} PROVE Prod(k, X, Y, p, i, j) \in Word
  <2> DEFINE n == 3  rep == 2
  <2>1. /\ n \in Nat /\ rep \in Nat /\ Operands(n, rep, X) /\ Operands(n, rep, Y)
        /\ p \in 0 .. n - 1 /\ i \in 1 .. rep /\ j \in 1 .. rep
    BY Parties3
  <2> HIDE DEF n, rep
  <2>2. QED
    BY <2>1, ProdType
<1>3. ASSUME NEW p \in P3 PROVE f[p] \in Word
  <2> DEFINE a == zs.z[p]  b == Prod(k, X, Y, p, 1, 1)  c == Prod(k, X, Y, p, 1, 2)
             d == Prod(k, X, Y, p, 2, 1)
  <2>1. a \in Word
    BY ZeroGood
  <2>2. b \in Word /\ c \in Word /\ d \in Word
    BY <1>2
  <2>3. f[p] = Total(k, <<a, b, c, d>>)
    OBVIOUS
  <2> HIDE DEF a, b, c, d, f
  <2>4. Plus(k, Plus(k, Plus(k, a, b), c), d) \in Word
    BY <2>1, <2>2, OperatorTypes
  <2>5. QED
    BY <2>1, <2>2, <2>3, <2>4, TotalFour
<1> HIDE DEF f
<1>4. Replicated(3, 2, Replicate(f))
  BY <1>3, Parties3, ReplicateShared
<1>5. QED
  BY <1>1, <1>4, ZeroGood, ResultFields DEF Good

LEMMA Halved3 ==
    ASSUME NEW u, Replicated(3, 2, u)
    PROVE  Halved(u, u[0][1], Wrap(u[1][1] + u[1][2])) /\ Halved(u, Wrap(u[0][1] + u[0][2]), u[2][1])
<1> DEFINE a == u[0][1]  b == u[1][1]  c == u[2][1]
<1>1. "a" \in Kinds
  BY DEF Kinds
<1>2. /\ a \in Word /\ b \in Word /\ c \in Word /\ u[1][2] = c /\ u[0][2] = b
      /\ Reconstruct("a", u) = Plus("a", Plus("a", a, b), c)
  BY <1>1, Shares3, ReconstructSums, Parties3
<1> HIDE DEF a, b, c
<1>3. Wrap(b + c) = Plus("a", b, c) /\ Wrap(a + b) = Plus("a", a, b)
  BY DEF Plus
<1>4. Plus("a", b, c) \in Word /\ Plus("a", a, b) \in Word /\ Plus("a", a, Plus("a", b, c)) = Plus("a", Plus("a", a, b), c)
  BY <1>1, <1>2, PlusAlgebra, OperatorTypes
<1>5. QED
  BY <1>2, <1>3, <1>4 DEF Halved, a, b, c

LEMMA Unmasked ==
    ASSUME NEW k \in Kinds, NEW a \in Word, NEW b \in Word, NEW c \in Word
    PROVE  /\ Plus(k, Plus(k, Minus(k, a, b), b), c) = Plus(k, a, c)
           /\ Plus(k, Plus(k, c, Minus(k, a, b)), b) = Plus(k, c, a)
<1>1. Minus(k, a, b) \in Word /\ Plus(k, Minus(k, a, b), b) = a
  BY RingLaws
<1>2. \A i, j, l \in Word : Plus(k, Plus(k, i, j), l) = Plus(k, i, Plus(k, j, l))
  BY RingLaws
<1>3. QED
  BY <1>1, <1>2

LEMMA TruncateGood3 ==
    ASSUME NEW u, Replicated(3, 2, u), NEW w, Honest(3, w), NEW d \in 0 .. Width
    PROVE  Good(3, 2, truncate_3PC(u, d, w)) /\ Shifted(u, d, truncate_3PC(u, d, w))
<1> DEFINE D == TruncateDraws
           v == Draw(w, D).v
           s == Wrap(ShiftRight(Wrap(u[1][1] + u[1][2]), d) - v[1][1])
           z == [p \in P3 |-> CASE p = 0 -> <<ShiftRight(u[0][1], d), s>>
                                [] p = 1 -> <<s, v[1][1]>>
                                [] p = 2 -> <<v[2][1], ShiftRight(u[2][2], d)>>]
<1>1. DOMAIN D = P3 /\ D[0] = <<>> /\ D[1] = <<41>> /\ D[2] = <<41>>
  BY Get3, Parties3 DEF TruncateDraws
<1>2. truncate_3PC(u, d, w) = Result(z, Draw(w, D).r)
  BY DEF truncate_3PC
<1> HIDE DEF D
<1>3. Honest(3, Draw(w, D).r)
  <2>1. \A g : Calls(D[0], g) = 0 /\ Calls(D[1], g) = One(41, g) /\ Calls(D[2], g) = One(41, g)
    BY <1>1, CallsFew
  <2>2. Run(D[0]) /\ Run(D[1]) /\ Run(D[2])
    BY <1>1, Runs
  <2>3. /\ \A g \in {19, 40} : Calls(D[0], g) = Calls(D[1], g)
        /\ \A g \in {21, 42} : Calls(D[0], g) = Calls(D[2], g)
        /\ \A g \in {22, 41} : Calls(D[1], g) = Calls(D[2], g)
        /\ Calls(D[0], 23) = Calls(D[1], 23) /\ Calls(D[0], 23) = Calls(D[2], 23)
    BY <2>1 DEF One
  <2>4. QED
    BY <1>1, <2>2, <2>3, DrawsHonest3
<1>4. v[1][1] \in Word /\ v[1][1] = v[2][1]
  <2>1. 1 \in DOMAIN D[1] /\ 1 \in DOMAIN D[2] /\ 1 \in DOMAIN D /\ 2 \in DOMAIN D
        /\ D[1][1] = 41 /\ D[2][1] = 41
    BY <1>1, Parties3
  <2>2. <<41, {1, 2}>> \in Holders(3) /\ 1 \in {1, 2} /\ 2 \in {1, 2} /\ 1 - 1 \in Nat
    BY Common3
  <2>3. Count(D[1], 1 - 1, 41) = Count(D[2], 1 - 1, 41)
    BY <1>1
  <2>4. v[1][1] \in Word
    BY <2>1, <2>2, DrawWord
  <2>5. v[1][1] = v[2][1]
    BY <2>1, <2>2, <2>3, DrawSame
  <2>6. QED
    BY <2>4, <2>5
<1> HIDE DEF v
<1>5. /\ ShiftRight(u[0][1], d) \in Word /\ s \in Word
      /\ ShiftRight(u[2][2], d) = ShiftRight(u[0][1], d)
  <2>1. u[0][1] \in Word /\ u[1][1] \in Word /\ u[1][2] \in Word /\ u[2][2] = u[0][1]
    BY Shares3, Parties3
  <2>2. Wrap(u[1][1] + u[1][2]) \in Word
    BY <2>1, SumType
  <2>3. QED
    BY <1>4, <2>1, <2>2, ShiftType, SumType
<1>10. s = Minus("a", ShiftRight(Wrap(u[1][1] + u[1][2]), d), v[1][1]) /\ ShiftRight(Wrap(u[1][1] + u[1][2]), d) \in Word
  <2>1. u[1][1] \in Word /\ u[1][2] \in Word
    BY Shares3, Parties3
  <2>2. Wrap(u[1][1] + u[1][2]) \in Word
    BY <2>1, SumType
  <2>3. QED
    BY <2>2, ShiftType DEF Minus
<1> HIDE DEF s
<1>6. z[0] = <<ShiftRight(u[0][1], d), s>> /\ z[1] = <<s, v[1][1]>> /\ z[2] = <<v[2][1], ShiftRight(u[2][2], d)>>
  BY Parties3
<1>7. z = [p \in P3 |-> <<z[p][1], z[p][2]>>]
  BY Parties3
<1> HIDE DEF z
<1>8. Replicated(3, 2, z)
  BY <1>4, <1>5, <1>6, <1>7, Shared3
<1>9. Reconstruct("a", z) = Plus("a", ShiftRight(u[0][1], d), ShiftRight(Wrap(u[1][1] + u[1][2]), d))
  <2> DEFINE a == ShiftRight(u[0][1], d)  b == ShiftRight(Wrap(u[1][1] + u[1][2]), d)  c == v[1][1]
  <2>1. "a" \in Kinds
    BY DEF Kinds
  <2>2. Reconstruct("a", z) = Plus("a", Plus("a", a, Minus("a", b, c)), c)
    BY <1>4, <1>6, <1>8, <1>10, <2>1, ReconstructSums
  <2>3. a \in Word /\ b \in Word /\ c \in Word
    BY <1>4, <1>5, <1>10
  <2> HIDE DEF a, b, c
  <2>4. Reconstruct("a", z) = Plus("a", a, b)
    BY <2>1, <2>2, <2>3, Unmasked
  <2>5. QED
    BY <2>4 DEF a, b
<1>11. QED
  BY <1>2, <1>3, <1>8, <1>9, Halved3, ResultFields DEF Good, Shifted

LEMMA DivGood3 ==
    ASSUME NEW u, Replicated(3, 2, u), NEW w, Honest(3, w), NEW c \in Nat, c > 0
    PROVE  GoodTwo(3, 2, div_const_3PC(u, c, w)) /\ Divided(u, c, div_const_3PC(u, c, w))
<1> DEFINE D == [p \in P3 |-> CASE p = 0 -> <<get(3, p, 1), get(3, p, 1)>>
                                [] p = 1 -> <<get(3, p, -1), get(3, p, -1)>>
                                [] p = 2 -> <<>>]
           v == Draw(w, D).v
           s == Wrap(u[0][1] + u[0][2])
           res == [p \in P3 |-> CASE p = 0 -> Wrap(HalfQuotient(s, c) - v[0][1])
                                  [] p = 1 -> v[1][1]
                                  [] p = 2 -> HalfQuotient(u[2][1], c)]
           err == [p \in P3 |-> CASE p = 0 -> Wrap(HalfRemainder(s, c) - v[0][2])
                                  [] p = 1 -> v[1][2]
                                  [] p = 2 -> Wrap(HalfRemainder(u[2][1], c) - c)]
<1>1. DOMAIN D = P3 /\ D[0] = <<40, 40>> /\ D[1] = <<40, 40>> /\ D[2] = <<>>
  BY Get3, Parties3
<1>2. div_const_3PC(u, c, w) = Two(Replicate(res), Replicate(err), Draw(w, D).r)
  BY DEF div_const_3PC
<1> HIDE DEF D
<1>3. Honest(3, Draw(w, D).r)
  <2>1. \A g : /\ Calls(D[0], g) = One(40, g) + One(40, g) /\ Calls(D[1], g) = One(40, g) + One(40, g)
               /\ Calls(D[2], g) = 0
    BY <1>1, CallsFew
  <2>2. Run(D[0]) /\ Run(D[1]) /\ Run(D[2])
    BY <1>1, Runs
  <2>3. /\ \A g \in {19, 40} : Calls(D[0], g) = Calls(D[1], g)
        /\ \A g \in {21, 42} : Calls(D[0], g) = Calls(D[2], g)
        /\ \A g \in {22, 41} : Calls(D[1], g) = Calls(D[2], g)
        /\ Calls(D[0], 23) = Calls(D[1], 23) /\ Calls(D[0], 23) = Calls(D[2], 23)
    BY <2>1 DEF One
  <2>4. QED
    BY <1>1, <2>2, <2>3, DrawsHonest3
<1>4. ASSUME NEW p \in {0, 1}, NEW i \in {1, 2} PROVE v[p][i] \in Word
  <2>1. p \in DOMAIN D /\ i \in DOMAIN D[p] /\ i \in Nat /\ i - 1 \in Nat /\ D[p][i] = 40
    BY <1>1, Parties3
  <2>2. <<40, {0, 1}>> \in Holders(3)
    BY Common3
  <2>3. QED
    BY <2>1, <2>2, DrawWord
<1>11. v[0][1] = v[1][1] /\ v[0][2] = v[1][2]
  <2>1. /\ 0 \in DOMAIN D /\ 1 \in DOMAIN D /\ 1 \in DOMAIN D[0] /\ 2 \in DOMAIN D[0] /\ 1 \in DOMAIN D[1]
        /\ 2 \in DOMAIN D[1] /\ D[0][1] = 40 /\ D[1][1] = 40 /\ D[0][2] = 40 /\ D[1][2] = 40
    BY <1>1, Parties3
  <2>2. <<40, {0, 1}>> \in Holders(3) /\ 0 \in {0, 1} /\ 1 \in {0, 1}
    BY Common3
  <2>3. \A i : Count(D[0], i - 1, 40) = Count(D[1], i - 1, 40)
    BY <1>1
  <2>4. v[0][1] = v[1][1]
    BY <2>1, <2>2, <2>3, DrawSame
  <2>5. v[0][2] = v[1][2]
    BY <2>1, <2>2, <2>3, DrawSame
  <2>6. QED
    BY <2>4, <2>5
<1> HIDE DEF v
<1>13. Halved(u, s, u[2][1])
  BY Halved3
<1>5. s \in Word /\ u[2][1] \in Word
  BY Shares3, Parties3, SumType
<1> HIDE DEF s
<1>6. HalfQuotient(s, c) \in Word /\ HalfRemainder(s, c) \in Word /\ HalfQuotient(u[2][1], c) \in Word
      /\ Wrap(HalfRemainder(u[2][1], c) - c) \in Word
  <2>1. c \in Int
    OBVIOUS
  <2>2. QED
    BY ONLY c \in Nat, c > 0, <1>5, <2>1, HalfTypes
<1>7. /\ res[0] = Wrap(HalfQuotient(s, c) - v[0][1]) /\ res[1] = v[1][1] /\ res[2] = HalfQuotient(u[2][1], c)
      /\ err[0] = Wrap(HalfRemainder(s, c) - v[0][2]) /\ err[1] = v[1][2]
      /\ err[2] = Wrap(HalfRemainder(u[2][1], c) - c)
  BY Parties3
<1> HIDE DEF res, err
<1>8. /\ res[0] \in Word /\ res[1] \in Word /\ res[2] \in Word
      /\ err[0] \in Word /\ err[1] \in Word /\ err[2] \in Word
  BY <1>4, <1>6, <1>7, SumType
<1>9. Replicated(3, 2, Replicate(res)) /\ Replicated(3, 2, Replicate(err))
  BY <1>8, ReplicateShared
<1>10. /\ Reconstruct("a", Replicate(res)) = Plus("a", HalfQuotient(s, c), HalfQuotient(u[2][1], c))
       /\ Reconstruct("a", Replicate(err)) = Plus("a", HalfRemainder(s, c), Wrap(HalfRemainder(u[2][1], c) - c))
  <2> DEFINE q == HalfQuotient(s, c)  i == v[0][1]  e == HalfRemainder(s, c)  j == v[0][2]
             o == HalfQuotient(u[2][1], c)  l == Wrap(HalfRemainder(u[2][1], c) - c)
  <2>1. "a" \in Kinds
    BY DEF Kinds
  <2>2. /\ res[0] = Minus("a", q, i) /\ res[1] = i /\ res[2] = o /\ err[0] = Minus("a", e, j) /\ err[1] = j /\ err[2] = l
    BY <1>7, <1>11 DEF Minus
  <2>3. q \in Word /\ i \in Word /\ e \in Word /\ j \in Word /\ o \in Word /\ l \in Word
    BY <1>4, <1>6
  <2> HIDE DEF q, i, e, j, o, l
  <2>4. \A f : Replicate(f)[0][1] = f[0] /\ Replicate(f)[1][1] = f[1] /\ Replicate(f)[2][1] = f[2]
    BY Parties3 DEF Replicate
  <2>5. Reconstruct("a", Replicate(res)) = Plus("a", Plus("a", Minus("a", q, i), i), o)
    BY <1>9, <2>1, <2>2, <2>4, ReconstructSums
  <2>6. Reconstruct("a", Replicate(err)) = Plus("a", Plus("a", Minus("a", e, j), j), l)
    BY <1>9, <2>1, <2>2, <2>4, ReconstructSums
  <2>7. Reconstruct("a", Replicate(res)) = Plus("a", q, o) /\ Reconstruct("a", Replicate(err)) = Plus("a", e, l)
    BY <2>1, <2>3, <2>5, <2>6, Unmasked
  <2>8. QED
    BY <2>7 DEF q, e, o, l
<1>12. QED
  BY <1>2, <1>3, <1>9, <1>10, <1>13, ResultFields DEF GoodTwo, Divided

LEMMA NotGood3 ==
    ASSUME NEW u, Replicated(3, 2, u)
    PROVE  Replicated(3, 2, not_b_3PC(u)) /\ Replicated(3, 2, not_b_1_3PC(u))
<1>1. ASSUME NEW f \in [Word -> Word]
      PROVE  Replicated(3, 2, [p \in P3 |-> [i \in 1 .. 2 |-> f[u[p][i]]]])
  <2> DEFINE z == [p \in P3 |-> [i \in 1 .. 2 |-> f[u[p][i]]]]
  <2>1. \A p \in P3 : z[p] = <<f[u[p][1]], f[u[p][2]]>>
    OBVIOUS
  <2>2. z = [p \in P3 |-> <<z[p][1], z[p][2]>>]
    BY <2>1
  <2> HIDE DEF z
  <2>3. /\ z[0][1] = f[u[0][1]] /\ z[1][1] = f[u[1][1]] /\ z[2][1] = f[u[2][1]]
        /\ z[0][2] = f[u[0][2]] /\ z[1][2] = f[u[1][2]] /\ z[2][2] = f[u[2][2]]
    BY <2>1, Parties3
  <2>4. /\ u[0][1] \in Word /\ u[1][1] \in Word /\ u[2][1] \in Word
        /\ u[0][2] = u[1][1] /\ u[1][2] = u[2][1] /\ u[2][2] = u[0][1]
    BY Shares3, Parties3
  <2>5. Replicated(3, 2, z)
    BY <1>1, <2>2, <2>3, <2>4, Shared3
  <2>6. QED
    BY <2>5 DEF z
<1>2. \A p \in P3 : \A i \in 1 .. 2 : u[p][i] \in Word
  BY Shares3
<1>3. Replicated(3, 2, not_b_3PC(u))
  <2> DEFINE f == [a \in Word |-> BitNot(a)]
  <2>1. f \in [Word -> Word] /\ \A a \in Word : f[a] = BitNot(a)
    BY NotTypes
  <2> HIDE DEF f
  <2>2. not_b_3PC(u) = [p \in P3 |-> [i \in 1 .. 2 |-> f[u[p][i]]]]
    BY <1>2, <2>1 DEF not_b_3PC
  <2>3. QED
    BY <1>1, <2>1, <2>2
<1>4. Replicated(3, 2, not_b_1_3PC(u))
  <2> DEFINE f == [a \in Word |-> LogicalNot(LowBit(a))]
  <2>1. f \in [Word -> Word] /\ \A a \in Word : f[a] = LogicalNot(LowBit(a))
    BY NotTypes, LowBitType
  <2> HIDE DEF f
  <2>2. not_b_1_3PC(u) = [p \in P3 |-> [i \in 1 .. 2 |-> f[u[p][i]]]]
    BY <1>2, <2>1 DEF not_b_1_3PC
  <2>3. QED
    BY <1>1, <2>1, <2>2
<1>5. QED
  BY <1>3, <1>4

LEMMA MasksXorAway ==
    ASSUME NEW a \in Word, NEW b \in Word, NEW c \in Word
    PROVE  LET m == Plus("b", Plus("b", a, b), c) IN
           Plus("b", Plus("b", m, b), c) = a /\ Plus("b", Plus("b", b, c), m) = a
<1>1. \A i, j : Plus("b", i, j) = BitXor(i, j)
  BY DEF Plus
<1>2. \A i, j \in Word : /\ BitXor(i, j) \in Word /\ BitXor(i, j) = BitXor(j, i)
                         /\ BitXor(BitXor(i, j), j) = i
  BY XorBits, XorAlgebra
<1>3. \A i, j, l \in Word : BitXor(BitXor(i, j), l) = BitXor(i, BitXor(j, l))
  BY XorAlgebra
<1> DEFINE d == BitXor(b, c)
<1>4. d \in Word /\ BitXor(BitXor(a, b), c) = BitXor(a, d)
  BY <1>2, <1>3
<1>5. BitXor(BitXor(BitXor(a, d), b), c) = BitXor(BitXor(a, d), d) /\ BitXor(a, d) \in Word
  <2>1. BitXor(a, d) \in Word
    BY <1>2, <1>4
  <2> DEFINE e == BitXor(a, d)
  <2> HIDE DEF e
  <2>2. e \in Word
    BY <2>1 DEF e
  <2>3. BitXor(BitXor(e, b), c) = BitXor(e, d)
    BY <1>3, <2>2
  <2>4. QED
    BY <2>1, <2>3 DEF e
<1> HIDE DEF d
<1>6. BitXor(BitXor(a, d), d) = a /\ BitXor(d, BitXor(a, d)) = a
  BY <1>2, <1>4, <1>5
<1>7. QED
  BY <1>1, <1>4, <1>5, <1>6 DEF d

LEMMA RedistributeGood3 ==
    ASSUME NEW u, Replicated(3, 2, u), NEW w, Honest(3, w)
    PROVE  GoodTwo(3, 2, redistribute_3PC(u, w)) /\ SplitInTwo(u, redistribute_3PC(u, w))
<1> DEFINE D == RedistributeDraws(GroupPRG(P3))
           v == Draw(w, D).v
           u0 == Total("b", <<Wrap(u[0][1] + u[0][2]), v[0][1], v[0][2]>>)
           w2 == Total("b", <<u[2][1], v[2][2], v[2][3]>>)
           a == [p \in P3 |-> CASE p = 0 -> <<u0, v[0][1]>>
                                [] p = 1 -> <<v[1][1], v[1][2]>>
                                [] p = 2 -> <<v[2][1], u0>>]
           b == [p \in P3 |-> CASE p = 0 -> <<v[0][3], v[0][4]>>
                                [] p = 1 -> <<v[1][3], w2>>
                                [] p = 2 -> <<w2, v[2][2]>>]
<1>1. /\ DOMAIN D = P3 /\ D[0] = <<40, 23, 42, 23>> /\ D[1] = <<40, 23, 23>> /\ D[2] = <<23, 42, 23>>
  <2>1. GroupPRG(P3) = 23
    BY GroupNumbers, Parties3
  <2>2. QED
    BY <2>1, Get3, Parties3 DEF RedistributeDraws
<1>2. redistribute_3PC(u, w) = Two(a, b, Draw(w, D).r)
  BY DEF redistribute_3PC
<1> HIDE DEF D
<1>3. Honest(3, Draw(w, D).r)
  <2>1. \A g : /\ Calls(D[0], g) = One(40, g) + One(23, g) + One(42, g) + One(23, g)
               /\ Calls(D[1], g) = One(40, g) + One(23, g) + One(23, g)
               /\ Calls(D[2], g) = One(23, g) + One(42, g) + One(23, g)
    BY <1>1, CallsFew
  <2>2. Run(D[0]) /\ Run(D[1]) /\ Run(D[2])
    BY <1>1, Runs
  <2>3. /\ \A g \in {19, 40} : Calls(D[0], g) = Calls(D[1], g)
        /\ \A g \in {21, 42} : Calls(D[0], g) = Calls(D[2], g)
        /\ \A g \in {22, 41} : Calls(D[1], g) = Calls(D[2], g)
        /\ Calls(D[0], 23) = Calls(D[1], 23) /\ Calls(D[0], 23) = Calls(D[2], 23)
    BY <2>1 DEF One
  <2>4. QED
    BY <1>1, <2>2, <2>3, DrawsHonest3
<1>4. /\ 0 \in DOMAIN D /\ 1 \in DOMAIN D /\ 2 \in DOMAIN D
      /\ DOMAIN D[0] = 1 .. 4 /\ DOMAIN D[1] = 1 .. 3 /\ DOMAIN D[2] = 1 .. 3
      /\ D[0][1] = 40 /\ D[0][2] = 23 /\ D[0][3] = 42 /\ D[0][4] = 23
      /\ D[1][1] = 40 /\ D[1][2] = 23 /\ D[1][3] = 23
      /\ D[2][1] = 23 /\ D[2][2] = 42 /\ D[2][3] = 23
  BY <1>1, Parties3
<1>5. ASSUME NEW p \in P3, NEW i \in DOMAIN D[p] PROVE v[p][i] \in Word
  <2>1. p \in DOMAIN D /\ i \in Nat /\ i - 1 \in Nat
    BY <1>4, Parties3
  <2>2. \E H : <<D[p][i], H>> \in Holders(3) /\ p \in H
    BY <1>4, Common3, Parties3
  <2>3. QED
    BY <2>1, <2>2, DrawWord
<1>6. /\ v[0][1] = v[1][1] /\ v[1][2] = v[2][1] /\ v[0][4] = v[1][3] /\ v[2][2] = v[0][3]
      /\ v[0][2] = v[2][1] /\ v[2][3] = v[1][3]
  <2>1. \A p \in P3 : \A g : /\ Count(D[p], 0, g) = 0 /\ Count(D[p], 1, g) = One(D[p][1], g)
                             /\ Count(D[p], 2, g) = One(D[p][1], g) + One(D[p][2], g)
                             /\ Count(D[p], 3, g) = One(D[p][1], g) + One(D[p][2], g) + One(D[p][3], g)
    BY CountFew
  <2>2. /\ Count(D[0], 1 - 1, 40) = Count(D[1], 1 - 1, 40)
        /\ Count(D[1], 2 - 1, 23) = Count(D[2], 1 - 1, 23)
        /\ Count(D[0], 4 - 1, 23) = Count(D[1], 3 - 1, 23)
        /\ Count(D[2], 2 - 1, 42) = Count(D[0], 3 - 1, 42)
        /\ Count(D[0], 2 - 1, 23) = Count(D[2], 1 - 1, 23)
        /\ Count(D[2], 3 - 1, 23) = Count(D[1], 3 - 1, 23)
    BY <1>4, <2>1, Parties3 DEF One
  <2>3. <<40, {0, 1}>> \in Holders(3) /\ <<23, {0, 1, 2}>> \in Holders(3) /\ <<42, {2, 0}>> \in Holders(3)
    BY Common3
  <2>4. v[0][1] = v[1][1]
    BY <1>4, <2>2, <2>3, DrawSame
  <2>5. v[1][2] = v[2][1]
    BY <1>4, <2>2, <2>3, DrawSame
  <2>6. v[0][4] = v[1][3]
    BY <1>4, <2>2, <2>3, DrawSame
  <2>7. v[2][2] = v[0][3]
    BY <1>4, <2>2, <2>3, DrawSame
  <2>8. v[0][2] = v[2][1]
    BY <1>4, <2>2, <2>3, DrawSame
  <2>9. v[2][3] = v[1][3]
    BY <1>4, <2>2, <2>3, DrawSame
  <2>10. QED
    BY <2>4, <2>5, <2>6, <2>7, <2>8, <2>9
<1>7. /\ v[0][1] \in Word /\ v[0][2] \in Word /\ v[0][3] \in Word /\ v[0][4] \in Word
      /\ v[1][1] \in Word /\ v[1][2] \in Word /\ v[1][3] \in Word
      /\ v[2][1] \in Word /\ v[2][2] \in Word /\ v[2][3] \in Word
  BY <1>4, <1>5, Parties3
<1> HIDE DEF v
<1>8. "b" \in Kinds /\ Wrap(u[0][1] + u[0][2]) \in Word /\ u[2][1] \in Word
  BY Shares3, SumType, Parties3 DEF Kinds
<1>9. u0 \in Word /\ w2 \in Word
  <2>1. ASSUME NEW i \in Word, NEW j \in Word, NEW l \in Word PROVE Total("b", <<i, j, l>>) \in Word
    <3>1. Plus("b", Plus("b", i, j), l) \in Word
      BY <1>8, OperatorTypes
    <3>2. QED
      BY <1>8, <3>1, TotalThree
  <2>2. QED
    BY <1>7, <1>8, <2>1
<1>13. /\ u0 = Plus("b", Plus("b", Wrap(u[0][1] + u[0][2]), v[0][1]), v[0][2])
       /\ w2 = Plus("b", Plus("b", u[2][1], v[2][2]), v[2][3])
  BY <1>7, <1>8, TotalThree
<1> HIDE DEF u0, w2
<1>10. Replicated(3, 2, a) /\ Reconstruct("b", a) = Wrap(u[0][1] + u[0][2])
  <2>1. a[0] = <<u0, v[0][1]>> /\ a[1] = <<v[1][1], v[1][2]>> /\ a[2] = <<v[2][1], u0>>
    BY Parties3
  <2>2. a = [p \in P3 |-> <<a[p][1], a[p][2]>>]
    BY Parties3
  <2> HIDE DEF a
  <2>3. Replicated(3, 2, a)
    BY <1>6, <1>7, <1>9, <2>1, <2>2, Shared3
  <2>4. Reconstruct("b", a) = Plus("b", Plus("b", u0, v[0][1]), v[0][2])
    BY <1>6, <1>8, <2>1, <2>3, ReconstructSums
  <2>5. QED
    BY <1>7, <1>8, <1>13, <2>3, <2>4, MasksXorAway
<1>11. Replicated(3, 2, b) /\ Reconstruct("b", b) = u[2][1]
  <2>1. b[0] = <<v[0][3], v[0][4]>> /\ b[1] = <<v[1][3], w2>> /\ b[2] = <<w2, v[2][2]>>
    BY Parties3
  <2>2. b = [p \in P3 |-> <<b[p][1], b[p][2]>>]
    BY Parties3
  <2> HIDE DEF b
  <2>3. Replicated(3, 2, b)
    BY <1>6, <1>7, <1>9, <2>1, <2>2, Shared3
  <2>4. Reconstruct("b", b) = Plus("b", Plus("b", v[2][2], v[2][3]), w2)
    BY <1>6, <1>8, <2>1, <2>3, ReconstructSums
  <2>5. QED
    BY <1>7, <1>8, <1>13, <2>3, <2>4, MasksXorAway
<1> HIDE DEF a, b
<1>12. QED
  BY <1>2, <1>3, <1>10, <1>11, Halved3, ResultFields DEF GoodTwo, SplitInTwo

LEMMA ShareGood3 ==
    ASSUME NEW k \in Kinds, NEW x \in Word, NEW who \in P3, NEW w, Honest(3, w)
    PROVE  /\ Good(3, 2, secret_share_3PC(k, x, who, w))
           /\ Reconstruct(k, secret_share_3PC(k, x, who, w).z) = x
<1> DEFINE D == [p \in P3 |-> IF p = who THEN <<localPRG(p), localPRG(p)>> ELSE <<>>]
           s == Draw(w, D).v[who]
           t == Append(s, Minus(k, x, Total(k, s)))
           z == [p \in P3 |-> LET i == (p - who) % 3 IN <<t[i + 1], t[((i + 1) % 3) + 1]>>]
<1>1. secret_share_3PC(k, x, who, w) = Result(z, Draw(w, D).r)
  BY DEF secret_share_3PC
<1>2. DOMAIN D = P3 /\ D[who] = <<who, who>> /\ \A p \in P3 : p # who => D[p] = <<>>
  BY DEF localPRG
<1> HIDE DEF D
<1>3. Honest(3, Draw(w, D).r)
  <2>1. ASSUME NEW p \in P3, NEW g \in Nat, g > 10 PROVE Calls(D[p], g) = 0 /\ Run(D[p])
    <3>1. One(who, g) = 0
      BY <2>1, Parties3 DEF One
    <3>2. Calls(<<>>, g) = 0 /\ Calls(<<who, who>>, g) = 0 /\ Run(<<>>) /\ Run(<<who, who>>)
      BY <3>1, CallsFew, Runs
    <3>3. QED
      BY <1>2, <3>2
  <2>2. Run(D[0]) /\ Run(D[1]) /\ Run(D[2])
    BY <2>1, Parties3
  <2>3. /\ \A g \in {19, 40} : Calls(D[0], g) = Calls(D[1], g)
        /\ \A g \in {21, 42} : Calls(D[0], g) = Calls(D[2], g)
        /\ \A g \in {22, 41} : Calls(D[1], g) = Calls(D[2], g)
        /\ Calls(D[0], 23) = Calls(D[1], 23) /\ Calls(D[0], 23) = Calls(D[2], 23)
    BY <2>1, Parties3
  <2>4. QED
    BY <1>2, <2>2, <2>3, DrawsHonest3
<1>4. s \in [1 .. 2 -> Word]
  <2>1. DOMAIN s = 1 .. 2 /\ s = [i \in 1 .. 2 |-> s[i]]
    BY <1>2 DEF Draw
  <2>2. ASSUME NEW i \in 1 .. 2 PROVE s[i] \in Word
    <3>1. who \in DOMAIN D /\ i \in DOMAIN D[who] /\ i \in Nat /\ i - 1 \in Nat /\ D[who][i] = who
      BY <1>2
    <3>2. <<who, {who}>> \in Holders(3)
      BY Common3
    <3>3. QED
      BY <3>1, <3>2, DrawWord
  <2>3. QED
    BY <2>1, <2>2
<1> HIDE DEF s
<1>5. t[1] \in Word /\ t[2] \in Word /\ t[3] \in Word
  <2> DEFINE m == 2
  <2>1. m \in Nat /\ s \in [1 .. m -> Word]
    BY <1>4
  <2> HIDE DEF m
  <2>2. t \in [1 .. m + 1 -> Word]
    BY <2>1, CompleteWords
  <2> HIDE DEF t
  <2>3. m + 1 = 3
    BY DEF m
  <2>4. QED
    BY <2>2, <2>3
<1>51. Sum3(k, t[1], t[2], t[3]) = x
  BY ONLY k \in Kinds, x \in Word, <1>4, CompleteSums
<1> HIDE DEF t
<1>6. z = [p \in P3 |-> <<z[p][1], z[p][2]>>]
  OBVIOUS
<1>7. \A p \in P3 : z[p] = <<t[((p - who) % 3) + 1], t[((((p - who) % 3) + 1) % 3) + 1]>>
  OBVIOUS
<1>8. \A p \in P3 : (p - who) % 3 \in 0 .. 2
  BY Parties3
<1>9. /\ (((0 - who) % 3) + 1) % 3 = (1 - who) % 3
      /\ (((1 - who) % 3) + 1) % 3 = (2 - who) % 3
      /\ (((2 - who) % 3) + 1) % 3 = (0 - who) % 3
  BY Parties3
<1> HIDE DEF z
<1>10. z[0][2] = z[1][1] /\ z[1][2] = z[2][1] /\ z[2][2] = z[0][1]
  BY <1>7, <1>9, Parties3
<1>11. z[0][1] \in Word /\ z[1][1] \in Word /\ z[2][1] \in Word
  <2>1. \A i \in 0 .. 2 : t[i + 1] \in Word
    BY <1>5
  <2>2. QED
    BY <1>7, <1>8, <2>1, Parties3
<1>12. Replicated(3, 2, z)
  BY <1>6, <1>10, <1>11, Shared3
<1>13. Reconstruct(k, z) = x
  <2>1. Reconstruct(k, z) = Sum3(k, z[0][1], z[1][1], z[2][1])
    BY <1>12, Values
  <2>2. /\ z[0][1] = t[((0 - who) % 3) + 1] /\ z[1][1] = t[((1 - who) % 3) + 1]
        /\ z[2][1] = t[((2 - who) % 3) + 1]
    BY <1>7, Parties3
  <2>3. /\ Sum3(k, t[2], t[3], t[1]) = Sum3(k, t[1], t[2], t[3])
        /\ Sum3(k, t[3], t[1], t[2]) = Sum3(k, t[1], t[2], t[3])
    BY <1>5, Sum3Turn DEF Trio
  <2>4. CASE who = 0
    <3>1. (0 - who) % 3 = 0 /\ (1 - who) % 3 = 1 /\ (2 - who) % 3 = 2
      BY <2>4
    <3>2. QED
      BY <1>51, <2>1, <2>2, <3>1
  <2>5. CASE who = 1
    <3>1. (0 - who) % 3 = 2 /\ (1 - who) % 3 = 0 /\ (2 - who) % 3 = 1
      <4>1. 1 - who = 0 /\ 0 % 3 = 0 /\ (0 + 1) % 3 = 1 /\ (1 + 1) % 3 = 2
        BY <2>5
      <4>2. QED
        BY <1>9, <4>1
    <3>2. QED
      BY <1>51, <2>1, <2>2, <2>3, <3>1
  <2>6. CASE who = 2
    <3>1. (0 - who) % 3 = 1 /\ (1 - who) % 3 = 2 /\ (2 - who) % 3 = 0
      <4>1. 2 - who = 0 /\ 0 % 3 = 0 /\ (0 + 1) % 3 = 1 /\ (1 + 1) % 3 = 2
        BY <2>6
      <4>2. QED
        BY <1>9, <4>1
    <3>2. QED
      BY <1>51, <2>1, <2>2, <2>3, <3>1
  <2>7. QED
    BY <2>4, <2>5, <2>6, Parties3
<1>14. QED
  BY <1>1, <1>3, <1>12, <1>13, ResultFields DEF Good

LEMMA PublicShared3 ==
    ASSUME NEW v \in Word, NEW knows \in {{}, {0, 1}, {0, 2}, {1, 2}}
    PROVE  Replicated(3, 2, public_share_3PC(v, knows))
<1>1. ASSUME NEW h PROVE Replicated(3, 2, PublicShare3(v, h))
  <2> DEFINE z == PublicShare3(v, h)
             f == [p \in P3 |-> IF p = h THEN v ELSE 0]
  <2>1. (0 + 1) % 3 = 1 /\ (1 + 1) % 3 = 2 /\ (2 + 1) % 3 = 0
    OBVIOUS
  <2>2. \A p \in P3 : (p + 1) % 3 \in P3
    BY <2>1, Parties3
  <2>3. z = Replicate(f)
    BY <2>2 DEF PublicShare3, Replicate
  <2>4. f[0] \in Word /\ f[1] \in Word /\ f[2] \in Word
    BY ZeroWord, Parties3
  <2> HIDE DEF z, f
  <2>5. QED
    BY <2>3, <2>4, ReplicateShared DEF z
<1>2. QED
  BY <1>1 DEF public_share_3PC

(* Resharing to e: share e comes from its predecessor and share e + 1 from *)
(* its successor, the only members of the group that hold them.            *)
LEMMA Canonical3 ==
    ASSUME NEW e \in P3, NEW a \in P3, a = (e + 2) % 3, NEW b \in P3, b = (e + 1) % 3
    PROVE  /\ Canonical(3, 2, P3 \ {e}, e) = a
           /\ Canonical(3, 2, P3 \ {e}, b) = b
           /\ Holds(3, 2, e)[1] = e /\ Holds(3, 2, e)[2] = b
           /\ Holds(3, 2, a)[1] = a /\ Holds(3, 2, a)[2] = e
           /\ Holds(3, 2, b)[1] = b /\ Holds(3, 2, b)[2] = a
           /\ a # b /\ a # e /\ b # e /\ P3 \ {e} = {a, b}
<1>1. /\ Holds(3, 2, e)[1] = e /\ Holds(3, 2, e)[2] = b
      /\ Holds(3, 2, a)[1] = a /\ Holds(3, 2, a)[2] = e
      /\ Holds(3, 2, b)[1] = b /\ Holds(3, 2, b)[2] = a
  <2>1. \A p \in P3 : Holds(3, 2, p)[1] = p /\ Holds(3, 2, p)[2] = (p + 1) % 3
    <3>1. ASSUME NEW p \in P3 PROVE Holds(3, 2, p)[1] = p /\ Holds(3, 2, p)[2] = (p + 1) % 3
      <4>1. (p + 1 - 1) % 3 = p /\ (p + 2 - 1) % 3 = (p + 1) % 3
        BY Parties3
      <4>2. QED
        BY <4>1 DEF Holds
    <3>2. QED
      BY <3>1
  <2>2. (a + 1) % 3 = e /\ (b + 1) % 3 = a
    BY Parties3
  <2>3. QED
    BY <2>1, <2>2
<1>2. a # b /\ a # e /\ b # e /\ P3 \ {e} = {a, b}
  BY Parties3
<1>3. ASSUME NEW s, NEW q \in {a, b}, \E i \in 1 .. 2 : Holds(3, 2, q)[i] = s,
             \A t \in {a, b} : (\E i \in 1 .. 2 : Holds(3, 2, t)[i] = s) => t = q
      PROVE  Canonical(3, 2, P3 \ {e}, s) = q
  <2> DEFINE C(t) == /\ \E i \in 1 .. 2 : Holds(3, 2, t)[i] = s
                     /\ \A g \in {a, b} : g < t => \A i \in 1 .. 2 : Holds(3, 2, g)[i] # s
  <2>1. Canonical(3, 2, P3 \ {e}, s) = CHOOSE t \in {a, b} : C(t)
    BY <1>2 DEF Canonical
  <2>2. C(q)
    BY <1>3, Parties3
  <2>3. \A t \in {a, b} : C(t) => t = q
    BY <1>3
  <2> HIDE DEF C
  <2>4. QED
    BY <1>3, <2>1, <2>2, <2>3
<1>4. Canonical(3, 2, P3 \ {e}, e) = a
  BY <1>1, <1>2, <1>3
<1>5. Canonical(3, 2, P3 \ {e}, b) = b
  BY <1>1, <1>2, <1>3
<1>6. QED
  BY <1>1, <1>2, <1>4, <1>5

LEMMA Received3 ==
    ASSUME NEW e \in P3, NEW w, NEW a \in P3, a = (e + 2) % 3, NEW b \in P3, b = (e + 1) % 3
    PROVE  Received(3, 2, P3 \ {e}, e, w) = <<w[a][2], w[b][1]>>
<1> DEFINE G == P3 \ {e}
           from == [i \in 1 .. 2 |-> Canonical(3, 2, G, Holds(3, 2, e)[i])]
           nth(i) == Cardinality({j \in 1 .. i : from[j] = from[i]})
           wanted(q) == {i \in 1 .. 2 : Canonical(3, 2, G, Holds(3, 2, e)[i]) = q}
           pick(q, m) == CHOOSE i \in wanted(q) : Cardinality({j \in wanted(q) : j <= i}) = m
           at(q, s) == CHOOSE j \in 1 .. 2 : Holds(3, 2, q)[j] = s
<1>2. Received(3, 2, G, e, w) = [i \in 1 .. 2 |-> w[from[i]][SendList(3, 2, G, from[i], e)[nth(i)]]]
  BY DEF Received
<1>3. \A q : SendList(3, 2, G, q, e) = [m \in 1 .. Cardinality(wanted(q)) |-> at(q, Holds(3, 2, e)[pick(q, m)])]
  BY DEF SendList
<1>4. /\ Canonical(3, 2, G, e) = a /\ Canonical(3, 2, G, b) = b
      /\ Holds(3, 2, e)[1] = e /\ Holds(3, 2, e)[2] = b
      /\ Holds(3, 2, a)[1] = a /\ Holds(3, 2, a)[2] = e
      /\ Holds(3, 2, b)[1] = b /\ Holds(3, 2, b)[2] = a
      /\ a # b /\ a # e /\ b # e
  BY Canonical3
<1> HIDE DEF G
<1>5. from[1] = a /\ from[2] = b
  BY <1>4
<1>6. wanted(a) = {1} /\ wanted(b) = {2}
  BY <1>4
<1>7. nth(1) = 1 /\ nth(2) = 1
  <2>1. {j \in 1 .. 1 : from[j] = from[1]} = {1} /\ {j \in 1 .. 2 : from[j] = from[2]} = {2}
    BY <1>4, <1>5
  <2>2. QED
    BY <2>1, FS_Singleton
<1> HIDE DEF from, wanted
<1>8. pick(a, 1) = 1 /\ pick(b, 1) = 2
  <2>1. {j \in wanted(a) : j <= 1} = {1} /\ {j \in wanted(b) : j <= 2} = {2}
    BY <1>6
  <2>2. Cardinality({j \in wanted(a) : j <= 1}) = 1 /\ Cardinality({j \in wanted(b) : j <= 2}) = 1
    BY <2>1, FS_Singleton
  <2>3. QED
    BY <1>6, <2>2
<1>9. Cardinality(wanted(a)) = 1 /\ Cardinality(wanted(b)) = 1
  BY <1>6, FS_Singleton
<1>10. at(a, e) = 2 /\ at(b, b) = 1
  BY <1>4
<1> HIDE DEF pick, at, nth
<1>11. SendList(3, 2, G, a, e)[1] = 2 /\ SendList(3, 2, G, b, e)[1] = 1
  BY <1>3, <1>4, <1>8, <1>9, <1>10
<1> DEFINE y(i) == w[from[i]][SendList(3, 2, G, from[i], e)[nth(i)]]
<1>12. y(1) = w[a][2] /\ y(2) = w[b][1]
  BY <1>5, <1>7, <1>11
<1>13. Received(3, 2, G, e, w) = [i \in 1 .. 2 |-> y(i)]
  BY <1>2
<1> HIDE DEF y
<1>14. [i \in 1 .. 2 |-> y(i)] = <<y(1), y(2)>>
  OBVIOUS
<1>15. QED
  BY <1>12, <1>13, <1>14 DEF G

LEMMA KeptAdded ==
    ASSUME NEW n, NEW k, NEW u, NEW G, NEW R, NEW z, AddsZero(n, k, u, G, R), \A p \in G : z[p] = R[p]
    PROVE  AddsZero(n, k, u, G, z)
  BY DEF AddsZero, AddedTo

LEMMA ReshareGood3 ==
    ASSUME NEW k \in Kinds, NEW u, Replicated(3, 2, u), NEW G \in Groups(3), NEW w, Honest(3, w)
    PROVE  Good(3, 2, reshare(3, k, u, G, w)) /\ AddsZero(3, k, u, G, reshare(3, k, u, G, w).z)
<1>0. PICK e \in P3 : G = P3 \ {e}
  <2>1. G \in {{0, 1}, {0, 2}, {1, 2}}
    BY DEF Groups
  <2>2. P3 \ {0} = {1, 2} /\ P3 \ {1} = {0, 2} /\ P3 \ {2} = {0, 1}
    BY Parties3
  <2>3. QED
    BY <2>1, <2>2, Parties3
<1> DEFINE n == 3
           zs == groupGetNext(3, k, G, w)
           R == Rerandomised(3, k, u, G, zs.z)
           z == [p \in P3 |-> IF p \in G THEN R[p] ELSE <<R[(e + 2) % 3][2], R[(e + 1) % 3][1]>>]
<1>1. reshare(3, k, u, G, w) = Result(z, zs.r)
  <2>1. DOMAIN u = P3 /\ \A p \in P3 : Len(u[p]) = 2
    <3>1. u \in [P3 -> [1 .. 2 -> Word]]
      BY Parties3 DEF Replicated, Words
    <3>2. QED
      BY <3>1
  <2>2. reshare(3, k, u, G, w) =
          Result([p \in P3 |-> IF p \in G THEN R[p] ELSE Received(3, Len(u[p]), G, p, R)], zs.r)
    BY <2>1 DEF reshare
  <2>3. ASSUME NEW p \in P3, p \notin G
        PROVE  Received(3, Len(u[p]), G, p, R) = <<R[(e + 2) % 3][2], R[(e + 1) % 3][1]>>
    <3>1. p = e /\ Len(u[p]) = 2 /\ (e + 2) % 3 \in P3 /\ (e + 1) % 3 \in P3
      BY <1>0, <2>1, <2>3, Parties3
    <3> HIDE DEF R
    <3>2. QED
      BY <1>0, <3>1, Received3
  <2> HIDE DEF R
  <2>4. QED
    BY <2>2, <2>3
<1>2. n \in {3, 4} /\ n - 1 = 2 /\ Replicated(n, n - 1, u) /\ G \in Groups(n) /\ G \subseteq 0 .. n - 1
  BY <1>0, Parties3
<1>3. Honest(3, zs.r)
  <2>1. Honest(n, w)
    OBVIOUS
  <2> HIDE DEF n
  <2>2. Honest(n, groupGetNext(n, k, G, w).r)
    BY <1>2, <2>1, GroupZero
  <2>3. QED
    BY <2>2 DEF n
<1>4. PICK T \in [1 .. 3 -> Word] : SumsToZero(3, k, T) /\ \A p \in G : zs.z[p] = T
  <2>1. Honest(n, w)
    OBVIOUS
  <2> HIDE DEF n
  <2>2. \E T \in [1 .. n -> Word] : SumsToZero(n, k, T) /\ \A p \in G : groupGetNext(n, k, G, w).z[p] = T
    BY <1>2, <2>1, GroupZero
  <2>3. QED
    BY <2>2 DEF n
<1> HIDE DEF zs
<1>5. /\ \A p \in G : R[p] \in [1 .. 2 -> Word]
      /\ \A p, q \in G : \A i, j \in 1 .. 2 : (p + i) % 3 = (q + j) % 3 => R[p][i] = R[q][j]
      /\ AddsZero(3, k, u, G, R)
  <2> DEFINE t == zs.z
  <2>1. T \in [1 .. n -> Word] /\ \A p \in G : t[p] = T
    BY <1>4
  <2> HIDE DEF n, t
  <2>2. /\ AlikeAmong(n, n - 1, G, Rerandomised(n, k, u, G, t))
        /\ AddedTo(n, k, u, G, T, Rerandomised(n, k, u, G, t))
    BY <1>2, <2>1, RerandomisedAlike
  <2>3. AlikeAmong(3, 2, G, R) /\ AddedTo(3, k, u, G, T, R)
    BY <2>2 DEF n, t
  <2>4. AddsZero(3, k, u, G, R)
    BY <1>4, <2>3 DEF AddsZero
  <2>5. QED
    BY <2>3, <2>4 DEF AlikeAmong
<1> HIDE DEF R
<1> DEFINE a == (e + 2) % 3
           b == (e + 1) % 3
<1>6. a \in G /\ b \in G /\ e \notin G /\ P3 = {a, b, e}
      /\ (e + 1) % 3 = b /\ (b + 1) % 3 = a /\ (a + 1) % 3 = e
  BY <1>0, Parties3
<1>7. /\ z[a] = R[a] /\ z[b] = R[b] /\ z[e] = <<R[a][2], R[b][1]>>
  BY <1>6
<1>8. R[b][2] = R[a][1]
  <2>1. (b + 2) % 3 = (a + 1) % 3
    BY <1>0, Parties3
  <2> HIDE DEF a, b
  <2>2. 1 \in 1 .. 2 /\ 2 \in 1 .. 2
    OBVIOUS
  <2>3. (b + 2) % 3 = (a + 1) % 3 => R[b][2] = R[a][1]
    BY <1>5, <1>6, <2>2
  <2>4. QED
    BY <2>1, <2>3
<1>9. \A p \in P3 : z[p] = <<z[p][1], z[p][2]>> /\ z[p][1] \in Word /\ z[p][2] \in Word
  <2> HIDE DEF a, b, z
  <2>1. /\ R[a] = <<R[a][1], R[a][2]>> /\ R[a][1] \in Word /\ R[a][2] \in Word
        /\ R[b] = <<R[b][1], R[b][2]>> /\ R[b][1] \in Word /\ R[b][2] \in Word
    BY <1>5, <1>6
  <2>2. QED
    BY <1>6, <1>7, <2>1
<1>10. z = [p \in P3 |-> <<z[p][1], z[p][2]>>]
  BY <1>9
<1>11. \A p \in P3 : z[p][2] = z[(p + 1) % 3][1]
  <2> HIDE DEF a, b, z
  <2>1. z[a][2] = z[e][1] /\ z[b][2] = z[a][1] /\ z[e][2] = z[b][1]
    BY <1>7, <1>8
  <2>2. QED
    BY <1>6, <2>1
<1> HIDE DEF z
<1>12. Replicated(3, 2, z)
  <2>1. (0 + 1) % 3 = 1 /\ (1 + 1) % 3 = 2 /\ (2 + 1) % 3 = 0
    OBVIOUS
  <2>2. z[0][2] = z[1][1] /\ z[1][2] = z[2][1] /\ z[2][2] = z[0][1]
    BY <1>11, <2>1, Parties3
  <2>3. QED
    BY <1>9, <1>10, <2>2, Shared3, Parties3
<1>13. AddsZero(3, k, u, G, z)
  <2>1. \A p \in G : z[p] = R[p]
    BY <1>2, Parties3 DEF z
  <2>2. QED
    BY <1>5, <2>1, KeptAdded
<1>14. QED
  BY <1>1, <1>3, <1>12, <1>13, ResultFields DEF Good

-----------------------------------------------------------------------------
(***************************************************************************)
(* Four parties with pairwise checks: party p holds shares p, p+1 and p+2. *)
(***************************************************************************)
LEMMA Parties4 == P4 = 0 .. 3 /\ P4 = {0, 1, 2, 3} /\ \A p \in P4 : p = 0 \/ p = 1 \/ p = 2 \/ p = 3
  BY DEF P4

LEMMA Triples ==
    \A f, a, b, c : f = <<a, b, c>> => f = [i \in 1 .. 3 |-> f[i]]
  OBVIOUS

(* The values of a draw, each with the number of earlier calls.            *)
LEMMA DrawsOfMultiply ==
    ASSUME NEW w, Honest(4, w)
    PROVE  LET v == Draw(w, MultiplyDraws).v IN
           /\ Honest(4, Draw(w, MultiplyDraws).r)
           /\ v[0][1] = Drawn(w, 0, 51, 0) /\ v[0][2] = Drawn(w, 0, 52, 0) /\ v[0][3] = Drawn(w, 0, 53, 0)
           /\ v[0][4] = Drawn(w, 0, 51, 1) /\ v[0][5] = Drawn(w, 0, 52, 1)
           /\ v[1][1] = Drawn(w, 1, 52, 0) /\ v[1][2] = Drawn(w, 1, 53, 0) /\ v[1][3] = Drawn(w, 1, 50, 0)
           /\ v[1][4] = Drawn(w, 1, 52, 1)
           /\ v[2][1] = Drawn(w, 2, 53, 0) /\ v[2][2] = Drawn(w, 2, 50, 0) /\ v[2][3] = Drawn(w, 2, 51, 0)
           /\ v[2][4] = Drawn(w, 2, 51, 1)
           /\ v[3][1] = Drawn(w, 3, 50, 0) /\ v[3][2] = Drawn(w, 3, 51, 0) /\ v[3][3] = Drawn(w, 3, 52, 0)
           /\ v[3][4] = Drawn(w, 3, 51, 1) /\ v[3][5] = Drawn(w, 3, 52, 1)
<1> DEFINE D == MultiplyDraws
           v == Draw(w, D).v
<1>1. /\ DOMAIN D = 0 .. 3
      /\ D[0] = <<51, 52, 53, 51, 52>> /\ D[1] = <<52, 53, 50, 52>>
      /\ D[2] = <<53, 50, 51, 51>> /\ D[3] = <<50, 51, 52, 51, 52>>
  BY Get4, Parties4 DEF MultiplyDraws
<1> HIDE DEF D
<1>2. Honest(4, Draw(w, D).r)
  <2>1. \A g : /\ Calls(D[0], g) = One(51, g) + One(52, g) + One(53, g) + One(51, g) + One(52, g)
               /\ Calls(D[1], g) = One(52, g) + One(53, g) + One(50, g) + One(52, g)
               /\ Calls(D[2], g) = One(53, g) + One(50, g) + One(51, g) + One(51, g)
               /\ Calls(D[3], g) = One(50, g) + One(51, g) + One(52, g) + One(51, g) + One(52, g)
    BY <1>1, CallsFew
  <2>2. \A p \in 0 .. 3 : Run(D[p])
    <3>1. Run(D[0]) /\ Run(D[1]) /\ Run(D[2]) /\ Run(D[3])
      BY <1>1, Runs
    <3>2. QED
      BY <3>1, Parties4
  <2>3. /\ \A g \in {30, 50} : Calls(D[1], g) = Calls(D[2], g) /\ Calls(D[1], g) = Calls(D[3], g)
        /\ \A g \in {29, 51} : Calls(D[0], g) = Calls(D[2], g) /\ Calls(D[0], g) = Calls(D[3], g)
        /\ \A g \in {27, 52} : Calls(D[0], g) = Calls(D[1], g) /\ Calls(D[0], g) = Calls(D[3], g)
        /\ \A g \in {23, 53} : Calls(D[0], g) = Calls(D[1], g) /\ Calls(D[0], g) = Calls(D[2], g)
        /\ \A p \in {1, 2, 3} : Calls(D[0], 31) = Calls(D[p], 31)
    BY <2>1 DEF One
  <2>4. QED
    BY <1>1, <2>2, <2>3, DrawsHonest4
<1>3. \A p \in 0 .. 3 : \A i \in DOMAIN D[p] : v[p][i] = Drawn(w, p, D[p][i], Count(D[p], i - 1, D[p][i]))
  BY <1>1, DrawnValues
<1> HIDE DEF v
<1>4. /\ v[0][1] = Drawn(w, 0, 51, Count(D[0], 0, 51)) /\ v[0][2] = Drawn(w, 0, 52, Count(D[0], 1, 52))
      /\ v[0][3] = Drawn(w, 0, 53, Count(D[0], 2, 53)) /\ v[0][4] = Drawn(w, 0, 51, Count(D[0], 3, 51))
      /\ v[0][5] = Drawn(w, 0, 52, Count(D[0], 4, 52))
  BY <1>1, <1>3
<1>5. /\ v[1][1] = Drawn(w, 1, 52, Count(D[1], 0, 52)) /\ v[1][2] = Drawn(w, 1, 53, Count(D[1], 1, 53))
      /\ v[1][3] = Drawn(w, 1, 50, Count(D[1], 2, 50)) /\ v[1][4] = Drawn(w, 1, 52, Count(D[1], 3, 52))
  BY <1>1, <1>3
<1>6. /\ v[2][1] = Drawn(w, 2, 53, Count(D[2], 0, 53)) /\ v[2][2] = Drawn(w, 2, 50, Count(D[2], 1, 50))
      /\ v[2][3] = Drawn(w, 2, 51, Count(D[2], 2, 51)) /\ v[2][4] = Drawn(w, 2, 51, Count(D[2], 3, 51))
  BY <1>1, <1>3
<1>7. /\ v[3][1] = Drawn(w, 3, 50, Count(D[3], 0, 50)) /\ v[3][2] = Drawn(w, 3, 51, Count(D[3], 1, 51))
      /\ v[3][3] = Drawn(w, 3, 52, Count(D[3], 2, 52)) /\ v[3][4] = Drawn(w, 3, 51, Count(D[3], 3, 51))
      /\ v[3][5] = Drawn(w, 3, 52, Count(D[3], 4, 52))
  BY <1>1, <1>3
<1>8. /\ Count(D[0], 0, 51) = 0 /\ Count(D[0], 1, 52) = 0 /\ Count(D[0], 2, 53) = 0
      /\ Count(D[0], 3, 51) = 1 /\ Count(D[0], 4, 52) = 1
  BY <1>1, CountFew DEF One
<1>9. /\ Count(D[1], 0, 52) = 0 /\ Count(D[1], 1, 53) = 0 /\ Count(D[1], 2, 50) = 0 /\ Count(D[1], 3, 52) = 1
      /\ Count(D[2], 0, 53) = 0 /\ Count(D[2], 1, 50) = 0 /\ Count(D[2], 2, 51) = 0 /\ Count(D[2], 3, 51) = 1
  BY <1>1, CountFew DEF One
<1>10. /\ Count(D[3], 0, 50) = 0 /\ Count(D[3], 1, 51) = 0 /\ Count(D[3], 2, 52) = 0
       /\ Count(D[3], 3, 51) = 1 /\ Count(D[3], 4, 52) = 1
  BY <1>1, CountFew DEF One
<1>11. /\ v[0][1] = Drawn(w, 0, 51, 0) /\ v[0][2] = Drawn(w, 0, 52, 0) /\ v[0][3] = Drawn(w, 0, 53, 0)
       /\ v[0][4] = Drawn(w, 0, 51, 1) /\ v[0][5] = Drawn(w, 0, 52, 1)
  BY <1>4, <1>8, Zenon
<1>12. /\ v[1][1] = Drawn(w, 1, 52, 0) /\ v[1][2] = Drawn(w, 1, 53, 0) /\ v[1][3] = Drawn(w, 1, 50, 0)
       /\ v[1][4] = Drawn(w, 1, 52, 1)
  BY <1>5, <1>9, Zenon
<1>13. /\ v[2][1] = Drawn(w, 2, 53, 0) /\ v[2][2] = Drawn(w, 2, 50, 0) /\ v[2][3] = Drawn(w, 2, 51, 0)
       /\ v[2][4] = Drawn(w, 2, 51, 1)
  BY <1>6, <1>9, Zenon
<1>14. /\ v[3][1] = Drawn(w, 3, 50, 0) /\ v[3][2] = Drawn(w, 3, 51, 0) /\ v[3][3] = Drawn(w, 3, 52, 0)
       /\ v[3][4] = Drawn(w, 3, 51, 1) /\ v[3][5] = Drawn(w, 3, 52, 1)
  BY <1>7, <1>10, Zenon
<1>15. QED
  BY <1>2, <1>11, <1>12, <1>13, <1>14 DEF v, D

(* So there are six common words.                                          *)
LEMMA CommonOfMultiply ==
    ASSUME NEW w, Honest(4, w)
    PROVE  LET v == Draw(w, MultiplyDraws).v IN
           /\ v[1][3] \in Word /\ v[2][2] = v[1][3] /\ v[3][1] = v[1][3]
           /\ v[0][1] \in Word /\ v[2][3] = v[0][1] /\ v[3][2] = v[0][1]
           /\ v[0][2] \in Word /\ v[1][1] = v[0][2] /\ v[3][3] = v[0][2]
           /\ v[0][3] \in Word /\ v[1][2] = v[0][3] /\ v[2][1] = v[0][3]
           /\ v[0][4] \in Word /\ v[2][4] = v[0][4] /\ v[3][4] = v[0][4]
           /\ v[0][5] \in Word /\ v[1][4] = v[0][5] /\ v[3][5] = v[0][5]
<1> DEFINE v == Draw(w, MultiplyDraws).v
<1>1. ASSUME NEW g \in 0 .. 3, NEW p \in 0 .. 3 \ {g}, NEW m \in Nat
      PROVE  Drawn(w, p, 50 + g, m) \in Word
             /\ \A q \in 0 .. 3 \ {g} : Drawn(w, q, 50 + g, m) = Drawn(w, p, 50 + g, m)
  <2> DEFINE a == 50 + g  H == 0 .. 3 \ {g}  n == 4
  <2>1. a \in Nat /\ <<a, H>> \in Holders(n) /\ p \in H /\ p \in 0 .. n - 1 /\ Honest(n, w)
    BY Common4
  <2>2. m \in Nat
    OBVIOUS
  <2> HIDE DEF a, H, n
  <2>3. Drawn(w, p, a, m) \in Word
    BY ONLY <2>1, <2>2, DrawnType
  <2>4. ASSUME NEW q \in H PROVE Drawn(w, q, a, m) = Drawn(w, p, a, m)
    BY ONLY <2>1, <2>4, DrawnAlike
  <2>5. QED
    BY <2>3, <2>4 DEF a, H
<1>2. ASSUME NEW m \in Nat
      PROVE  /\ Drawn(w, 1, 50, m) \in Word /\ Drawn(w, 0, 51, m) \in Word
             /\ Drawn(w, 0, 52, m) \in Word /\ Drawn(w, 0, 53, m) \in Word
             /\ Drawn(w, 2, 50, m) = Drawn(w, 1, 50, m) /\ Drawn(w, 3, 50, m) = Drawn(w, 1, 50, m)
             /\ Drawn(w, 2, 51, m) = Drawn(w, 0, 51, m) /\ Drawn(w, 3, 51, m) = Drawn(w, 0, 51, m)
             /\ Drawn(w, 1, 52, m) = Drawn(w, 0, 52, m) /\ Drawn(w, 3, 52, m) = Drawn(w, 0, 52, m)
             /\ Drawn(w, 1, 53, m) = Drawn(w, 0, 53, m) /\ Drawn(w, 2, 53, m) = Drawn(w, 0, 53, m)
  <2>1. 50 + 0 = 50 /\ 50 + 1 = 51 /\ 50 + 2 = 52 /\ 50 + 3 = 53
    OBVIOUS
  <2>2. /\ 0 \in 0 .. 3 /\ 1 \in 0 .. 3 \ {0} /\ 2 \in 0 .. 3 \ {0} /\ 3 \in 0 .. 3 \ {0}
        /\ 1 \in 0 .. 3 /\ 0 \in 0 .. 3 \ {1} /\ 2 \in 0 .. 3 \ {1} /\ 3 \in 0 .. 3 \ {1}
        /\ 2 \in 0 .. 3 /\ 0 \in 0 .. 3 \ {2} /\ 1 \in 0 .. 3 \ {2} /\ 3 \in 0 .. 3 \ {2}
        /\ 3 \in 0 .. 3 /\ 0 \in 0 .. 3 \ {3} /\ 1 \in 0 .. 3 \ {3} /\ 2 \in 0 .. 3 \ {3}
    OBVIOUS
  <2>3. /\ Drawn(w, 1, 50 + 0, m) \in Word
        /\ Drawn(w, 2, 50 + 0, m) = Drawn(w, 1, 50 + 0, m) /\ Drawn(w, 3, 50 + 0, m) = Drawn(w, 1, 50 + 0, m)
    BY <1>1, <2>2
  <2>4. /\ Drawn(w, 0, 50 + 1, m) \in Word
        /\ Drawn(w, 2, 50 + 1, m) = Drawn(w, 0, 50 + 1, m) /\ Drawn(w, 3, 50 + 1, m) = Drawn(w, 0, 50 + 1, m)
    BY <1>1, <2>2
  <2>5. /\ Drawn(w, 0, 50 + 2, m) \in Word
        /\ Drawn(w, 1, 50 + 2, m) = Drawn(w, 0, 50 + 2, m) /\ Drawn(w, 3, 50 + 2, m) = Drawn(w, 0, 50 + 2, m)
    BY <1>1, <2>2
  <2>6. /\ Drawn(w, 0, 50 + 3, m) \in Word
        /\ Drawn(w, 1, 50 + 3, m) = Drawn(w, 0, 50 + 3, m) /\ Drawn(w, 2, 50 + 3, m) = Drawn(w, 0, 50 + 3, m)
    BY <1>1, <2>2
  <2>7. QED
    BY <2>1, <2>3, <2>4, <2>5, <2>6
<1> HIDE DEF v
<1>3. 0 \in Nat /\ 1 \in Nat
  OBVIOUS
<1>4. /\ v[0][1] = Drawn(w, 0, 51, 0) /\ v[0][2] = Drawn(w, 0, 52, 0) /\ v[0][3] = Drawn(w, 0, 53, 0)
      /\ v[0][4] = Drawn(w, 0, 51, 1) /\ v[0][5] = Drawn(w, 0, 52, 1)
      /\ v[1][1] = Drawn(w, 1, 52, 0) /\ v[1][2] = Drawn(w, 1, 53, 0) /\ v[1][3] = Drawn(w, 1, 50, 0)
      /\ v[1][4] = Drawn(w, 1, 52, 1)
      /\ v[2][1] = Drawn(w, 2, 53, 0) /\ v[2][2] = Drawn(w, 2, 50, 0) /\ v[2][3] = Drawn(w, 2, 51, 0)
      /\ v[2][4] = Drawn(w, 2, 51, 1)
      /\ v[3][1] = Drawn(w, 3, 50, 0) /\ v[3][2] = Drawn(w, 3, 51, 0) /\ v[3][3] = Drawn(w, 3, 52, 0)
      /\ v[3][4] = Drawn(w, 3, 51, 1) /\ v[3][5] = Drawn(w, 3, 52, 1)
  BY DrawsOfMultiply DEF v
<1>5. QED
  BY <1>2, <1>3, <1>4 DEF v

(* What party p computes from its shares i and j, and from i and i + 1.    *)
Cross4(k, X, Y, p, i, j) == Plus(k, Prod(k, X, Y, p, i, j), Prod(k, X, Y, p, j, i))
Self4(k, X, Y, p, i)     == Plus(k, Prod(k, X, Y, p, i, i), Cross4(k, X, Y, p, i, i + 1))

LEMMA Products4 ==
    ASSUME NEW k \in Kinds, NEW X, Operands(4, 3, X), NEW Y, Operands(4, 3, Y), Len(X) = Len(Y)
    PROVE  /\ \A p \in 0 .. 3 : \A i, j \in 1 .. 3 :
                 Prod(k, X, Y, p, i, j) \in Word /\ Cross4(k, X, Y, p, i, j) \in Word
           /\ \A p \in 0 .. 3 : \A i \in 1 .. 2 : Self4(k, X, Y, p, i) \in Word
           /\ \A p, q \in 0 .. 3 : \A i, a, j, b \in 1 .. 3 :
                 (p + i) % 4 = (q + a) % 4 /\ (p + j) % 4 = (q + b) % 4
                   => Prod(k, X, Y, p, i, j) = Prod(k, X, Y, q, a, b)
<1> DEFINE n == 4  rep == 3
<1>0. n \in Nat /\ rep \in Nat /\ Operands(n, rep, X) /\ Operands(n, rep, Y) /\ 0 .. n - 1 = 0 .. 3 /\ 1 .. rep = 1 .. 3
      /\ \A i : i % n = i % 4
  OBVIOUS
<1> HIDE DEF n, rep
<1>1. ASSUME NEW p \in 0 .. 3, NEW i \in 1 .. 3, NEW j \in 1 .. 3 PROVE Prod(k, X, Y, p, i, j) \in Word
  <2>1. p \in 0 .. n - 1 /\ i \in 1 .. rep /\ j \in 1 .. rep
    BY <1>0
  <2>2. QED
    BY ONLY k \in Kinds, Len(X) = Len(Y), <1>0, <2>1, ProdType
<1>2. \A p \in 0 .. 3 : \A i, j \in 1 .. 3 : Cross4(k, X, Y, p, i, j) \in Word
  BY <1>1, OperatorTypes DEF Cross4
<1>3. \A p \in 0 .. 3 : \A i \in 1 .. 2 : Self4(k, X, Y, p, i) \in Word
  <2>1. ASSUME NEW p \in 0 .. 3, NEW i \in 1 .. 2 PROVE Self4(k, X, Y, p, i) \in Word
    <3>1. i \in 1 .. 3 /\ i + 1 \in 1 .. 3
      OBVIOUS
    <3>2. QED
      BY <1>1, <1>2, <3>1, OperatorTypes DEF Self4
  <2>2. QED
    BY <2>1
<1>4. ASSUME NEW p \in 0 .. 3, NEW q \in 0 .. 3, NEW i \in 1 .. 3, NEW a \in 1 .. 3, NEW j \in 1 .. 3, NEW b \in 1 .. 3,
             (p + i) % 4 = (q + a) % 4, (p + j) % 4 = (q + b) % 4
      PROVE  Prod(k, X, Y, p, i, j) = Prod(k, X, Y, q, a, b)
  <2>1. Meet(n, rep, p, i, q, a) /\ Meet(n, rep, p, j, q, b)
    BY <1>0, <1>4 DEF Meet
  <2>2. QED
    BY ONLY Len(X) = Len(Y), <1>0, <2>1, ProdAlike
<1>5. QED
  BY <1>1, <1>2, <1>3, <1>4

(* The terms that several parties compute are equal.                       *)
LEMMA Terms4 ==
    ASSUME NEW k \in Kinds, NEW X, Operands(4, 3, X), NEW Y, Operands(4, 3, Y), Len(X) = Len(Y)
    PROVE  /\ Self4(k, X, Y, 0, 2) = Self4(k, X, Y, 1, 1) /\ Self4(k, X, Y, 1, 2) = Self4(k, X, Y, 2, 1)
           /\ Self4(k, X, Y, 2, 2) = Self4(k, X, Y, 3, 1) /\ Self4(k, X, Y, 3, 2) = Self4(k, X, Y, 0, 1)
           /\ Cross4(k, X, Y, 0, 1, 3) = Cross4(k, X, Y, 2, 1, 3)
           /\ Cross4(k, X, Y, 1, 1, 3) = Cross4(k, X, Y, 3, 1, 3)
<1> DEFINE f(p, i, j) == Prod(k, X, Y, p, i, j)
<1>1. \A p \in 0 .. 3 : \A i, j \in 1 .. 3 : f(p, i, j) \in Word
  BY Products4
<1>2. \A p, q \in 0 .. 3 : \A i, a, j, b \in 1 .. 3 :
         (p + i) % 4 = (q + a) % 4 /\ (p + j) % 4 = (q + b) % 4 => f(p, i, j) = f(q, a, b)
  BY Products4
<1>3. ASSUME NEW p \in 0 .. 3, NEW q \in 0 .. 3, (p + 1) % 4 = q
      PROVE  Self4(k, X, Y, p, 2) = Self4(k, X, Y, q, 1)
  <2>1. (p + 2) % 4 = (q + 1) % 4 /\ (p + 3) % 4 = (q + 2) % 4
    BY <1>3
  <2>2. 1 \in 1 .. 3 /\ 2 \in 1 .. 3 /\ 3 \in 1 .. 3 /\ 2 + 1 = 3 /\ 1 + 1 = 2
    OBVIOUS
  <2> HIDE DEF f
  <2>3. f(p, 2, 2) = f(q, 1, 1) /\ f(p, 2, 3) = f(q, 1, 2) /\ f(p, 3, 2) = f(q, 2, 1)
    BY <1>2, <2>1, <2>2
  <2>4. QED
    BY <2>2, <2>3 DEF Self4, Cross4, f
<1>4. ASSUME NEW p \in 0 .. 3, NEW q \in 0 .. 3, (p + 2) % 4 = q
      PROVE  Cross4(k, X, Y, p, 1, 3) = Cross4(k, X, Y, q, 1, 3)
  <2>1. (p + 1) % 4 = (q + 3) % 4 /\ (p + 3) % 4 = (q + 1) % 4
    BY <1>4
  <2>2. 1 \in 1 .. 3 /\ 3 \in 1 .. 3
    OBVIOUS
  <2> HIDE DEF f
  <2>3. f(p, 1, 3) = f(q, 3, 1) /\ f(p, 3, 1) = f(q, 1, 3)
    BY <1>2, <2>1, <2>2
  <2>4. Plus(k, f(q, 3, 1), f(q, 1, 3)) = Plus(k, f(q, 1, 3), f(q, 3, 1))
    <3>1. f(q, 3, 1) \in Word /\ f(q, 1, 3) \in Word
      BY <1>1, <2>2
    <3>2. QED
      BY <3>1, PlusAlgebra
  <2>5. QED
    BY <2>3, <2>4 DEF Cross4, f
<1>5. /\ (0 + 1) % 4 = 1 /\ (1 + 1) % 4 = 2 /\ (2 + 1) % 4 = 3 /\ (3 + 1) % 4 = 0
      /\ (0 + 2) % 4 = 2 /\ (1 + 2) % 4 = 3
      /\ 0 \in 0 .. 3 /\ 1 \in 0 .. 3 /\ 2 \in 0 .. 3 /\ 3 \in 0 .. 3
  OBVIOUS
<1>6. QED
  BY <1>3, <1>4, <1>5

LEMMA MultiplyGood4 ==
    ASSUME NEW k \in Kinds, NEW X, Operands(4, 3, X), NEW Y, Operands(4, 3, Y), Len(X) = Len(Y),
           NEW w, Honest(4, w)
    PROVE  /\ Good(4, 3, MultiplyC4(k, X, Y, w))
           /\ Reconstruct(k, MultiplyC4(k, X, Y, w).z)
                = Plus(k, Sum4(k, Self4(k, X, Y, 0, 1), Self4(k, X, Y, 1, 1), Self4(k, X, Y, 2, 1), Self4(k, X, Y, 3, 1)),
                          Plus(k, Cross4(k, X, Y, 0, 1, 3), Cross4(k, X, Y, 1, 1, 3)))
<1> DEFINE d == Draw(w, MultiplyDraws)
           v == d.v
           t == CrossTerms(k, X, Y, v)
           recv(p) == t.cross10[(p + 3) % 4]
           cm == [p \in P4 |-> <<Plus(k, recv(p), v[p][1]), Plus(k, t.cross10[p], v[p][2]),
                                 Plus(k, t.cross12[p], v[p][3])>>]
           ad == [p \in P4 |-> CASE p = 0 -> <<t.mask[0], v[0][5], t.cross02[0]>>
                                 [] p = 1 -> <<t.mask[1], t.cross02[0], t.cross02[1]>>
                                 [] p = 2 -> <<t.cross02[2], t.cross02[3], t.mask[2]>>
                                 [] p = 3 -> <<t.cross02[3], v[3][4], t.mask[3]>>]
           hs == /\ \A p \in P4 : recv(p) = t.cross12[(p + 2) % 4]
                 /\ t.cross02[0] = t.cross02[2]
                 /\ t.cross02[3] = t.cross02[1]
           S(p) == Self4(k, X, Y, p, 1)
           K == Cross4(k, X, Y, 0, 1, 3)
           L == Cross4(k, X, Y, 1, 1, 3)
<1>1. MultiplyC4(k, X, Y, w) = Result(PlusShares(k, cm, ad), Check(d.r, hs))
  BY DEF MultiplyC4
<1>2. /\ v[1][3] \in Word /\ v[2][2] = v[1][3] /\ v[3][1] = v[1][3]
      /\ v[0][1] \in Word /\ v[2][3] = v[0][1] /\ v[3][2] = v[0][1]
      /\ v[0][2] \in Word /\ v[1][1] = v[0][2] /\ v[3][3] = v[0][2]
      /\ v[0][3] \in Word /\ v[1][2] = v[0][3] /\ v[2][1] = v[0][3]
      /\ v[0][4] \in Word /\ v[2][4] = v[0][4] /\ v[3][4] = v[0][4]
      /\ v[0][5] \in Word /\ v[1][4] = v[0][5] /\ v[3][5] = v[0][5]
  BY CommonOfMultiply
<1>3. Honest(4, d.r)
  BY DrawsOfMultiply
<1> HIDE DEF d, v
<1>4. /\ \A p \in P4 : /\ t.cross10[p] = Minus(k, S(p), v[p][1])
                       /\ t.cross12[p] = Minus(k, Self4(k, X, Y, p, 2), v[p][2])
                       /\ t.cross02[p] = Minus(k, Cross4(k, X, Y, p, 1, 3), t.mask[p])
                       /\ t.mask[p] = IF p = 3 THEN v[3][5] ELSE v[p][4]
  BY DEF CrossTerms, Self4, Cross4
<1> HIDE DEF t, S, K, L
<1>5. S(0) \in Word /\ S(1) \in Word /\ S(2) \in Word /\ S(3) \in Word /\ K \in Word /\ L \in Word
  <2>1. /\ 0 \in 0 .. 3 /\ 1 \in 0 .. 3 /\ 2 \in 0 .. 3 /\ 3 \in 0 .. 3
        /\ 1 \in 1 .. 2 /\ 1 \in 1 .. 3 /\ 3 \in 1 .. 3
    OBVIOUS
  <2>2. QED
    BY <2>1, Products4 DEF S, K, L
<1>6. /\ Self4(k, X, Y, 0, 2) = S(1) /\ Self4(k, X, Y, 1, 2) = S(2)
      /\ Self4(k, X, Y, 2, 2) = S(3) /\ Self4(k, X, Y, 3, 2) = S(0)
      /\ Cross4(k, X, Y, 0, 1, 3) = K /\ Cross4(k, X, Y, 2, 1, 3) = K
      /\ Cross4(k, X, Y, 1, 1, 3) = L /\ Cross4(k, X, Y, 3, 1, 3) = L
  BY Terms4 DEF S, K, L
<1> DEFINE m0 == Minus(k, S(0), v[0][1])  m1 == Minus(k, S(1), v[0][2])
           m2 == Minus(k, S(2), v[0][3])  m3 == Minus(k, S(3), v[1][3])
           u == Minus(k, K, v[0][4])  l == Minus(k, L, v[0][5])
<1>7. /\ t.cross10[0] = m0 /\ t.cross10[1] = m1 /\ t.cross10[2] = m2 /\ t.cross10[3] = m3
      /\ t.cross12[0] = m1 /\ t.cross12[1] = m2 /\ t.cross12[2] = m3 /\ t.cross12[3] = m0
  BY <1>2, <1>4, <1>6, Parties4
<1>8. /\ t.mask[0] = v[0][4] /\ t.mask[1] = v[0][5] /\ t.mask[2] = v[0][4] /\ t.mask[3] = v[0][5]
      /\ t.cross02[0] = u /\ t.cross02[2] = u /\ t.cross02[1] = l /\ t.cross02[3] = l
  BY <1>2, <1>4, <1>6, Parties4
<1>9. /\ m0 \in Word /\ m1 \in Word /\ m2 \in Word /\ m3 \in Word /\ u \in Word /\ l \in Word
  BY <1>2, <1>5, OperatorTypes
<1> HIDE DEF m0, m1, m2, m3, u, l
<1>10. recv(0) = m3 /\ recv(1) = m0 /\ recv(2) = m1 /\ recv(3) = m2
  BY <1>7
<1>11. hs = TRUE
  <2>1. (0 + 2) % 4 = 2 /\ (1 + 2) % 4 = 3 /\ (2 + 2) % 4 = 0 /\ (3 + 2) % 4 = 1
    OBVIOUS
  <2> HIDE DEF recv
  <2>2. \A p \in P4 : recv(p) = t.cross12[(p + 2) % 4]
    BY <1>7, <1>10, <2>1, Parties4
  <2>3. QED
    BY <1>8, <2>2
<1> HIDE DEF recv, hs
<1> DEFINE a == Plus(k, m3, v[0][1])  b == Plus(k, m0, v[0][2])
           c == Plus(k, m1, v[0][3])  e == Plus(k, m2, v[1][3])
<1>12. a \in Word /\ b \in Word /\ c \in Word /\ e \in Word
  BY <1>2, <1>9, OperatorTypes
<1>13. cm[0] = <<a, b, c>> /\ cm[1] = <<b, c, e>> /\ cm[2] = <<c, e, a>> /\ cm[3] = <<e, a, b>>
  BY <1>2, <1>7, <1>10, Parties4
<1>14. cm = [p \in 0 .. 3 |-> [i \in 1 .. 3 |-> cm[p][i]]]
  BY Parties4
<1> HIDE DEF cm, a, b, c, e
<1>15. Replicated(4, 3, cm)
  BY <1>12, <1>13, <1>14, Shared4
<1>16. /\ ad[0] = <<v[0][4], v[0][5], u>> /\ ad[1] = <<v[0][5], u, l>>
       /\ ad[2] = <<u, l, v[0][4]>> /\ ad[3] = <<l, v[0][4], v[0][5]>>
  BY <1>2, <1>8, Parties4
<1>17. ad = [p \in 0 .. 3 |-> [i \in 1 .. 3 |-> ad[p][i]]]
  <2>1. DOMAIN ad = 0 .. 3 /\ ad = [p \in 0 .. 3 |-> ad[p]]
    BY Parties4
  <2> HIDE DEF ad
  <2>2. \A p \in 0 .. 3 : ad[p] = [i \in 1 .. 3 |-> ad[p][i]]
    BY <1>16, Parties4, Triples
  <2>3. QED
    BY <2>1, <2>2
<1> HIDE DEF ad
<1>18. Replicated(4, 3, ad)
  BY <1>2, <1>9, <1>16, <1>17, Shared4
<1>19. Replicated(4, 3, PlusShares(k, cm, ad))
  <2> DEFINE n == 4  rep == 3
  <2>1. n \in Nat /\ rep \in Nat /\ Replicated(n, rep, cm) /\ Replicated(n, rep, ad)
    BY <1>15, <1>18
  <2> HIDE DEF n, rep
  <2>2. Replicated(n, rep, PlusShares(k, cm, ad))
    BY ONLY k \in Kinds, <2>1, PlusReplicated
  <2>3. QED
    BY <2>2 DEF n, rep
<1>20. Honest(4, Check(d.r, hs))
  <2>1. Check(d.r, hs) = d.r
    BY <1>3, <1>11, CheckHonest
  <2>2. QED
    BY <1>3, <2>1
<1>21. Reconstruct(k, PlusShares(k, cm, ad)) = Plus(k, Sum4(k, S(0), S(1), S(2), S(3)), Plus(k, K, L))
  <2>1. Reconstruct(k, PlusShares(k, cm, ad)) = Plus(k, Reconstruct(k, cm), Reconstruct(k, ad))
    <3>1. Size(4) /\ 4 - 1 = 3
      BY DEF Size
    <3>2. QED
      BY <1>15, <1>18, <3>1, AddedValues
  <2>2. Reconstruct(k, cm) = Sum4(k, a, b, c, e) /\ Reconstruct(k, ad) = Sum4(k, v[0][4], v[0][5], u, l)
    BY <1>13, <1>15, <1>16, <1>18, Values
  <2> DEFINE V == Sum4(k, v[0][1], v[0][2], v[0][3], v[1][3])
             Z == Sum4(k, S(0), S(1), S(2), S(3))
  <2>3. /\ Quartet(m3, m0, m1, m2) /\ Quartet(m0, m1, m2, m3) /\ Quartet(v[0][1], v[0][2], v[0][3], v[1][3])
        /\ Quartet(S(0), S(1), S(2), S(3)) /\ Quartet(v[0][4], v[0][5], u, l)
    BY <1>2, <1>5, <1>9 DEF Quartet
  <2>4. V \in Word /\ Z \in Word
    BY <2>3, Sum4Turn
  <2>5. Sum4(k, a, b, c, e) = Plus(k, Sum4(k, m3, m0, m1, m2), V)
    BY <2>3, Sum4Adds DEF a, b, c, e
  <2>6. Sum4(k, m3, m0, m1, m2) = Sum4(k, m0, m1, m2, m3)
    BY <2>3, Sum4Turn
  <2>7. Sum4(k, m0, m1, m2, m3) = Minus(k, Z, V)
    BY <2>3, Sum4Adds DEF m0, m1, m2, m3
  <2>8. Plus(k, Minus(k, Z, V), V) = Z
    <3> HIDE DEF Z, V
    <3>1. QED
      BY <2>4, RingLaws
  <2>9. Sum4(k, v[0][4], v[0][5], u, l) = Plus(k, K, L)
    <3> DEFINE f == v[0][4]  g == v[0][5]
    <3>1. f \in Word /\ g \in Word /\ Sum4(k, f, g, u, l) = Plus(k, Plus(k, f, g), Plus(k, u, l))
      BY <1>2, <2>3, Sum4Turn
    <3>2. u = Minus(k, K, f) /\ l = Minus(k, L, g)
      BY DEF u, l
    <3> HIDE DEF f, g
    <3>3. Plus(k, u, l) = Minus(k, Plus(k, K, L), Plus(k, f, g))
      BY <1>5, <3>1, <3>2, Crosswise
    <3>4. Plus(k, K, L) \in Word /\ Plus(k, f, g) \in Word
      BY <1>5, <3>1, RingLaws
    <3>5. Plus(k, Plus(k, f, g), Minus(k, Plus(k, K, L), Plus(k, f, g))) = Plus(k, K, L)
      BY <3>4, RingLaws
    <3>6. QED
      BY <3>1, <3>3, <3>5 DEF f, g
  <2>10. QED
    BY <2>1, <2>2, <2>5, <2>6, <2>7, <2>8, <2>9
<1>22. Good(4, 3, MultiplyC4(k, X, Y, w))
  BY <1>1, <1>19, <1>20, ResultFields DEF Good
<1>23. MultiplyC4(k, X, Y, w).z = PlusShares(k, cm, ad)
  BY <1>1, ResultFields
<1>24. QED
  BY <1>21, <1>22, <1>23 DEF S, K, L

(* Results that four parties share, with the values they stand for.        *)
Carries(k, res, a)       == Good(4, 3, res) /\ Reconstruct(k, res.z) = a
CarriesTwo(k, res, a, b) == GoodTwo(4, 3, res) /\ Reconstruct(k, res.u) = a /\ Reconstruct(k, res.v) = b

(* A value of which only two words are not zero.                           *)
LEMMA TwoWords4 ==
    ASSUME NEW k \in Kinds, NEW z, Replicated(4, 3, z), NEW V \in Word, NEW W \in Word,
           NEW e \in 0 .. 3, NEW f \in 0 .. 3, e # f, z[e][1] = V, z[f][1] = W,
           \A p \in 0 .. 3 : p # e /\ p # f => z[p][1] = 0
    PROVE  Reconstruct(k, z) = Plus(k, V, W)
<1>1. Reconstruct(k, z) = Plus(k, Plus(k, Plus(k, z[0][1], z[1][1]), z[2][1]), z[3][1])
  BY Values DEF Sum4
<1> DEFINE S == Plus(k, V, W)
<1>2. /\ Plus(k, 0, 0) = 0 /\ Plus(k, 0, V) = V /\ Plus(k, V, 0) = V /\ Plus(k, 0, W) = W /\ Plus(k, W, 0) = W
      /\ Plus(k, W, V) = S /\ S \in Word
  BY RingLaws, ZeroWord
<1>3. Plus(k, S, 0) = S
  <2> HIDE DEF S
  <2>1. QED
    BY <1>2, RingLaws
<1>4. QED
  BY ONLY <1>1, <1>2, <1>3, e \in 0 .. 3, f \in 0 .. 3, e # f, z[e][1] = V, z[f][1] = W,
          \A p \in 0 .. 3 : p # e /\ p # f => z[p][1] = 0

(* Two parties share what both know: i passes it on to g, which draws      *)
(* nothing, and j sends the hash.                                          *)
Positions4(i, j, g, h) ==
    /\ g \in 0 .. 3 /\ i = (g + 3) % 4 /\ j = (g + 2) % 4 /\ h = (g + 1) % 4

LEMMA InpGood4 ==
    ASSUME NEW k \in Kinds, NEW u, NEW i, NEW j, NEW g, NEW h, Positions4(i, j, g, h),
           u[i] \in Word, u[j] = u[i], NEW w, Honest(4, w)
    PROVE  Carries(k, inp_C4(k, u, i, j, g, h, w), u[i])
<1> DEFINE D == [p \in P4 |-> IF p = g THEN <<>> ELSE <<get(4, p, g - p)>>]
           d == Draw(w, D)
           v == d.v
           sent == [p \in {i, j} |-> Minus(k, u[p], v[p][1])]
           row(p) == CASE p = i -> <<v[p][1], sent[p], 0>>
                       [] p = j -> <<0, v[p][1], sent[p]>>
                       [] p = g -> <<sent[(g + 3) % 4], 0, 0>>
                       [] p = h -> <<0, 0, v[p][1]>>
           z == [p \in P4 |-> row(p)]
           hs == sent[(g + 3) % 4] = sent[(g + 2) % 4]
<1>0. /\ g \in 0 .. 3 /\ i \in 0 .. 3 /\ j \in 0 .. 3 /\ h \in 0 .. 3
      /\ i # j /\ i # g /\ i # h /\ j # g /\ j # h /\ g # h
      /\ i = (g + 3) % 4 /\ j = (g + 2) % 4
  BY DEF Positions4
<1>1. inp_C4(k, u, i, j, g, h, w) = Result(z, Check(d.r, hs))
  BY DEF inp_C4
<1>2. P4 = 0 .. 3
  BY Parties4
<1>3. Honest(4, d.r)
  <2>1. D = [p \in 0 .. 3 |-> IF p = g THEN <<>> ELSE <<get(4, p, g - p)>>]
    BY <1>2
  <2> HIDE DEF D
  <2>2. QED
    BY <1>0, <2>1, OneDraw4
<1>4. PICK V \in Word : \A p \in 0 .. 3 \ {g} : v[p][1] = V
  <2>1. D = [p \in 0 .. 3 |-> IF p = g THEN <<>> ELSE <<get(4, p, g - p)>>]
    BY <1>2
  <2> HIDE DEF D
  <2>2. OneWord(Draw(w, D).v, g)
    BY <1>0, <2>1, OneDraw4
  <2>3. QED
    BY <2>2 DEF OneWord
<1> HIDE DEF D, d, v
<1>5. v[i][1] = V /\ v[j][1] = V /\ v[h][1] = V
  BY <1>0, <1>4
<1> DEFINE W == Minus(k, u[i], V)
<1>6. sent[i] = W /\ sent[j] = W /\ W \in Word
  BY <1>5, OperatorTypes
<1> HIDE DEF sent, W
<1>7. hs = TRUE
  BY <1>0, <1>6
<1>8. row(i) = <<V, W, 0>> /\ row(j) = <<0, V, W>> /\ row(g) = <<W, 0, 0>> /\ row(h) = <<0, 0, V>>
  BY <1>0, <1>5, <1>6
<1> HIDE DEF row
<1>80. z[i] = <<V, W, 0>> /\ z[j] = <<0, V, W>> /\ z[g] = <<W, 0, 0>> /\ z[h] = <<0, 0, V>>
  BY <1>0, <1>2, <1>8
<1>9. DOMAIN z = 0 .. 3 /\ z = [p \in 0 .. 3 |-> z[p]]
  BY <1>2
<1> HIDE DEF z, hs
<1>10. 0 .. 3 = {i, j, g, h}
  BY <1>0
<1>11. z = [p \in 0 .. 3 |-> [m \in 1 .. 3 |-> z[p][m]]]
  <2>1. \A p \in 0 .. 3 : z[p] = [m \in 1 .. 3 |-> z[p][m]]
    BY <1>80, <1>10, Triples
  <2>2. QED
    BY <1>9, <2>1
<1>12. Replicated(4, 3, z)
  <2>1. 0 \in Word /\ V \in Word /\ W \in Word
    BY <1>4, <1>6, ZeroWord
  <2>2. CASE g = 0
    <3>1. i = 3 /\ j = 2 /\ h = 1
      BY <2>2 DEF Positions4
    <3>2. QED
      BY <1>80, <1>11, <2>1, <2>2, <3>1, Shared4
  <2>3. CASE g = 1
    <3>1. i = 0 /\ j = 3 /\ h = 2
      BY <2>3 DEF Positions4
    <3>2. QED
      BY <1>80, <1>11, <2>1, <2>3, <3>1, Shared4
  <2>4. CASE g = 2
    <3>1. i = 1 /\ j = 0 /\ h = 3
      BY <2>4 DEF Positions4
    <3>2. QED
      BY <1>80, <1>11, <2>1, <2>4, <3>1, Shared4
  <2>5. CASE g = 3
    <3>1. i = 2 /\ j = 1 /\ h = 0
      BY <2>5 DEF Positions4
    <3>2. QED
      BY <1>80, <1>11, <2>1, <2>5, <3>1, Shared4
  <2>6. QED
    BY <1>0, <2>2, <2>3, <2>4, <2>5
<1>13. Honest(4, Check(d.r, hs))
  <2>1. Check(d.r, hs) = d.r
    BY <1>3, <1>7, CheckHonest
  <2>2. QED
    BY <1>3, <2>1
<1>14. Reconstruct(k, z) = u[i]
  <2>1. z[i][1] = V /\ z[g][1] = W /\ \A p \in 0 .. 3 : p # i /\ p # g => z[p][1] = 0
    BY <1>10, <1>80
  <2>2. Reconstruct(k, z) = Plus(k, V, W)
    BY ONLY k \in Kinds, <1>0, <1>4, <1>6, <1>12, <2>1, TwoWords4
  <2>3. Plus(k, V, W) = u[i]
    <3>1. \A a, b \in Word : Plus(k, b, Minus(k, a, b)) = a
      BY RingLaws
    <3>2. QED
      BY <1>4, <3>1 DEF W
  <2>4. QED
    BY <2>2, <2>3
<1>15. QED
  BY <1>1, <1>12, <1>13, <1>14, ResultFields DEF Good, Carries

LEMMA InpBothGood4 ==
    ASSUME NEW k \in Kinds, NEW u, NEW i \in 0 .. 3, NEW j, j = (i + 3) % 4,
           \A p \in 0 .. 3 : u[p] \in Word, u[j] = u[i], u[(i + 2) % 4] = u[(j + 2) % 4],
           NEW w, Honest(4, w)
    PROVE  CarriesTwo(k, inp_both_C4(k, u, i, j, w), u[i], u[(i + 2) % 4])
<1> DEFINE s == inp_C4(k, u, i, j, (i + 1) % 4, (j + 3) % 4, w)
           t == inp_C4(k, u, (i + 2) % 4, (j + 2) % 4, j, i, s.r)
<1>1. inp_both_C4(k, u, i, j, w) = Two(s.z, t.z, t.r)
  BY DEF inp_both_C4
<1>2. /\ Positions4(i, j, (i + 1) % 4, (j + 3) % 4) /\ Positions4((i + 2) % 4, (j + 2) % 4, j, i)
      /\ j \in 0 .. 3 /\ (i + 2) % 4 \in 0 .. 3 /\ (j + 2) % 4 \in 0 .. 3
  BY DEF Positions4
<1>3. Carries(k, s, u[i])
  BY <1>2, InpGood4
<1> HIDE DEF s
<1>4. Carries(k, t, u[(i + 2) % 4])
  <2> DEFINE a == (i + 2) % 4  b == (j + 2) % 4
  <2>1. Positions4(a, b, j, i) /\ u[a] \in Word /\ u[b] = u[a] /\ Honest(4, s.r)
    BY <1>2, <1>3 DEF Good, Carries
  <2> HIDE DEF a, b
  <2>2. Carries(k, inp_C4(k, u, a, b, j, i, s.r), u[a])
    BY <2>1, InpGood4
  <2>3. QED
    BY <2>2 DEF a, b
<1> HIDE DEF t
<1>5. QED
  BY <1>1, <1>3, <1>4, ResultFields DEF Good, GoodTwo, Carries, CarriesTwo

(* The halves that two pairs of parties compute are equal within a pair.   *)
LEMMA Halves4 ==
    ASSUME NEW u, Replicated(4, 3, u)
    PROVE  /\ \A p \in 0 .. 3 : /\ Half(u, {1, 3})[p] \in Word /\ Half(u, {0, 2})[p] \in Word
                                /\ HalfBits(u, {1, 3})[p] \in Word
           /\ Half(u, {1, 3})[2] = Half(u, {1, 3})[3] /\ Half(u, {1, 3})[1] = Half(u, {1, 3})[0]
           /\ Half(u, {0, 2})[3] = Half(u, {0, 2})[0] /\ Half(u, {0, 2})[2] = Half(u, {0, 2})[1]
           /\ HalfBits(u, {1, 3})[0] = HalfBits(u, {1, 3})[1] /\ HalfBits(u, {1, 3})[3] = HalfBits(u, {1, 3})[2]
           /\ Plus("a", Half(u, {1, 3})[3], Half(u, {1, 3})[1]) = Reconstruct("a", u)
           /\ Plus("a", Half(u, {0, 2})[0], Half(u, {0, 2})[2]) = Reconstruct("a", u)
           /\ BitXor(HalfBits(u, {1, 3})[1], HalfBits(u, {1, 3})[3]) = Reconstruct("b", u)
<1>1. /\ DOMAIN u = 0 .. 3
      /\ \A p \in 0 .. 3 : u[p][1] \in Word /\ u[p][2] \in Word /\ u[p][3] \in Word
      /\ u[2][3] = u[0][1] /\ u[3][2] = u[0][1] /\ u[1][1] = u[0][2] /\ u[3][3] = u[0][2]
      /\ u[1][2] = u[0][3] /\ u[2][1] = u[0][3] /\ u[2][2] = u[1][3] /\ u[3][1] = u[1][3]
  BY Shares4
<1>2. ASSUME NEW p \in 0 .. 3
      PROVE  /\ Half(u, {1, 3})[p] \in Word /\ Half(u, {0, 2})[p] \in Word
             /\ HalfBits(u, {1, 3})[p] \in Word
  <2>1. /\ Wrap(u[p][1] + u[p][2]) \in Word /\ Wrap(u[p][2] + u[p][3]) \in Word
        /\ BitXor(u[p][1], u[p][2]) \in Word /\ BitXor(u[p][2], u[p][3]) \in Word
    BY <1>1, SumType, XorBits
  <2>2. QED
    BY <1>1, <2>1 DEF Half, HalfBits
<1>3. /\ 0 \in 0 .. 3 /\ 1 \in 0 .. 3 /\ 2 \in 0 .. 3 /\ 3 \in 0 .. 3
      /\ 0 \notin {1, 3} /\ 2 \notin {1, 3} /\ 1 \notin {0, 2} /\ 3 \notin {0, 2}
  OBVIOUS
<1>4. /\ Half(u, {1, 3})[3] = Wrap(u[3][1] + u[3][2]) /\ Half(u, {1, 3})[2] = Wrap(u[2][2] + u[2][3])
      /\ Half(u, {1, 3})[1] = Wrap(u[1][1] + u[1][2]) /\ Half(u, {1, 3})[0] = Wrap(u[0][2] + u[0][3])
      /\ Half(u, {0, 2})[0] = Wrap(u[0][1] + u[0][2]) /\ Half(u, {0, 2})[3] = Wrap(u[3][2] + u[3][3])
      /\ Half(u, {0, 2})[2] = Wrap(u[2][1] + u[2][2]) /\ Half(u, {0, 2})[1] = Wrap(u[1][2] + u[1][3])
  BY <1>1, <1>3 DEF Half
<1>5. /\ HalfBits(u, {1, 3})[3] = BitXor(u[3][1], u[3][2]) /\ HalfBits(u, {1, 3})[2] = BitXor(u[2][2], u[2][3])
      /\ HalfBits(u, {1, 3})[1] = BitXor(u[1][1], u[1][2]) /\ HalfBits(u, {1, 3})[0] = BitXor(u[0][2], u[0][3])
  BY <1>1, <1>3 DEF HalfBits
<1> DEFINE a == u[0][1]  b == u[1][1]  c == u[2][1]  d == u[3][1]
<1>6. /\ Half(u, {1, 3})[3] = Plus("a", d, a) /\ Half(u, {1, 3})[1] = Plus("a", b, c)
      /\ Half(u, {0, 2})[0] = Plus("a", a, b) /\ Half(u, {0, 2})[2] = Plus("a", c, d)
      /\ HalfBits(u, {1, 3})[3] = Plus("b", d, a) /\ HalfBits(u, {1, 3})[1] = Plus("b", b, c)
  BY <1>1, <1>4, <1>5 DEF Plus
<1>7. /\ Quartet(a, b, c, d) /\ Quartet(d, a, b, c) /\ "a" \in Kinds /\ "b" \in Kinds
      /\ Reconstruct("a", u) = Sum4("a", a, b, c, d) /\ Reconstruct("b", u) = Sum4("b", a, b, c, d)
  BY Values DEF Quartet, Kinds
<1> HIDE DEF a, b, c, d
<1>8. ASSUME NEW k \in Kinds
      PROVE  /\ Plus(k, Plus(k, a, b), Plus(k, c, d)) = Sum4(k, a, b, c, d)
             /\ Plus(k, Plus(k, d, a), Plus(k, b, c)) = Sum4(k, a, b, c, d)
             /\ Plus(k, Plus(k, b, c), Plus(k, d, a)) = Sum4(k, a, b, c, d)
  <2>1. Quartet(b, c, d, a) /\ Sum4(k, d, a, b, c) = Sum4(k, a, b, c, d) /\ Sum4(k, b, c, d, a) = Sum4(k, a, b, c, d)
    BY <1>7, Sum4Turn DEF Quartet
  <2>2. QED
    BY <1>7, <2>1, Sum4Turn
<1>9. /\ Plus("a", Half(u, {1, 3})[3], Half(u, {1, 3})[1]) = Reconstruct("a", u)
      /\ Plus("a", Half(u, {0, 2})[0], Half(u, {0, 2})[2]) = Reconstruct("a", u)
      /\ Plus("b", HalfBits(u, {1, 3})[1], HalfBits(u, {1, 3})[3]) = Reconstruct("b", u)
  BY <1>6, <1>7, <1>8
<1>10. BitXor(HalfBits(u, {1, 3})[1], HalfBits(u, {1, 3})[3]) = Reconstruct("b", u)
  BY <1>9 DEF Plus
<1>11. QED
  BY <1>1, <1>2, <1>4, <1>5, <1>9, <1>10

(* The quotients and remainders of the halves.                             *)
LEMMA HalfResults4 ==
    ASSUME NEW u, Replicated(4, 3, u), NEW c \in Nat, c > 0,
           NEW res, res = [p \in 0 .. 3 |-> HalfQuotient(Half(u, {1, 3})[p], c)],
           NEW err, err = [p \in 0 .. 3 |-> Wrap(HalfRemainder(Half(u, {1, 3})[p], c) - Correction(p, c))]
    PROVE  /\ \A p \in 0 .. 3 : res[p] \in Word /\ err[p] \in Word
           /\ res[2] = res[3] /\ res[1] = res[0] /\ err[2] = err[3] /\ err[1] = err[0]
<1> DEFINE s == Half(u, {1, 3})
<1>1. /\ \A p \in 0 .. 3 : s[p] \in Word
      /\ s[2] = s[3] /\ s[1] = s[0]
  BY Halves4
<1> HIDE DEF s
<1>2. \A p \in 0 .. 3 : Correction(p, c) \in Int
  BY DEF Correction
<1>3. ASSUME NEW p \in 0 .. 3 PROVE res[p] \in Word /\ err[p] \in Word
  <2> DEFINE e == Correction(p, c)
  <2>1. e \in Int /\ s[p] \in Word
    BY <1>1, <1>2
  <2>2. res[p] = HalfQuotient(s[p], c) /\ err[p] = Wrap(HalfRemainder(s[p], c) - e)
    BY DEF s
  <2> HIDE DEF e
  <2>3. QED
    BY <2>1, <2>2, HalfTypes
<1>4. Correction(2, c) = Correction(3, c) /\ Correction(0, c) = Correction(1, c)
  BY DEF Correction
<1>5. \A p \in 0 .. 3 : res[p] = HalfQuotient(s[p], c) /\ err[p] = Wrap(HalfRemainder(s[p], c) - Correction(p, c))
  BY DEF s
<1>6. /\ res[0] = HalfQuotient(s[0], c) /\ res[1] = HalfQuotient(s[1], c)
      /\ res[2] = HalfQuotient(s[2], c) /\ res[3] = HalfQuotient(s[3], c)
      /\ err[0] = Wrap(HalfRemainder(s[0], c) - Correction(0, c))
      /\ err[1] = Wrap(HalfRemainder(s[1], c) - Correction(1, c))
      /\ err[2] = Wrap(HalfRemainder(s[2], c) - Correction(2, c))
      /\ err[3] = Wrap(HalfRemainder(s[3], c) - Correction(3, c))
  BY <1>5
<1>7. res[2] = res[3] /\ res[1] = res[0] /\ err[2] = err[3] /\ err[1] = err[0]
  BY ONLY <1>1, <1>4, <1>6
<1>8. QED
  BY <1>3, <1>7

(* The sum and the difference of two shared values, with their arities.    *)
LEMMA PlusFour ==
    ASSUME NEW k \in Kinds, NEW u, Replicated(4, 3, u), NEW v, Replicated(4, 3, v)
    PROVE  Replicated(4, 3, PlusShares(k, u, v)) /\ Replicated(4, 3, MinusShares(k, u, v))
           /\ Replicated(4, 3, MaskShares(u))
           /\ Operands(4, 3, <<u>>) /\ Len(<<u>>) = 1
<1> DEFINE n == 4  rep == 3
<1>1. n \in Nat /\ rep \in Nat /\ Replicated(n, rep, u) /\ Replicated(n, rep, v)
  OBVIOUS
<1> HIDE DEF n, rep
<1>2. Replicated(n, rep, PlusShares(k, u, v)) /\ Replicated(n, rep, MinusShares(k, u, v))
  BY ONLY k \in Kinds, <1>1, PlusReplicated
<1>3. Replicated(n, rep, MaskShares(u))
  BY ONLY <1>1, MaskReplicated
<1>4. Operands(n, rep, <<u>>) /\ Len(<<u>>) = 1
  BY ONLY <1>1, OneOperand
<1>5. QED
  BY <1>2, <1>3, <1>4 DEF n, rep

LEMMA DivGood4 ==
    ASSUME NEW u, Replicated(4, 3, u), NEW w, Honest(4, w), NEW c \in Nat, c > 0
    PROVE  GoodTwo(4, 3, div_const_C4(u, c, w)) /\ Divided(u, c, div_const_C4(u, c, w))
<1> DEFINE res == [p \in P4 |-> HalfQuotient(Half(u, {1, 3})[p], c)]
           err == [p \in P4 |-> Wrap(HalfRemainder(Half(u, {1, 3})[p], c) - Correction(p, c))]
           q == inp_both_C4("a", res, 3, 2, w)
           e == inp_both_C4("a", err, 3, 2, q.r)
<1>1. div_const_C4(u, c, w) = Two(PlusShares("a", q.u, q.v), PlusShares("a", e.u, e.v), e.r)
  BY DEF div_const_C4
<1>2. /\ \A p \in 0 .. 3 : res[p] \in Word /\ err[p] \in Word
      /\ res[2] = res[3] /\ res[1] = res[0] /\ err[2] = err[3] /\ err[1] = err[0]
  <2>1. /\ res = [p \in 0 .. 3 |-> HalfQuotient(Half(u, {1, 3})[p], c)]
        /\ err = [p \in 0 .. 3 |-> Wrap(HalfRemainder(Half(u, {1, 3})[p], c) - Correction(p, c))]
    BY Parties4
  <2> HIDE DEF res, err
  <2>2. QED
    BY <2>1, HalfResults4
<1> HIDE DEF res, err
<1>3. "a" \in Kinds /\ 3 \in 0 .. 3 /\ 2 = (3 + 3) % 4 /\ (3 + 2) % 4 = 1 /\ (2 + 2) % 4 = 0
  BY DEF Kinds
<1>4. GoodTwo(4, 3, q) /\ CarriesTwo("a", q, res[3], res[1])
  BY <1>2, <1>3, InpBothGood4 DEF CarriesTwo
<1> HIDE DEF q
<1>5. GoodTwo(4, 3, e) /\ CarriesTwo("a", e, err[3], err[1])
  BY <1>2, <1>3, <1>4, InpBothGood4 DEF GoodTwo, CarriesTwo
<1> HIDE DEF e
<1>6. Replicated(4, 3, PlusShares("a", q.u, q.v)) /\ Replicated(4, 3, PlusShares("a", e.u, e.v))
  BY <1>3, <1>4, <1>5, PlusFour DEF GoodTwo
<1>7. GoodTwo(4, 3, div_const_C4(u, c, w))
  BY <1>1, <1>5, <1>6, ResultFields DEF GoodTwo
<1>8. /\ Reconstruct("a", PlusShares("a", q.u, q.v)) = Plus("a", res[3], res[1])
      /\ Reconstruct("a", PlusShares("a", e.u, e.v)) = Plus("a", err[3], err[1])
  <2>1. /\ Size(4) /\ 4 - 1 = 3 /\ Replicated(4, 3, q.u) /\ Replicated(4, 3, q.v)
        /\ Replicated(4, 3, e.u) /\ Replicated(4, 3, e.v)
    BY <1>4, <1>5 DEF Size, GoodTwo
  <2>2. /\ Reconstruct("a", PlusShares("a", q.u, q.v)) = Plus("a", Reconstruct("a", q.u), Reconstruct("a", q.v))
        /\ Reconstruct("a", PlusShares("a", e.u, e.v)) = Plus("a", Reconstruct("a", e.u), Reconstruct("a", e.v))
    BY <1>3, <2>1, AddedValues
  <2>3. QED
    BY <1>4, <1>5, <2>2 DEF CarriesTwo
<1>9. Divided(u, c, div_const_C4(u, c, w))
  <2> DEFINE a == Half(u, {1, 3})[1]
             b == Half(u, {1, 3})[3]
  <2>1. Halved(u, a, b)
    <3>1. a \in Word /\ b \in Word /\ Plus("a", b, a) = Reconstruct("a", u)
      BY Halves4
    <3>2. QED
      BY <1>3, <3>1, PlusAlgebra DEF Halved
  <2>2. /\ res[3] = HalfQuotient(b, c) /\ res[1] = HalfQuotient(a, c)
        /\ err[3] = Wrap(HalfRemainder(b, c) - c) /\ err[1] = Wrap(HalfRemainder(a, c) - 0)
    BY Parties4 DEF res, err, Correction
  <2> HIDE DEF a, b
  <2>3. /\ HalfQuotient(a, c) \in Word /\ HalfQuotient(b, c) \in Word /\ HalfRemainder(a, c) \in Word
        /\ Wrap(HalfRemainder(b, c) - c) \in Word
    BY <2>1, HalfTypes DEF Halved
  <2>4. err[1] = HalfRemainder(a, c)
    <3>1. \A i \in Word : Wrap(i - 0) = i
      BY WrapWord, ZeroWord
    <3>2. QED
      BY <2>2, <2>3, <3>1
  <2>5. /\ Plus("a", res[3], res[1]) = Plus("a", HalfQuotient(a, c), HalfQuotient(b, c))
        /\ Plus("a", err[3], err[1]) = Plus("a", HalfRemainder(a, c), Wrap(HalfRemainder(b, c) - c))
    BY <1>3, <2>2, <2>3, <2>4, PlusAlgebra
  <2>6. QED
    BY <1>1, <1>8, <2>1, <2>5, ResultFields DEF Divided
<1>10. QED
  BY <1>7, <1>9

LEMMA RedistributeGood4 ==
    ASSUME NEW u, Replicated(4, 3, u), NEW w, Honest(4, w)
    PROVE  GoodTwo(4, 3, redistribute_C4(u, w)) /\ SplitInTwo(u, redistribute_C4(u, w))
<1> DEFINE s == Half(u, {0, 2})
<1>1. redistribute_C4(u, w) = inp_both_C4("b", s, 0, 3, w)
  BY DEF redistribute_C4
<1>2. (\A p \in 0 .. 3 : s[p] \in Word) /\ s[3] = s[0] /\ s[2] = s[1] /\ Plus("a", s[0], s[2]) = Reconstruct("a", u)
  BY Halves4
<1> HIDE DEF s
<1>3. "b" \in Kinds /\ 0 \in 0 .. 3 /\ 3 = (0 + 3) % 4 /\ (0 + 2) % 4 = 2 /\ (3 + 2) % 4 = 1
  BY DEF Kinds
<1>4. CarriesTwo("b", redistribute_C4(u, w), s[0], s[2])
  BY <1>1, <1>2, <1>3, InpBothGood4
<1>5. QED
  BY <1>2, <1>4 DEF CarriesTwo, SplitInTwo, Halved

LEMMA Rows4 ==
    ASSUME NEW z, z = [p \in P4 |-> z[p]],
           NEW a \in Word, NEW b \in Word, NEW c \in Word, NEW d \in Word,
           z[0] = <<a, b, c>>, z[1] = <<b, c, d>>, z[2] = <<c, d, a>>, z[3] = <<d, a, b>>
    PROVE  Replicated(4, 3, z)
<1>1. \A p \in 0 .. 3 : z[p] = [i \in 1 .. 3 |-> z[p][i]]
  BY Parties4, Triples
<1>2. z = [p \in 0 .. 3 |-> [i \in 1 .. 3 |-> z[p][i]]]
  BY ONLY z = [p \in P4 |-> z[p]], <1>1, Parties4
<1>3. /\ z[0][1] = a /\ z[0][2] = b /\ z[0][3] = c /\ z[1][1] = b /\ z[1][2] = c /\ z[1][3] = d
      /\ z[2][1] = c /\ z[2][2] = d /\ z[2][3] = a /\ z[3][1] = d /\ z[3][2] = a /\ z[3][3] = b
  OBVIOUS
<1>4. QED
  BY ONLY <1>2, <1>3, a \in Word, b \in Word, c \in Word, d \in Word, Shared4

LEMMA NotGood4 ==
    ASSUME NEW u, Replicated(4, 3, u)
    PROVE  Replicated(4, 3, not_b_C4(u)) /\ Replicated(4, 3, not_b_1_C4(u))
<1>1. Replicated(4, 3, not_b_C4(u))
  <2> DEFINE row(p) == CASE p = 0 -> <<u[p][1], u[p][2], BitNot(u[p][3])>>
                         [] p = 1 -> <<u[p][1], BitNot(u[p][2]), u[p][3]>>
                         [] p = 2 -> <<BitNot(u[p][1]), u[p][2], u[p][3]>>
                         [] p = 3 -> u[p]
             z == [p \in P4 |-> row(p)]
             a == u[0][1]  b == u[0][2]  c == BitNot(u[0][3])  d == u[1][3]
  <2>1. /\ \A p \in 0 .. 3 : u[p][1] \in Word /\ u[p][2] \in Word /\ u[p][3] \in Word
        /\ u[2][3] = u[0][1] /\ u[3][2] = u[0][1] /\ u[1][1] = u[0][2] /\ u[3][3] = u[0][2]
        /\ u[1][2] = u[0][3] /\ u[2][1] = u[0][3] /\ u[2][2] = u[1][3] /\ u[3][1] = u[1][3]
        /\ u[3] = <<u[3][1], u[3][2], u[3][3]>>
    BY Shares4
  <2>2. a \in Word /\ b \in Word /\ c \in Word /\ d \in Word
    BY <2>1, NotTypes
  <2>3. row(0) = <<a, b, c>> /\ row(1) = <<b, c, d>> /\ row(2) = <<c, d, a>> /\ row(3) = <<d, a, b>>
    BY <2>1
  <2>4. not_b_C4(u) = z
    BY DEF not_b_C4
  <2> HIDE DEF row, a, b, c, d
  <2>5. z = [p \in P4 |-> z[p]] /\ z[0] = row(0) /\ z[1] = row(1) /\ z[2] = row(2) /\ z[3] = row(3)
    BY Parties4
  <2> HIDE DEF z
  <2>6. Replicated(4, 3, z)
    BY <2>2, <2>3, <2>5, Rows4
  <2>7. QED
    BY <2>4, <2>6
<1>2. Replicated(4, 3, not_b_1_C4(u))
  <2> DEFINE m == MaskShares(u)
             row(p) == CASE p = 0 -> <<m[p][1], m[p][2], LogicalNot(m[p][3])>>
                         [] p = 1 -> <<m[p][1], LogicalNot(m[p][2]), m[p][3]>>
                         [] p = 2 -> <<LogicalNot(m[p][1]), m[p][2], m[p][3]>>
                         [] p = 3 -> m[p]
             z == [p \in P4 |-> row(p)]
             a == m[0][1]  b == m[0][2]  c == LogicalNot(m[0][3])  d == m[1][3]
  <2>1. not_b_1_C4(u) = z
    BY DEF not_b_1_C4
  <2>2. Replicated(4, 3, m)
    <3>1. "a" \in Kinds
      BY DEF Kinds
    <3>2. QED
      BY <3>1, PlusFour
  <2> HIDE DEF m
  <2>3. /\ \A p \in 0 .. 3 : m[p][1] \in Word /\ m[p][2] \in Word /\ m[p][3] \in Word
        /\ m[2][3] = m[0][1] /\ m[3][2] = m[0][1] /\ m[1][1] = m[0][2] /\ m[3][3] = m[0][2]
        /\ m[1][2] = m[0][3] /\ m[2][1] = m[0][3] /\ m[2][2] = m[1][3] /\ m[3][1] = m[1][3]
        /\ m[3] = <<m[3][1], m[3][2], m[3][3]>>
    BY <2>2, Shares4
  <2>4. a \in Word /\ b \in Word /\ c \in Word /\ d \in Word
    BY <2>3, NotTypes
  <2>5. row(0) = <<a, b, c>> /\ row(1) = <<b, c, d>> /\ row(2) = <<c, d, a>> /\ row(3) = <<d, a, b>>
    BY <2>3
  <2> HIDE DEF row, a, b, c, d
  <2>6. z = [p \in P4 |-> z[p]] /\ z[0] = row(0) /\ z[1] = row(1) /\ z[2] = row(2) /\ z[3] = row(3)
    BY Parties4
  <2> HIDE DEF z
  <2>7. Replicated(4, 3, z)
    BY <2>4, <2>5, <2>6, Rows4
  <2>8. QED
    BY <2>1, <2>7
<1>3. QED
  BY <1>1, <1>2

(* A party splits a value into shares that it draws, and the rest.         *)
\* Dealing four words in a circle that starts at r keeps their sum.
LEMMA DealtSum4 ==
    ASSUME NEW k \in Kinds, NEW t \in [1 .. 4 -> Word], NEW r \in 0 .. 3, NEW z, Replicated(4, 3, z),
           \A p \in 0 .. 3 : z[p][1] = t[((p + r) % 4) + 1]
    PROVE  Reconstruct(k, z) = Sum4(k, t[1], t[2], t[3], t[4])
<1>1. Reconstruct(k, z) = Sum4(k, z[0][1], z[1][1], z[2][1], z[3][1])
  BY Values
<1>2. Quartet(t[1], t[2], t[3], t[4])
  BY DEF Quartet
<1>3. /\ Sum4(k, t[2], t[3], t[4], t[1]) = Sum4(k, t[1], t[2], t[3], t[4])
      /\ Sum4(k, t[3], t[4], t[1], t[2]) = Sum4(k, t[1], t[2], t[3], t[4])
      /\ Sum4(k, t[4], t[1], t[2], t[3]) = Sum4(k, t[1], t[2], t[3], t[4])
  BY <1>2, Sum4Turn
<1>4. /\ z[0][1] = t[((0 + r) % 4) + 1] /\ z[1][1] = t[((1 + r) % 4) + 1]
      /\ z[2][1] = t[((2 + r) % 4) + 1] /\ z[3][1] = t[((3 + r) % 4) + 1]
  OBVIOUS
<1>5. CASE r = 0
  BY <1>1, <1>4, <1>5
<1>6. CASE r = 1
  BY <1>1, <1>3, <1>4, <1>6
<1>7. CASE r = 2
  BY <1>1, <1>3, <1>4, <1>7
<1>8. CASE r = 3
  BY <1>1, <1>3, <1>4, <1>8
<1>9. QED
  BY <1>5, <1>6, <1>7, <1>8

LEMMA ShareGood4 ==
    ASSUME NEW k \in Kinds, NEW a \in Word, NEW who \in 0 .. 3, NEW w, Honest(4, w)
    PROVE  Carries(k, secret_share_C4(k, a, who, w), a)
<1> DEFINE D == [p \in P4 |-> IF p = who THEN [i \in 1 .. 3 |-> localPRG(p)] ELSE <<>>]
           s == Draw(w, D).v[who]
           t == Append(s, Minus(k, a, Total(k, s)))
           z == [p \in P4 |-> [i \in 1 .. 3 |-> t[((p - who + i - 1) % 4) + 1]]]
<1>1. secret_share_C4(k, a, who, w) = Result(z, Draw(w, D).r)
  BY DEF secret_share_C4
<1>2. D = [p \in 0 .. 3 |-> IF p = who THEN [i \in 1 .. 3 |-> p] ELSE <<>>]
  BY Parties4 DEF localPRG
<1> HIDE DEF D
<1>3. Honest(4, Draw(w, D).r) /\ s \in [1 .. 3 -> Word]
  BY <1>2, OwnDraws4
<1> HIDE DEF s
<1>4. t \in [1 .. 4 -> Word]
  <2> DEFINE m == 3
  <2>1. m \in Nat /\ s \in [1 .. m -> Word] /\ m + 1 = 4
    BY <1>3
  <2> HIDE DEF m
  <2>2. t \in [1 .. m + 1 -> Word]
    BY <2>1, CompleteWords
  <2>3. QED
    BY <2>1, <2>2
<1>41. Sum4(k, t[1], t[2], t[3], t[4]) = a
  BY ONLY k \in Kinds, a \in Word, <1>3, CompleteSums
<1> HIDE DEF t
<1> DEFINE sh == [q \in 0 .. 3 |-> t[((q + 7 - who) % 4) + 1]]
<1>5. sh \in [0 .. 3 -> Word]
  <2>1. \A q \in 0 .. 3 : ((q + 7 - who) % 4) + 1 \in 1 .. 4
    OBVIOUS
  <2>2. QED
    BY <1>4, <2>1
<1>6. ASSUME NEW p \in 0 .. 3, NEW i \in 1 .. 3
      PROVE  (p - who + i - 1) % 4 = (((p + i) % 4) + 7 - who) % 4
  BY DealtTo4
<1>7. \A p \in 0 .. 3 : \A i \in 1 .. 3 : z[p][i] = sh[(p + i) % 4]
  <2>1. \A p \in 0 .. 3 : \A i \in 1 .. 3 : (p + i) % 4 \in 0 .. 3
    OBVIOUS
  <2>2. QED
    BY <1>6, <2>1, Parties4
<1>8. z = [p \in 0 .. 3 |-> [i \in 1 .. 3 |-> z[p][i]]]
  BY Parties4
<1> HIDE DEF z, sh
<1>9. Replicated(4, 3, z)
  BY <1>5, <1>7, <1>8, FromShares4
<1>10. Reconstruct(k, z) = a
  <2> DEFINE r == (8 - who) % 4
  <2>1. r \in 0 .. 3
    OBVIOUS
  <2>2. \A p \in 0 .. 3 : (p + 1) % 4 \in 0 .. 3 /\ (((p + 1) % 4) + 7 - who) % 4 = (p + r) % 4
    OBVIOUS
  <2>3. \A p \in 0 .. 3 : sh[(p + 1) % 4] = t[((p + r) % 4) + 1]
    BY <2>2 DEF sh
  <2>4. \A p \in 0 .. 3 : z[p][1] = t[((p + r) % 4) + 1]
    BY <1>7, <2>3
  <2> HIDE DEF r
  <2>5. QED
    BY ONLY k \in Kinds, <1>4, <1>41, <1>9, <2>1, <2>4, DealtSum4
<1>11. QED
  BY <1>1, <1>3, <1>9, <1>10, ResultFields DEF Good, Carries

LEMMA PublicGood4 ==
    ASSUME NEW a \in Word
    PROVE  Replicated(4, 3, public_share_C4(a))
<1> DEFINE z == public_share_C4(a)
<1>1. z[0] = <<0, 0, 0>> /\ z[1] = <<0, 0, a>> /\ z[2] = <<0, a, 0>> /\ z[3] = <<a, 0, 0>>
  BY Parties4 DEF public_share_C4
<1>2. z = [p \in P4 |-> z[p]]
  <2> DEFINE f(p) == CASE p = 0 -> <<0, 0, 0>> [] p = 1 -> <<0, 0, a>>
                       [] p = 2 -> <<0, a, 0>> [] p = 3 -> <<a, 0, 0>>
  <2>1. z = [p \in P4 |-> f(p)]
    BY DEF public_share_C4
  <2> HIDE DEF z, f
  <2>2. QED
    BY <2>1
<1> HIDE DEF z
<1>3. Replicated(4, 3, z)
  BY <1>1, <1>2, ZeroWord, Rows4
<1>4. QED
  BY <1>3 DEF z

LEMMA ReshareGood4 ==
    ASSUME NEW k \in Kinds, NEW u, Replicated(4, 3, u), NEW G \in Groups(4), NEW w, Honest(4, w)
    PROVE  Good(4, 3, reshare_C4(k, u, G, w)) /\ AddsZero(4, k, u, G, reshare_C4(k, u, G, w).z)
<1> DEFINE zs == groupGetNext(4, k, G, w)
           R == Rerandomised(4, k, u, G, zs.z)
<1>1. /\ Honest(4, zs.r) /\ DOMAIN R = 0 .. 3 /\ R = [p \in 0 .. 3 |-> R[p]]
      /\ AlikeAmong(4, 3, G, R) /\ AddsZero(4, k, u, G, R)
  BY GroupShares4
<1>2. PICK e \in 0 .. 3 : G = 0 .. 3 \ {e} /\ e = (CHOOSE p \in 0 .. 3 : p \notin G)
  BY Outside4
<1> DEFINE b1 == R[(e + 3) % 4]  b2 == R[(e + 2) % 4]  b3 == R[(e + 1) % 4]
           row == <<b1[2], b3[1], b2[1]>>
           hs == b1[2] = b2[3] /\ b3[1] = b1[3] /\ b2[1] = b3[2]
<1>3. reshare_C4(k, u, G, w) = Result([R EXCEPT ![e] = row], Check(zs.r, hs))
  <2>1. e = CHOOSE p \in P4 : p \notin G
    BY <1>2, Parties4, Zenon
  <2>2. QED
    BY <2>1 DEF reshare_C4
<1> HIDE DEF zs, R
<1>4. /\ (e + 3) % 4 \in G /\ (e + 2) % 4 \in G /\ (e + 1) % 4 \in G
      /\ (e + 1) % 4 = (((e + 3) % 4) + 2) % 4 /\ (e + 1) % 4 = (((e + 2) % 4) + 3) % 4
      /\ (e + 2) % 4 = (((e + 1) % 4) + 1) % 4 /\ (e + 2) % 4 = (((e + 3) % 4) + 3) % 4
      /\ (e + 3) % 4 = (((e + 2) % 4) + 1) % 4 /\ (e + 3) % 4 = (((e + 1) % 4) + 2) % 4
  <2>1. /\ (e + 3) % 4 \in 0 .. 3 /\ (e + 3) % 4 # e /\ (e + 2) % 4 \in 0 .. 3 /\ (e + 2) % 4 # e
        /\ (e + 1) % 4 \in 0 .. 3 /\ (e + 1) % 4 # e
    OBVIOUS
  <2>2. (e + 3) % 4 \in G /\ (e + 2) % 4 \in G /\ (e + 1) % 4 \in G
    BY <1>2, <2>1
  <2>3. (e + 1) % 4 = (((e + 3) % 4) + 2) % 4 /\ (e + 1) % 4 = (((e + 2) % 4) + 3) % 4
    OBVIOUS
  <2>4. (e + 2) % 4 = (((e + 1) % 4) + 1) % 4 /\ (e + 2) % 4 = (((e + 3) % 4) + 3) % 4
    OBVIOUS
  <2>5. (e + 3) % 4 = (((e + 2) % 4) + 1) % 4 /\ (e + 3) % 4 = (((e + 1) % 4) + 2) % 4
    OBVIOUS
  <2>6. QED
    BY <2>2, <2>3, <2>4, <2>5
<1>5. 1 \in 1 .. 3 /\ 2 \in 1 .. 3 /\ 3 \in 1 .. 3
  OBVIOUS
<1>6. hs = TRUE
  <2> DEFINE p1 == (e + 3) % 4  p2 == (e + 2) % 4  p3 == (e + 1) % 4
  <2>1. /\ p1 \in G /\ p2 \in G /\ p3 \in G
        /\ (p1 + 2) % 4 = (p2 + 3) % 4 /\ (p3 + 1) % 4 = (p1 + 3) % 4 /\ (p2 + 1) % 4 = (p3 + 2) % 4
    BY <1>4
  <2> HIDE DEF p1, p2, p3
  <2>2. \A p, q \in G : \A i, j \in 1 .. 3 : (p + i) % 4 = (q + j) % 4 => R[p][i] = R[q][j]
    BY <1>1 DEF AlikeAmong
  <2>3. R[p1][2] = R[p2][3] /\ R[p3][1] = R[p1][3] /\ R[p2][1] = R[p3][2]
    BY <1>5, <2>1, <2>2
  <2>4. QED
    BY <2>3 DEF p1, p2, p3
<1>7. row = [i \in 1 .. 3 |-> row[i]]
  BY Triples
<1>8. \A i \in 1 .. 3 : From4(G, R, e, i, row[i])
  <2>1. row[1] = R[(e + 3) % 4][2] /\ row[2] = R[(e + 1) % 4][1] /\ row[3] = R[(e + 2) % 4][1]
    OBVIOUS
  <2>2. \A i : \A q \in G : \A j \in 1 .. 3 : (e + i) % 4 = (q + j) % 4 => From4(G, R, e, i, R[q][j])
    BY DEF From4
  <2>3. /\ From4(G, R, e, 1, R[(e + 3) % 4][2]) /\ From4(G, R, e, 2, R[(e + 1) % 4][1])
        /\ From4(G, R, e, 3, R[(e + 2) % 4][1])
    BY <1>4, <1>5, <2>2
  <2>4. \A i \in 1 .. 3 : i = 1 \/ i = 2 \/ i = 3
    OBVIOUS
  <2> HIDE DEF row
  <2>5. QED
    BY <2>1, <2>3, <2>4
<1> HIDE DEF row, hs
<1>9. Replicated(4, 3, [R EXCEPT ![e] = row])
  BY ONLY <1>1, <1>2, <1>7, <1>8, ReceivedReplicated
<1>10. Honest(4, Check(zs.r, hs))
  <2>1. Check(zs.r, hs) = zs.r
    BY <1>1, <1>6, CheckHonest
  <2>2. QED
    BY <1>1, <2>1
<1>11. AddsZero(4, k, u, G, [R EXCEPT ![e] = row])
  <2>1. \A p \in G : [R EXCEPT ![e] = row][p] = R[p]
    BY <1>1, <1>2
  <2>2. QED
    BY <1>1, <2>1, KeptAdded
<1>12. QED
  BY <1>3, <1>9, <1>10, <1>11, ResultFields DEF Good

-----------------------------------------------------------------------------
(***************************************************************************)
(* Four parties with joint message passing: share s is kept by everyone    *)
(* but s.                                                                  *)
(***************************************************************************)
LEMMA PartiesF == PF = 0 .. 3 /\ \A p \in PF : p = 0 \/ p = 1 \/ p = 2 \/ p = 3
  BY DEF PF

AllFour(i, j, g, h) ==
    /\ i \in 0 .. 3 /\ j \in 0 .. 3 /\ g \in 0 .. 3 /\ h \in 0 .. 3
    /\ i # j /\ i # g /\ i # h /\ j # g /\ j # h /\ g # h

LEMMA NextParty ==
    ASSUME NEW i \in 0 .. 3, NEW j \in 0 .. 3, i # j
    PROVE  AllFour(i, j, next_party(i, j), excluded_party(i, j, next_party(i, j)))
<1>1. i = 0 \/ i = 1 \/ i = 2 \/ i = 3
  OBVIOUS
<1>2. j = 0 \/ j = 1 \/ j = 2 \/ j = 3
  OBVIOUS
<1>3. CASE i = 0
  BY <1>2, <1>3 DEF AllFour, next_party, excluded_party
<1>4. CASE i = 1
  BY <1>2, <1>4 DEF AllFour, next_party, excluded_party
<1>5. CASE i = 2
  BY <1>2, <1>5 DEF AllFour, next_party, excluded_party
<1>6. CASE i = 3
  BY <1>2, <1>6 DEF AllFour, next_party, excluded_party
<1>7. QED
  BY <1>1, <1>3, <1>4, <1>5, <1>6

(* The index of a share at a party that holds it.                          *)
LEMMA IndexOf ==
    ASSUME NEW p \in 0 .. 3, NEW s \in 0 .. 3, p # s
    PROVE  abs2sh(p, s) \in 1 .. 3 /\ (p + abs2sh(p, s)) % 4 = s
<1>1. (s - p - 1) % 4 = (s - p + 3) % 4
  <2>1. s - p - 1 \in Int /\ s - p + 3 \in Int /\ -1 \in Int /\ s - p - 1 = (s - p + 3) + 4 * (-1)
    OBVIOUS
  <2>2. QED
    BY <2>1, ModFour
<1>2. ((s - p + 3) % 4) + 1 \in 1 .. 3 /\ (p + (((s - p + 3) % 4) + 1)) % 4 = s
  OBVIOUS
<1>3. QED
  BY <1>1, <1>2 DEF abs2sh

LEMMA JointPassing ==
    ASSUME NEW u, NEW i \in 0 .. 3, NEW j \in 0 .. 3, i # j, u[i] = u[j]
    PROVE  jmp(u, i, j) = u[i] /\ HashAgrees(u, i, j)
  BY DEF jmp, HashAgrees, Sender, who_hashes

LEMMA InpGoodF ==
    ASSUME NEW k \in Kinds, NEW u, NEW i, NEW j, NEW g, NEW h, AllFour(i, j, g, h),
           u[i] \in Word, u[j] = u[i], NEW w, Honest(4, w)
    PROVE  Carries(k, inp_F4(k, u, i, j, g, h, w), u[i])
<1> DEFINE D == [p \in PF |-> IF p = g THEN <<>> ELSE <<get(4, p, g - p)>>]
           d == Draw(w, D)
           v == d.v
           xh == [p \in {i, j} |-> Minus(k, u[p], v[p][1])]
           share(p, s) == CASE s = g -> v[p][1]
                            [] s = h -> IF p = g THEN jmp(xh, i, j) ELSE xh[p]
                            [] OTHER -> 0
           z == [p \in PF |-> [m \in 1 .. 3 |-> share(p, ShareAt(p, m))]]
           hs == HashAgrees(xh, i, j)
<1>0. /\ g \in 0 .. 3 /\ i \in 0 .. 3 /\ j \in 0 .. 3 /\ h \in 0 .. 3
      /\ i # j /\ i # g /\ i # h /\ j # g /\ j # h /\ g # h
  BY DEF AllFour
<1>1. inp_F4(k, u, i, j, g, h, w) = Result(z, Check(d.r, hs))
  BY DEF inp_F4
<1>2. PF = 0 .. 3
  BY PartiesF
<1>3. Honest(4, d.r)
  <2>1. D = [p \in 0 .. 3 |-> IF p = g THEN <<>> ELSE <<get(4, p, g - p)>>]
    BY <1>2
  <2> HIDE DEF D
  <2>2. QED
    BY <1>0, <2>1, OneDraw4
<1>4. PICK V \in Word : \A p \in 0 .. 3 \ {g} : v[p][1] = V
  <2>1. D = [p \in 0 .. 3 |-> IF p = g THEN <<>> ELSE <<get(4, p, g - p)>>]
    BY <1>2
  <2> HIDE DEF D
  <2>2. OneWord(Draw(w, D).v, g)
    BY <1>0, <2>1, OneDraw4
  <2>3. QED
    BY <2>2 DEF OneWord
<1> HIDE DEF D, d, v
<1> DEFINE W == Minus(k, u[i], V)
<1>5. xh[i] = W /\ xh[j] = W /\ W \in Word
  <2>1. v[i][1] = V /\ v[j][1] = V
    BY <1>0, <1>4
  <2>2. QED
    BY <2>1, OperatorTypes
<1> HIDE DEF xh, W
<1>6. jmp(xh, i, j) = W /\ hs = TRUE
  BY <1>0, <1>5, JointPassing
<1> DEFINE sh == [s \in 0 .. 3 |-> IF s = g THEN V ELSE IF s = h THEN W ELSE 0]
<1>7. sh \in [0 .. 3 -> Word]
  BY <1>4, <1>5, ZeroWord
<1>8. ASSUME NEW p \in 0 .. 3, NEW s \in 0 .. 3, s # p PROVE share(p, s) = sh[s]
  <2>1. CASE s = g
    <3>1. v[p][1] = V
      BY <1>4, <1>8, <2>1
    <3>2. share(p, s) = v[p][1] /\ sh[s] = V
      BY ONLY <1>0, <2>1
    <3>3. QED
      BY <3>1, <3>2
  <2>2. CASE s = h
    <3>1. p = g \/ p = i \/ p = j
      BY <1>0, <1>8, <2>2
    <3>2. sh[s] = W /\ s # g
      BY <1>0, <2>2
    <3>3. CASE p = g
      <4>1. share(p, s) = jmp(xh, i, j)
        BY ONLY <2>2, <3>2, <3>3
      <4>2. QED
        BY <1>6, <3>2, <4>1
    <3>4. CASE p = i \/ p = j
      <4>1. share(p, s) = xh[p]
        BY ONLY <1>0, <2>2, <3>2, <3>4
      <4>2. QED
        BY <1>5, <3>2, <3>4, <4>1
    <3>5. QED
      BY <3>1, <3>3, <3>4
  <2>3. CASE s # g /\ s # h
    BY <2>3
  <2>4. QED
    BY <2>1, <2>2, <2>3
<1>9. \A p \in 0 .. 3 : \A m \in 1 .. 3 : (p + m) % 4 \in 0 .. 3 /\ (p + m) % 4 # p
  OBVIOUS
<1> HIDE DEF share, sh, hs
<1>10. \A p \in 0 .. 3 : \A m \in 1 .. 3 : z[p][m] = sh[(p + m) % 4]
  <2>1. \A p \in 0 .. 3 : \A m \in 1 .. 3 : z[p][m] = share(p, (p + m) % 4)
    BY <1>2 DEF ShareAt
  <2>2. QED
    BY <1>8, <1>9, <2>1
<1>11. z = [p \in 0 .. 3 |-> [m \in 1 .. 3 |-> z[p][m]]]
  BY <1>2
<1> HIDE DEF z
<1>12. Replicated(4, 3, z)
  BY ONLY <1>7, <1>10, <1>11, FromShares4
<1>13. Honest(4, Check(d.r, hs))
  <2>1. Check(d.r, hs) = d.r
    BY <1>3, <1>6, CheckHonest
  <2>2. QED
    BY <1>3, <2>1
<1>14. Reconstruct(k, z) = u[i]
  <2> DEFINE e == (g + 3) % 4  f == (h + 3) % 4
  <2>1. e \in 0 .. 3 /\ f \in 0 .. 3 /\ e # f /\ (e + 1) % 4 = g /\ (f + 1) % 4 = h
        /\ \A p \in 0 .. 3 : p # e /\ p # f => (p + 1) % 4 # g /\ (p + 1) % 4 # h /\ (p + 1) % 4 \in 0 .. 3
    BY <1>0
  <2> HIDE DEF e, f
  <2>2. sh[g] = V /\ sh[h] = W /\ \A s \in 0 .. 3 : s # g /\ s # h => sh[s] = 0
    BY <1>0 DEF sh
  <2>3. \A p \in 0 .. 3 : z[p][1] = sh[(p + 1) % 4]
    BY <1>10
  <2>4. z[e][1] = V /\ z[f][1] = W /\ \A p \in 0 .. 3 : p # e /\ p # f => z[p][1] = 0
    BY ONLY <2>1, <2>2, <2>3
  <2>5. Reconstruct(k, z) = Plus(k, V, W)
    BY ONLY k \in Kinds, <1>4, <1>5, <1>12, <2>1, <2>4, TwoWords4
  <2>6. Plus(k, V, W) = u[i]
    <3>1. \A a, b \in Word : Plus(k, b, Minus(k, a, b)) = a
      BY RingLaws
    <3>2. QED
      BY <1>4, <3>1 DEF W
  <2>7. QED
    BY <2>5, <2>6
<1>15. QED
  BY <1>1, <1>12, <1>13, <1>14, ResultFields DEF Good, Carries

LEMMA Inp2GoodF ==
    ASSUME NEW k \in Kinds, NEW u, NEW i \in 0 .. 3, NEW j \in 0 .. 3, i # j,
           u[i] \in Word, u[j] = u[i], NEW w, Honest(4, w)
    PROVE  Carries(k, inp2_F4(k, u, i, j, w), u[i])
<1> DEFINE g == next_party(i, j)
           h == excluded_party(i, j, g)
<1>1. AllFour(i, j, g, h)
  BY NextParty
<1>2. inp2_F4(k, u, i, j, w) = inp_F4(k, u, i, j, g, h, w)
  BY DEF inp2_F4
<1> HIDE DEF g, h
<1>3. QED
  BY <1>1, <1>2, InpGoodF

LEMMA InpBothGoodF ==
    ASSUME NEW k \in Kinds, NEW u, NEW i \in 0 .. 3, NEW j \in 0 .. 3, i # j,
           \A p \in 0 .. 3 : u[p] \in Word, u[j] = u[i], u[(i + 2) % 4] = u[(j + 2) % 4],
           NEW w, Honest(4, w)
    PROVE  CarriesTwo(k, inp_both_F4(k, u, i, j, w), u[i], u[(i + 2) % 4])
<1> DEFINE a == (i + 2) % 4  b == (j + 2) % 4
           s == inp2_F4(k, u, i, j, w)
           t == inp2_F4(k, u, a, b, s.r)
<1>1. inp_both_F4(k, u, i, j, w) = Two(s.z, t.z, t.r)
  BY DEF inp_both_F4
<1>2. a \in 0 .. 3 /\ b \in 0 .. 3 /\ a # b
  OBVIOUS
<1>3. u[a] \in Word /\ u[b] = u[a]
  BY <1>2
<1>4. Carries(k, s, u[i])
  BY Inp2GoodF
<1> HIDE DEF s, a, b
<1>5. Carries(k, t, u[a])
  <2>1. Honest(4, s.r)
    BY <1>4 DEF Good, Carries
  <2>2. QED
    BY ONLY k \in Kinds, <1>2, <1>3, <2>1, Inp2GoodF
<1> HIDE DEF t
<1>6. QED
  BY <1>1, <1>4, <1>5, ResultFields DEF Good, GoodTwo, Carries, CarriesTwo, a

(* Both parties of a pair compute the same cross term.                     *)
LEMMA CrossTermF ==
    ASSUME NEW k \in Kinds, NEW X, Operands(4, 3, X), NEW Y, Operands(4, 3, Y), Len(X) = Len(Y),
           NEW i, NEW j, NEW g, NEW h, AllFour(i, j, g, h)
    PROVE  CrossTerm(k, X, Y, i, j, g, h)[i] \in Word
           /\ CrossTerm(k, X, Y, i, j, g, h)[j] = CrossTerm(k, X, Y, i, j, g, h)[i]
<1> DEFINE f(p, a, b) == Prod(k, X, Y, p, a, b)
           ih == abs2sh(i, h)  ig == abs2sh(i, g)  jh == abs2sh(j, h)  jg == abs2sh(j, g)
<1>0. /\ g \in 0 .. 3 /\ i \in 0 .. 3 /\ j \in 0 .. 3 /\ h \in 0 .. 3
      /\ i # j /\ i # g /\ i # h /\ j # g /\ j # h /\ g # h
  BY DEF AllFour
<1>1. /\ \A p \in 0 .. 3 : \A a, b \in 1 .. 3 : f(p, a, b) \in Word
      /\ \A p, q \in 0 .. 3 : \A a, c, b, d \in 1 .. 3 :
           (p + a) % 4 = (q + c) % 4 /\ (p + b) % 4 = (q + d) % 4 => f(p, a, b) = f(q, c, d)
  BY Products4
<1>2. /\ CrossTerm(k, X, Y, i, j, g, h)[i] = Plus(k, f(i, ih, ig), f(i, ig, ih))
      /\ CrossTerm(k, X, Y, i, j, g, h)[j] = Plus(k, f(j, jh, jg), f(j, jg, jh))
  BY DEF CrossTerm
<1>3. /\ ih \in 1 .. 3 /\ ig \in 1 .. 3 /\ jh \in 1 .. 3 /\ jg \in 1 .. 3
      /\ (i + ih) % 4 = (j + jh) % 4 /\ (i + ig) % 4 = (j + jg) % 4
  BY <1>0, IndexOf
<1> HIDE DEF f, ih, ig, jh, jg
<1>4. f(i, ih, ig) = f(j, jh, jg) /\ f(i, ig, ih) = f(j, jg, jh)
  BY ONLY <1>0, <1>1, <1>3
<1>5. f(i, ih, ig) \in Word /\ f(i, ig, ih) \in Word
  BY ONLY <1>0, <1>1, <1>3
<1>6. QED
  BY <1>2, <1>4, <1>5, OperatorTypes

(* What the pair of i and j adds to the value.                             *)
PairTerm(k, X, Y, i, j) ==
    CrossTerm(k, X, Y, i, j, next_party(i, j), excluded_party(i, j, next_party(i, j)))[i]

LEMMA AddCrossTermGood ==
    ASSUME NEW k \in Kinds, NEW X, Operands(4, 3, X), NEW Y, Operands(4, 3, Y), Len(X) = Len(Y),
           NEW s, Good(4, 3, s), NEW i \in 0 .. 3, NEW j \in 0 .. 3, i # j
    PROVE  Carries(k, AddCrossTerm(k, X, Y, s, i, j), Plus(k, Reconstruct(k, s.z), PairTerm(k, X, Y, i, j)))
<1> DEFINE g == next_party(i, j)
           h == excluded_party(i, j, g)
           c == CrossTerm(k, X, Y, i, j, g, h)
           t == inp_F4(k, c, i, j, g, h, s.r)
<1>1. AllFour(i, j, g, h)
  BY NextParty
<1>2. AddCrossTerm(k, X, Y, s, i, j) = Result(PlusShares(k, s.z, t.z), t.r)
  BY DEF AddCrossTerm
<1> HIDE DEF g, h
<1>3. c[i] \in Word /\ c[j] = c[i]
  BY <1>1, CrossTermF
<1>30. c[i] = PairTerm(k, X, Y, i, j)
  BY DEF PairTerm, c, g, h
<1> HIDE DEF c
<1>4. Carries(k, t, c[i])
  BY <1>1, <1>3, InpGoodF DEF Good
<1> HIDE DEF t
<1>5. Replicated(4, 3, PlusShares(k, s.z, t.z))
  BY <1>4, PlusFour DEF Good, Carries
<1>6. Reconstruct(k, PlusShares(k, s.z, t.z)) = Plus(k, Reconstruct(k, s.z), Reconstruct(k, t.z))
  <2>1. Size(4) /\ 4 - 1 = 3 /\ Replicated(4, 3, s.z) /\ Replicated(4, 3, t.z)
    BY <1>4 DEF Size, Good, Carries
  <2>2. QED
    BY <2>1, AddedValues
<1>7. QED
  BY <1>2, <1>30, <1>4, <1>5, <1>6, ResultFields DEF Good, Carries

(* The self terms, and the world before the first cross term.              *)
LEMMA SelfGoodF ==
    ASSUME NEW k \in Kinds, NEW X, Operands(4, 3, X), NEW Y, Operands(4, 3, Y), Len(X) = Len(Y)
    PROVE  Replicated(4, 3, [p \in PF |-> [m \in 1 .. 3 |-> Prod(k, X, Y, p, m, m)]])
<1> DEFINE f(p, a, b) == Prod(k, X, Y, p, a, b)
           z == [p \in PF |-> [m \in 1 .. 3 |-> f(p, m, m)]]
<1>1. /\ \A p \in 0 .. 3 : \A a, b \in 1 .. 3 : f(p, a, b) \in Word
      /\ \A p, q \in 0 .. 3 : \A a, c, b, d \in 1 .. 3 :
           (p + a) % 4 = (q + c) % 4 /\ (p + b) % 4 = (q + d) % 4 => f(p, a, b) = f(q, c, d)
  BY Products4
<1> HIDE DEF f
<1> DEFINE n == 4 rep == 3
<1>2. z \in [0 .. 3 -> [1 .. 3 -> Word]]
  BY <1>1, PartiesF
<1>3. \A p, q \in 0 .. 3 : \A i, j \in 1 .. 3 : (p + i) % 4 = (q + j) % 4 => z[p][i] = z[q][j]
  <2>1. \A p \in 0 .. 3 : \A i \in 1 .. 3 : z[p][i] = f(p, i, i)
    BY PartiesF
  <2> HIDE DEF z
  <2>2. QED
    BY ONLY <1>1, <2>1
<1> HIDE DEF z
<1>4. Replicated(4, 3, z)
  BY <1>2, <1>3 DEF Replicated, Words
<1>5. QED
  BY <1>4 DEF z, f

SixTerms(k, X, Y, a) ==
    LET T(i, j) == PairTerm(k, X, Y, i, j) IN
    Plus(k, Plus(k, Plus(k, Plus(k, Plus(k, Plus(k, a, T(0, 1)), T(0, 2)), T(0, 3)), T(1, 2)), T(1, 3)), T(2, 3))

LEMMA MultiplyGoodF ==
    ASSUME NEW k \in Kinds, NEW X, Operands(4, 3, X), NEW Y, Operands(4, 3, Y), Len(X) = Len(Y),
           NEW w, Honest(4, w)
    PROVE  /\ Good(4, 3, generic_multiply(k, X, Y, w))
           /\ \E z : /\ z = [p \in PF |-> [m \in 1 .. 3 |-> Prod(k, X, Y, p, m, m)]]
                    /\ Reconstruct(k, generic_multiply(k, X, Y, w).z) = SixTerms(k, X, Y, Reconstruct(k, z))
<1> DEFINE self == [p \in PF |-> [m \in 1 .. 3 |-> Prod(k, X, Y, p, m, m)]]
           s0 == Result(self, w)
           step(s, n) == AddCrossTerm(k, X, Y, s, Pairs[n][1], Pairs[n][2])
           term(n) == PairTerm(k, X, Y, Pairs[n][1], Pairs[n][2])
           s1 == step(s0, 1)  s2 == step(s1, 2)  s3 == step(s2, 3)
           s4 == step(s3, 4)  s5 == step(s4, 5)  s6 == step(s5, 6)
           body(g) == [n \in 0 .. 6 |-> IF n = 0 THEN s0 ELSE step(g[n - 1], n)]
           f == [n \in 0 .. 6 |-> CASE n = 0 -> s0 [] n = 1 -> s1 [] n = 2 -> s2 [] n = 3 -> s3
                                    [] n = 4 -> s4 [] n = 5 -> s5 [] n = 6 -> s6]
           acc == CHOOSE g : g = body(g)
<1>1. generic_multiply(k, X, Y, w) = acc[6]
  BY Zenon DEF generic_multiply
<1>2. \A n \in 0 .. 6 : n = 0 \/ n = 1 \/ n = 2 \/ n = 3 \/ n = 4 \/ n = 5 \/ n = 6
  OBVIOUS
<1>3. Good(4, 3, s0)
  <2>1. Replicated(4, 3, self)
    BY SelfGoodF
  <2> HIDE DEF self
  <2>2. QED
    BY <2>1, ResultFields DEF Good
<1> HIDE DEF s0
<1>4. ASSUME NEW s, Good(4, 3, s), NEW n \in 1 .. 6
      PROVE  Good(4, 3, step(s, n)) /\ Reconstruct(k, step(s, n).z) = Plus(k, Reconstruct(k, s.z), term(n))
  <2>1. /\ Pairs[1] = <<0, 1>> /\ Pairs[2] = <<0, 2>> /\ Pairs[3] = <<0, 3>>
        /\ Pairs[4] = <<1, 2>> /\ Pairs[5] = <<1, 3>> /\ Pairs[6] = <<2, 3>>
    BY DEF Pairs
  <2>2. n = 1 \/ n = 2 \/ n = 3 \/ n = 4 \/ n = 5 \/ n = 6
    OBVIOUS
  <2>3. Pairs[n][1] \in 0 .. 3 /\ Pairs[n][2] \in 0 .. 3 /\ Pairs[n][1] # Pairs[n][2]
    BY <2>1, <2>2
  <2>4. QED
    BY <1>4, <2>3, AddCrossTermGood DEF Carries
<1> HIDE DEF step, term
<1>5. f = body(f)
  <2>1. /\ f[0] = s0 /\ f[1] = s1 /\ f[2] = s2 /\ f[3] = s3 /\ f[4] = s4 /\ f[5] = s5 /\ f[6] = s6
    OBVIOUS
  <2>2. f = [n \in 0 .. 6 |-> f[n]]
    <3> DEFINE e(n) == CASE n = 0 -> s0 [] n = 1 -> s1 [] n = 2 -> s2 [] n = 3 -> s3
                         [] n = 4 -> s4 [] n = 5 -> s5 [] n = 6 -> s6
    <3>1. f = [n \in 0 .. 6 |-> e(n)]
      OBVIOUS
    <3> HIDE DEF f, e
    <3>2. QED
      BY <3>1
  <2> HIDE DEF f
  <2>3. /\ f[1] = step(f[0], 1) /\ f[2] = step(f[1], 2) /\ f[3] = step(f[2], 3)
        /\ f[4] = step(f[3], 4) /\ f[5] = step(f[4], 5) /\ f[6] = step(f[5], 6)
    BY <2>1
  <2>4. \A n \in 0 .. 6 : n # 0 => f[n] = step(f[n - 1], n)
    <3>1. 1 - 1 = 0 /\ 2 - 1 = 1 /\ 3 - 1 = 2 /\ 4 - 1 = 3 /\ 5 - 1 = 4 /\ 6 - 1 = 5
      OBVIOUS
    <3>2. QED
      BY ONLY <1>2, <2>3, <3>1
  <2>5. \A n \in 0 .. 6 : f[n] = IF n = 0 THEN s0 ELSE step(f[n - 1], n)
    BY <2>1, <2>4
  <2>6. QED
    BY <2>2, <2>5, Zenon
<1>6. acc = body(acc)
  <2> HIDE DEF f, body
  <2>1. QED
    BY <1>5, Zenon
<1> HIDE DEF acc, f
<1>7. \A n \in 0 .. 6 : acc[n] = IF n = 0 THEN s0 ELSE step(acc[n - 1], n)
  BY <1>6, Zenon
<1> HIDE DEF body
<1>8. /\ acc[0] = s0 /\ acc[1] = step(acc[0], 1) /\ acc[2] = step(acc[1], 2) /\ acc[3] = step(acc[2], 3)
      /\ acc[4] = step(acc[3], 4) /\ acc[5] = step(acc[4], 5) /\ acc[6] = step(acc[5], 6)
  BY <1>7
<1>9. /\ 1 \in 1 .. 6 /\ 2 \in 1 .. 6 /\ 3 \in 1 .. 6 /\ 4 \in 1 .. 6 /\ 5 \in 1 .. 6 /\ 6 \in 1 .. 6
  OBVIOUS
<1>10. Good(4, 3, acc[1]) /\ Good(4, 3, acc[2]) /\ Good(4, 3, acc[3])
  BY ONLY <1>3, <1>4, <1>8, <1>9
<1>11. Good(4, 3, acc[4]) /\ Good(4, 3, acc[5]) /\ Good(4, 3, acc[6])
  BY ONLY <1>4, <1>8, <1>9, <1>10
<1>12. /\ Reconstruct(k, acc[1].z) = Plus(k, Reconstruct(k, acc[0].z), term(1))
       /\ Reconstruct(k, acc[2].z) = Plus(k, Reconstruct(k, acc[1].z), term(2))
       /\ Reconstruct(k, acc[3].z) = Plus(k, Reconstruct(k, acc[2].z), term(3))
  BY ONLY <1>3, <1>4, <1>8, <1>9, <1>10
<1>13. /\ Reconstruct(k, acc[4].z) = Plus(k, Reconstruct(k, acc[3].z), term(4))
       /\ Reconstruct(k, acc[5].z) = Plus(k, Reconstruct(k, acc[4].z), term(5))
       /\ Reconstruct(k, acc[6].z) = Plus(k, Reconstruct(k, acc[5].z), term(6))
  BY ONLY <1>4, <1>8, <1>9, <1>10, <1>11
<1>14. acc[0].z = self
  BY <1>8, ResultFields DEF s0
<1>15. /\ term(1) = PairTerm(k, X, Y, 0, 1) /\ term(2) = PairTerm(k, X, Y, 0, 2) /\ term(3) = PairTerm(k, X, Y, 0, 3)
       /\ term(4) = PairTerm(k, X, Y, 1, 2) /\ term(5) = PairTerm(k, X, Y, 1, 3) /\ term(6) = PairTerm(k, X, Y, 2, 3)
  BY DEF term, Pairs
<1>16. Reconstruct(k, acc[6].z) = SixTerms(k, X, Y, Reconstruct(k, self))
  <2> HIDE DEF self, term
  <2>1. QED
    BY <1>12, <1>13, <1>14, <1>15 DEF SixTerms
<1>17. QED
  BY <1>1, <1>11, <1>16

LEMMA DivGoodF ==
    ASSUME NEW u, Replicated(4, 3, u), NEW w, Honest(4, w), NEW c \in Nat, c > 0
    PROVE  GoodTwo(4, 3, div_const_F4(u, c, w)) /\ Divided(u, c, div_const_F4(u, c, w))
<1> DEFINE res == [p \in PF |-> HalfQuotient(Half(u, {1, 3})[p], c)]
           err == [p \in PF |-> Wrap(HalfRemainder(Half(u, {1, 3})[p], c) - Correction(p, c))]
           e == inp_both_F4("a", err, 3, 2, w)
           q == inp_both_F4("a", res, 3, 2, e.r)
<1>1. div_const_F4(u, c, w) = Two(PlusShares("a", q.u, q.v), PlusShares("a", e.u, e.v), q.r)
  BY DEF div_const_F4
<1>2. /\ \A p \in 0 .. 3 : res[p] \in Word /\ err[p] \in Word
      /\ res[2] = res[3] /\ res[1] = res[0] /\ err[2] = err[3] /\ err[1] = err[0]
  <2>1. /\ res = [p \in 0 .. 3 |-> HalfQuotient(Half(u, {1, 3})[p], c)]
        /\ err = [p \in 0 .. 3 |-> Wrap(HalfRemainder(Half(u, {1, 3})[p], c) - Correction(p, c))]
    BY PartiesF
  <2> HIDE DEF res, err
  <2>2. QED
    BY <2>1, HalfResults4
<1> HIDE DEF res, err
<1>3. "a" \in Kinds /\ 3 \in 0 .. 3 /\ 2 \in 0 .. 3 /\ 3 # 2 /\ (3 + 2) % 4 = 1 /\ (2 + 2) % 4 = 0
  BY DEF Kinds
<1>4. GoodTwo(4, 3, e) /\ CarriesTwo("a", e, err[3], err[1])
  BY <1>2, <1>3, InpBothGoodF DEF CarriesTwo
<1> HIDE DEF e
<1>5. GoodTwo(4, 3, q) /\ CarriesTwo("a", q, res[3], res[1])
  <2>1. Honest(4, e.r)
    BY <1>4 DEF GoodTwo
  <2>2. CarriesTwo("a", q, res[3], res[1])
    BY ONLY <1>2, <1>3, <2>1, InpBothGoodF
  <2>3. QED
    BY <2>2 DEF CarriesTwo
<1> HIDE DEF q
<1>6. Replicated(4, 3, PlusShares("a", q.u, q.v)) /\ Replicated(4, 3, PlusShares("a", e.u, e.v))
  BY <1>3, <1>4, <1>5, PlusFour DEF GoodTwo
<1>7. GoodTwo(4, 3, div_const_F4(u, c, w))
  BY <1>1, <1>5, <1>6, ResultFields DEF GoodTwo
<1>8. /\ Reconstruct("a", PlusShares("a", q.u, q.v)) = Plus("a", res[3], res[1])
      /\ Reconstruct("a", PlusShares("a", e.u, e.v)) = Plus("a", err[3], err[1])
  <2>1. /\ Size(4) /\ 4 - 1 = 3 /\ Replicated(4, 3, q.u) /\ Replicated(4, 3, q.v)
        /\ Replicated(4, 3, e.u) /\ Replicated(4, 3, e.v)
    BY <1>4, <1>5 DEF Size, GoodTwo
  <2>2. /\ Reconstruct("a", PlusShares("a", q.u, q.v)) = Plus("a", Reconstruct("a", q.u), Reconstruct("a", q.v))
        /\ Reconstruct("a", PlusShares("a", e.u, e.v)) = Plus("a", Reconstruct("a", e.u), Reconstruct("a", e.v))
    BY <1>3, <2>1, AddedValues
  <2>3. QED
    BY <1>4, <1>5, <2>2 DEF CarriesTwo
<1>9. Divided(u, c, div_const_F4(u, c, w))
  <2> DEFINE a == Half(u, {1, 3})[1]
             b == Half(u, {1, 3})[3]
  <2>1. Halved(u, a, b)
    <3>1. a \in Word /\ b \in Word /\ Plus("a", b, a) = Reconstruct("a", u)
      BY Halves4
    <3>2. QED
      BY <1>3, <3>1, PlusAlgebra DEF Halved
  <2>2. /\ res[3] = HalfQuotient(b, c) /\ res[1] = HalfQuotient(a, c)
        /\ err[3] = Wrap(HalfRemainder(b, c) - c) /\ err[1] = Wrap(HalfRemainder(a, c) - 0)
    BY PartiesF DEF res, err, Correction
  <2> HIDE DEF a, b
  <2>3. /\ HalfQuotient(a, c) \in Word /\ HalfQuotient(b, c) \in Word /\ HalfRemainder(a, c) \in Word
        /\ Wrap(HalfRemainder(b, c) - c) \in Word
    BY <2>1, HalfTypes DEF Halved
  <2>4. err[1] = HalfRemainder(a, c)
    <3>1. \A i \in Word : Wrap(i - 0) = i
      BY WrapWord, ZeroWord
    <3>2. QED
      BY <2>2, <2>3, <3>1
  <2>5. /\ Plus("a", res[3], res[1]) = Plus("a", HalfQuotient(a, c), HalfQuotient(b, c))
        /\ Plus("a", err[3], err[1]) = Plus("a", HalfRemainder(a, c), Wrap(HalfRemainder(b, c) - c))
    BY <1>3, <2>2, <2>3, <2>4, PlusAlgebra
  <2>6. QED
    BY <1>1, <1>8, <2>1, <2>5, ResultFields DEF Divided
<1>10. QED
  BY <1>7, <1>9

LEMMA RedistributeGoodF ==
    ASSUME NEW u, Replicated(4, 3, u), NEW w, Honest(4, w)
    PROVE  GoodTwo(4, 3, redistribute_F4(u, w)) /\ SplitInTwo(u, redistribute_F4(u, w))
<1> DEFINE s == Half(u, {0, 2})
<1>1. redistribute_F4(u, w) = inp_both_F4("b", s, 0, 3, w)
  BY DEF redistribute_F4
<1>2. (\A p \in 0 .. 3 : s[p] \in Word) /\ s[3] = s[0] /\ s[2] = s[1] /\ Plus("a", s[0], s[2]) = Reconstruct("a", u)
  BY Halves4
<1> HIDE DEF s
<1>3. "b" \in Kinds /\ 0 \in 0 .. 3 /\ 3 \in 0 .. 3 /\ 0 # 3 /\ (0 + 2) % 4 = 2 /\ (3 + 2) % 4 = 1
  BY DEF Kinds
<1>4. CarriesTwo("b", redistribute_F4(u, w), s[0], s[2])
  BY <1>1, <1>2, <1>3, InpBothGoodF
<1>5. QED
  BY <1>2, <1>4 DEF CarriesTwo, SplitInTwo, Halved

(* Complementing share 3 wherever it is held.                              *)
LEMMA FlipGoodF ==
    ASSUME NEW u, Replicated(4, 3, u), NEW neg, neg \in [Word -> Word], NEW z,
           z = [p \in PF |-> [m \in 1 .. 3 |-> IF m = 3 - p THEN neg[u[p][m]] ELSE u[p][m]]]
    PROVE  Replicated(4, 3, z)
<1>1. /\ u \in [0 .. 3 -> [1 .. 3 -> Word]]
      /\ \A p, q \in 0 .. 3 : \A i, j \in 1 .. 3 : (p + i) % 4 = (q + j) % 4 => u[p][i] = u[q][j]
  <2>1. 4 - 1 = 3
    OBVIOUS
  <2>2. QED
    BY <2>1 DEF Replicated, Words
<1>2. \A p \in 0 .. 3 : \A i \in 1 .. 3 : u[p][i] \in Word
  BY <1>1
<1>3. \A p \in 0 .. 3 : \A i \in 1 .. 3 : z[p][i] = IF i = 3 - p THEN neg[u[p][i]] ELSE u[p][i]
  BY PartiesF
<1>4. \A p \in 0 .. 3 : \A i \in 1 .. 3 : z[p][i] \in Word
  BY ONLY neg \in [Word -> Word], <1>2, <1>3
<1>5. z \in [0 .. 3 -> [1 .. 3 -> Word]]
  <2>1. z = [p \in 0 .. 3 |-> [m \in 1 .. 3 |-> z[p][m]]]
    BY PartiesF
  <2>2. QED
    BY ONLY <1>4, <2>1
<1>6. ASSUME NEW p \in 0 .. 3, NEW q \in 0 .. 3, NEW i \in 1 .. 3, NEW j \in 1 .. 3, (p + i) % 4 = (q + j) % 4
      PROVE  z[p][i] = z[q][j]
  <2>1. i = 3 - p <=> j = 3 - q
    <3>1. i = 3 - p <=> (p + i) % 4 = 3
      OBVIOUS
    <3>2. j = 3 - q <=> (q + j) % 4 = 3
      OBVIOUS
    <3>3. QED
      BY <1>6, <3>1, <3>2
  <2>2. u[p][i] = u[q][j]
    BY <1>1, <1>6
  <2>3. /\ z[p][i] = IF i = 3 - p THEN neg[u[p][i]] ELSE u[p][i]
        /\ z[q][j] = IF j = 3 - q THEN neg[u[q][j]] ELSE u[q][j]
    BY <1>3
  <2>4. QED
    BY ONLY <2>1, <2>2, <2>3
<1>7. QED
  <2>1. 4 - 1 = 3
    OBVIOUS
  <2>2. QED
    BY ONLY <1>5, <1>6, <2>1 DEF Replicated, Words

LEMMA NotGoodF ==
    ASSUME NEW u, Replicated(4, 3, u)
    PROVE  Replicated(4, 3, not_b_F4(u)) /\ Replicated(4, 3, not_b_1_F4(u))
<1>0. /\ \A p \in 0 .. 3 : \A i \in 1 .. 3 : u[p][i] \in Word /\ MaskShares(u)[p][i] \in Word
      /\ Replicated(4, 3, MaskShares(u))
  <2>1. "a" \in Kinds
    BY DEF Kinds
  <2>2. Replicated(4, 3, MaskShares(u))
    BY <2>1, PlusFour
  <2>3. \A x : Replicated(4, 3, x) => x \in [0 .. 3 -> [1 .. 3 -> Word]]
    <3>1. 4 - 1 = 3
      OBVIOUS
    <3>2. QED
      BY <3>1 DEF Replicated, Words
  <2>4. u \in [0 .. 3 -> [1 .. 3 -> Word]] /\ MaskShares(u) \in [0 .. 3 -> [1 .. 3 -> Word]]
    BY <2>2, <2>3, Zenon
  <2>5. QED
    BY <2>2, <2>4
<1> DEFINE m == MaskShares(u)
<1>1. Replicated(4, 3, not_b_F4(u))
  <2> DEFINE neg == [a \in Word |-> BitNot(a)]
             z == [p \in PF |-> [i \in 1 .. 3 |-> IF i = 3 - p THEN neg[u[p][i]] ELSE u[p][i]]]
  <2>1. neg \in [Word -> Word]
    BY NotTypes
  <2>2. not_b_F4(u) = z
    BY <1>0, PartiesF DEF not_b_F4
  <2> HIDE DEF neg
  <2>3. z = [p \in PF |-> [i \in 1 .. 3 |-> IF i = 3 - p THEN neg[u[p][i]] ELSE u[p][i]]]
    OBVIOUS
  <2> HIDE DEF z
  <2>4. Replicated(4, 3, z)
    BY <2>1, <2>3, FlipGoodF
  <2>5. QED
    BY <2>2, <2>4
<1>2. Replicated(4, 3, not_b_1_F4(u))
  <2> DEFINE neg == [a \in Word |-> LogicalNot(a)]
             z == [p \in PF |-> [i \in 1 .. 3 |-> IF i = 3 - p THEN neg[m[p][i]] ELSE m[p][i]]]
  <2>1. neg \in [Word -> Word]
    BY NotTypes
  <2>2. not_b_1_F4(u) = z
    BY <1>0, PartiesF DEF not_b_1_F4
  <2> HIDE DEF neg
  <2>3. z = [p \in PF |-> [i \in 1 .. 3 |-> IF i = 3 - p THEN neg[m[p][i]] ELSE m[p][i]]]
    OBVIOUS
  <2> HIDE DEF z, m
  <2>4. Replicated(4, 3, m)
    BY <1>0 DEF m
  <2>5. Replicated(4, 3, z)
    BY <2>1, <2>3, <2>4, FlipGoodF
  <2>6. QED
    BY <2>2, <2>5
<1>3. QED
  BY <1>1, <1>2

LEMMA ShareGoodF ==
    ASSUME NEW k \in Kinds, NEW a \in Word, NEW who \in 0 .. 3, NEW w, Honest(4, w)
    PROVE  Carries(k, secret_share_F4(k, a, who, w), a)
<1> DEFINE D == [p \in PF |-> IF p = who THEN [i \in 1 .. 3 |-> localPRG(p)] ELSE <<>>]
           s == Draw(w, D).v[who]
           t == Append(s, Minus(k, a, Total(k, s)))
           z == [p \in PF |-> [i \in 1 .. 3 |-> t[((p - who + i) % 4) + 1]]]
<1>1. secret_share_F4(k, a, who, w) = Result(z, Draw(w, D).r)
  BY DEF secret_share_F4
<1>2. D = [p \in 0 .. 3 |-> IF p = who THEN [i \in 1 .. 3 |-> p] ELSE <<>>]
  BY PartiesF DEF localPRG
<1> HIDE DEF D
<1>3. Honest(4, Draw(w, D).r) /\ s \in [1 .. 3 -> Word]
  BY <1>2, OwnDraws4
<1> HIDE DEF s
<1>4. t \in [1 .. 4 -> Word]
  <2> DEFINE m == 3
  <2>1. m \in Nat /\ s \in [1 .. m -> Word] /\ m + 1 = 4
    BY <1>3
  <2> HIDE DEF m
  <2>2. t \in [1 .. m + 1 -> Word]
    BY <2>1, CompleteWords
  <2>3. QED
    BY <2>1, <2>2
<1>41. Sum4(k, t[1], t[2], t[3], t[4]) = a
  BY ONLY k \in Kinds, a \in Word, <1>3, CompleteSums
<1> HIDE DEF t
<1> DEFINE sh == [q \in 0 .. 3 |-> t[((q + 8 - who) % 4) + 1]]
<1>5. sh \in [0 .. 3 -> Word]
  <2>1. \A q \in 0 .. 3 : ((q + 8 - who) % 4) + 1 \in 1 .. 4
    OBVIOUS
  <2>2. QED
    BY <1>4, <2>1
<1>6. ASSUME NEW p \in 0 .. 3, NEW i \in 1 .. 3
      PROVE  (p - who + i) % 4 = (((p + i) % 4) + 8 - who) % 4
  BY DealtTo4
<1>7. \A p \in 0 .. 3 : \A i \in 1 .. 3 : z[p][i] = sh[(p + i) % 4]
  <2>1. \A p \in 0 .. 3 : \A i \in 1 .. 3 : (p + i) % 4 \in 0 .. 3
    OBVIOUS
  <2>2. QED
    BY <1>6, <2>1, PartiesF
<1>8. z = [p \in 0 .. 3 |-> [i \in 1 .. 3 |-> z[p][i]]]
  BY PartiesF
<1> HIDE DEF z, sh
<1>9. Replicated(4, 3, z)
  BY <1>5, <1>7, <1>8, FromShares4
<1>10. Reconstruct(k, z) = a
  <2> DEFINE r == (9 - who) % 4
  <2>1. r \in 0 .. 3
    OBVIOUS
  <2>2. \A p \in 0 .. 3 : (p + 1) % 4 \in 0 .. 3 /\ (((p + 1) % 4) + 8 - who) % 4 = (p + r) % 4
    OBVIOUS
  <2>3. \A p \in 0 .. 3 : sh[(p + 1) % 4] = t[((p + r) % 4) + 1]
    BY <2>2 DEF sh
  <2>4. \A p \in 0 .. 3 : z[p][1] = t[((p + r) % 4) + 1]
    BY <1>7, <2>3
  <2> HIDE DEF r
  <2>5. QED
    BY ONLY k \in Kinds, <1>4, <1>41, <1>9, <2>1, <2>4, DealtSum4
<1>11. QED
  BY <1>1, <1>3, <1>9, <1>10, ResultFields DEF Good, Carries

(* Whoever is left out, the value is one share and the others are zero.    *)
LEMMA PublicGoodF ==
    ASSUME NEW a \in Word, NEW K
    PROVE  Replicated(4, 3, public_share_F4(a, K))
<1> DEFINE h == IF K = {} THEN 0 ELSE CHOOSE p \in PF : p \notin K
           z == [p \in PF |-> [m \in 1 .. 3 |-> IF ShareAt(p, m) = h THEN a ELSE 0]]
           sh == [s \in 0 .. 3 |-> IF s = h THEN a ELSE 0]
<1>1. public_share_F4(a, K) = z
  BY DEF public_share_F4
<1> HIDE DEF h
<1>2. sh \in [0 .. 3 -> Word]
  BY ZeroWord
<1>3. \A p \in 0 .. 3 : \A m \in 1 .. 3 : z[p][m] = sh[(p + m) % 4]
  <2>1. \A p \in 0 .. 3 : \A m \in 1 .. 3 : (p + m) % 4 \in 0 .. 3
    OBVIOUS
  <2>2. QED
    BY <2>1, PartiesF DEF ShareAt
<1>4. z = [p \in 0 .. 3 |-> [i \in 1 .. 3 |-> z[p][i]]]
  BY PartiesF
<1> HIDE DEF z, sh
<1>5. Replicated(4, 3, z)
  BY <1>2, <1>3, <1>4, FromShares4
<1>6. QED
  BY <1>1, <1>5

(* Without the outsider and the party that lacks the share, two are left.  *)
LEMMA TwoLeft ==
    ASSUME NEW e \in 0 .. 3, NEW s \in 0 .. 3, e # s, NEW H, H = (0 .. 3 \ {e}) \ {s}
    PROVE  \E a, b \in 0 .. 3 : /\ a # b /\ a # e /\ b # e /\ a # s /\ b # s
                                /\ a = (CHOOSE p \in H : \A q \in H : p <= q)
                                /\ b = (CHOOSE p \in H : \A q \in H : p >= q)
<1>1. \A a, b \in 0 .. 3 : a < b /\ a # e /\ b # e /\ a # s /\ b # s =>
        /\ a \in H /\ b \in H /\ \A q \in H : q = a \/ q = b
  OBVIOUS
<1>2. \E a, b \in 0 .. 3 : a < b /\ a # e /\ b # e /\ a # s /\ b # s
  OBVIOUS
<1>3. PICK a \in 0 .. 3, b \in 0 .. 3 : a < b /\ a # e /\ b # e /\ a # s /\ b # s
  BY <1>2
<1>4. a \in H /\ b \in H /\ \A q \in H : q = a \/ q = b
  BY <1>1, <1>3
<1> DEFINE lo == CHOOSE p \in H : \A q \in H : p <= q
           hi == CHOOSE p \in H : \A q \in H : p >= q
<1>5. lo = a
  <2>1. \A q \in H : a <= q
    BY <1>3, <1>4
  <2>2. lo \in H /\ \A q \in H : lo <= q
    BY <1>4, <2>1, Zenon
  <2> HIDE DEF lo
  <2>3. QED
    BY <1>3, <1>4, <2>2
<1>6. hi = b
  <2>1. \A q \in H : b >= q
    BY <1>3, <1>4
  <2>2. hi \in H /\ \A q \in H : hi >= q
    BY <1>4, <2>1, Zenon
  <2> HIDE DEF hi
  <2>3. QED
    BY <1>3, <1>4, <2>2
<1>7. a # b
  BY <1>3
<1> HIDE DEF lo, hi
<1>8. QED
  BY <1>3, <1>5, <1>6, <1>7 DEF lo, hi

LEMMA ReshareGoodF ==
    ASSUME NEW k \in Kinds, NEW u, Replicated(4, 3, u), NEW G \in Groups(4), NEW w, Honest(4, w)
    PROVE  Good(4, 3, reshare_F4(k, u, G, w)) /\ AddsZero(4, k, u, G, reshare_F4(k, u, G, w).z)
<1> DEFINE zs == groupGetNext(4, k, G, w)
           R == Rerandomised(4, k, u, G, zs.z)
           known(s) == [p \in G \ {s} |-> R[p][abs2sh(p, s)]]
           lo(s) == CHOOSE p \in G \ {s} : \A q \in G \ {s} : p <= q
           hi(s) == CHOOSE p \in G \ {s} : \A q \in G \ {s} : p >= q
           got(s) == jmp(known(s), lo(s), hi(s))
           hs == \A s \in G : HashAgrees(known(s), lo(s), hi(s))
<1>1. /\ Honest(4, zs.r) /\ DOMAIN R = 0 .. 3 /\ R = [p \in 0 .. 3 |-> R[p]]
      /\ AlikeAmong(4, 3, G, R) /\ AddsZero(4, k, u, G, R)
  BY GroupShares4
<1>2. PICK e \in 0 .. 3 : G = 0 .. 3 \ {e} /\ e = (CHOOSE p \in 0 .. 3 : p \notin G)
  BY Outside4
<1> DEFINE row == [m \in 1 .. 3 |-> got(ShareAt(e, m))]
<1>3. reshare_F4(k, u, G, w) = Result([R EXCEPT ![e] = row], Check(zs.r, hs))
  <2>1. e = CHOOSE p \in PF : p \notin G
    BY <1>2, PartiesF, Zenon
  <2>2. QED
    BY <2>1 DEF reshare_F4
<1> HIDE DEF zs, R
<1>4. \A p, q \in G : \A i, j \in 1 .. 3 : (p + i) % 4 = (q + j) % 4 => R[p][i] = R[q][j]
  BY <1>1 DEF AlikeAmong
<1>5. ASSUME NEW s \in G
      PROVE  /\ HashAgrees(known(s), lo(s), hi(s))
             /\ \E a \in G \ {s} : got(s) = R[a][abs2sh(a, s)]
  <2> DEFINE H == G \ {s}
  <2>1. s \in 0 .. 3 /\ s # e /\ H = (0 .. 3 \ {e}) \ {s}
    BY <1>2
  <2> HIDE DEF H
  <2>2. PICK a \in 0 .. 3, b \in 0 .. 3 : /\ a # b /\ a # e /\ b # e /\ a # s /\ b # s
                                          /\ a = (CHOOSE p \in H : \A q \in H : p <= q)
                                          /\ b = (CHOOSE p \in H : \A q \in H : p >= q)
    BY ONLY e \in 0 .. 3, <2>1, TwoLeft
  <2>3. lo(s) = a /\ hi(s) = b
    BY <2>2 DEF H
  <2>4. a \in G \ {s} /\ b \in G \ {s}
    BY <1>2, <2>2
  <2>5. R[a][abs2sh(a, s)] = R[b][abs2sh(b, s)]
    <3>1. /\ abs2sh(a, s) \in 1 .. 3 /\ abs2sh(b, s) \in 1 .. 3
          /\ (a + abs2sh(a, s)) % 4 = (b + abs2sh(b, s)) % 4
      BY <2>1, <2>2, IndexOf
    <3>2. QED
      BY <1>4, <2>4, <3>1
  <2>6. known(s)[a] = R[a][abs2sh(a, s)] /\ known(s)[b] = R[b][abs2sh(b, s)]
    BY ONLY <2>4
  <2> HIDE DEF known, lo, hi
  <2>7. jmp(known(s), a, b) = known(s)[a] /\ HashAgrees(known(s), a, b)
    BY <2>2, <2>5, <2>6, JointPassing
  <2>8. got(s) = R[a][abs2sh(a, s)] /\ HashAgrees(known(s), lo(s), hi(s))
    BY <2>3, <2>6, <2>7
  <2> HIDE DEF got
  <2>9. QED
    BY <2>4, <2>8
<1>6. hs = TRUE
  <2> HIDE DEF known, lo, hi, got
  <2>1. QED
    BY <1>5
<1> HIDE DEF hs, got
<1>7. row = [m \in 1 .. 3 |-> row[m]]
  OBVIOUS
<1>8. \A m \in 1 .. 3 : From4(G, R, e, m, row[m])
  <2>1. ASSUME NEW m \in 1 .. 3 PROVE From4(G, R, e, m, row[m])
    <3> DEFINE s == (e + m) % 4
    <3>1. s \in 0 .. 3 /\ s # e
      OBVIOUS
    <3>2. row[m] = got(s) /\ (e + m) % 4 = s
      BY DEF ShareAt
    <3> HIDE DEF s, row
    <3>3. s \in G
      BY <1>2, <3>1
    <3>4. PICK a \in G \ {s} : got(s) = R[a][abs2sh(a, s)]
      BY <1>5, <3>3
    <3>5. abs2sh(a, s) \in 1 .. 3 /\ (a + abs2sh(a, s)) % 4 = s
      BY <1>2, <3>1, IndexOf
    <3>6. QED
      BY <3>2, <3>4, <3>5 DEF From4
  <2>2. QED
    BY <2>1
<1> HIDE DEF row
<1>9. Replicated(4, 3, [R EXCEPT ![e] = row])
  BY ONLY <1>1, <1>2, <1>7, <1>8, ReceivedReplicated
<1>10. Honest(4, Check(zs.r, hs))
  <2>1. Check(zs.r, hs) = zs.r
    BY <1>1, <1>6, CheckHonest
  <2>2. QED
    BY <1>1, <2>1
<1>11. AddsZero(4, k, u, G, [R EXCEPT ![e] = row])
  <2>1. \A p \in G : [R EXCEPT ![e] = row][p] = R[p]
    BY <1>1, <1>2
  <2>2. QED
    BY <1>1, <2>1, KeptAdded
<1>12. QED
  BY <1>3, <1>9, <1>10, <1>11, ResultFields DEF Good


(* A word added to one share is added to the value.                        *)
LEMMA OneShare3 ==
    ASSUME NEW k \in Kinds, NEW e \in Word, NEW a, NEW b, NEW c, Trio(a, b, c)
    PROVE  /\ Sum3(k, Plus(k, e, a), b, c) = Plus(k, e, Sum3(k, a, b, c))
           /\ Sum3(k, a, Plus(k, e, b), c) = Plus(k, e, Sum3(k, a, b, c))
           /\ Sum3(k, a, b, Plus(k, e, c)) = Plus(k, e, Sum3(k, a, b, c))
           /\ Sum3(k, e, 0, 0) = e /\ Sum3(k, 0, e, 0) = e /\ Sum3(k, 0, 0, e) = e
<1>1. a \in Word /\ b \in Word /\ c \in Word /\ 0 \in Word
  BY ZeroWord DEF Trio
<1>2. /\ Plus(k, 0, a) = a /\ Plus(k, 0, b) = b /\ Plus(k, 0, c) = c /\ Plus(k, 0, e) = e /\ Plus(k, e, 0) = e
      /\ Plus(k, 0, 0) = 0
  BY <1>1, RingLaws
<1>3. Trio(e, 0, 0) /\ Trio(0, e, 0) /\ Trio(0, 0, e)
  BY <1>1 DEF Trio
<1>4. Sum3(k, e, 0, 0) = e /\ Sum3(k, 0, e, 0) = e /\ Sum3(k, 0, 0, e) = e
  BY <1>2 DEF Sum3
<1>5. Sum3(k, Plus(k, e, a), Plus(k, 0, b), Plus(k, 0, c)) = Plus(k, Sum3(k, e, 0, 0), Sum3(k, a, b, c))
  BY <1>3, Sum3Adds
<1>6. Sum3(k, Plus(k, 0, a), Plus(k, e, b), Plus(k, 0, c)) = Plus(k, Sum3(k, 0, e, 0), Sum3(k, a, b, c))
  BY <1>3, Sum3Adds
<1>7. Sum3(k, Plus(k, 0, a), Plus(k, 0, b), Plus(k, e, c)) = Plus(k, Sum3(k, 0, 0, e), Sum3(k, a, b, c))
  BY <1>3, Sum3Adds
<1>8. QED
  BY <1>2, <1>4, <1>5, <1>6, <1>7

LEMMA OneShare4 ==
    ASSUME NEW k \in Kinds, NEW e \in Word, NEW a, NEW b, NEW c, NEW d, Quartet(a, b, c, d)
    PROVE  /\ Sum4(k, a, b, Plus(k, e, c), d) = Plus(k, e, Sum4(k, a, b, c, d))
           /\ Sum4(k, e, 0, 0, 0) = e /\ Sum4(k, 0, e, 0, 0) = e /\ Sum4(k, 0, 0, e, 0) = e /\ Sum4(k, 0, 0, 0, e) = e
<1>1. a \in Word /\ b \in Word /\ c \in Word /\ d \in Word /\ 0 \in Word
  BY ZeroWord DEF Quartet
<1>2. /\ Plus(k, 0, a) = a /\ Plus(k, 0, b) = b /\ Plus(k, 0, d) = d /\ Plus(k, 0, e) = e /\ Plus(k, e, 0) = e
      /\ Plus(k, 0, 0) = 0
  BY <1>1, RingLaws
<1>3. Quartet(0, 0, e, 0)
  BY <1>1 DEF Quartet
<1>4. /\ Sum4(k, e, 0, 0, 0) = e /\ Sum4(k, 0, e, 0, 0) = e
      /\ Sum4(k, 0, 0, e, 0) = e /\ Sum4(k, 0, 0, 0, e) = e
  BY <1>2 DEF Sum4
<1>5. Sum4(k, Plus(k, 0, a), Plus(k, 0, b), Plus(k, e, c), Plus(k, 0, d))
        = Plus(k, Sum4(k, 0, 0, e, 0), Sum4(k, a, b, c, d))
  BY <1>3, Sum4Adds
<1>6. QED
  BY <1>2, <1>4, <1>5

-----------------------------------------------------------------------------
(* Complements.                                                            *)
LEMMA NotValue2 ==
    ASSUME NEW u, Replicated(2, 1, u), NEW w, Honest(2, w)
    PROVE  /\ Reconstruct("b", not_b_2PC(u)) = BitNot(Reconstruct("b", u))
           /\ (\A p \in P2 : u[p][1] \in {0, 1}) =>
                 Reconstruct("b", not_b_1_2PC(u)) = BitXor(1, Reconstruct("b", u))
<1> DEFINE a == u[0][1]
           b == u[1][1]
           n == not_b_2PC(u)
           l == not_b_1_2PC(u)
           o == Modulus - 1
<1>1. /\ Replicated(2, 1, n) /\ Replicated(2, 1, l) /\ "b" \in Kinds /\ o \in Word /\ 1 \in Word
  <2>1. 1 \in Nat /\ 1 > 0 /\ 0 \in 0 .. Width
    BY WidthAssumption
  <2>2. Replicated(2, 1, n) /\ Replicated(2, 1, l)
    BY ONLY <2>1, LocalGood2, Replicated(2, 1, u), Honest(2, w)
  <2>3. QED
    BY <2>2, AllOnes, ZeroWord DEF Kinds
<1>2. n[0][1] = BitNot(a) /\ n[1][1] = b /\ l[0][1] = LogicalNot(a) /\ l[1][1] = b
  <2>1. DOMAIN u = P2
    BY Shares2
  <2>2. QED
    BY <2>1 DEF not_b_2PC, not_b_1_2PC, P2
<1>3. /\ Reconstruct("b", u) = BitXor(a, b) /\ a \in Word /\ b \in Word
      /\ Reconstruct("b", n) = BitXor(n[0][1], n[1][1]) /\ Reconstruct("b", l) = BitXor(l[0][1], l[1][1])
  BY <1>1, Values DEF Plus
<1>4. u[0][1] \in {0, 1} => LogicalNot(a) = BitXor(1, a)
  BY LogicalNotIsXor
<1> HIDE DEF a, b, n, l, o
<1>5. BitNot(a) = BitXor(o, a) /\ BitXor(a, b) \in Word
  BY <1>3, NotIsXor, XorBits DEF o
<1>6. BitXor(BitXor(o, a), b) = BitXor(o, BitXor(a, b)) /\ BitXor(BitXor(1, a), b) = BitXor(1, BitXor(a, b))
  BY <1>1, <1>3, XorAlgebra
<1>7. BitNot(BitXor(a, b)) = BitXor(o, BitXor(a, b))
  BY <1>5, NotIsXor DEF o
<1>8. 0 \in P2
  BY DEF P2
<1>9. QED
  BY <1>2, <1>3, <1>4, <1>5, <1>6, <1>7, <1>8 DEF n, l

LEMMA NotValue3 ==
    ASSUME NEW u, Replicated(3, 2, u)
    PROVE  /\ Reconstruct("b", not_b_3PC(u)) = BitNot(Reconstruct("b", u))
           /\ (\A p \in P3 : u[p][1] \in {0, 1}) =>
                 Reconstruct("b", not_b_1_3PC(u)) = BitXor(1, Reconstruct("b", u))
<1> DEFINE a == u[0][1]
           b == u[1][1]
           c == u[2][1]
           n == not_b_3PC(u)
           l == not_b_1_3PC(u)
           o == Modulus - 1
<1>1. Replicated(3, 2, n) /\ Replicated(3, 2, l) /\ "b" \in Kinds /\ o \in Word /\ 1 \in Word
  BY AllOnes, ZeroWord, NotGood3 DEF Kinds
<1>2. /\ n[0][1] = BitNot(a) /\ n[1][1] = BitNot(b) /\ n[2][1] = BitNot(c)
      /\ l[0][1] = LogicalNot(LowBit(a)) /\ l[1][1] = LogicalNot(LowBit(b)) /\ l[2][1] = LogicalNot(LowBit(c))
  BY Parties3 DEF not_b_3PC, not_b_1_3PC
<1>3. /\ Reconstruct("b", u) = Sum3("b", a, b, c) /\ Trio(a, b, c)
      /\ Reconstruct("b", n) = Sum3("b", n[0][1], n[1][1], n[2][1])
      /\ Reconstruct("b", l) = Sum3("b", l[0][1], l[1][1], l[2][1])
  BY <1>1, Values
<1>4. ASSUME NEW e \in Word PROVE Trio(e, e, e) /\ Sum3("b", e, e, e) = e
  <2>1. BitXor(e, e) = 0 /\ BitXor(0, e) = e
    <3>1. 0 \in Word /\ BitXor(BitXor(0, e), e) = 0 /\ BitXor(0, e) = e
      BY ZeroWord, XorAlgebra
    <3>2. QED
      BY <3>1
  <2>2. QED
    BY <2>1 DEF Trio, Sum3, Plus
<1>5. ASSUME NEW e \in Word
      PROVE  Sum3("b", BitXor(e, a), BitXor(e, b), BitXor(e, c)) = BitXor(e, Sum3("b", a, b, c))
  <2>1. Sum3("b", Plus("b", e, a), Plus("b", e, b), Plus("b", e, c)) = Plus("b", Sum3("b", e, e, e), Sum3("b", a, b, c))
    BY <1>1, <1>3, <1>4, Sum3Adds
  <2>2. QED
    BY <1>4, <2>1 DEF Plus
<1>6. BitNot(a) = BitXor(o, a) /\ BitNot(b) = BitXor(o, b) /\ BitNot(c) = BitXor(o, c)
  BY <1>3, NotIsXor DEF Trio
<1>7. BitNot(Sum3("b", a, b, c)) = BitXor(o, Sum3("b", a, b, c))
  BY <1>1, <1>3, Sum3Turn, NotIsXor
<1>8. Reconstruct("b", n) = BitNot(Reconstruct("b", u))
  <2> HIDE DEF a, b, c, n, o
  <2>1. QED
    BY <1>1, <1>2, <1>3, <1>5, <1>6, <1>7
<1>9. ASSUME \A p \in P3 : u[p][1] \in {0, 1}
      PROVE  Reconstruct("b", l) = BitXor(1, Reconstruct("b", u))
  <2>1. a \in {0, 1} /\ b \in {0, 1} /\ c \in {0, 1}
    BY <1>9, Parties3
  <2> HIDE DEF a, b, c, l
  <2>2. \A e \in {0, 1} : LowBit(e) = e
    BY DEF LowBit
  <2>3. l[0][1] = BitXor(1, a) /\ l[1][1] = BitXor(1, b) /\ l[2][1] = BitXor(1, c)
    BY <1>2, <2>1, <2>2, LogicalNotIsXor
  <2>4. QED
    BY <1>1, <1>3, <1>5, <2>3
<1>10. QED
  BY <1>8, <1>9

(* Among four parties the share that P2 keeps first is complemented.       *)
LEMMA NotValue4 ==
    ASSUME NEW u, Replicated(4, 3, u), NEW e \in Word, NEW z, Replicated(4, 3, z),
           z[0][1] = u[0][1], z[1][1] = u[1][1], z[2][1] = BitXor(e, u[2][1]), z[3][1] = u[3][1]
    PROVE  Reconstruct("b", z) = BitXor(e, Reconstruct("b", u))
<1> DEFINE a == u[0][1]  b == u[1][1]  c == u[2][1]  d == u[3][1]
<1>1. "b" \in Kinds
  BY DEF Kinds
<1>2. /\ Reconstruct("b", u) = Sum4("b", a, b, c, d) /\ Quartet(a, b, c, d)
      /\ Reconstruct("b", z) = Sum4("b", a, b, BitXor(e, c), d)
  BY <1>1, Values
<1> HIDE DEF a, b, c, d
<1>3. Sum4("b", a, b, Plus("b", e, c), d) = Plus("b", e, Sum4("b", a, b, c, d))
  BY <1>1, <1>2, OneShare4
<1>4. QED
  BY <1>2, <1>3 DEF Plus

LEMMA NotValues4 ==
    ASSUME NEW u, Replicated(4, 3, u)
    PROVE  /\ Reconstruct("b", not_b_C4(u)) = BitNot(Reconstruct("b", u))
           /\ Reconstruct("b", not_b_F4(u)) = BitNot(Reconstruct("b", u))
           /\ (\A p \in 0 .. 3 : u[p][1] \in {0, 1}) =>
                 /\ Reconstruct("b", not_b_1_C4(u)) = BitXor(1, Reconstruct("b", u))
                 /\ Reconstruct("b", not_b_1_F4(u)) = BitXor(1, Reconstruct("b", u))
<1> DEFINE o == Modulus - 1
           nC == not_b_C4(u)
           nF == not_b_F4(u)
           lC == not_b_1_C4(u)
           lF == not_b_1_F4(u)
           m  == MaskShares(u)
<1>1. /\ Replicated(4, 3, nC) /\ Replicated(4, 3, lC) /\ Replicated(4, 3, nF) /\ Replicated(4, 3, lF)
      /\ o \in Word /\ 1 \in Word
  BY AllOnes, ZeroWord, NotGood4, NotGoodF
<1>2. Reconstruct("b", u) \in Word /\ \A p \in 0 .. 3 : u[p][1] \in Word
  <2>1. "b" \in Kinds /\ Size(4) /\ 4 - 1 = 3
    BY DEF Kinds, Size
  <2>2. QED
    BY <2>1, ValueType, Shares4
<1>3. BitNot(Reconstruct("b", u)) = BitXor(o, Reconstruct("b", u)) /\ BitNot(u[2][1]) = BitXor(o, u[2][1])
  <2>1. u[2][1] \in Word
    BY <1>2
  <2>2. QED
    BY <1>2, <2>1, NotIsXor
<1>4. /\ nC[0][1] = u[0][1] /\ nC[1][1] = u[1][1] /\ nC[2][1] = BitNot(u[2][1]) /\ nC[3][1] = u[3][1]
  BY DEF not_b_C4, P4
<1>5. /\ nF[0][1] = u[0][1] /\ nF[1][1] = u[1][1] /\ nF[2][1] = BitNot(u[2][1]) /\ nF[3][1] = u[3][1]
  BY DEF not_b_F4, PF
<1>6. Reconstruct("b", nC) = BitNot(Reconstruct("b", u))
  <2> HIDE DEF o, nC
  <2>1. nC[2][1] = BitXor(o, u[2][1])
    BY <1>3, <1>4
  <2>2. Reconstruct("b", nC) = BitXor(o, Reconstruct("b", u))
    BY ONLY <1>1, <1>4, <2>1, NotValue4, Replicated(4, 3, u)
  <2>3. QED
    BY <1>3, <2>2
<1>7. Reconstruct("b", nF) = BitNot(Reconstruct("b", u))
  <2> HIDE DEF o, nF
  <2>1. nF[2][1] = BitXor(o, u[2][1])
    BY <1>3, <1>5
  <2>2. Reconstruct("b", nF) = BitXor(o, Reconstruct("b", u))
    BY ONLY <1>1, <1>5, <2>1, NotValue4, Replicated(4, 3, u)
  <2>3. QED
    BY <1>3, <2>2
<1>8. ASSUME \A p \in 0 .. 3 : u[p][1] \in {0, 1}
      PROVE  Reconstruct("b", lC) = BitXor(1, Reconstruct("b", u)) /\ Reconstruct("b", lF) = BitXor(1, Reconstruct("b", u))
  <2>1. u[0][1] \in {0, 1} /\ u[1][1] \in {0, 1} /\ u[2][1] \in {0, 1} /\ u[3][1] \in {0, 1}
    BY <1>8
  <2>2. \A p \in 0 .. 3 : m[p][1] = u[p][1]
    <3>1. DOMAIN u = 0 .. 3 /\ \A p \in 0 .. 3 : 1 \in DOMAIN u[p]
      BY Shares4
    <3>2. \A p \in 0 .. 3 : m[p][1] = LowBit(u[p][1])
      BY <3>1 DEF MaskShares
    <3>3. \A e \in {0, 1} : LowBit(e) = e
      BY DEF LowBit
    <3> HIDE DEF m
    <3>4. QED
      BY <1>8, <3>2, <3>3
  <2>3. /\ lC[0][1] = m[0][1] /\ lC[1][1] = m[1][1] /\ lC[2][1] = LogicalNot(m[2][1]) /\ lC[3][1] = m[3][1]
    BY DEF not_b_1_C4, P4
  <2>4. /\ lF[0][1] = m[0][1] /\ lF[1][1] = m[1][1] /\ lF[2][1] = LogicalNot(m[2][1]) /\ lF[3][1] = m[3][1]
    BY DEF not_b_1_F4, PF
  <2> HIDE DEF lC, lF, m
  <2>5. LogicalNot(u[2][1]) = BitXor(1, u[2][1])
    BY <2>1, LogicalNotIsXor
  <2>6. m[0][1] = u[0][1] /\ m[1][1] = u[1][1] /\ m[2][1] = u[2][1] /\ m[3][1] = u[3][1]
    BY <2>2
  <2>7. lC[0][1] = u[0][1] /\ lC[1][1] = u[1][1] /\ lC[2][1] = BitXor(1, u[2][1]) /\ lC[3][1] = u[3][1]
    BY <2>3, <2>5, <2>6
  <2>8. lF[0][1] = u[0][1] /\ lF[1][1] = u[1][1] /\ lF[2][1] = BitXor(1, u[2][1]) /\ lF[3][1] = u[3][1]
    BY <2>4, <2>5, <2>6
  <2>9. QED
    BY ONLY <1>1, <2>7, <2>8, NotValue4, Replicated(4, 3, u)
<1>9. QED
  BY <1>6, <1>7, <1>8

-----------------------------------------------------------------------------
(* The products of the shares of two values add up to the product of the   *)
(* values, in whatever order the parties add them.                         *)
Table(n, F) == \A s, t \in 0 .. n - 1 : F[s][t] \in Word

Grid3(k, F) == Sum3(k, Sum3(k, F[0][0], F[0][1], F[0][2]), Sum3(k, F[1][0], F[1][1], F[1][2]),
                       Sum3(k, F[2][0], F[2][1], F[2][2]))

LEMMA Table3 ==
    ASSUME NEW k \in Kinds, NEW F, Table(3, F)
    PROVE  /\ Trio(F[0][0], F[0][1], F[0][2]) /\ Trio(F[1][0], F[1][1], F[1][2]) /\ Trio(F[2][0], F[2][1], F[2][2])
           /\ Trio(F[0][0], F[1][1], F[2][2]) /\ Trio(F[0][1], F[1][2], F[2][0]) /\ Trio(F[1][0], F[2][1], F[0][2])
           /\ Trio(Sum3(k, F[0][0], F[0][1], F[0][2]), Sum3(k, F[1][0], F[1][1], F[1][2]),
                   Sum3(k, F[2][0], F[2][1], F[2][2]))
           /\ Grid3(k, F) \in Word
<1>1. 0 \in 0 .. 2 /\ 1 \in 0 .. 2 /\ 2 \in 0 .. 2 /\ 3 - 1 = 2
  OBVIOUS
<1>2. /\ F[0][0] \in Word /\ F[0][1] \in Word /\ F[0][2] \in Word /\ F[1][0] \in Word /\ F[1][1] \in Word
      /\ F[1][2] \in Word /\ F[2][0] \in Word /\ F[2][1] \in Word /\ F[2][2] \in Word
  BY <1>1 DEF Table
<1>3. /\ Trio(F[0][0], F[0][1], F[0][2]) /\ Trio(F[1][0], F[1][1], F[1][2]) /\ Trio(F[2][0], F[2][1], F[2][2])
      /\ Trio(F[0][0], F[1][1], F[2][2]) /\ Trio(F[0][1], F[1][2], F[2][0]) /\ Trio(F[1][0], F[2][1], F[0][2])
  BY <1>2 DEF Trio
<1>4. Trio(Sum3(k, F[0][0], F[0][1], F[0][2]), Sum3(k, F[1][0], F[1][1], F[1][2]), Sum3(k, F[2][0], F[2][1], F[2][2]))
  BY <1>3, Sum3Turn DEF Trio
<1>5. Grid3(k, F) \in Word
  BY <1>4, Sum3Turn DEF Grid3
<1>6. QED
  BY <1>3, <1>4, <1>5

LEMMA GridTimes3 ==
    ASSUME NEW k \in Kinds, NEW a, NEW b, NEW c, Trio(a, b, c), NEW d, NEW e, NEW f, Trio(d, e, f), NEW F,
           F[0][0] = Times(k, a, d), F[0][1] = Times(k, a, e), F[0][2] = Times(k, a, f),
           F[1][0] = Times(k, b, d), F[1][1] = Times(k, b, e), F[1][2] = Times(k, b, f),
           F[2][0] = Times(k, c, d), F[2][1] = Times(k, c, e), F[2][2] = Times(k, c, f)
    PROVE  Grid3(k, F) = Times(k, Sum3(k, a, b, c), Sum3(k, d, e, f))
<1> DEFINE B == Sum3(k, d, e, f)
<1>1. B \in Word /\ a \in Word /\ b \in Word /\ c \in Word
  BY Sum3Turn DEF Trio
<1> HIDE DEF B
<1>2. Times(k, Sum3(k, a, b, c), B) = Sum3(k, Times(k, a, B), Times(k, b, B), Times(k, c, B))
  BY <1>1, Sum3Times
<1>3. /\ Times(k, a, B) = Sum3(k, F[0][0], F[0][1], F[0][2])
      /\ Times(k, b, B) = Sum3(k, F[1][0], F[1][1], F[1][2])
      /\ Times(k, c, B) = Sum3(k, F[2][0], F[2][1], F[2][2])
  <2>1. /\ Times(k, a, B) = Sum3(k, Times(k, a, d), Times(k, a, e), Times(k, a, f))
        /\ Times(k, b, B) = Sum3(k, Times(k, b, d), Times(k, b, e), Times(k, b, f))
        /\ Times(k, c, B) = Sum3(k, Times(k, c, d), Times(k, c, e), Times(k, c, f))
    BY <1>1, Sum3Times DEF B
  <2>2. QED
    BY <2>1
<1>4. QED
  BY <1>2, <1>3 DEF B, Grid3

LEMMA GridAdds3 ==
    ASSUME NEW k \in Kinds, NEW G, Table(3, G), NEW H, Table(3, H), NEW F,
           \A s, t \in 0 .. 2 : F[s][t] = Plus(k, G[s][t], H[s][t])
    PROVE  Grid3(k, F) = Plus(k, Grid3(k, G), Grid3(k, H))
<1>1. /\ F[0][0] = Plus(k, G[0][0], H[0][0]) /\ F[0][1] = Plus(k, G[0][1], H[0][1]) /\ F[0][2] = Plus(k, G[0][2], H[0][2])
      /\ F[1][0] = Plus(k, G[1][0], H[1][0]) /\ F[1][1] = Plus(k, G[1][1], H[1][1]) /\ F[1][2] = Plus(k, G[1][2], H[1][2])
      /\ F[2][0] = Plus(k, G[2][0], H[2][0]) /\ F[2][1] = Plus(k, G[2][1], H[2][1]) /\ F[2][2] = Plus(k, G[2][2], H[2][2])
  OBVIOUS
<1>2. Sum3(k, F[0][0], F[0][1], F[0][2]) = Plus(k, Sum3(k, G[0][0], G[0][1], G[0][2]), Sum3(k, H[0][0], H[0][1], H[0][2]))
  BY <1>1, Table3, Sum3Adds
<1>3. Sum3(k, F[1][0], F[1][1], F[1][2]) = Plus(k, Sum3(k, G[1][0], G[1][1], G[1][2]), Sum3(k, H[1][0], H[1][1], H[1][2]))
  BY <1>1, Table3, Sum3Adds
<1>4. Sum3(k, F[2][0], F[2][1], F[2][2]) = Plus(k, Sum3(k, G[2][0], G[2][1], G[2][2]), Sum3(k, H[2][0], H[2][1], H[2][2]))
  BY <1>1, Table3, Sum3Adds
<1>5. QED
  BY <1>2, <1>3, <1>4, Table3, Sum3Adds DEF Grid3

(* Three parties: each adds three products and a share of zero.            *)
LEMMA GridByParty3 ==
    ASSUME NEW k \in Kinds, NEW F, Table(3, F), NEW a, NEW b, NEW c, Trio(a, b, c), Sum3(k, a, b, c) = 0,
           NEW d, NEW e, NEW f,
           d = Plus(k, Plus(k, Plus(k, a, F[0][0]), F[0][1]), F[1][0]),
           e = Plus(k, Plus(k, Plus(k, b, F[1][1]), F[1][2]), F[2][1]),
           f = Plus(k, Plus(k, Plus(k, c, F[2][2]), F[2][0]), F[0][2])
    PROVE  Sum3(k, d, e, f) = Grid3(k, F)
<1> DEFINE D == Sum3(k, F[0][0], F[1][1], F[2][2])
           U == Sum3(k, F[0][1], F[1][2], F[2][0])
           V == Sum3(k, F[1][0], F[2][1], F[0][2])
<1>1. /\ Trio(F[0][0], F[1][1], F[2][2]) /\ Trio(F[0][1], F[1][2], F[2][0]) /\ Trio(F[1][0], F[2][1], F[0][2])
      /\ Trio(F[0][0], F[0][1], F[0][2]) /\ Trio(F[1][0], F[1][1], F[1][2]) /\ Trio(F[2][0], F[2][1], F[2][2])
      /\ D \in Word /\ U \in Word /\ V \in Word
  BY Table3, Sum3Turn
<1> HIDE DEF D, U, V
<1>2. /\ Trio(Plus(k, a, F[0][0]), Plus(k, b, F[1][1]), Plus(k, c, F[2][2]))
      /\ Sum3(k, Plus(k, a, F[0][0]), Plus(k, b, F[1][1]), Plus(k, c, F[2][2])) = D
  <2>1. Sum3(k, Plus(k, a, F[0][0]), Plus(k, b, F[1][1]), Plus(k, c, F[2][2])) = Plus(k, 0, D)
    BY <1>1, Sum3Adds DEF D
  <2>2. QED
    BY <1>1, <2>1, RingLaws DEF Trio
<1>3. /\ Trio(Plus(k, Plus(k, a, F[0][0]), F[0][1]), Plus(k, Plus(k, b, F[1][1]), F[1][2]), Plus(k, Plus(k, c, F[2][2]), F[2][0]))
      /\ Sum3(k, Plus(k, Plus(k, a, F[0][0]), F[0][1]), Plus(k, Plus(k, b, F[1][1]), F[1][2]), Plus(k, Plus(k, c, F[2][2]), F[2][0]))
           = Plus(k, D, U)
  <2>1. Sum3(k, Plus(k, Plus(k, a, F[0][0]), F[0][1]), Plus(k, Plus(k, b, F[1][1]), F[1][2]), Plus(k, Plus(k, c, F[2][2]), F[2][0]))
           = Plus(k, D, U)
    BY <1>1, <1>2, Sum3Adds DEF U
  <2>2. QED
    BY <1>1, <1>2, <2>1, RingLaws DEF Trio
<1>4. Sum3(k, d, e, f) = Plus(k, Plus(k, D, U), V)
  BY <1>1, <1>3, Sum3Adds DEF V
<1>5. V = Sum3(k, F[0][2], F[1][0], F[2][1]) /\ Trio(F[0][2], F[1][0], F[2][1])
  BY <1>1, Sum3Turn DEF V, Trio
<1>6. /\ Trio(Plus(k, F[0][0], F[0][1]), Plus(k, F[1][1], F[1][2]), Plus(k, F[2][2], F[2][0]))
      /\ Plus(k, D, U) = Sum3(k, Plus(k, F[0][0], F[0][1]), Plus(k, F[1][1], F[1][2]), Plus(k, F[2][2], F[2][0]))
  <2>1. Plus(k, D, U) = Sum3(k, Plus(k, F[0][0], F[0][1]), Plus(k, F[1][1], F[1][2]), Plus(k, F[2][2], F[2][0]))
    BY <1>1, Sum3Adds DEF D, U
  <2>2. QED
    BY <1>1, <2>1, RingLaws DEF Trio
<1>7. Plus(k, Plus(k, D, U), V)
        = Sum3(k, Plus(k, Plus(k, F[0][0], F[0][1]), F[0][2]), Plus(k, Plus(k, F[1][1], F[1][2]), F[1][0]),
                  Plus(k, Plus(k, F[2][2], F[2][0]), F[2][1]))
  BY <1>5, <1>6, Sum3Adds
<1>8. /\ Plus(k, Plus(k, F[0][0], F[0][1]), F[0][2]) = Sum3(k, F[0][0], F[0][1], F[0][2])
      /\ Plus(k, Plus(k, F[1][1], F[1][2]), F[1][0]) = Sum3(k, F[1][0], F[1][1], F[1][2])
      /\ Plus(k, Plus(k, F[2][2], F[2][0]), F[2][1]) = Sum3(k, F[2][0], F[2][1], F[2][2])
  <2>1. /\ Sum3(k, F[1][1], F[1][2], F[1][0]) = Sum3(k, F[1][0], F[1][1], F[1][2])
        /\ Sum3(k, F[2][2], F[2][0], F[2][1]) = Sum3(k, F[2][0], F[2][1], F[2][2])
    BY <1>1, Sum3Turn
  <2>2. QED
    BY <2>1 DEF Sum3
<1>9. QED
  BY <1>4, <1>7, <1>8 DEF Grid3

(* What a party computes from one operand, and from (u, v) and (v, u).     *)
LEMMA ProdOne ==
    ASSUME NEW k \in Kinds, NEW u, NEW v, NEW p, NEW i, NEW j, u[p][i] \in Word, v[p][j] \in Word
    PROVE  Prod(k, <<u>>, <<v>>, p, i, j) = Times(k, u[p][i], v[p][j])
<1> DEFINE a == Times(k, u[p][i], v[p][j])
<1>1. Prod(k, <<u>>, <<v>>, p, i, j) = Total(k, [t \in 1 .. 1 |-> Times(k, <<u>>[t][p][i], <<v>>[t][p][j])])
  BY DEF Prod
<1>2. [t \in 1 .. 1 |-> Times(k, <<u>>[t][p][i], <<v>>[t][p][j])] = <<a>>
  <2>1. \A t \in 1 .. 1 : Times(k, <<u>>[t][p][i], <<v>>[t][p][j]) = <<a>>[t]
    OBVIOUS
  <2> HIDE DEF a
  <2>2. <<a>> = [t \in 1 .. 1 |-> <<a>>[t]]
    OBVIOUS
  <2>3. QED
    BY <2>1, <2>2, Zenon
<1>3. a \in Word
  BY OperatorTypes
<1> HIDE DEF a
<1>4. QED
  BY <1>1, <1>2, <1>3, TotalOne DEF a

LEMMA ProdTwo ==
    ASSUME NEW k \in Kinds, NEW u, NEW v, NEW p, NEW i, NEW j, u[p][i] \in Word, v[p][j] \in Word,
           u[p][j] \in Word, v[p][i] \in Word
    PROVE  Prod(k, <<u, v>>, <<v, u>>, p, i, j) = Plus(k, Times(k, u[p][i], v[p][j]), Times(k, v[p][i], u[p][j]))
<1> DEFINE a == Times(k, u[p][i], v[p][j])
           b == Times(k, v[p][i], u[p][j])
<1>1. Prod(k, <<u, v>>, <<v, u>>, p, i, j)
        = Total(k, [t \in 1 .. 2 |-> Times(k, <<u, v>>[t][p][i], <<v, u>>[t][p][j])])
  BY DEF Prod
<1>2. [t \in 1 .. 2 |-> Times(k, <<u, v>>[t][p][i], <<v, u>>[t][p][j])] = <<a, b>>
  <2>1. \A t \in 1 .. 2 : Times(k, <<u, v>>[t][p][i], <<v, u>>[t][p][j]) = <<a, b>>[t]
    OBVIOUS
  <2> HIDE DEF a, b
  <2>2. <<a, b>> = [t \in 1 .. 2 |-> <<a, b>>[t]]
    OBVIOUS
  <2>3. QED
    BY <2>1, <2>2, Zenon
<1>3. a \in Word /\ b \in Word
  BY OperatorTypes
<1> HIDE DEF a, b
<1>4. QED
  BY <1>1, <1>2, <1>3, TotalTwo DEF a, b

(* The shares of zero that three parties draw cancel.                      *)
LEMMA ZeroCancels ==
    ASSUME NEW k \in Kinds, NEW w, Honest(3, w), NEW z, z = getNextZero(k, w).z
    PROVE  Trio(z[0], z[1], z[2]) /\ Sum3(k, z[0], z[1], z[2]) = 0
<1> DEFINE D == ZeroDraws
           d == Draw(w, D)
<1>1. DOMAIN D = P3 /\ D[0] = <<42, 40>> /\ D[1] = <<40, 41>> /\ D[2] = <<41, 42>>
  BY Get3, Parties3 DEF ZeroDraws
<1>2. /\ z = [p \in P3 |-> Minus(k, d.v[p][1], d.v[p][2])]
  BY DEF getNextZero, P3
<1>3. z[0] = Minus(k, d.v[0][1], d.v[0][2]) /\ z[1] = Minus(k, d.v[1][1], d.v[1][2]) /\ z[2] = Minus(k, d.v[2][1], d.v[2][2])
  BY <1>2, Parties3
<1> HIDE DEF D
<1>4. /\ 0 \in DOMAIN D /\ 1 \in DOMAIN D /\ 2 \in DOMAIN D /\ 1 - 1 = 0 /\ 2 - 1 = 1 /\ 0 \in Nat /\ 1 \in Nat /\ 2 \in Nat
      /\ \A p \in P3 : 1 \in DOMAIN D[p] /\ 2 \in DOMAIN D[p]
      /\ D[0][1] = 42 /\ D[0][2] = 40 /\ D[1][1] = 40 /\ D[1][2] = 41 /\ D[2][1] = 41 /\ D[2][2] = 42
  BY <1>1, Parties3
<1>5. /\ Count(D[0], 0, 42) = 0 /\ Count(D[1], 0, 40) = 0 /\ Count(D[2], 0, 41) = 0
      /\ Count(D[0], 1, 40) = 0 /\ Count(D[1], 1, 41) = 0 /\ Count(D[2], 1, 42) = 0
  BY <1>4, CountFew DEF One
<1>6. d.v[0][2] = d.v[1][1]
  <2>1. <<40, {0, 1}>> \in Holders(3) /\ 0 \in {0, 1} /\ 1 \in {0, 1} /\ 2 \in DOMAIN D[0] /\ 1 \in DOMAIN D[1]
    BY <1>4, Common3, Parties3
  <2>2. QED
    BY <1>4, <1>5, <2>1, DrawSame
<1>7. d.v[1][2] = d.v[2][1]
  <2>1. <<41, {1, 2}>> \in Holders(3) /\ 2 \in {1, 2} /\ 1 \in {1, 2} /\ 2 \in DOMAIN D[1] /\ 1 \in DOMAIN D[2]
    BY <1>4, Common3, Parties3
  <2>2. QED
    BY <1>4, <1>5, <2>1, DrawSame
<1>8. d.v[2][2] = d.v[0][1]
  <2>1. <<42, {2, 0}>> \in Holders(3) /\ 2 \in {2, 0} /\ 0 \in {2, 0} /\ 2 \in DOMAIN D[2] /\ 1 \in DOMAIN D[0]
    BY <1>4, Common3, Parties3
  <2>2. QED
    BY <1>4, <1>5, <2>1, DrawSame
<1>9. ASSUME NEW p \in P3 PROVE d.v[p][1] \in Word
  <2>1. 1 \in DOMAIN D[p] /\ 1 \in Nat /\ 1 - 1 \in Nat /\ p \in DOMAIN D
    BY <1>1, Parties3
  <2>2. \E H : <<D[p][1], H>> \in Holders(3) /\ p \in H
    BY <1>1, Common3, Parties3
  <2>3. QED
    BY <2>1, <2>2, DrawWord
<1> DEFINE a == d.v[0][1]  b == d.v[1][1]  c == d.v[2][1]
<1>10. Trio(a, b, c)
  BY <1>9, Parties3 DEF Trio
<1>11. z[0] = Minus(k, a, b) /\ z[1] = Minus(k, b, c) /\ z[2] = Minus(k, c, a)
  BY <1>3, <1>6, <1>7, <1>8
<1> HIDE DEF a, b, c, d
<1>12. Trio(b, c, a) /\ Sum3(k, b, c, a) = Sum3(k, a, b, c) /\ Sum3(k, a, b, c) \in Word
  BY <1>10, Sum3Turn DEF Trio
<1>13. Sum3(k, z[0], z[1], z[2]) = Minus(k, Sum3(k, a, b, c), Sum3(k, b, c, a))
  BY <1>10, <1>11, <1>12, Sum3Adds
<1>14. Minus(k, Sum3(k, a, b, c), Sum3(k, a, b, c)) = 0
  BY <1>12, RingLaws
<1>15. Trio(z[0], z[1], z[2])
  BY <1>10, <1>11, OperatorTypes DEF Trio
<1>16. QED
  BY <1>12, <1>13, <1>14, <1>15

Held3(k, X, Y, F) ==
    /\ Prod(k, X, Y, 0, 1, 1) = F[0][0] /\ Prod(k, X, Y, 0, 1, 2) = F[0][1] /\ Prod(k, X, Y, 0, 2, 1) = F[1][0]
    /\ Prod(k, X, Y, 1, 1, 1) = F[1][1] /\ Prod(k, X, Y, 1, 1, 2) = F[1][2] /\ Prod(k, X, Y, 1, 2, 1) = F[2][1]
    /\ Prod(k, X, Y, 2, 1, 1) = F[2][2] /\ Prod(k, X, Y, 2, 1, 2) = F[2][0] /\ Prod(k, X, Y, 2, 2, 1) = F[0][2]

LEMMA Multiply3Sums ==
    ASSUME NEW k \in Kinds, NEW X, Operands(3, 2, X), NEW Y, Operands(3, 2, Y), Len(X) = Len(Y),
           NEW w, Honest(3, w), NEW F, Table(3, F), Held3(k, X, Y, F)
    PROVE  Reconstruct(k, Multiply3(k, X, Y, w).z) = Grid3(k, F)
<1> DEFINE zs == getNextZero(k, w)
           z == zs.z
           f == [p \in P3 |-> Total(k, <<z[p], Prod(k, X, Y, p, 1, 1),
                                         Prod(k, X, Y, p, 1, 2), Prod(k, X, Y, p, 2, 1)>>)]
<1>1. Multiply3(k, X, Y, w).z = Replicate(f)
  BY DEF Multiply3, Result
<1>2. Replicated(3, 2, Replicate(f))
  BY <1>1, MultiplyGood3 DEF Good
<1>3. /\ f[0] = Total(k, <<z[0], F[0][0], F[0][1], F[1][0]>>)
      /\ f[1] = Total(k, <<z[1], F[1][1], F[1][2], F[2][1]>>)
      /\ f[2] = Total(k, <<z[2], F[2][2], F[2][0], F[0][2]>>)
  BY Parties3 DEF Held3
<1>4. Replicate(f)[0][1] = f[0] /\ Replicate(f)[1][1] = f[1] /\ Replicate(f)[2][1] = f[2]
  BY Parties3 DEF Replicate
<1>5. Trio(z[0], z[1], z[2]) /\ Sum3(k, z[0], z[1], z[2]) = 0
  BY ZeroCancels
<1> HIDE DEF f, z
<1>6. /\ z[0] \in Word /\ z[1] \in Word /\ z[2] \in Word
      /\ F[0][0] \in Word /\ F[0][1] \in Word /\ F[0][2] \in Word /\ F[1][0] \in Word /\ F[1][1] \in Word
      /\ F[1][2] \in Word /\ F[2][0] \in Word /\ F[2][1] \in Word /\ F[2][2] \in Word
  BY <1>5 DEF Trio, Table
<1>7. /\ f[0] = Plus(k, Plus(k, Plus(k, z[0], F[0][0]), F[0][1]), F[1][0])
      /\ f[1] = Plus(k, Plus(k, Plus(k, z[1], F[1][1]), F[1][2]), F[2][1])
      /\ f[2] = Plus(k, Plus(k, Plus(k, z[2], F[2][2]), F[2][0]), F[0][2])
  <2>1. f[0] = Plus(k, Plus(k, Plus(k, z[0], F[0][0]), F[0][1]), F[1][0])
    <3> DEFINE a == z[0]  b == F[0][0]  c == F[0][1]  d == F[1][0]
    <3>1. a \in Word /\ b \in Word /\ c \in Word /\ d \in Word /\ f[0] = Total(k, <<a, b, c, d>>)
      BY <1>3, <1>6
    <3> HIDE DEF a, b, c, d
    <3>2. f[0] = Plus(k, Plus(k, Plus(k, a, b), c), d)
      BY <3>1, TotalFour
    <3>3. QED
      BY <3>2 DEF a, b, c, d
  <2>2. f[1] = Plus(k, Plus(k, Plus(k, z[1], F[1][1]), F[1][2]), F[2][1])
    <3> DEFINE a == z[1]  b == F[1][1]  c == F[1][2]  d == F[2][1]
    <3>1. a \in Word /\ b \in Word /\ c \in Word /\ d \in Word /\ f[1] = Total(k, <<a, b, c, d>>)
      BY <1>3, <1>6
    <3> HIDE DEF a, b, c, d
    <3>2. f[1] = Plus(k, Plus(k, Plus(k, a, b), c), d)
      BY <3>1, TotalFour
    <3>3. QED
      BY <3>2 DEF a, b, c, d
  <2>3. f[2] = Plus(k, Plus(k, Plus(k, z[2], F[2][2]), F[2][0]), F[0][2])
    <3> DEFINE a == z[2]  b == F[2][2]  c == F[2][0]  d == F[0][2]
    <3>1. a \in Word /\ b \in Word /\ c \in Word /\ d \in Word /\ f[2] = Total(k, <<a, b, c, d>>)
      BY <1>3, <1>6
    <3> HIDE DEF a, b, c, d
    <3>2. f[2] = Plus(k, Plus(k, Plus(k, a, b), c), d)
      BY <3>1, TotalFour
    <3>3. QED
      BY <3>2 DEF a, b, c, d
  <2>4. QED
    BY <2>1, <2>2, <2>3
<1>8. Reconstruct(k, Replicate(f)) = Sum3(k, f[0], f[1], f[2])
  BY <1>2, <1>4, Values
<1>9. Sum3(k, f[0], f[1], f[2]) = Grid3(k, F)
  BY <1>5, <1>7, GridByParty3
<1>10. QED
  BY <1>1, <1>8, <1>9

LEMMA MultiplyValues3 ==
    ASSUME NEW k \in Kinds, NEW u, Replicated(3, 2, u), NEW v, Replicated(3, 2, v), NEW w, Honest(3, w)
    PROVE  LET xy == Times(k, Reconstruct(k, u), Reconstruct(k, v)) IN
           /\ Reconstruct(k, Multiply3(k, <<u>>, <<v>>, w).z) = xy
           /\ Reconstruct(k, Multiply3(k, <<u, v>>, <<v, u>>, w).z) = Plus(k, xy, xy)
<1> DEFINE G == [s \in 0 .. 2 |-> [t \in 0 .. 2 |-> Times(k, u[s][1], v[t][1])]]
           H == [s \in 0 .. 2 |-> [t \in 0 .. 2 |-> Times(k, v[s][1], u[t][1])]]
           F == [s \in 0 .. 2 |-> [t \in 0 .. 2 |-> Plus(k, G[s][t], H[s][t])]]
           A == Reconstruct(k, u)
           B == Reconstruct(k, v)
<1>1. /\ \A p \in P3 : u[p][1] \in Word /\ u[p][2] \in Word /\ v[p][1] \in Word /\ v[p][2] \in Word
      /\ u[0][2] = u[1][1] /\ u[1][2] = u[2][1] /\ u[2][2] = u[0][1]
      /\ v[0][2] = v[1][1] /\ v[1][2] = v[2][1] /\ v[2][2] = v[0][1]
  BY Shares3
<1>2. /\ Trio(u[0][1], u[1][1], u[2][1]) /\ A = Sum3(k, u[0][1], u[1][1], u[2][1])
      /\ Trio(v[0][1], v[1][1], v[2][1]) /\ B = Sum3(k, v[0][1], v[1][1], v[2][1])
  BY Values
<1>3. \A s, t \in 0 .. 2 : G[s][t] = Times(k, u[s][1], v[t][1]) /\ H[s][t] = Times(k, v[s][1], u[t][1])
  OBVIOUS
<1>4. \A s, t \in 0 .. 2 : F[s][t] = Plus(k, G[s][t], H[s][t])
  OBVIOUS
<1> HIDE DEF G, H, F, A, B
<1>5. Table(3, G) /\ Table(3, H)
  BY <1>1, <1>3, Parties3, OperatorTypes DEF Table
<1>6. Table(3, F)
  BY <1>4, <1>5, OperatorTypes DEF Table
<1>7. Grid3(k, G) = Times(k, A, B) /\ Grid3(k, H) = Times(k, B, A)
  <2>1. /\ G[0][0] = Times(k, u[0][1], v[0][1]) /\ G[0][1] = Times(k, u[0][1], v[1][1]) /\ G[0][2] = Times(k, u[0][1], v[2][1])
        /\ G[1][0] = Times(k, u[1][1], v[0][1]) /\ G[1][1] = Times(k, u[1][1], v[1][1]) /\ G[1][2] = Times(k, u[1][1], v[2][1])
        /\ G[2][0] = Times(k, u[2][1], v[0][1]) /\ G[2][1] = Times(k, u[2][1], v[1][1]) /\ G[2][2] = Times(k, u[2][1], v[2][1])
    BY <1>3
  <2>2. /\ H[0][0] = Times(k, v[0][1], u[0][1]) /\ H[0][1] = Times(k, v[0][1], u[1][1]) /\ H[0][2] = Times(k, v[0][1], u[2][1])
        /\ H[1][0] = Times(k, v[1][1], u[0][1]) /\ H[1][1] = Times(k, v[1][1], u[1][1]) /\ H[1][2] = Times(k, v[1][1], u[2][1])
        /\ H[2][0] = Times(k, v[2][1], u[0][1]) /\ H[2][1] = Times(k, v[2][1], u[1][1]) /\ H[2][2] = Times(k, v[2][1], u[2][1])
    BY <1>3
  <2>3. QED
    BY <1>2, <2>1, <2>2, GridTimes3
<1>8. Grid3(k, F) = Plus(k, Grid3(k, G), Grid3(k, H))
  BY <1>4, <1>5, GridAdds3
<1>9. A \in Word /\ B \in Word /\ Times(k, B, A) = Times(k, A, B)
  <2>1. A \in Word /\ B \in Word
    BY <1>2, Sum3Turn
  <2>2. QED
    BY <2>1, RingLaws
<1>10. Held3(k, <<u>>, <<v>>, G)
  <2>1. \A p \in P3 : \A i, j \in {1, 2} : Prod(k, <<u>>, <<v>>, p, i, j) = Times(k, u[p][i], v[p][j])
    BY <1>1, ProdOne
  <2>2. QED
    BY <1>1, <1>3, <2>1, Parties3 DEF Held3
<1>11. Held3(k, <<u, v>>, <<v, u>>, F)
  <2>1. \A p \in P3 : \A i, j \in {1, 2} :
           Prod(k, <<u, v>>, <<v, u>>, p, i, j) = Plus(k, Times(k, u[p][i], v[p][j]), Times(k, v[p][i], u[p][j]))
    BY <1>1, ProdTwo
  <2>2. \A s, t \in {0, 1, 2} : F[s][t] = Plus(k, Times(k, u[s][1], v[t][1]), Times(k, v[s][1], u[t][1]))
    BY <1>3, <1>4
  <2>3. QED
    BY <1>1, <2>1, <2>2, Parties3 DEF Held3
<1>12. /\ Operands(3, 2, <<u>>) /\ Operands(3, 2, <<v>>) /\ Len(<<u>>) = Len(<<v>>)
       /\ Operands(3, 2, <<u, v>>) /\ Operands(3, 2, <<v, u>>) /\ Len(<<u, v>>) = Len(<<v, u>>)
  <2> DEFINE n == 3  rep == 2
  <2>1. n \in Nat /\ rep \in Nat /\ Replicated(n, rep, u) /\ Replicated(n, rep, v)
    OBVIOUS
  <2> HIDE DEF n, rep
  <2>2. /\ Operands(n, rep, <<u>>) /\ Operands(n, rep, <<v>>) /\ Len(<<u>>) = Len(<<v>>)
        /\ Operands(n, rep, <<u, v>>) /\ Operands(n, rep, <<v, u>>) /\ Len(<<u, v>>) = Len(<<v, u>>)
    BY <2>1, OneOperand
  <2>3. QED
    BY <2>2 DEF n, rep
<1>13. Reconstruct(k, Multiply3(k, <<u>>, <<v>>, w).z) = Grid3(k, G)
  BY ONLY k \in Kinds, Honest(3, w), <1>5, <1>10, <1>12, Multiply3Sums
<1>14. Reconstruct(k, Multiply3(k, <<u, v>>, <<v, u>>, w).z) = Grid3(k, F)
  BY ONLY k \in Kinds, Honest(3, w), <1>6, <1>11, <1>12, Multiply3Sums
<1>15. QED
  BY <1>7, <1>8, <1>9, <1>13, <1>14 DEF A, B

-----------------------------------------------------------------------------
(* The same for the products of four shares.                               *)
Grid4(k, F) == Sum4(k, Sum4(k, F[0][0], F[0][1], F[0][2], F[0][3]),
                    Sum4(k, F[1][0], F[1][1], F[1][2], F[1][3]),
                    Sum4(k, F[2][0], F[2][1], F[2][2], F[2][3]),
                    Sum4(k, F[3][0], F[3][1], F[3][2], F[3][3]))

Diagonal(k, F)  == Sum4(k, F[0][0], F[1][1], F[2][2], F[3][3])
Either(k, F, s, t) == Plus(k, F[s][t], F[t][s])
Adjacent(k, F)  == Sum4(k, Either(k, F, 0, 1), Either(k, F, 1, 2), Either(k, F, 2, 3), Either(k, F, 3, 0))
Opposite(k, F)  == Plus(k, Either(k, F, 0, 2), Either(k, F, 1, 3))

LEMMA Table4 ==
    ASSUME NEW k \in Kinds, NEW F, Table(4, F)
    PROVE  /\ \A s, t \in {0, 1, 2, 3} : F[s][t] \in Word /\ Either(k, F, s, t) \in Word
           /\ Quartet(F[0][0], F[0][1], F[0][2], F[0][3]) /\ Quartet(F[1][0], F[1][1], F[1][2], F[1][3]) /\ Quartet(F[2][0], F[2][1], F[2][2], F[2][3]) /\ Quartet(F[3][0], F[3][1], F[3][2], F[3][3])
           /\ Quartet(Sum4(k, F[0][0], F[0][1], F[0][2], F[0][3]), Sum4(k, F[1][0], F[1][1], F[1][2], F[1][3]), Sum4(k, F[2][0], F[2][1], F[2][2], F[2][3]), Sum4(k, F[3][0], F[3][1], F[3][2], F[3][3]))
           /\ Quartet(F[0][0], F[1][1], F[2][2], F[3][3]) /\ Quartet(F[0][1], F[1][2], F[2][3], F[3][0])
           /\ Quartet(F[1][0], F[2][1], F[3][2], F[0][3]) /\ Quartet(F[0][3], F[1][0], F[2][1], F[3][2])
           /\ Quartet(F[0][2], F[1][3], F[2][0], F[3][1])
           /\ Quartet(Either(k, F, 0, 1), Either(k, F, 1, 2), Either(k, F, 2, 3), Either(k, F, 3, 0))
           /\ Diagonal(k, F) \in Word /\ Adjacent(k, F) \in Word /\ Opposite(k, F) \in Word /\ Grid4(k, F) \in Word
<1>1. \A s, t \in {0, 1, 2, 3} : F[s][t] \in Word
  BY DEF Table
<1>2. \A s, t \in {0, 1, 2, 3} : Either(k, F, s, t) \in Word
  BY <1>1, OperatorTypes DEF Either
<1>3. /\ Quartet(F[0][0], F[0][1], F[0][2], F[0][3]) /\ Quartet(F[1][0], F[1][1], F[1][2], F[1][3]) /\ Quartet(F[2][0], F[2][1], F[2][2], F[2][3]) /\ Quartet(F[3][0], F[3][1], F[3][2], F[3][3])
      /\ Quartet(F[0][0], F[1][1], F[2][2], F[3][3]) /\ Quartet(F[0][1], F[1][2], F[2][3], F[3][0])
      /\ Quartet(F[1][0], F[2][1], F[3][2], F[0][3]) /\ Quartet(F[0][3], F[1][0], F[2][1], F[3][2])
      /\ Quartet(F[0][2], F[1][3], F[2][0], F[3][1])
  BY <1>1 DEF Quartet
<1>4. Quartet(Either(k, F, 0, 1), Either(k, F, 1, 2), Either(k, F, 2, 3), Either(k, F, 3, 0))
  BY <1>2 DEF Quartet
<1>5. Quartet(Sum4(k, F[0][0], F[0][1], F[0][2], F[0][3]), Sum4(k, F[1][0], F[1][1], F[1][2], F[1][3]), Sum4(k, F[2][0], F[2][1], F[2][2], F[2][3]), Sum4(k, F[3][0], F[3][1], F[3][2], F[3][3]))
  BY <1>3, Sum4Turn DEF Quartet
<1>6. Diagonal(k, F) \in Word /\ Adjacent(k, F) \in Word /\ Grid4(k, F) \in Word
  BY <1>3, <1>4, <1>5, Sum4Turn DEF Diagonal, Adjacent, Grid4
<1>7. Opposite(k, F) \in Word
  BY <1>2, OperatorTypes DEF Opposite
<1>8. QED
  BY <1>1, <1>2, <1>3, <1>4, <1>5, <1>6, <1>7

LEMMA GridTimes4 ==
    ASSUME NEW k \in Kinds, NEW a, NEW b, NEW c, NEW d, Quartet(a, b, c, d),
           NEW e, NEW f, NEW g, NEW h, Quartet(e, f, g, h), NEW F,
           F[0][0] = Times(k, a, e), F[0][1] = Times(k, a, f), F[0][2] = Times(k, a, g), F[0][3] = Times(k, a, h),
           F[1][0] = Times(k, b, e), F[1][1] = Times(k, b, f), F[1][2] = Times(k, b, g), F[1][3] = Times(k, b, h),
           F[2][0] = Times(k, c, e), F[2][1] = Times(k, c, f), F[2][2] = Times(k, c, g), F[2][3] = Times(k, c, h),
           F[3][0] = Times(k, d, e), F[3][1] = Times(k, d, f), F[3][2] = Times(k, d, g), F[3][3] = Times(k, d, h)
    PROVE  Grid4(k, F) = Times(k, Sum4(k, a, b, c, d), Sum4(k, e, f, g, h))
<1> DEFINE B == Sum4(k, e, f, g, h)
<1>1. B \in Word /\ a \in Word /\ b \in Word /\ c \in Word /\ d \in Word
  BY Sum4Turn DEF Quartet
<1> HIDE DEF B
<1>2. Times(k, Sum4(k, a, b, c, d), B) = Sum4(k, Times(k, a, B), Times(k, b, B), Times(k, c, B), Times(k, d, B))
  BY <1>1, Sum4Times
<1>3. /\ Times(k, a, B) = Sum4(k, F[0][0], F[0][1], F[0][2], F[0][3])
      /\ Times(k, b, B) = Sum4(k, F[1][0], F[1][1], F[1][2], F[1][3])
      /\ Times(k, c, B) = Sum4(k, F[2][0], F[2][1], F[2][2], F[2][3])
      /\ Times(k, d, B) = Sum4(k, F[3][0], F[3][1], F[3][2], F[3][3])
  <2>1. /\ Times(k, a, B) = Sum4(k, Times(k, a, e), Times(k, a, f), Times(k, a, g), Times(k, a, h))
        /\ Times(k, b, B) = Sum4(k, Times(k, b, e), Times(k, b, f), Times(k, b, g), Times(k, b, h))
        /\ Times(k, c, B) = Sum4(k, Times(k, c, e), Times(k, c, f), Times(k, c, g), Times(k, c, h))
        /\ Times(k, d, B) = Sum4(k, Times(k, d, e), Times(k, d, f), Times(k, d, g), Times(k, d, h))
    BY <1>1, Sum4Times DEF B
  <2>2. QED
    BY <2>1
<1>4. QED
  BY <1>2, <1>3 DEF B, Grid4

LEMMA GridAdds4 ==
    ASSUME NEW k \in Kinds, NEW G, Table(4, G), NEW H, Table(4, H), NEW F,
           \A s, t \in 0 .. 3 : F[s][t] = Plus(k, G[s][t], H[s][t])
    PROVE  Grid4(k, F) = Plus(k, Grid4(k, G), Grid4(k, H))
<1>1. \A s, t \in {0, 1, 2, 3} : F[s][t] = Plus(k, G[s][t], H[s][t])
  OBVIOUS
<1>2. Sum4(k, F[0][0], F[0][1], F[0][2], F[0][3]) = Plus(k, Sum4(k, G[0][0], G[0][1], G[0][2], G[0][3]), Sum4(k, H[0][0], H[0][1], H[0][2], H[0][3]))
  <2>1. F[0][0] = Plus(k, G[0][0], H[0][0]) /\ F[0][1] = Plus(k, G[0][1], H[0][1]) /\ F[0][2] = Plus(k, G[0][2], H[0][2]) /\ F[0][3] = Plus(k, G[0][3], H[0][3])
    BY <1>1
  <2>2. QED
    BY <2>1, Table4, Sum4Adds
<1>3. Sum4(k, F[1][0], F[1][1], F[1][2], F[1][3]) = Plus(k, Sum4(k, G[1][0], G[1][1], G[1][2], G[1][3]), Sum4(k, H[1][0], H[1][1], H[1][2], H[1][3]))
  <2>1. F[1][0] = Plus(k, G[1][0], H[1][0]) /\ F[1][1] = Plus(k, G[1][1], H[1][1]) /\ F[1][2] = Plus(k, G[1][2], H[1][2]) /\ F[1][3] = Plus(k, G[1][3], H[1][3])
    BY <1>1
  <2>2. QED
    BY <2>1, Table4, Sum4Adds
<1>4. Sum4(k, F[2][0], F[2][1], F[2][2], F[2][3]) = Plus(k, Sum4(k, G[2][0], G[2][1], G[2][2], G[2][3]), Sum4(k, H[2][0], H[2][1], H[2][2], H[2][3]))
  <2>1. F[2][0] = Plus(k, G[2][0], H[2][0]) /\ F[2][1] = Plus(k, G[2][1], H[2][1]) /\ F[2][2] = Plus(k, G[2][2], H[2][2]) /\ F[2][3] = Plus(k, G[2][3], H[2][3])
    BY <1>1
  <2>2. QED
    BY <2>1, Table4, Sum4Adds
<1>5. Sum4(k, F[3][0], F[3][1], F[3][2], F[3][3]) = Plus(k, Sum4(k, G[3][0], G[3][1], G[3][2], G[3][3]), Sum4(k, H[3][0], H[3][1], H[3][2], H[3][3]))
  <2>1. F[3][0] = Plus(k, G[3][0], H[3][0]) /\ F[3][1] = Plus(k, G[3][1], H[3][1]) /\ F[3][2] = Plus(k, G[3][2], H[3][2]) /\ F[3][3] = Plus(k, G[3][3], H[3][3])
    BY <1>1
  <2>2. QED
    BY <2>1, Table4, Sum4Adds
<1>6. QED
  BY <1>2, <1>3, <1>4, <1>5, Table4, Sum4Adds DEF Grid4

(* By rows, or by the diagonal and the pairs of places that mirror it.     *)
LEMMA GridByPairs4 ==
    ASSUME NEW k \in Kinds, NEW F, Table(4, F)
    PROVE  Grid4(k, F) = Plus(k, Plus(k, Diagonal(k, F), Adjacent(k, F)), Opposite(k, F))
<1> DEFINE D == Diagonal(k, F)
           U == Sum4(k, F[0][1], F[1][2], F[2][3], F[3][0])
           V == Sum4(k, F[0][3], F[1][0], F[2][1], F[3][2])
           W == Sum4(k, F[0][2], F[1][3], F[2][0], F[3][1])
<1>1. D \in Word /\ U \in Word /\ V \in Word /\ W \in Word
  BY Table4, Sum4Turn
<1>2. Adjacent(k, F) = Plus(k, U, V)
  <2>1. Sum4(k, F[1][0], F[2][1], F[3][2], F[0][3]) = V
    BY Table4, Sum4Turn
  <2>2. QED
    BY <2>1, Table4, Sum4Adds DEF Adjacent, Either
<1>3. Opposite(k, F) = W
  <2>1. W = Plus(k, Plus(k, F[0][2], F[1][3]), Plus(k, F[2][0], F[3][1]))
    BY Table4, Sum4Turn
  <2>2. F[0][2] \in Word /\ F[1][3] \in Word /\ F[2][0] \in Word /\ F[3][1] \in Word
    BY Table4
  <2>3. QED
    BY <2>1, <2>2, Crosswise DEF Opposite, Either
<1> DEFINE p0 == Plus(k, F[0][0], F[0][1])  p1 == Plus(k, F[1][1], F[1][2])
           p2 == Plus(k, F[2][2], F[2][3])  p3 == Plus(k, F[3][3], F[3][0])
           q0 == Plus(k, p0, F[0][2])  q1 == Plus(k, p1, F[1][3])
           q2 == Plus(k, p2, F[2][0])  q3 == Plus(k, p3, F[3][1])
           r0 == Plus(k, q0, F[0][3])  r1 == Plus(k, q1, F[1][0])
           r2 == Plus(k, q2, F[2][1])  r3 == Plus(k, q3, F[3][2])
<1>4. Quartet(p0, p1, p2, p3) /\ Sum4(k, p0, p1, p2, p3) = Plus(k, D, U)
  BY Table4, Sum4Adds, OperatorTypes DEF Diagonal, Quartet
<1>5. Quartet(q0, q1, q2, q3)
  <2> HIDE DEF p0, p1, p2, p3
  <2>1. QED
    BY <1>4, Table4, OperatorTypes DEF Quartet
<1>6. Sum4(k, q0, q1, q2, q3) = Plus(k, Plus(k, D, U), W)
  <2> HIDE DEF p0, p1, p2, p3, D, U
  <2>1. QED
    BY <1>4, Table4, Sum4Adds
<1>7. Sum4(k, r0, r1, r2, r3) = Plus(k, Plus(k, Plus(k, D, U), W), V)
  <2> HIDE DEF q0, q1, q2, q3, D, U, W
  <2>1. QED
    BY <1>5, <1>6, Table4, Sum4Adds
<1>8. r0 = Sum4(k, F[0][0], F[0][1], F[0][2], F[0][3]) /\ r1 = Sum4(k, F[1][0], F[1][1], F[1][2], F[1][3]) /\ r2 = Sum4(k, F[2][0], F[2][1], F[2][2], F[2][3]) /\ r3 = Sum4(k, F[3][0], F[3][1], F[3][2], F[3][3])
  <2>1. /\ Sum4(k, F[1][1], F[1][2], F[1][3], F[1][0]) = Sum4(k, F[1][0], F[1][1], F[1][2], F[1][3])
        /\ Sum4(k, F[2][2], F[2][3], F[2][0], F[2][1]) = Sum4(k, F[2][0], F[2][1], F[2][2], F[2][3])
        /\ Sum4(k, F[3][3], F[3][0], F[3][1], F[3][2]) = Sum4(k, F[3][0], F[3][1], F[3][2], F[3][3])
    BY Table4, Sum4Turn
  <2>2. QED
    BY <2>1 DEF Sum4
<1>9. Grid4(k, F) = Plus(k, Plus(k, Plus(k, D, U), W), V)
  <2> HIDE DEF r0, r1, r2, r3, D, U, V, W
  <2>1. QED
    BY <1>7, <1>8 DEF Grid4
<1> HIDE DEF D, U, V, W
<1>10. Plus(k, D, U) \in Word
  BY <1>1, RingLaws
<1>11. Plus(k, Plus(k, Plus(k, D, U), W), V) = Plus(k, Plus(k, D, Plus(k, U, V)), W)
  <2>1. Plus(k, Plus(k, Plus(k, D, U), W), V) = Plus(k, Plus(k, D, U), Plus(k, W, V))
    BY <1>1, <1>10, RingLaws
  <2>2. Plus(k, W, V) = Plus(k, V, W)
    BY <1>1, RingLaws
  <2>3. Plus(k, Plus(k, D, U), Plus(k, V, W)) = Plus(k, Plus(k, Plus(k, D, U), V), W)
    BY <1>1, <1>10, RingLaws
  <2>4. Plus(k, Plus(k, D, U), V) = Plus(k, D, Plus(k, U, V))
    BY <1>1, RingLaws
  <2>5. QED
    BY <2>1, <2>2, <2>3, <2>4
<1>12. QED
  BY <1>2, <1>3, <1>9, <1>11 DEF D

(* Party p keeps at index i the share that party p + i - 1 keeps first.    *)
Held4(k, X, Y, F) ==
    \A p \in 0 .. 3 : \A i, j \in 1 .. 3 : Prod(k, X, Y, p, i, j) = F[(p + i - 1) % 4][(p + j - 1) % 4]

LEMMA HeldFirst4 ==
    ASSUME NEW u, Replicated(4, 3, u), NEW p \in 0 .. 3, NEW i \in 1 .. 3
    PROVE  /\ (p + i - 1) % 4 \in 0 .. 3 /\ u[p][i] = u[(p + i - 1) % 4][1] /\ u[p][i] \in Word
<1> DEFINE q == (p + i - 1) % 4
<1>1. q \in 0 .. 3 /\ (p + i) % 4 = (q + 1) % 4
  OBVIOUS
<1> HIDE DEF q
<1>2. u[p][i] = u[q][1]
  <2>1. Meet(4, 3, p, i, q, 1)
    BY <1>1 DEF Meet
  <2>2. QED
    BY <2>1, SameAt
<1>3. u[p][i] \in Word
  BY DEF Replicated, Words
<1>4. QED
  BY <1>1, <1>2, <1>3 DEF q

LEMMA Multiply4Sums ==
    ASSUME NEW k \in Kinds, NEW X, Operands(4, 3, X), NEW Y, Operands(4, 3, Y), Len(X) = Len(Y),
           NEW w, Honest(4, w), NEW F, Table(4, F), Held4(k, X, Y, F)
    PROVE  Reconstruct(k, MultiplyC4(k, X, Y, w).z) = Grid4(k, F)
<1> DEFINE S(p) == Self4(k, X, Y, p, 1)
           K == Cross4(k, X, Y, 0, 1, 3)
           L == Cross4(k, X, Y, 1, 1, 3)
<1>1. Reconstruct(k, MultiplyC4(k, X, Y, w).z) = Plus(k, Sum4(k, S(0), S(1), S(2), S(3)), Plus(k, K, L))
  BY MultiplyGood4
<1>2. \A p \in {0, 1, 2, 3} : \A i, j \in {1, 2, 3} : Prod(k, X, Y, p, i, j) = F[(p + i - 1) % 4][(p + j - 1) % 4]
  BY DEF Held4
<1>3. /\ Prod(k, X, Y, 0, 1, 1) = F[0][0] /\ Prod(k, X, Y, 0, 1, 2) = F[0][1] /\ Prod(k, X, Y, 0, 2, 1) = F[1][0]
      /\ Prod(k, X, Y, 1, 1, 1) = F[1][1] /\ Prod(k, X, Y, 1, 1, 2) = F[1][2] /\ Prod(k, X, Y, 1, 2, 1) = F[2][1]
      /\ Prod(k, X, Y, 2, 1, 1) = F[2][2] /\ Prod(k, X, Y, 2, 1, 2) = F[2][3] /\ Prod(k, X, Y, 2, 2, 1) = F[3][2]
      /\ Prod(k, X, Y, 3, 1, 1) = F[3][3] /\ Prod(k, X, Y, 3, 1, 2) = F[3][0] /\ Prod(k, X, Y, 3, 2, 1) = F[0][3]
      /\ Prod(k, X, Y, 0, 1, 3) = F[0][2] /\ Prod(k, X, Y, 0, 3, 1) = F[2][0]
      /\ Prod(k, X, Y, 1, 1, 3) = F[1][3] /\ Prod(k, X, Y, 1, 3, 1) = F[3][1]
  BY <1>2
<1>4. /\ S(0) = Plus(k, F[0][0], Either(k, F, 0, 1)) /\ S(1) = Plus(k, F[1][1], Either(k, F, 1, 2))
      /\ S(2) = Plus(k, F[2][2], Either(k, F, 2, 3)) /\ S(3) = Plus(k, F[3][3], Either(k, F, 3, 0))
      /\ Plus(k, K, L) = Opposite(k, F)
  BY <1>3 DEF Self4, Cross4, Either, Opposite
<1> HIDE DEF S, K, L
<1>5. Sum4(k, S(0), S(1), S(2), S(3)) = Plus(k, Diagonal(k, F), Adjacent(k, F))
  BY <1>4, Table4, Sum4Adds DEF Diagonal, Adjacent
<1>6. QED
  BY <1>1, <1>4, <1>5, GridByPairs4

(* The two tables of products that the operands give.                      *)
LEMMA Products ==
    ASSUME NEW k \in Kinds, NEW u, Replicated(4, 3, u), NEW v, Replicated(4, 3, v)
    PROVE  LET xy == Times(k, Reconstruct(k, u), Reconstruct(k, v)) IN
           /\ \E F : Table(4, F) /\ Held4(k, <<u>>, <<v>>, F) /\ Grid4(k, F) = xy
           /\ \E F : Table(4, F) /\ Held4(k, <<u, v>>, <<v, u>>, F) /\ Grid4(k, F) = Plus(k, xy, xy)
<1> DEFINE G == [s \in 0 .. 3 |-> [t \in 0 .. 3 |-> Times(k, u[s][1], v[t][1])]]
           H == [s \in 0 .. 3 |-> [t \in 0 .. 3 |-> Times(k, v[s][1], u[t][1])]]
           F == [s \in 0 .. 3 |-> [t \in 0 .. 3 |-> Plus(k, G[s][t], H[s][t])]]
           A == Reconstruct(k, u)
           B == Reconstruct(k, v)
<1>1. \A p \in 0 .. 3 : u[p][1] \in Word /\ v[p][1] \in Word
  BY Shares4
<1>2. /\ Quartet(u[0][1], u[1][1], u[2][1], u[3][1]) /\ A = Sum4(k, u[0][1], u[1][1], u[2][1], u[3][1])
      /\ Quartet(v[0][1], v[1][1], v[2][1], v[3][1]) /\ B = Sum4(k, v[0][1], v[1][1], v[2][1], v[3][1])
  BY Values
<1>3. \A s, t \in 0 .. 3 : G[s][t] = Times(k, u[s][1], v[t][1]) /\ H[s][t] = Times(k, v[s][1], u[t][1])
  OBVIOUS
<1>4. \A s, t \in 0 .. 3 : F[s][t] = Plus(k, G[s][t], H[s][t])
  OBVIOUS
<1> HIDE DEF G, H, F, A, B
<1>5. Table(4, G) /\ Table(4, H)
  BY <1>1, <1>3, OperatorTypes DEF Table
<1>6. Table(4, F)
  BY <1>4, <1>5, OperatorTypes DEF Table
<1>7. Grid4(k, G) = Times(k, A, B)
  <2>1. /\ G[0][0] = Times(k, u[0][1], v[0][1]) /\ G[0][1] = Times(k, u[0][1], v[1][1]) /\ G[0][2] = Times(k, u[0][1], v[2][1]) /\ G[0][3] = Times(k, u[0][1], v[3][1])
        /\ G[1][0] = Times(k, u[1][1], v[0][1]) /\ G[1][1] = Times(k, u[1][1], v[1][1]) /\ G[1][2] = Times(k, u[1][1], v[2][1]) /\ G[1][3] = Times(k, u[1][1], v[3][1])
        /\ G[2][0] = Times(k, u[2][1], v[0][1]) /\ G[2][1] = Times(k, u[2][1], v[1][1]) /\ G[2][2] = Times(k, u[2][1], v[2][1]) /\ G[2][3] = Times(k, u[2][1], v[3][1])
        /\ G[3][0] = Times(k, u[3][1], v[0][1]) /\ G[3][1] = Times(k, u[3][1], v[1][1]) /\ G[3][2] = Times(k, u[3][1], v[2][1]) /\ G[3][3] = Times(k, u[3][1], v[3][1])
    BY <1>3
  <2>2. QED
    BY <1>2, <2>1, GridTimes4
<1>8. Grid4(k, H) = Times(k, B, A)
  <2>1. /\ H[0][0] = Times(k, v[0][1], u[0][1]) /\ H[0][1] = Times(k, v[0][1], u[1][1]) /\ H[0][2] = Times(k, v[0][1], u[2][1]) /\ H[0][3] = Times(k, v[0][1], u[3][1])
        /\ H[1][0] = Times(k, v[1][1], u[0][1]) /\ H[1][1] = Times(k, v[1][1], u[1][1]) /\ H[1][2] = Times(k, v[1][1], u[2][1]) /\ H[1][3] = Times(k, v[1][1], u[3][1])
        /\ H[2][0] = Times(k, v[2][1], u[0][1]) /\ H[2][1] = Times(k, v[2][1], u[1][1]) /\ H[2][2] = Times(k, v[2][1], u[2][1]) /\ H[2][3] = Times(k, v[2][1], u[3][1])
        /\ H[3][0] = Times(k, v[3][1], u[0][1]) /\ H[3][1] = Times(k, v[3][1], u[1][1]) /\ H[3][2] = Times(k, v[3][1], u[2][1]) /\ H[3][3] = Times(k, v[3][1], u[3][1])
    BY <1>3
  <2>2. QED
    BY <1>2, <2>1, GridTimes4
<1>9. Grid4(k, F) = Plus(k, Times(k, A, B), Times(k, A, B))
  <2>1. A \in Word /\ B \in Word
    BY <1>2, Sum4Turn
  <2>2. Times(k, B, A) = Times(k, A, B)
    BY <2>1, RingLaws
  <2>3. Grid4(k, F) = Plus(k, Grid4(k, G), Grid4(k, H))
    BY <1>4, <1>5, GridAdds4
  <2>4. QED
    BY <1>7, <1>8, <2>2, <2>3
<1>10. ASSUME NEW p \in 0 .. 3, NEW i \in 1 .. 3, NEW j \in 1 .. 3
       PROVE  /\ Prod(k, <<u>>, <<v>>, p, i, j) = G[(p + i - 1) % 4][(p + j - 1) % 4]
              /\ Prod(k, <<u, v>>, <<v, u>>, p, i, j) = F[(p + i - 1) % 4][(p + j - 1) % 4]
  <2> DEFINE s == (p + i - 1) % 4  t == (p + j - 1) % 4
  <2>1. /\ s \in 0 .. 3 /\ u[p][i] = u[s][1] /\ v[p][i] = v[s][1] /\ u[p][i] \in Word /\ v[p][i] \in Word
    BY HeldFirst4
  <2>2. /\ t \in 0 .. 3 /\ u[p][j] = u[t][1] /\ v[p][j] = v[t][1] /\ u[p][j] \in Word /\ v[p][j] \in Word
    BY HeldFirst4
  <2> HIDE DEF s, t
  <2>3. Prod(k, <<u>>, <<v>>, p, i, j) = Times(k, u[p][i], v[p][j])
    BY <2>1, <2>2, ProdOne
  <2>4. Prod(k, <<u, v>>, <<v, u>>, p, i, j) = Plus(k, Times(k, u[p][i], v[p][j]), Times(k, v[p][i], u[p][j]))
    BY <2>1, <2>2, ProdTwo
  <2>5. /\ Times(k, u[p][i], v[p][j]) = G[s][t] /\ Times(k, v[p][i], u[p][j]) = H[s][t]
        /\ F[s][t] = Plus(k, G[s][t], H[s][t])
    BY <1>3, <1>4, <2>1, <2>2
  <2>6. QED
    BY <2>3, <2>4, <2>5 DEF s, t
<1>11. Held4(k, <<u>>, <<v>>, G) /\ Held4(k, <<u, v>>, <<v, u>>, F)
  BY <1>10 DEF Held4
<1>12. QED
  BY <1>5, <1>6, <1>7, <1>9, <1>11 DEF A, B

LEMMA OperandsFour ==
    ASSUME NEW u, Replicated(4, 3, u), NEW v, Replicated(4, 3, v)
    PROVE  /\ Operands(4, 3, <<u>>) /\ Operands(4, 3, <<v>>) /\ Len(<<u>>) = Len(<<v>>)
           /\ Operands(4, 3, <<u, v>>) /\ Operands(4, 3, <<v, u>>) /\ Len(<<u, v>>) = Len(<<v, u>>)
<1> DEFINE n == 4  rep == 3
<1>1. n \in Nat /\ rep \in Nat /\ Replicated(n, rep, u) /\ Replicated(n, rep, v)
  OBVIOUS
<1> HIDE DEF n, rep
<1>2. /\ Operands(n, rep, <<u>>) /\ Operands(n, rep, <<v>>) /\ Len(<<u>>) = Len(<<v>>)
      /\ Operands(n, rep, <<u, v>>) /\ Operands(n, rep, <<v, u>>) /\ Len(<<u, v>>) = Len(<<v, u>>)
  BY <1>1, OneOperand
<1>3. QED
  BY <1>2 DEF n, rep

LEMMA MultiplyValues4 ==
    ASSUME NEW k \in Kinds, NEW u, Replicated(4, 3, u), NEW v, Replicated(4, 3, v), NEW w, Honest(4, w)
    PROVE  LET xy == Times(k, Reconstruct(k, u), Reconstruct(k, v)) IN
           /\ Reconstruct(k, MultiplyC4(k, <<u>>, <<v>>, w).z) = xy
           /\ Reconstruct(k, MultiplyC4(k, <<u, v>>, <<v, u>>, w).z) = Plus(k, xy, xy)
<1> DEFINE xy == Times(k, Reconstruct(k, u), Reconstruct(k, v))
<1>1. PICK G : Table(4, G) /\ Held4(k, <<u>>, <<v>>, G) /\ Grid4(k, G) = xy
  BY Products
<1>2. PICK F : Table(4, F) /\ Held4(k, <<u, v>>, <<v, u>>, F) /\ Grid4(k, F) = Plus(k, xy, xy)
  BY Products
<1> HIDE DEF xy
<1>3. Reconstruct(k, MultiplyC4(k, <<u>>, <<v>>, w).z) = Grid4(k, G)
  BY <1>1, OperandsFour, Multiply4Sums
<1>4. Reconstruct(k, MultiplyC4(k, <<u, v>>, <<v, u>>, w).z) = Grid4(k, F)
  BY <1>2, OperandsFour, Multiply4Sums
<1>5. QED
  BY <1>1, <1>2, <1>3, <1>4 DEF xy

(* The two shares that only parties i and j both hold, in the table.       *)
LEMMA PairTerms ==
    ASSUME NEW k \in Kinds, NEW X, NEW Y, NEW F, Table(4, F), Held4(k, X, Y, F)
    PROVE  /\ PairTerm(k, X, Y, 0, 1) = Either(k, F, 1, 2) /\ PairTerm(k, X, Y, 0, 2) = Either(k, F, 0, 2)
           /\ PairTerm(k, X, Y, 0, 3) = Either(k, F, 0, 1) /\ PairTerm(k, X, Y, 1, 2) = Either(k, F, 2, 3)
           /\ PairTerm(k, X, Y, 1, 3) = Either(k, F, 1, 3) /\ PairTerm(k, X, Y, 2, 3) = Either(k, F, 3, 0)
<1> DEFINE cross(p, a, b) == Plus(k, Prod(k, X, Y, p, a, b), Prod(k, X, Y, p, b, a))
<1>1. /\ next_party(0, 1) = 2 /\ next_party(0, 2) = 1 /\ next_party(0, 3) = 1
      /\ next_party(1, 2) = 3 /\ next_party(1, 3) = 2 /\ next_party(2, 3) = 0
  BY DEF next_party
<1>2. /\ excluded_party(0, 1, 2) = 3 /\ excluded_party(0, 2, 1) = 3 /\ excluded_party(0, 3, 1) = 2
      /\ excluded_party(1, 2, 3) = 0 /\ excluded_party(1, 3, 2) = 0 /\ excluded_party(2, 3, 0) = 1
  BY DEF excluded_party
<1>3. /\ abs2sh(0, 1) = 1 /\ abs2sh(0, 2) = 2 /\ abs2sh(0, 3) = 3
      /\ abs2sh(1, 0) = 3 /\ abs2sh(1, 2) = 1 /\ abs2sh(1, 3) = 2 /\ abs2sh(2, 0) = 2 /\ abs2sh(2, 1) = 3
  <2>1. \A p, s \in {0, 1, 2, 3} : p # s => abs2sh(p, s) \in {1, 2, 3} /\ (p + abs2sh(p, s)) % 4 = s
    BY IndexOf
  <2>2. \A i \in {1, 2, 3} : /\ (0 + i) % 4 = i /\ ((1 + i) % 4 = 0 <=> i = 3) /\ ((1 + i) % 4 = 2 <=> i = 1)
                            /\ ((1 + i) % 4 = 3 <=> i = 2) /\ ((2 + i) % 4 = 0 <=> i = 2) /\ ((2 + i) % 4 = 1 <=> i = 3)
    OBVIOUS
  <2>3. QED
    BY ONLY <2>1, <2>2
<1>4. \A i, j, g, h : CrossTerm(k, X, Y, i, j, g, h)[i] = cross(i, abs2sh(i, h), abs2sh(i, g))
  BY DEF CrossTerm
<1>5. /\ PairTerm(k, X, Y, 0, 1) = cross(0, 3, 2) /\ PairTerm(k, X, Y, 0, 2) = cross(0, 3, 1)
      /\ PairTerm(k, X, Y, 0, 3) = cross(0, 2, 1) /\ PairTerm(k, X, Y, 1, 2) = cross(1, 3, 2)
      /\ PairTerm(k, X, Y, 1, 3) = cross(1, 3, 1) /\ PairTerm(k, X, Y, 2, 3) = cross(2, 3, 2)
  <2> HIDE DEF cross
  <2>1. QED
    BY <1>1, <1>2, <1>3, <1>4 DEF PairTerm
<1>6. \A p \in {0, 1, 2, 3} : \A i, j \in {1, 2, 3} : Prod(k, X, Y, p, i, j) = F[(p + i - 1) % 4][(p + j - 1) % 4]
  BY DEF Held4
<1>7. /\ cross(0, 3, 2) = Either(k, F, 2, 1) /\ cross(0, 3, 1) = Either(k, F, 2, 0) /\ cross(0, 2, 1) = Either(k, F, 1, 0)
      /\ cross(1, 3, 2) = Either(k, F, 3, 2) /\ cross(1, 3, 1) = Either(k, F, 3, 1) /\ cross(2, 3, 2) = Either(k, F, 0, 3)
  BY <1>6 DEF Either
<1>8. \A s, t \in {0, 1, 2, 3} : Either(k, F, s, t) = Either(k, F, t, s)
  <2>1. \A s, t \in {0, 1, 2, 3} : F[s][t] \in Word
    BY Table4
  <2>2. \A a, b \in Word : Plus(k, a, b) = Plus(k, b, a)
    BY RingLaws
  <2>3. QED
    BY <2>1, <2>2 DEF Either
<1>9. QED
  BY <1>5, <1>7, <1>8

Regrouped(k, d, a, b, c, e, s, t) ==
    Plus(k, Plus(k, Plus(k, Plus(k, Plus(k, Plus(k, d, b), s), a), c), t), e)
      = Plus(k, Plus(k, d, Sum4(k, a, b, c, e)), Plus(k, s, t))

LEMMA SixSwaps ==
    ASSUME NEW k \in Kinds, NEW d \in Word, NEW a \in Word, NEW b \in Word, NEW c \in Word, NEW e \in Word,
           NEW s \in Word, NEW t \in Word
    PROVE  Regrouped(k, d, a, b, c, e, s, t)
<1>1. \A i, j \in Word : Plus(k, i, j) \in Word
  BY RingLaws
<1>2. \A i, j, h \in Word : Plus(k, Plus(k, i, j), h) = Plus(k, Plus(k, i, h), j)
  <2>1. \A i, j, h \in Word : Plus(k, Plus(k, i, j), h) = Plus(k, i, Plus(k, j, h))
    BY RingLaws
  <2>2. \A i, j \in Word : Plus(k, i, j) = Plus(k, j, i)
    BY RingLaws
  <2>3. QED
    BY <2>1, <2>2
<1>3. \A i, j, h \in Word : Plus(k, Plus(k, i, j), h) = Plus(k, i, Plus(k, j, h))
  BY RingLaws
<1> DEFINE db == Plus(k, d, b)  dab == Plus(k, Plus(k, d, a), b)
           dabc == Plus(k, dab, c)  all == Plus(k, dabc, e)
<1>4. db \in Word /\ dab \in Word /\ dabc \in Word /\ all \in Word
  BY <1>1
<1>5. Plus(k, Plus(k, db, s), a) = Plus(k, dab, s)
  BY <1>2, <1>4
<1>6. Plus(k, Plus(k, dab, s), c) = Plus(k, dabc, s)
  <2> HIDE DEF db, dab
  <2>1. QED
    BY <1>2, <1>4
<1>7. Plus(k, Plus(k, Plus(k, dabc, s), t), e) = Plus(k, all, Plus(k, s, t))
  <2> HIDE DEF db, dab, dabc
  <2>1. Plus(k, s, t) \in Word /\ Plus(k, Plus(k, dabc, s), t) = Plus(k, dabc, Plus(k, s, t))
    BY <1>1, <1>3, <1>4
  <2>2. QED
    BY <1>2, <1>4, <2>1
<1>8. all = Plus(k, d, Sum4(k, a, b, c, e))
  <2>1. Plus(k, a, b) \in Word /\ Plus(k, Plus(k, a, b), c) \in Word
    BY <1>1
  <2>2. dab = Plus(k, d, Plus(k, a, b))
    BY <1>3
  <2>3. dabc = Plus(k, d, Plus(k, Plus(k, a, b), c))
    BY <1>3, <2>1, <2>2
  <2>4. QED
    BY <1>3, <2>1, <2>3 DEF Sum4
<1>9. QED
  BY <1>5, <1>6, <1>7, <1>8 DEF Regrouped

(* The self terms are local; every other product is in one pair's term.    *)
LEMMA MultiplyFSums ==
    ASSUME NEW k \in Kinds, NEW X, Operands(4, 3, X), NEW Y, Operands(4, 3, Y), Len(X) = Len(Y),
           NEW w, Honest(4, w), NEW F, Table(4, F), Held4(k, X, Y, F)
    PROVE  Reconstruct(k, generic_multiply(k, X, Y, w).z) = Grid4(k, F)
<1>1. PICK z : /\ z = [p \in PF |-> [m \in 1 .. 3 |-> Prod(k, X, Y, p, m, m)]]
               /\ Reconstruct(k, generic_multiply(k, X, Y, w).z) = SixTerms(k, X, Y, Reconstruct(k, z))
  BY MultiplyGoodF
<1>2. Replicated(4, 3, z) /\ z[0][1] = F[0][0] /\ z[1][1] = F[1][1] /\ z[2][1] = F[2][2] /\ z[3][1] = F[3][3]
  <2>1. \A p \in {0, 1, 2, 3} : \A i \in {1, 2, 3} : Prod(k, X, Y, p, i, i) = F[(p + i - 1) % 4][(p + i - 1) % 4]
    BY DEF Held4
  <2> DEFINE sh == [s \in 0 .. 3 |-> F[(s + 3) % 4][(s + 3) % 4]]
  <2>2. sh \in [0 .. 3 -> Word]
    BY DEF Table
  <2>3. \A p \in 0 .. 3 : \A i \in 1 .. 3 : z[p][i] = sh[(p + i) % 4]
    <3>1. \A p \in 0 .. 3 : \A i \in 1 .. 3 : z[p][i] = Prod(k, X, Y, p, i, i)
      BY <1>1, PartiesF
    <3>2. \A p \in 0 .. 3 : \A i \in 1 .. 3 : (((p + i) % 4) + 3) % 4 = (p + i - 1) % 4 /\ (p + i) % 4 \in 0 .. 3
      OBVIOUS
    <3>3. QED
      BY <3>1, <3>2 DEF Held4
  <2>4. z = [p \in 0 .. 3 |-> [i \in 1 .. 3 |-> z[p][i]]]
    BY <1>1, PartiesF
  <2> HIDE DEF sh
  <2>5. Replicated(4, 3, z)
    BY ONLY <2>2, <2>3, <2>4, FromShares4
  <2>6. QED
    BY <1>1, <2>1, <2>5, PartiesF
<1>3. Reconstruct(k, z) = Diagonal(k, F)
  BY <1>2, Values DEF Diagonal
<1> DEFINE a == Either(k, F, 0, 1)  b == Either(k, F, 1, 2)  c == Either(k, F, 2, 3)  e == Either(k, F, 3, 0)
           s == Either(k, F, 0, 2)  t == Either(k, F, 1, 3)  d == Diagonal(k, F)
<1>4. /\ a \in Word /\ b \in Word /\ c \in Word /\ e \in Word /\ s \in Word /\ t \in Word /\ d \in Word
  BY Table4
<1>5. SixTerms(k, X, Y, d) = Plus(k, Plus(k, Plus(k, Plus(k, Plus(k, Plus(k, d, b), s), a), c), t), e)
  BY PairTerms DEF SixTerms
<1>6. Grid4(k, F) = Plus(k, Plus(k, d, Sum4(k, a, b, c, e)), Plus(k, s, t))
  BY GridByPairs4 DEF Adjacent, Opposite
<1> HIDE DEF a, b, c, d, e, s, t
<1>7. SixTerms(k, X, Y, d) = Grid4(k, F)
  <2>1. Regrouped(k, d, a, b, c, e, s, t)
    BY ONLY k \in Kinds, <1>4, SixSwaps
  <2>2. QED
    BY ONLY <1>5, <1>6, <2>1 DEF Regrouped
<1>8. QED
  BY <1>1, <1>3, <1>7 DEF d

LEMMA MultiplyValuesF ==
    ASSUME NEW k \in Kinds, NEW u, Replicated(4, 3, u), NEW v, Replicated(4, 3, v), NEW w, Honest(4, w)
    PROVE  LET xy == Times(k, Reconstruct(k, u), Reconstruct(k, v)) IN
           /\ Reconstruct(k, generic_multiply(k, <<u>>, <<v>>, w).z) = xy
           /\ Reconstruct(k, generic_multiply(k, <<u, v>>, <<v, u>>, w).z) = Plus(k, xy, xy)
<1> DEFINE xy == Times(k, Reconstruct(k, u), Reconstruct(k, v))
<1>1. PICK G : Table(4, G) /\ Held4(k, <<u>>, <<v>>, G) /\ Grid4(k, G) = xy
  BY Products
<1>2. PICK F : Table(4, F) /\ Held4(k, <<u, v>>, <<v, u>>, F) /\ Grid4(k, F) = Plus(k, xy, xy)
  BY Products
<1> HIDE DEF xy
<1>3. Reconstruct(k, generic_multiply(k, <<u>>, <<v>>, w).z) = Grid4(k, G)
  BY <1>1, OperandsFour, MultiplyFSums
<1>4. Reconstruct(k, generic_multiply(k, <<u, v>>, <<v, u>>, w).z) = Grid4(k, F)
  BY <1>2, OperandsFour, MultiplyFSums
<1>5. QED
  BY <1>1, <1>2, <1>3, <1>4 DEF xy

(***************************************************************************)
(* Two parties.  A triple is sound if c = a * b; the operands are opened   *)
(* under its masks, and the masks cancel.                                  *)
(***************************************************************************)
SoundTriple(k, t) ==
    Plus(k, t[0].c[1], t[1].c[1]) = Times(k, Plus(k, t[0].a[1], t[1].a[1]), Plus(k, t[0].b[1], t[1].b[1]))

LEMMA TwoOLEs ==
    ASSUME NEW k \in Kinds, NEW p \in Word, NEW q \in Word, NEW r \in Word, NEW s \in Word,
           NEW a \in Word, NEW b \in Word
    PROVE  Plus(k, Sum3(k, p, a, b), Sum3(k, q, Minus(k, r, b), Minus(k, s, a))) = Plus(k, Plus(k, p, s), Plus(k, r, q))
<1> DEFINE ra == Minus(k, s, a)  rb == Minus(k, r, b)
<1>1. \A i, j \in Word : /\ Plus(k, i, j) \in Word /\ Minus(k, i, j) \in Word
                         /\ Plus(k, i, j) = Plus(k, j, i) /\ Plus(k, j, Minus(k, i, j)) = i
  BY RingLaws
<1>2. \A h, i, j \in Word : Plus(k, Plus(k, h, i), j) = Plus(k, h, Plus(k, i, j))
  BY RingLaws
<1>3. ra \in Word /\ rb \in Word /\ Plus(k, a, ra) = s /\ Plus(k, b, rb) = r
  BY <1>1
<1> HIDE DEF ra, rb
<1>4. Sum3(k, q, rb, ra) = Sum3(k, q, ra, rb)
  BY <1>1, <1>2, <1>3 DEF Sum3
<1>5. Plus(k, Sum3(k, p, a, b), Sum3(k, q, ra, rb)) = Sum3(k, Plus(k, p, q), s, r)
  <2>1. Trio(p, a, b) /\ Trio(q, ra, rb)
    BY <1>3 DEF Trio
  <2>2. QED
    BY <1>3, <2>1, Sum3Adds
<1>6. Sum3(k, Plus(k, p, q), s, r) = Plus(k, Plus(k, p, s), Plus(k, r, q))
  <2>1. Plus(k, Plus(k, p, q), Plus(k, s, r)) = Plus(k, Plus(k, p, s), Plus(k, q, r))
    BY Crosswise
  <2>2. QED
    BY <1>1, <1>2, <2>1 DEF Sum3
<1>7. QED
  BY <1>4, <1>5, <1>6 DEF ra, rb

LEMMA TripleSound ==
    ASSUME NEW k \in Kinds, NEW w, Honest(2, w)
    PROVE  SoundTriple(k, BeaverTriple(k, w).t)
<1> DEFINE D == [p \in P2 |-> <<OLE(k), OLE(k)>>]
           ole(p, i) == OLEShare(k, w.seed, Nonce(w, D, p, i), p)
           triple(u, v) == [a |-> <<u[1]>>, b |-> <<v[1]>>,
                            c |-> <<Total(k, <<Times(k, u[1], v[1]), u[2], v[2]>>)>>]
           n(i) == Nonce(w, D, 0, i)
           C(i) == Stream(w.seed, OLE(k), 3 * n(i))
           E(i) == Stream(w.seed, OLE(k), 3 * n(i) + 1)
           A(i) == Stream(w.seed, OLE(k), 3 * n(i) + 2)
           B(i) == Minus(k, Times(k, C(i), E(i)), A(i))
<1>1. /\ BeaverTriple(k, w).t[0] = triple(ole(0, 1), ole(0, 2))
      /\ BeaverTriple(k, w).t[1] = triple(ole(1, 2), ole(1, 1))
  <2>1. BeaverTriple(k, w).t = [p \in P2 |-> triple(ole(p, 1 + p), ole(p, 2 - p))]
    BY DEF BeaverTriple
  <2>2. 0 \in P2 /\ 1 \in P2 /\ 1 + 0 = 1 /\ 2 - 0 = 2 /\ 1 + 1 = 2 /\ 2 - 1 = 1
    BY DEF P2
  <2> HIDE DEF ole, triple
  <2>3. QED
    BY <2>1, <2>2
<1>2. \A i \in {1, 2} : n(i) \in Nat /\ Nonce(w, D, 1, i) = n(i)
  <2>1. \A p \in P2 : \A i \in {1, 2} : D[p][i] = OLE(k)
    OBVIOUS
  <2>2. D[0] = D[1]
    BY DEF P2
  <2>3. <<OLE(k), {0, 1}>> \in Holders(2) /\ OLE(k) \in HeldBy(2, 0)
    <3>1. <<OLE(k), {0, 1}>> \in Holders(2)
      BY Holders2 DEF OLE
    <3>2. <<OLE(k), {0, 1}>>[1] = OLE(k) /\ <<OLE(k), {0, 1}>>[2] = {0, 1}
      OBVIOUS
    <3>3. 0 \in {0, 1} /\ 0 \in 0 .. 2 - 1
      OBVIOUS
    <3>4. OLE(k) \in HeldBy(2, 0)
      BY <3>1, <3>2, <3>3, HoldersHold
    <3>5. QED
      BY <3>1, <3>4
  <2>4. w.pos[0][OLE(k)] \in Nat /\ w.pos[1][OLE(k)] = w.pos[0][OLE(k)]
    <3>1. <<OLE(k), {0, 1}>>[1] = OLE(k) /\ <<OLE(k), {0, 1}>>[2] = {0, 1} /\ 0 \in 0 .. 2 - 1
      OBVIOUS
    <3>2. \A p, q \in <<OLE(k), {0, 1}>>[2] : w.pos[p][OLE(k)] = w.pos[q][OLE(k)]
      BY <2>3, <3>1 DEF Honest, InStep
    <3>3. w.pos[0] \in [HeldBy(2, 0) -> Nat]
      BY <3>1 DEF Honest, Positions
    <3>4. QED
      BY <2>3, <3>1, <3>2, <3>3
  <2>5. ASSUME NEW p \in P2, NEW i \in {1, 2}
        PROVE  Nonce(w, D, p, i) = w.pos[p][OLE(k)] + Count(D[0], i - 1, OLE(k)) /\ Count(D[0], i - 1, OLE(k)) \in Nat
    <3>1. D[p] = D[0] /\ D[p][i] = OLE(k) /\ i - 1 \in Nat
      BY <2>1, <2>2 DEF P2
    <3>2. Nonce(w, D, p, i) = w.pos[p][D[p][i]] + Count(D[p], i - 1, D[p][i])
      BY DEF Nonce, Count
    <3> HIDE DEF D
    <3>3. QED
      BY <3>1, <3>2, CountRecursion
  <2>6. 0 \in P2 /\ 1 \in P2
    BY DEF P2
  <2> HIDE DEF D
  <2>7. QED
    BY <2>4, <2>5, <2>6
<1>3. \A i \in {1, 2} : C(i) \in Word /\ E(i) \in Word /\ A(i) \in Word
  <2>1. OLE(k) \in Nat /\ w.seed \in Nat
    BY DEF OLE, Honest
  <2>2. \A i \in {1, 2} : 3 * n(i) \in Nat /\ 3 * n(i) + 1 \in Nat /\ 3 * n(i) + 2 \in Nat
    <3> HIDE DEF n
    <3>1. QED
      BY <1>2
  <2> HIDE DEF n
  <2>3. QED
    BY <2>1, <2>2, StreamType
<1>4. \A i \in {1, 2} : ole(0, i) = <<C(i), A(i)>> /\ ole(1, i) = <<E(i), B(i)>>
  <2>1. \A i \in {1, 2} : ole(0, i) = OLEShare(k, w.seed, n(i), 0) /\ ole(1, i) = OLEShare(k, w.seed, n(i), 1)
    <3> HIDE DEF D
    <3>1. QED
      BY <1>2
  <2>2. \A m \in Nat : LET word(i) == Stream(w.seed, OLE(k), 3 * m + i) IN
          /\ OLEShare(k, w.seed, m, 0) = <<word(0), word(2)>>
          /\ OLEShare(k, w.seed, m, 1) = <<word(1), Minus(k, Times(k, word(0), word(1)), word(2))>>
    BY DEF OLEShare
  <2>3. \A m \in Nat : 3 * m + 0 = 3 * m
    OBVIOUS
  <2> HIDE DEF ole, n
  <2>4. QED
    BY <1>2, <2>1, <2>2, <2>3
<1> HIDE DEF ole, n
<1>5. /\ triple(ole(0, 1), ole(0, 2)) = [a |-> <<C(1)>>, b |-> <<C(2)>>, c |-> <<Total(k, <<Times(k, C(1), C(2)), A(1), A(2)>>)>>]
      /\ triple(ole(1, 2), ole(1, 1)) = [a |-> <<E(2)>>, b |-> <<E(1)>>, c |-> <<Total(k, <<Times(k, E(2), E(1)), B(2), B(1)>>)>>]
  BY <1>4
<1> DEFINE t == BeaverTriple(k, w).t
<1>6. /\ t[0].a[1] = C(1) /\ t[0].b[1] = C(2) /\ t[0].c[1] = Total(k, <<Times(k, C(1), C(2)), A(1), A(2)>>)
      /\ t[1].a[1] = E(2) /\ t[1].b[1] = E(1) /\ t[1].c[1] = Total(k, <<Times(k, E(2), E(1)), B(2), B(1)>>)
  <2> HIDE DEF triple, C, E, A, B
  <2>1. QED
    BY <1>1, <1>5
<1> HIDE DEF t, C, E, A
<1> DEFINE p == Times(k, C(1), C(2))  q == Times(k, E(2), E(1))  r == Times(k, C(2), E(2))  s == Times(k, C(1), E(1))
<1>7. \A i, j \in Word : /\ Plus(k, i, j) \in Word /\ Times(k, i, j) \in Word /\ Minus(k, i, j) \in Word
                         /\ Times(k, i, j) = Times(k, j, i)
  BY RingLaws
<1>8. p \in Word /\ q \in Word /\ r \in Word /\ s \in Word /\ A(1) \in Word /\ A(2) \in Word
  BY <1>3, <1>7
<1>9. /\ t[0].c[1] = Sum3(k, p, A(1), A(2))
      /\ t[1].c[1] = Sum3(k, q, Minus(k, r, A(2)), Minus(k, s, A(1)))
  <2>1. Minus(k, r, A(2)) \in Word /\ Minus(k, s, A(1)) \in Word
    BY <1>7, <1>8
  <2>2. t[1].c[1] = Total(k, <<q, Minus(k, r, A(2)), Minus(k, s, A(1))>>)
    BY <1>6
  <2> HIDE DEF p, q, r, s
  <2>3. QED
    BY <1>6, <1>8, <2>1, <2>2, TotalThree DEF Sum3, p
<1>10. Times(k, Plus(k, C(1), E(2)), Plus(k, C(2), E(1))) = Plus(k, Plus(k, p, s), Plus(k, r, q))
  <2>1. \A h, i, j \in Word : /\ Times(k, h, Plus(k, i, j)) = Plus(k, Times(k, h, i), Times(k, h, j))
                              /\ Times(k, Plus(k, i, j), h) = Plus(k, Times(k, i, h), Times(k, j, h))
    BY RingLaws
  <2>2. C(1) \in Word /\ C(2) \in Word /\ E(1) \in Word /\ E(2) \in Word /\ Plus(k, C(2), E(1)) \in Word
    BY <1>3, <1>7
  <2>3. Times(k, Plus(k, C(1), E(2)), Plus(k, C(2), E(1)))
          = Plus(k, Times(k, C(1), Plus(k, C(2), E(1))), Times(k, E(2), Plus(k, C(2), E(1))))
    BY ONLY <2>1, <2>2
  <2>4. Times(k, C(1), Plus(k, C(2), E(1))) = Plus(k, p, s)
    BY ONLY <2>1, <2>2
  <2>5. Times(k, E(2), Plus(k, C(2), E(1))) = Plus(k, r, q)
    BY ONLY <1>7, <2>1, <2>2
  <2>6. QED
    BY ONLY <2>3, <2>4, <2>5
<1> HIDE DEF p, q, r, s
<1>11. Plus(k, t[0].c[1], t[1].c[1]) = Plus(k, Plus(k, p, s), Plus(k, r, q))
  BY ONLY k \in Kinds, <1>8, <1>9, TwoOLEs
<1>12. QED
  BY <1>6, <1>10, <1>11 DEF SoundTriple, t

LEMMA MasksCancel ==
    ASSUME NEW k \in Kinds, NEW x \in Word, NEW y \in Word, NEW a \in Word, NEW b \in Word
    PROVE  Plus(k, Minus(k, Times(k, y, Plus(k, x, a)), Times(k, a, Plus(k, y, b))), Times(k, a, b)) = Times(k, x, y)
<1> DEFINE p == Times(k, y, x)  q == Times(k, a, y)  r == Times(k, a, b)  m == Minus(k, Plus(k, p, q), Plus(k, q, r))
<1>1. \A i, j \in Word : /\ Plus(k, i, j) \in Word /\ Times(k, i, j) \in Word /\ Minus(k, i, j) \in Word
                         /\ Times(k, i, j) = Times(k, j, i) /\ Plus(k, i, j) = Plus(k, j, i)
                         /\ Plus(k, Minus(k, i, j), j) = i /\ Minus(k, Plus(k, i, j), j) = i
  BY RingLaws
<1>2. \A h, i, j \in Word : /\ Times(k, h, Plus(k, i, j)) = Plus(k, Times(k, h, i), Times(k, h, j))
                            /\ Plus(k, Plus(k, h, i), j) = Plus(k, h, Plus(k, i, j))
  BY RingLaws
<1>3. /\ Times(k, y, Plus(k, x, a)) = Plus(k, p, q) /\ Times(k, a, Plus(k, y, b)) = Plus(k, q, r)
      /\ p \in Word /\ q \in Word /\ r \in Word
  BY <1>1, <1>2
<1>4. p = Times(k, x, y)
  BY <1>1
<1> HIDE DEF p, q, r
<1>5. m \in Word /\ Plus(k, p, q) \in Word /\ Plus(k, q, r) \in Word
  BY <1>1, <1>3
<1>6. Plus(k, m, Plus(k, q, r)) = Plus(k, p, q)
  BY <1>1, <1>5
<1> HIDE DEF m
<1>7. Plus(k, Plus(k, m, r), q) = Plus(k, p, q) /\ Plus(k, m, r) \in Word
  BY <1>1, <1>2, <1>3, <1>5, <1>6
<1>8. Plus(k, m, r) = Minus(k, Plus(k, Plus(k, m, r), q), q) /\ p = Minus(k, Plus(k, p, q), q)
  <2> DEFINE t == Plus(k, m, r)
  <2>1. t \in Word
    BY <1>7
  <2> HIDE DEF t
  <2>2. t = Minus(k, Plus(k, t, q), q) /\ p = Minus(k, Plus(k, p, q), q)
    BY <1>1, <1>3, <2>1
  <2>3. QED
    BY <2>2 DEF t
<1>9. QED
  BY <1>3, <1>4, <1>7, <1>8 DEF m, r

(* What the two parties compute from a sound triple adds up to the product. *)
LEMMA MaskedProduct ==
    ASSUME NEW k \in Kinds, NEW u, Replicated(2, 1, u), NEW v, Replicated(2, 1, v),
           NEW t, IsTriple(t), SoundTriple(k, t)
    PROVE  Reconstruct(k, Masked(k, u, v, t)) = Times(k, Reconstruct(k, u), Reconstruct(k, v))
<1> DEFINE A == open_2PC(k, PlusShares(k, u, [p \in P2 |-> t[p].a]))
           B == open_2PC(k, PlusShares(k, v, [p \in P2 |-> t[p].b]))
           z == [p \in P2 |-> <<Plus(k, Minus(k, Times(k, v[p][1], A[p]), Times(k, t[p].a[1], B[p])), t[p].c[1])>>]
           x0 == u[0][1]  x1 == u[1][1]  y0 == v[0][1]  y1 == v[1][1]
           a0 == t[0].a[1]  a1 == t[1].a[1]  b0 == t[0].b[1]  b1 == t[1].b[1]  c0 == t[0].c[1]  c1 == t[1].c[1]
           x == Plus(k, x0, x1)  y == Plus(k, y0, y1)  a == Plus(k, a0, a1)  b == Plus(k, b0, b1)
           P == Plus(k, x, a)  Q == Plus(k, y, b)
<1>1. Masked(k, u, v, t) = z
  BY DEF Masked
<1>2. /\ x0 \in Word /\ x1 \in Word /\ y0 \in Word /\ y1 \in Word /\ a0 \in Word /\ a1 \in Word
      /\ b0 \in Word /\ b1 \in Word /\ c0 \in Word /\ c1 \in Word
  BY Shares2 DEF P2, IsTriple
<1>3. /\ A[0] = Plus(k, Plus(k, x0, a0), Plus(k, x1, a1)) /\ A[1] = Plus(k, Plus(k, x1, a1), Plus(k, x0, a0))
      /\ B[0] = Plus(k, Plus(k, y0, b0), Plus(k, y1, b1)) /\ B[1] = Plus(k, Plus(k, y1, b1), Plus(k, y0, b0))
  BY Shares2 DEF open_2PC, PlusShares, P2
<1>4. /\ z[0][1] = Plus(k, Minus(k, Times(k, y0, A[0]), Times(k, a0, B[0])), c0)
      /\ z[1][1] = Plus(k, Minus(k, Times(k, y1, A[1]), Times(k, a1, B[1])), c1)
  BY DEF P2
<1>5. Reconstruct(k, z) = Plus(k, z[0][1], z[1][1])
  <2>1. Replicated(2, 1, Masked(k, u, v, t))
    BY MaskedShared
  <2> HIDE DEF z
  <2>2. QED
    BY <1>1, <2>1, ReconstructSums
<1>6. /\ Reconstruct(k, u) = x /\ Reconstruct(k, v) = y /\ Plus(k, c0, c1) = Times(k, a, b)
  BY ReconstructSums DEF SoundTriple
<1> HIDE DEF A, B, z, x0, x1, y0, y1, a0, a1, b0, b1, c0, c1
<1>7. \A i, j \in Word : /\ Plus(k, i, j) \in Word /\ Times(k, i, j) \in Word /\ Minus(k, i, j) \in Word
                         /\ Plus(k, i, j) = Plus(k, j, i)
  BY RingLaws
<1>8. x \in Word /\ y \in Word /\ a \in Word /\ b \in Word /\ P \in Word /\ Q \in Word
  BY <1>2, <1>7
<1>9. A[0] = P /\ A[1] = P /\ B[0] = Q /\ B[1] = Q
  <2>1. /\ Plus(k, Plus(k, x0, a0), Plus(k, x1, a1)) = P /\ Plus(k, Plus(k, y0, b0), Plus(k, y1, b1)) = Q
    BY <1>2, Crosswise
  <2>2. Plus(k, x0, a0) \in Word /\ Plus(k, x1, a1) \in Word /\ Plus(k, y0, b0) \in Word /\ Plus(k, y1, b1) \in Word
    BY <1>2, <1>7
  <2> HIDE DEF P, Q
  <2>3. QED
    BY <1>3, <1>7, <2>1, <2>2
<1> HIDE DEF P, Q
<1> DEFINE f0 == Times(k, y0, P)  f1 == Times(k, y1, P)  g0 == Times(k, a0, Q)  g1 == Times(k, a1, Q)
           m0 == Minus(k, f0, g0)  m1 == Minus(k, f1, g1)
<1>10. /\ f0 \in Word /\ f1 \in Word /\ g0 \in Word /\ g1 \in Word
       /\ Plus(k, f0, f1) = Times(k, y, P) /\ Plus(k, g0, g1) = Times(k, a, Q)
  <2>1. \A h, i, j \in Word : Times(k, Plus(k, i, j), h) = Plus(k, Times(k, i, h), Times(k, j, h))
    BY RingLaws
  <2>2. QED
    BY <1>2, <1>7, <1>8, <2>1
<1>11. z[0][1] = Plus(k, m0, c0) /\ z[1][1] = Plus(k, m1, c1)
  BY <1>4, <1>9
<1> HIDE DEF f0, f1, g0, g1
<1>12. m0 \in Word /\ m1 \in Word /\ Plus(k, m0, m1) = Minus(k, Plus(k, f0, f1), Plus(k, g0, g1))
  <2>1. m0 \in Word /\ m1 \in Word
    BY <1>7, <1>10
  <2>2. Plus(k, m0, m1) = Minus(k, Plus(k, f0, f1), Plus(k, g0, g1))
    BY <1>10, Crosswise
  <2>3. QED
    BY <2>1, <2>2
<1> HIDE DEF m0, m1
<1>13. Plus(k, z[0][1], z[1][1]) = Plus(k, Plus(k, m0, m1), Plus(k, c0, c1))
  BY <1>2, <1>11, <1>12, Crosswise
<1> HIDE DEF x, y, a, b
<1>14. Plus(k, Minus(k, Times(k, y, P), Times(k, a, Q)), Times(k, a, b)) = Times(k, x, y)
  BY <1>8, MasksCancel DEF P, Q
<1>15. QED
  BY <1>1, <1>5, <1>6, <1>10, <1>12, <1>13, <1>14

LEMMA MultiplyValue2 ==
    ASSUME NEW k \in Kinds, NEW u, Replicated(2, 1, u), NEW v, Replicated(2, 1, v), NEW w, Honest(2, w)
    PROVE  Reconstruct(k, MultiplyBeaver(k, u, v, BeaverTriple(k, w)).z) = Times(k, Reconstruct(k, u), Reconstruct(k, v))
<1>1. MultiplyBeaver(k, u, v, BeaverTriple(k, w)).z = Masked(k, u, v, BeaverTriple(k, w).t)
  BY ResultFields DEF MultiplyBeaver
<1>2. QED
  BY <1>1, TripleTypes, TripleSound, MaskedProduct

(* Matrices and convolutions: the zero triple is sound too.                *)
LEMMA SumValue2 ==
    ASSUME NEW u, Replicated(2, 1, u), NEW v, Replicated(2, 1, v), NEW w, Honest(2, w)
    PROVE  LET xy == Times("a", Reconstruct("a", u), Reconstruct("a", v)) IN
           Reconstruct("a", ProductSum_2PC(<<u, v>>, <<v, u>>, w).z) = Plus("a", xy, xy)
<1> DEFINE X == <<u, v>>
           Y == <<v, u>>
           xy == Times("a", Reconstruct("a", u), Reconstruct("a", v))
           M(t) == Masked("a", X[t], Y[t], ZeroTriple)
           z == [p \in P2 |-> <<Total("a", [t \in DOMAIN X |-> M(t)[p][1]])>>]
           m == Masked("a", u, v, ZeroTriple)
           n == Masked("a", v, u, ZeroTriple)
<1>1. ProductSum_2PC(X, Y, w) = Result(z, w)
  <2>1. ProductSum_2PC(X, Y, w) =
          Result([p \in P2 |-> <<Total("a", [t \in DOMAIN X |-> [s \in DOMAIN X |-> M(s)][t][p][1]])>>], w)
    BY DEF ProductSum_2PC
  <2>2. \A t \in DOMAIN X : [s \in DOMAIN X |-> M(s)][t] = M(t)
    OBVIOUS
  <2> HIDE DEF X, Y, M
  <2>3. \A p : [t \in DOMAIN X |-> [s \in DOMAIN X |-> M(s)][t][p][1]] = [t \in DOMAIN X |-> M(t)[p][1]]
    BY <2>2
  <2>4. QED
    BY <2>1, <2>3
<1>2. "a" \in Kinds
  BY DEF Kinds
<1>3. IsTriple(ZeroTriple) /\ SoundTriple("a", ZeroTriple)
  <2>1. \A p \in P2 : ZeroTriple[p].a = <<0>> /\ ZeroTriple[p].b = <<0>> /\ ZeroTriple[p].c = <<0>>
    BY DEF ZeroTriple
  <2>2. Plus("a", 0, 0) = 0 /\ Times("a", 0, 0) = 0
    BY <1>2, ZeroWord, RingLaws
  <2>3. QED
    BY <2>1, <2>2, ZeroWord DEF IsTriple, SoundTriple, P2
<1>4. DOMAIN X = 1 .. 2 /\ M(1) = m /\ M(2) = n
  OBVIOUS
<1>5. /\ Replicated(2, 1, m) /\ Replicated(2, 1, n) /\ Reconstruct("a", m) = xy
      /\ Reconstruct("a", n) = Times("a", Reconstruct("a", v), Reconstruct("a", u))
  BY <1>2, <1>3, MaskedShared, MaskedProduct
<1>6. Reconstruct("a", n) = xy
  <2>1. Size(2) /\ 2 - 1 = 1
    BY DEF Size
  <2>2. Reconstruct("a", u) \in Word /\ Reconstruct("a", v) \in Word
    BY <1>2, <2>1, ValueType
  <2>3. QED
    BY <1>2, <1>5, <2>2, TimesAlgebra
<1> HIDE DEF m, n, xy
<1>7. ASSUME NEW p \in P2 PROVE z[p][1] = Plus("a", m[p][1], n[p][1])
  <2>1. m[p][1] \in Word /\ n[p][1] \in Word
    BY <1>5, Shares2 DEF P2
  <2>2. [t \in DOMAIN X |-> M(t)[p][1]] = <<m[p][1], n[p][1]>>
    <3> HIDE DEF X, M
    <3>1. QED
      BY <1>4
  <2>3. QED
    BY <1>2, <2>1, <2>2, TotalTwo
<1> HIDE DEF z
<1>8. Replicated(2, 1, z)
  <2>1. Good(2, 1, ProductSum_2PC(X, Y, w))
    BY SumGood2
  <2> HIDE DEF X, Y
  <2>2. QED
    BY <1>1, <2>1, ResultFields DEF Good
<1>9. Reconstruct("a", z) = Plus("a", Plus("a", m[0][1], n[0][1]), Plus("a", m[1][1], n[1][1]))
  BY <1>2, <1>7, <1>8, ReconstructSums DEF P2
<1>10. Plus("a", Plus("a", m[0][1], n[0][1]), Plus("a", m[1][1], n[1][1])) = Plus("a", xy, xy)
  <2> DEFINE m0 == m[0][1]  m1 == m[1][1]  n0 == n[0][1]  n1 == n[1][1]
  <2>1. /\ m0 \in Word /\ m1 \in Word /\ n0 \in Word /\ n1 \in Word
        /\ Plus("a", m0, m1) = xy /\ Plus("a", n0, n1) = xy
    BY <1>2, <1>5, <1>6, Shares2, ReconstructSums
  <2> HIDE DEF m0, m1, n0, n1
  <2>2. Plus("a", Plus("a", m0, n0), Plus("a", m1, n1)) = Plus("a", xy, xy)
    BY <1>2, <2>1, Crosswise
  <2>3. QED
    BY <2>2 DEF m0, m1, n0, n1
<1>11. QED
  BY <1>1, <1>9, <1>10, ResultFields DEF X, Y, xy

(***************************************************************************)
(* A bit as an arithmetic sharing: the parties share two bits a and b that *)
(* xor to it, and square their difference.                                 *)
(***************************************************************************)
BitOf(u) == LowBit(Reconstruct("b", u))

LEMMA SquareOfDifference ==
    ASSUME NEW a \in {0, 1}, NEW b \in {0, 1}
    PROVE  Times("a", Minus("a", a, b), Minus("a", a, b)) = BitXor(a, b)
<1>1. Modulus \in Int /\ Modulus > 1 /\ \A i : Wrap(i) = i % Modulus
  BY ModulusType DEF Wrap
<1>2. 0 \in Word /\ 1 \in Word /\ \A i \in Word : Wrap(i) = i
  BY ZeroWord, WrapWord
<1>3. Wrap(0 - 1) = Modulus - 1
  <2>1. Modulus - 1 \in Word
    BY <1>1 DEF Word
  <2>2. 0 - 1 = (Modulus - 1) + Modulus * (-1) /\ 0 - 1 \in Int /\ Modulus - 1 \in Int /\ -1 \in Int
    BY <1>1
  <2>3. Wrap(0 - 1) = Wrap(Modulus - 1)
    BY ONLY <2>2, WrapEqual
  <2>4. QED
    BY <1>2, <2>1, <2>3
<1>4. Wrap((Modulus - 1) * (Modulus - 1)) = 1
  <2>1. /\ (Modulus - 1) * (Modulus - 1) = 1 + Modulus * (Modulus - 2)
        /\ (Modulus - 1) * (Modulus - 1) \in Int /\ 1 \in Int /\ Modulus - 2 \in Int
    BY <1>1
  <2>2. Wrap((Modulus - 1) * (Modulus - 1)) = Wrap(1)
    BY ONLY <2>1, WrapEqual
  <2>3. QED
    BY <1>2, <2>2
<1>5. Wrap(0 - 0) = 0 /\ Wrap(1 - 1) = 0 /\ Wrap(1 - 0) = 1 /\ Wrap(0 * 0) = 0 /\ Wrap(1 * 1) = 1
  BY <1>2
<1>6. Times("a", Minus("a", a, b), Minus("a", a, b)) = Wrap(Wrap(a - b) * Wrap(a - b))
  BY DEF Times, Minus
<1>7. QED
  BY <1>3, <1>4, <1>5, <1>6, BitValues

LEMMA BitGood2 ==
    ASSUME NEW u, Replicated(2, 1, u), NEW w, Honest(2, w)
    PROVE  Good(2, 1, b2a_bit_2PC(u, w)) /\ Reconstruct("a", b2a_bit_2PC(u, w).z) = BitOf(u)
<1> DEFINE m == MaskShares(u)
           z == [m EXCEPT ![1] = <<Wrap(-@[1])>>]
<1>1. Replicated(2, 1, m)
  <2> DEFINE n == 2  j == 1
  <2>1. n \in Nat /\ j \in Nat /\ Replicated(n, j, u)
    OBVIOUS
  <2> HIDE DEF n, j
  <2>2. Replicated(n, j, MaskShares(u))
    BY <2>1, MaskReplicated
  <2>3. QED
    BY <2>2 DEF n, j
<1>2. b2a_bit_2PC(u, w) = multiply_2PC(z, z, w)
  BY DEF b2a_bit_2PC
<1>10. /\ m[0][1] \in {0, 1} /\ m[1][1] \in {0, 1} /\ BitXor(m[0][1], m[1][1]) = BitOf(u)
  <2>1. m[0][1] = LowBit(u[0][1]) /\ m[1][1] = LowBit(u[1][1]) /\ u[0][1] \in Word /\ u[1][1] \in Word
    BY Shares2 DEF MaskShares, P2
  <2>2. Size(2) /\ 2 - 1 = 1 /\ "b" \in Kinds
    BY DEF Size, Kinds
  <2>3. Reconstruct("b", m) = BitOf(u)
    BY <2>2, MaskedValue DEF BitOf
  <2> HIDE DEF m
  <2>4. Reconstruct("b", m) = BitXor(m[0][1], m[1][1])
    BY <1>1, <2>2, ReconstructSums DEF Plus
  <2>5. QED
    BY <2>1, <2>3, <2>4, LowBits
<1> HIDE DEF m
<1>3. m \in [P2 -> [1 .. 1 -> Word]]
  BY <1>1 DEF Replicated, Words, P2
<1>4. \A p \in P2 : m[p] = <<m[p][1]>> /\ m[p][1] \in Word
  BY <1>3
<1>5. Wrap(-m[1][1]) \in Word
  BY <1>4, SumType DEF P2
<1>6. z = [p \in P2 |-> IF p = 1 THEN <<Wrap(-m[1][1])>> ELSE m[p]]
  BY <1>3
<1> HIDE DEF z
<1>7. z = [p \in P2 |-> <<z[p][1]>>] /\ z[0][1] \in Word /\ z[1][1] \in Word
  BY <1>4, <1>5, <1>6 DEF P2
<1>8. Replicated(2, 1, z)
  BY <1>7, Shared2
<1>9. Good(2, 1, b2a_bit_2PC(u, w))
  BY <1>2, <1>8, MultiplyGood2 DEF multiply_2PC, Kinds
<1>11. Reconstruct("a", z) = Minus("a", m[0][1], m[1][1])
  <2>1. Reconstruct("a", z) = Wrap(m[0][1] + Wrap(-m[1][1]))
    BY <1>4, <1>6, <1>8, ReconstructSums DEF Plus, P2, Kinds
  <2>2. m[0][1] \in Int /\ -m[1][1] \in Int
    BY <1>10
  <2>3. Wrap(m[0][1] + Wrap(-m[1][1])) = Wrap(m[0][1] + (-m[1][1]))
    BY <2>2, WrapSum
  <2>4. m[0][1] + (-m[1][1]) = m[0][1] - m[1][1]
    BY <1>10
  <2>5. QED
    BY <2>1, <2>3, <2>4 DEF Minus
<1>12. Reconstruct("a", b2a_bit_2PC(u, w).z) = Times("a", Reconstruct("a", z), Reconstruct("a", z))
  BY <1>2, <1>8, MultiplyValue2 DEF multiply_2PC, Kinds
<1>13. QED
  BY <1>9, <1>10, <1>11, <1>12, SquareOfDifference

LEMMA ReplicatedValue ==
    ASSUME NEW k \in Kinds, NEW f, f[0] \in Word, f[1] \in Word, f[2] \in Word
    PROVE  Reconstruct(k, Replicate(f)) = Sum3(k, f[0], f[1], f[2])
<1>1. Replicate(f)[0][1] = f[0] /\ Replicate(f)[1][1] = f[1] /\ Replicate(f)[2][1] = f[2]
  BY Parties3 DEF Replicate
<1>2. QED
  BY <1>1, ReplicateShared, Values

LEMMA BitGood3 ==
    ASSUME NEW u, Replicated(3, 2, u), NEW w, Honest(3, w)
    PROVE  Good(3, 2, b2a_bit_3PC(u, w)) /\ Reconstruct("a", b2a_bit_3PC(u, w).z) = BitOf(u)
<1> DEFINE n == 3  rep == 2
           m == MaskShares(u)
           z0 == getNextZero("a", w)
           z1 == getNextZero("a", z0.r)
           f == [z0.z EXCEPT ![0] = Wrap(@ + BitXor(m[0][1], m[0][2]))]
           g == [z1.z EXCEPT ![1] = Wrap(@ + m[1][2])]
           d == MinusShares("a", Replicate(f), Replicate(g))
<1>1. b2a_bit_3PC(u, w) = Multiply3("a", <<d>>, <<d>>, z1.r)
  BY DEF b2a_bit_3PC, multiply_3PC
<1>2. "a" \in Kinds /\ n \in Nat /\ rep \in Nat /\ Replicated(n, rep, u)
  BY DEF Kinds
<1>3. Replicated(3, 2, m)
  <2> HIDE DEF n, rep
  <2>1. Replicated(n, rep, m)
    BY <1>2, MaskReplicated
  <2>2. QED
    BY <2>1 DEF n, rep
<1> DEFINE e == BitXor(m[0][1], m[0][2])
<1>16. /\ e \in {0, 1} /\ m[1][2] \in {0, 1} /\ e \in Word /\ m[1][2] \in Word /\ BitXor(e, m[1][2]) = BitOf(u)
  <2>1. /\ m[0][1] = LowBit(u[0][1]) /\ m[0][2] = LowBit(u[0][2]) /\ m[1][2] = LowBit(u[1][2])
        /\ u[0][1] \in Word /\ u[0][2] \in Word /\ u[1][2] \in Word
    BY Shares3, Parties3 DEF MaskShares
  <2>2. Size(3) /\ 3 - 1 = 2 /\ "b" \in Kinds
    BY DEF Size, Kinds
  <2>3. Reconstruct("b", m) = BitOf(u)
    BY <2>2, MaskedValue DEF BitOf
  <2> HIDE DEF m
  <2>4. Reconstruct("b", m) = BitXor(BitXor(m[0][1], m[1][1]), m[2][1])
    BY <1>3, <2>2, ReconstructSums DEF Plus
  <2>5. m[1][1] = m[0][2] /\ m[2][1] = m[1][2]
    BY <1>3, Shares3
  <2>6. m[0][1] \in {0, 1} /\ m[0][2] \in {0, 1} /\ m[1][2] \in {0, 1}
    BY <2>1, LowBits
  <2>7. QED
    BY <2>3, <2>4, <2>5, <2>6, BitValues, ZeroWord
<1> HIDE DEF m
<1>4. \A p \in P3 : z0.z[p] \in Word
  BY <1>2, ZeroGood
<1>5. DOMAIN z0.z = P3 /\ Honest(3, z0.r)
  BY <1>2, ZeroGood
<1>6. \A p \in P3 : z1.z[p] \in Word
  BY <1>2, <1>5, ZeroGood
<1>7. DOMAIN z1.z = P3 /\ Honest(3, z1.r)
  BY <1>2, <1>5, ZeroGood
<1>17. /\ Trio(z0.z[0], z0.z[1], z0.z[2]) /\ Sum3("a", z0.z[0], z0.z[1], z0.z[2]) = 0
       /\ Trio(z1.z[0], z1.z[1], z1.z[2]) /\ Sum3("a", z1.z[0], z1.z[1], z1.z[2]) = 0
  BY <1>2, <1>5, ZeroCancels
<1> HIDE DEF z0, z1
<1>8. \A p \in P3 : m[p][1] \in Word /\ m[p][2] \in Word
  BY <1>3, Shares3
<1>9. f[0] \in Word /\ f[1] \in Word /\ f[2] \in Word
  <2>1. BitXor(m[0][1], m[0][2]) \in Word
    BY <1>8, XorBits, Parties3
  <2>2. /\ f[0] = Wrap(z0.z[0] + BitXor(m[0][1], m[0][2]))
        /\ f[1] = z0.z[1] /\ f[2] = z0.z[2]
    BY <1>5, Parties3
  <2>3. QED
    BY <1>4, <2>1, <2>2, SumType, Parties3
<1>10. g[0] \in Word /\ g[1] \in Word /\ g[2] \in Word
  <2>1. /\ g[1] = Wrap(z1.z[1] + m[1][2])
        /\ g[0] = z1.z[0] /\ g[2] = z1.z[2]
    BY <1>7, Parties3
  <2>2. QED
    BY <1>6, <1>8, <2>1, SumType, Parties3
<1>18. /\ f[0] = Plus("a", e, z0.z[0]) /\ f[1] = z0.z[1] /\ f[2] = z0.z[2]
       /\ g[0] = z1.z[0] /\ g[1] = Plus("a", m[1][2], z1.z[1]) /\ g[2] = z1.z[2]
  <2>1. /\ f[0] = Plus("a", z0.z[0], e) /\ f[1] = z0.z[1] /\ f[2] = z0.z[2]
        /\ g[0] = z1.z[0] /\ g[1] = Plus("a", z1.z[1], m[1][2]) /\ g[2] = z1.z[2]
    BY <1>5, <1>7, Parties3 DEF Plus
  <2>2. z0.z[0] \in Word /\ z1.z[1] \in Word
    BY <1>4, <1>6, Parties3
  <2>3. \A i, j \in Word : Plus("a", i, j) = Plus("a", j, i)
    BY <1>2, RingLaws
  <2>4. QED
    BY <1>16, <2>1, <2>2, <2>3
<1> HIDE DEF f, g, e
<1>19. Reconstruct("a", Replicate(f)) = e /\ Reconstruct("a", Replicate(g)) = m[1][2]
  <2>1. /\ Reconstruct("a", Replicate(f)) = Sum3("a", f[0], f[1], f[2])
        /\ Reconstruct("a", Replicate(g)) = Sum3("a", g[0], g[1], g[2])
    BY <1>2, <1>9, <1>10, ReplicatedValue
  <2>2. /\ Sum3("a", f[0], f[1], f[2]) = Plus("a", e, 0)
        /\ Sum3("a", g[0], g[1], g[2]) = Plus("a", m[1][2], 0)
    BY <1>2, <1>16, <1>17, <1>18, OneShare3
  <2>3. QED
    BY <1>2, <1>16, <2>1, <2>2, RingLaws
<1>11. Replicated(n, rep, Replicate(f)) /\ Replicated(n, rep, Replicate(g))
  BY <1>9, <1>10, ReplicateShared
<1> HIDE DEF n, rep
<1>12. Replicated(n, rep, d)
  BY <1>2, <1>11, PlusReplicated
<1>20. Reconstruct("a", d) = Minus("a", e, m[1][2])
  <2>1. Size(n) /\ n - 1 = rep
    BY DEF Size, n, rep
  <2>2. QED
    BY <1>2, <1>11, <1>19, <2>1, AddedValues
<1> HIDE DEF d
<1>13. Operands(n, rep, <<d>>) /\ Len(<<d>>) = 1
  BY <1>2, <1>12, OneOperand
<1>14. Operands(3, 2, <<d>>)
  BY <1>13 DEF n, rep
<1>15. Good(3, 2, b2a_bit_3PC(u, w))
  BY <1>1, <1>2, <1>7, <1>14, MultiplyGood3
<1>21. Reconstruct("a", b2a_bit_3PC(u, w).z) = Times("a", Reconstruct("a", d), Reconstruct("a", d))
  <2>1. Replicated(3, 2, d)
    BY <1>12 DEF n, rep
  <2>2. Reconstruct("a", Multiply3("a", <<d>>, <<d>>, z1.r).z) = Times("a", Reconstruct("a", d), Reconstruct("a", d))
    BY ONLY <1>2, <1>7, <2>1, MultiplyValues3
  <2>3. QED
    BY <1>1, <2>2
<1>22. QED
  BY <1>15, <1>16, <1>20, <1>21, SquareOfDifference

(* Four parties: the two halves of a bit are bits.                         *)
LEMMA HalvesOfBit ==
    ASSUME NEW u, Replicated(4, 3, u)
    PROVE  LET h == HalfBits(MaskShares(u), {1, 3}) IN
           h[1] \in {0, 1} /\ h[3] \in {0, 1} /\ BitXor(h[1], h[3]) = BitOf(u)
<1> DEFINE m == MaskShares(u)  h == HalfBits(m, {1, 3})
<1>1. Replicated(4, 3, m) /\ Size(4) /\ 4 - 1 = 3
  <2>1. "a" \in Kinds
    BY DEF Kinds
  <2>2. Replicated(4, 3, m)
    BY <2>1, PlusFour
  <2>3. QED
    BY <2>2 DEF Size
<1>2. Reconstruct("b", m) = BitOf(u)
  BY <1>1, MaskedValue DEF BitOf
<1>3. \A p \in 0 .. 3 : m[p][1] \in {0, 1} /\ m[p][2] \in {0, 1}
  <2>1. \A p \in 0 .. 3 : /\ m[p][1] = LowBit(u[p][1]) /\ m[p][2] = LowBit(u[p][2])
                          /\ u[p][1] \in Word /\ u[p][2] \in Word
    BY Shares4 DEF MaskShares
  <2> HIDE DEF m
  <2>2. QED
    BY <2>1, LowBits
<1> HIDE DEF m
<1>4. h[1] = BitXor(m[1][1], m[1][2]) /\ h[3] = BitXor(m[3][1], m[3][2])
  BY <1>1, Shares4 DEF HalfBits
<1>5. BitXor(h[1], h[3]) = Reconstruct("b", m)
  BY <1>1, Halves4
<1> HIDE DEF h
<1>6. h[1] \in {0, 1} /\ h[3] \in {0, 1}
  <2>1. \A a, b \in {0, 1} : BitXor(a, b) \in {0, 1}
    BY BitValues
  <2>2. 1 \in 0 .. 3 /\ 3 \in 0 .. 3
    OBVIOUS
  <2>3. QED
    BY <1>3, <1>4, <2>1, <2>2
<1>7. QED
  BY <1>2, <1>5, <1>6 DEF h, m

LEMMA BitGood4 ==
    ASSUME NEW u, Replicated(4, 3, u), NEW w, Honest(4, w)
    PROVE  Good(4, 3, b2a_bit_C4(u, w)) /\ Reconstruct("a", b2a_bit_C4(u, w).z) = BitOf(u)
<1> DEFINE m == MaskShares(u)
           h == HalfBits(m, {1, 3})
           s == inp_both_C4("a", h, 1, 0, w)
           d == MinusShares("a", s.u, s.v)
<1>1. b2a_bit_C4(u, w) = MultiplyC4("a", <<d>>, <<d>>, s.r)
  BY DEF b2a_bit_C4, multiply_C4
<1>2. "a" \in Kinds /\ 1 \in 0 .. 3 /\ 0 = (1 + 3) % 4 /\ (1 + 2) % 4 = 3 /\ (0 + 2) % 4 = 2
  BY DEF Kinds
<1>3. Replicated(4, 3, m)
  BY <1>2, PlusFour
<1>9. h[1] \in {0, 1} /\ h[3] \in {0, 1} /\ BitXor(h[1], h[3]) = BitOf(u)
  BY HalvesOfBit
<1> HIDE DEF m
<1>4. (\A p \in 0 .. 3 : h[p] \in Word) /\ h[0] = h[1] /\ h[3] = h[2]
  BY <1>3, Halves4
<1> HIDE DEF h
<1>5. GoodTwo(4, 3, s) /\ CarriesTwo("a", s, h[1], h[3])
  BY <1>2, <1>4, InpBothGood4 DEF CarriesTwo
<1> HIDE DEF s
<1>6. Replicated(4, 3, d) /\ Honest(4, s.r)
  BY <1>2, <1>5, PlusFour DEF GoodTwo
<1>10. Reconstruct("a", d) = Minus("a", h[1], h[3])
  <2>1. Size(4) /\ 4 - 1 = 3 /\ Replicated(4, 3, s.u) /\ Replicated(4, 3, s.v)
    BY <1>5 DEF Size, GoodTwo
  <2>2. Reconstruct("a", d) = Minus("a", Reconstruct("a", s.u), Reconstruct("a", s.v))
    BY <1>2, <2>1, AddedValues
  <2>3. QED
    BY <1>5, <2>2 DEF CarriesTwo
<1> HIDE DEF d
<1>7. Operands(4, 3, <<d>>) /\ Len(<<d>>) = 1
  BY <1>2, <1>6, PlusFour
<1>8. Good(4, 3, b2a_bit_C4(u, w))
  BY <1>1, <1>2, <1>6, <1>7, MultiplyGood4
<1>11. Reconstruct("a", b2a_bit_C4(u, w).z) = Times("a", Reconstruct("a", d), Reconstruct("a", d))
  <2>1. Reconstruct("a", MultiplyC4("a", <<d>>, <<d>>, s.r).z) = Times("a", Reconstruct("a", d), Reconstruct("a", d))
    BY ONLY <1>2, <1>6, MultiplyValues4
  <2>2. QED
    BY <1>1, <2>1
<1>12. QED
  BY <1>8, <1>9, <1>10, <1>11, SquareOfDifference

LEMMA BitGoodF ==
    ASSUME NEW u, Replicated(4, 3, u), NEW w, Honest(4, w)
    PROVE  Good(4, 3, b2a_bit_F4(u, w)) /\ Reconstruct("a", b2a_bit_F4(u, w).z) = BitOf(u)
<1> DEFINE m == MaskShares(u)
           h == HalfBits(m, {1, 3})
           s == inp_both_F4("a", h, 1, 0, w)
           d == MinusShares("a", s.u, s.v)
<1>1. b2a_bit_F4(u, w) = generic_multiply("a", <<d>>, <<d>>, s.r)
  BY DEF b2a_bit_F4, multiply_F4
<1>2. "a" \in Kinds /\ 1 \in 0 .. 3 /\ 0 \in 0 .. 3 /\ 1 # 0 /\ (1 + 2) % 4 = 3 /\ (0 + 2) % 4 = 2
  BY DEF Kinds
<1>3. Replicated(4, 3, m)
  BY <1>2, PlusFour
<1>9. h[1] \in {0, 1} /\ h[3] \in {0, 1} /\ BitXor(h[1], h[3]) = BitOf(u)
  BY HalvesOfBit
<1> HIDE DEF m
<1>4. (\A p \in 0 .. 3 : h[p] \in Word) /\ h[0] = h[1] /\ h[3] = h[2]
  BY <1>3, Halves4
<1> HIDE DEF h
<1>5. GoodTwo(4, 3, s) /\ CarriesTwo("a", s, h[1], h[3])
  BY <1>2, <1>4, InpBothGoodF DEF CarriesTwo
<1> HIDE DEF s
<1>6. Replicated(4, 3, d) /\ Honest(4, s.r)
  BY <1>2, <1>5, PlusFour DEF GoodTwo
<1>10. Reconstruct("a", d) = Minus("a", h[1], h[3])
  <2>1. Size(4) /\ 4 - 1 = 3 /\ Replicated(4, 3, s.u) /\ Replicated(4, 3, s.v)
    BY <1>5 DEF Size, GoodTwo
  <2>2. Reconstruct("a", d) = Minus("a", Reconstruct("a", s.u), Reconstruct("a", s.v))
    BY <1>2, <2>1, AddedValues
  <2>3. QED
    BY <1>5, <2>2 DEF CarriesTwo
<1> HIDE DEF d
<1>7. Operands(4, 3, <<d>>) /\ Len(<<d>>) = 1
  BY <1>2, <1>6, PlusFour
<1>8. Good(4, 3, b2a_bit_F4(u, w))
  BY <1>1, <1>2, <1>6, <1>7, MultiplyGoodF
<1>11. Reconstruct("a", b2a_bit_F4(u, w).z) = Times("a", Reconstruct("a", d), Reconstruct("a", d))
  <2>1. Reconstruct("a", generic_multiply("a", <<d>>, <<d>>, s.r).z) = Times("a", Reconstruct("a", d), Reconstruct("a", d))
    BY ONLY <1>2, <1>6, MultiplyValuesF
  <2>2. QED
    BY <1>1, <2>1
<1>12. QED
  BY <1>8, <1>9, <1>10, <1>11, SquareOfDifference

-----------------------------------------------------------------------------
(***************************************************************************)
(* A public value is one share; resharing adds nothing.                    *)
(***************************************************************************)
LEMMA PublicValue2 ==
    ASSUME NEW k \in Kinds, NEW v \in Word, NEW K \in {{}, {0}, {1}}
    PROVE  Reconstruct(k, public_share_2PC(v, K)) = v
<1> DEFINE z == public_share_2PC(v, K)
<1>1. (z[0][1] = v /\ z[1][1] = 0) \/ (z[0][1] = 0 /\ z[1][1] = v)
  BY DEF public_share_2PC, P2
<1>2. Replicated(2, 1, z)
  BY PublicShared2
<1> HIDE DEF z
<1>3. Reconstruct(k, z) = Plus(k, z[0][1], z[1][1])
  BY <1>2, Values
<1>4. Plus(k, v, 0) = v /\ Plus(k, 0, v) = v
  BY RingLaws
<1>5. QED
  BY <1>1, <1>3, <1>4 DEF z

LEMMA PublicValue3 ==
    ASSUME NEW k \in Kinds, NEW v \in Word, NEW K \in {{}, {0, 1}, {0, 2}, {1, 2}}
    PROVE  Reconstruct(k, public_share_3PC(v, K)) = v
<1> DEFINE z == public_share_3PC(v, K)
<1>1. PICK h \in P3 : z = PublicShare3(v, h)
  BY Parties3 DEF public_share_3PC
<1>2. z[0][1] = (IF 0 = h THEN v ELSE 0) /\ z[1][1] = (IF 1 = h THEN v ELSE 0) /\ z[2][1] = (IF 2 = h THEN v ELSE 0)
  BY <1>1, Parties3 DEF PublicShare3
<1>3. Replicated(3, 2, z)
  BY PublicShared3
<1> HIDE DEF z
<1>4. Reconstruct(k, z) = Sum3(k, z[0][1], z[1][1], z[2][1])
  BY <1>3, Values
<1>5. Sum3(k, v, 0, 0) = v /\ Sum3(k, 0, v, 0) = v /\ Sum3(k, 0, 0, v) = v
  <2>1. Trio(v, v, v)
    BY DEF Trio
  <2>2. QED
    BY <2>1, OneShare3
<1>6. Reconstruct(k, z) = v
  BY <1>2, <1>4, <1>5, Parties3
<1>7. QED
  BY <1>6 DEF z

LEMMA OneOfFour ==
    ASSUME NEW k \in Kinds, NEW v \in Word, NEW z, Replicated(4, 3, z), NEW h \in 0 .. 3, z[h][1] = v,
           \A p \in 0 .. 3 : p # h => z[p][1] = 0
    PROVE  Reconstruct(k, z) = v
<1>1. Reconstruct(k, z) = Sum4(k, z[0][1], z[1][1], z[2][1], z[3][1])
  BY Values
<1>2. /\ Sum4(k, v, 0, 0, 0) = v /\ Sum4(k, 0, v, 0, 0) = v /\ Sum4(k, 0, 0, v, 0) = v /\ Sum4(k, 0, 0, 0, v) = v
  <2>1. Quartet(v, v, v, v)
    BY DEF Quartet
  <2>2. QED
    BY <2>1, OneShare4
<1>3. CASE h = 0
  BY <1>1, <1>2, <1>3
<1>4. CASE h = 1
  BY <1>1, <1>2, <1>4
<1>5. CASE h = 2
  BY <1>1, <1>2, <1>5
<1>6. CASE h = 3
  BY <1>1, <1>2, <1>6
<1>7. QED
  BY <1>3, <1>4, <1>5, <1>6

LEMMA PublicValue4 ==
    ASSUME NEW k \in Kinds, NEW v \in Word
    PROVE  Reconstruct(k, public_share_C4(v)) = v
<1> DEFINE z == public_share_C4(v)
<1>1. z[0][1] = 0 /\ z[1][1] = 0 /\ z[2][1] = 0 /\ z[3][1] = v
  BY Parties4 DEF public_share_C4
<1>2. Replicated(4, 3, z)
  BY PublicGood4
<1> HIDE DEF z
<1>3. 3 \in 0 .. 3 /\ \A p \in 0 .. 3 : p # 3 => z[p][1] = 0
  BY <1>1
<1>4. Reconstruct(k, z) = v
  BY <1>1, <1>2, <1>3, OneOfFour
<1>5. QED
  BY <1>4 DEF z

LEMMA PublicValueF ==
    ASSUME NEW k \in Kinds, NEW v \in Word, NEW K \in {{}} \cup Groups(4)
    PROVE  Reconstruct(k, public_share_F4(v, K)) = v
<1> DEFINE h == IF K = {} THEN 0 ELSE CHOOSE p \in PF : p \notin K
           z == public_share_F4(v, K)
<1>1. h \in 0 .. 3
  <2>1. CASE K = {}
    BY <2>1
  <2>2. CASE K # {}
    <3>1. K \in Groups(4)
      BY <2>2
    <3>2. PICK e \in 0 .. 3 : K = 0 .. 3 \ {e} /\ e = (CHOOSE p \in 0 .. 3 : p \notin K)
      BY <3>1, Outside4
    <3>3. h = e
      BY <2>2, <3>2, PartiesF, Zenon
    <3>4. QED
      BY <3>3
  <2>3. QED
    BY <2>1, <2>2
<1>2. \A p \in 0 .. 3 : z[p][1] = IF (p + 1) % 4 = h THEN v ELSE 0
  BY PartiesF DEF public_share_F4, ShareAt
<1>3. Replicated(4, 3, z)
  BY PublicGoodF
<1> HIDE DEF z, h
<1> DEFINE q == (h + 3) % 4
<1>4. q \in 0 .. 3 /\ (q + 1) % 4 = h /\ \A p \in 0 .. 3 : p # q => (p + 1) % 4 # h
  BY <1>1
<1> HIDE DEF q
<1>5. z[q][1] = v /\ \A p \in 0 .. 3 : p # q => z[p][1] = 0
  BY <1>2, <1>4
<1>6. Reconstruct(k, z) = v
  BY <1>3, <1>4, <1>5, OneOfFour
<1>7. QED
  BY <1>6 DEF z

LEMMA ReshareValue4 ==
    ASSUME NEW k \in Kinds, NEW u, Replicated(4, 3, u), NEW G \in Groups(4), NEW z, Replicated(4, 3, z),
           AddsZero(4, k, u, G, z)
    PROVE  Reconstruct(k, z) = Reconstruct(k, u)
<1>1. PICK T \in [1 .. 4 -> Word] : SumsToZero(4, k, T) /\ AddedTo(4, k, u, G, T, z)
  BY DEF AddsZero
<1>2. PICK e \in 0 .. 3 : G = 0 .. 3 \ {e}
  BY Outside4
<1>3. \A p \in G : \A i \in 1 .. 3 : z[p][i] = Plus(k, u[p][i], T[((p + i - 1) % 4) + 1])
  <2>1. \A p \in G : \A i \in 1 .. 4 - 1 : z[p][i] = Plus(k, u[p][i], T[((p + i - 1) % 4) + 1])
    BY <1>1, Zenon DEF AddedTo
  <2>2. 1 .. 4 - 1 = 1 .. 3
    OBVIOUS
  <2>3. QED
    BY ONLY <2>1, <2>2, Zenon
<1>4. ASSUME NEW p \in 0 .. 3 PROVE z[p][1] = Plus(k, u[p][1], T[p + 1])
  <2>1. CASE p # e
    <3>1. p \in G /\ 1 \in 1 .. 3 /\ (p + 1 - 1) % 4 = p
      BY <1>2, <2>1
    <3>2. QED
      BY <1>3, <3>1
  <2>2. CASE p = e
    <3> DEFINE q == (p + 3) % 4
    <3>1. q \in 0 .. 3 /\ q # e /\ 2 \in 1 .. 3 /\ (q + 2 - 1) % 4 = p
      BY <2>2
    <3> HIDE DEF q
    <3>2. q \in G
      BY <1>2, <3>1
    <3>3. z[q][2] = z[p][1] /\ u[q][2] = u[p][1]
      BY <3>1, HeldFirst4
    <3>4. QED
      BY <1>3, <3>1, <3>2, <3>3
  <2>3. QED
    BY <2>1, <2>2
<1>5. Quartet(u[0][1], u[1][1], u[2][1], u[3][1]) /\ Reconstruct(k, u) = Sum4(k, u[0][1], u[1][1], u[2][1], u[3][1])
  BY Values
<1>6. Reconstruct(k, z) = Sum4(k, z[0][1], z[1][1], z[2][1], z[3][1])
  BY Values
<1>7. /\ z[0][1] = Plus(k, u[0][1], T[1]) /\ z[1][1] = Plus(k, u[1][1], T[2])
      /\ z[2][1] = Plus(k, u[2][1], T[3]) /\ z[3][1] = Plus(k, u[3][1], T[4])
  BY <1>4
<1>8. Quartet(T[1], T[2], T[3], T[4]) /\ Sum4(k, T[1], T[2], T[3], T[4]) = 0
  BY <1>1 DEF Quartet, SumsToZero
<1> DEFINE a == u[0][1]  b == u[1][1]  c == u[2][1]  d == u[3][1]  f == T[1]  g == T[2]  i == T[3]  j == T[4]
<1>9. Quartet(a, b, c, d) /\ Quartet(f, g, i, j)
  BY <1>5, <1>8
<1>10. /\ Reconstruct(k, u) = Sum4(k, a, b, c, d) /\ Sum4(k, f, g, i, j) = 0
       /\ Reconstruct(k, z) = Sum4(k, Plus(k, a, f), Plus(k, b, g), Plus(k, c, i), Plus(k, d, j))
  BY <1>5, <1>6, <1>7, <1>8
<1> HIDE DEF a, b, c, d, f, g, i, j
<1>11. Sum4(k, Plus(k, a, f), Plus(k, b, g), Plus(k, c, i), Plus(k, d, j))
         = Plus(k, Sum4(k, a, b, c, d), Sum4(k, f, g, i, j))
  BY ONLY k \in Kinds, <1>9, Sum4Adds
<1>12. Sum4(k, a, b, c, d) \in Word
  BY <1>9, Sum4Turn
<1>13. Plus(k, Sum4(k, a, b, c, d), 0) = Sum4(k, a, b, c, d)
  BY <1>12, RingLaws
<1>14. QED
  BY <1>10, <1>11, <1>13

LEMMA ReshareValue3 ==
    ASSUME NEW k \in Kinds, NEW u, Replicated(3, 2, u), NEW G \in Groups(3), NEW z, Replicated(3, 2, z),
           AddsZero(3, k, u, G, z)
    PROVE  Reconstruct(k, z) = Reconstruct(k, u)
<1>1. PICK T \in [1 .. 3 -> Word] : SumsToZero(3, k, T) /\ AddedTo(3, k, u, G, T, z)
  BY DEF AddsZero
<1>2. PICK e \in P3 : G = P3 \ {e}
  <2>1. G \in {{0, 1}, {0, 2}, {1, 2}}
    BY DEF Groups
  <2>2. P3 \ {0} = {1, 2} /\ P3 \ {1} = {0, 2} /\ P3 \ {2} = {0, 1}
    BY Parties3
  <2>3. QED
    BY <2>1, <2>2, Parties3
<1>3. \A p \in G : \A i \in 1 .. 2 : z[p][i] = Plus(k, u[p][i], T[((p + i - 1) % 3) + 1])
  <2>1. \A p \in G : \A i \in 1 .. 3 - 1 : z[p][i] = Plus(k, u[p][i], T[((p + i - 1) % 3) + 1])
    BY <1>1, Zenon DEF AddedTo
  <2>2. 1 .. 3 - 1 = 1 .. 2
    OBVIOUS
  <2>3. QED
    BY ONLY <2>1, <2>2, Zenon
<1>4. ASSUME NEW p \in P3 PROVE z[p][1] = Plus(k, u[p][1], T[p + 1])
  <2>0. p \in 0 .. 2
    BY Parties3
  <2>1. CASE p # e
    <3>1. p \in G /\ 1 \in 1 .. 2 /\ (p + 1 - 1) % 3 = p
      BY <1>2, <2>0, <2>1
    <3>2. QED
      BY <1>3, <3>1
  <2>2. CASE p = e
    <3> DEFINE q == (p + 2) % 3
    <3>1. q \in 0 .. 2 /\ q # e /\ 2 \in 1 .. 2 /\ (q + 2 - 1) % 3 = p /\ q \in P3
      BY <2>0, <2>2, Parties3
    <3>2. q \in G
      BY <1>2, <3>1
    <3>3. z[q][2] = z[p][1] /\ u[q][2] = u[p][1]
      <4>1. /\ z[0][2] = z[1][1] /\ z[1][2] = z[2][1] /\ z[2][2] = z[0][1]
            /\ u[0][2] = u[1][1] /\ u[1][2] = u[2][1] /\ u[2][2] = u[0][1]
        BY Shares3
      <4>2. (p = 0 /\ q = 2) \/ (p = 1 /\ q = 0) \/ (p = 2 /\ q = 1)
        BY <2>0
      <4> HIDE DEF q
      <4>3. QED
        BY <4>1, <4>2
    <3> HIDE DEF q
    <3>4. QED
      BY <1>3, <3>1, <3>2, <3>3
  <2>3. QED
    BY <2>1, <2>2
<1>5. Trio(u[0][1], u[1][1], u[2][1]) /\ Reconstruct(k, u) = Sum3(k, u[0][1], u[1][1], u[2][1])
  BY Values
<1>6. Reconstruct(k, z) = Sum3(k, z[0][1], z[1][1], z[2][1])
  BY Values
<1>7. z[0][1] = Plus(k, u[0][1], T[1]) /\ z[1][1] = Plus(k, u[1][1], T[2]) /\ z[2][1] = Plus(k, u[2][1], T[3])
  BY <1>4, Parties3
<1>8. Trio(T[1], T[2], T[3]) /\ Sum3(k, T[1], T[2], T[3]) = 0
  BY <1>1 DEF Trio, SumsToZero
<1> DEFINE a == u[0][1]  b == u[1][1]  c == u[2][1]  f == T[1]  g == T[2]  h == T[3]
<1>9. Trio(a, b, c) /\ Trio(f, g, h)
  BY <1>5, <1>8
<1>10. /\ Reconstruct(k, u) = Sum3(k, a, b, c) /\ Sum3(k, f, g, h) = 0
       /\ Reconstruct(k, z) = Sum3(k, Plus(k, a, f), Plus(k, b, g), Plus(k, c, h))
  BY <1>5, <1>6, <1>7, <1>8
<1> HIDE DEF a, b, c, f, g, h
<1>11. Sum3(k, Plus(k, a, f), Plus(k, b, g), Plus(k, c, h)) = Plus(k, Sum3(k, a, b, c), Sum3(k, f, g, h))
  BY ONLY k \in Kinds, <1>9, Sum3Adds
<1>12. Sum3(k, a, b, c) \in Word
  BY <1>9, Sum3Turn
<1>13. Plus(k, Sum3(k, a, b, c), 0) = Sum3(k, a, b, c)
  BY <1>12, RingLaws
<1>14. QED
  BY <1>10, <1>11, <1>13

-----------------------------------------------------------------------------
(***************************************************************************)
(* What a division by halves amounts to on the value.                      *)
(***************************************************************************)
LEMMA DividedValues ==
    ASSUME NEW u, NEW c \in Nat, c > 0, NEW res, Divided(u, c, res)
    PROVE  \E e \in -c .. c : /\ Reconstruct("a", res.v) = Wrap(e)
                              /\ Rounded(Reconstruct("a", u), c, e + c, Reconstruct("a", res.u))
<1>1. PICK a, b : /\ Halved(u, a, b)
                  /\ Reconstruct("a", res.u) = Plus("a", HalfQuotient(a, c), HalfQuotient(b, c))
                  /\ Reconstruct("a", res.v) = Plus("a", HalfRemainder(a, c), Wrap(HalfRemainder(b, c) - c))
  BY DEF Divided
<1>2. a \in Word /\ b \in Word /\ Plus("a", a, b) = Reconstruct("a", u)
  BY <1>1 DEF Halved
<1>3. PICK q, r : Splits(a, c, q, r) /\ HalfQuotient(a, c) = Wrap(q) /\ HalfRemainder(a, c) = Wrap(r)
  BY <1>2, HalfDivision
<1>4. PICK s, t : Splits(b, c, s, t) /\ HalfQuotient(b, c) = Wrap(s) /\ HalfRemainder(b, c) = Wrap(t)
  BY <1>2, HalfDivision
<1>5. Rounded(Plus("a", a, b), c, r + t, Plus("a", Wrap(q), Wrap(s))) /\ r + t \in 0 .. 2 * c
  BY ONLY c \in Nat, c > 0, <1>2, <1>3, <1>4, SumOfSplits
<1>6. r \in Int /\ t \in Int
  BY <1>3, <1>4 DEF Splits
<1> DEFINE e == r + t - c
<1>7. e \in -c .. c /\ e + c = r + t
  BY <1>5, <1>6
<1>8. Plus("a", Wrap(r), Wrap(Wrap(t) - c)) = Wrap(e)
  <2>1. Wrap(r) \in Int /\ t - c \in Int /\ r + (t - c) = e /\ c \in Int
    BY <1>6, WrapType, ZeroWord
  <2>2. Wrap(Wrap(t) - c) = Wrap(t - c)
    BY <1>6, <2>1, WrapSum
  <2>3. Wrap(Wrap(r) + Wrap(t - c)) = Wrap(Wrap(r) + (t - c))
    BY <2>1, WrapSum
  <2>4. Wrap(Wrap(r) + (t - c)) = Wrap(r + (t - c))
    BY <1>6, <2>1, WrapSum
  <2>5. QED
    BY <2>1, <2>2, <2>3, <2>4 DEF Plus
<1> HIDE DEF e
<1>9. Reconstruct("a", res.v) = Wrap(e)
  BY <1>1, <1>3, <1>4, <1>8
<1>10. Rounded(Reconstruct("a", u), c, e + c, Reconstruct("a", res.u))
  BY <1>1, <1>2, <1>3, <1>4, <1>5, <1>7
<1>11. QED
  BY <1>7, <1>9, <1>10

\* w is v shifted to the right by d bits, rounded.
TruncatedTo(v, d, w) ==
    /\ d = 0 => w = v
    /\ d > 0 => \E h \in 0 .. 2 * Power[d] : Rounded(v, Power[d], h, w)

LEMMA ShiftedValues ==
    ASSUME NEW u, NEW d \in 1 .. Width, NEW res, Shifted(u, d, res)
    PROVE  TruncatedTo(Reconstruct("a", u), d, Reconstruct("a", res.z))
<1>1. PICK a, b : /\ Halved(u, a, b)
                  /\ Reconstruct("a", res.z) = Plus("a", ShiftRight(a, d), ShiftRight(b, d))
  BY DEF Shifted
<1>2. a \in Word /\ b \in Word /\ Plus("a", a, b) = Reconstruct("a", u)
  BY <1>1 DEF Halved
<1> DEFINE c == Power[d]
<1>3. c \in Nat /\ c > 0 /\ d \in 0 .. Width /\ d > 0
  BY Powers, WidthAssumption
<1>4. PICK q, r : Splits(a, c, q, r) /\ ShiftRight(a, d) = Wrap(q)
  BY <1>2, <1>3, ShiftDivision
<1>5. PICK s, t : Splits(b, c, s, t) /\ ShiftRight(b, d) = Wrap(s)
  BY <1>2, <1>3, ShiftDivision
<1> HIDE DEF c
<1>6. Rounded(Plus("a", a, b), c, r + t, Plus("a", Wrap(q), Wrap(s))) /\ r + t \in 0 .. 2 * c
  BY ONLY <1>2, <1>3, <1>4, <1>5, SumOfSplits
<1>7. \E h \in 0 .. 2 * c : Rounded(Reconstruct("a", u), c, h, Reconstruct("a", res.z))
  BY <1>1, <1>2, <1>4, <1>5, <1>6
<1>8. QED
  BY <1>3, <1>7 DEF TruncatedTo, c

LEMMA DividedByPower ==
    ASSUME NEW u, NEW d \in 1 .. Width, NEW res, Divided(u, Power[d], res)
    PROVE  TruncatedTo(Reconstruct("a", u), d, Reconstruct("a", res.u))
<1> DEFINE c == Power[d]
<1>1. c \in Nat /\ c > 0 /\ d > 0 /\ Divided(u, c, res)
  BY Powers, WidthAssumption
<1> HIDE DEF c
<1>2. PICK e \in -c .. c : Rounded(Reconstruct("a", u), c, e + c, Reconstruct("a", res.u))
  BY <1>1, DividedValues
<1>3. e + c \in 0 .. 2 * c
  BY <1>1
<1>4. \E h \in 0 .. 2 * c : Rounded(Reconstruct("a", u), c, h, Reconstruct("a", res.u))
  BY <1>2, <1>3
<1>5. QED
  BY <1>1, <1>4 DEF TruncatedTo, c

LEMMA SplitValues ==
    ASSUME NEW u, NEW res, SplitInTwo(u, res)
    PROVE  /\ Reconstruct("b", res.u) \in Word
           /\ Reconstruct("b", res.v) = Minus("a", Reconstruct("a", u), Reconstruct("b", res.u))
<1> DEFINE a == Reconstruct("b", res.u)
           b == Reconstruct("b", res.v)
<1>1. a \in Word /\ b \in Word /\ Plus("a", a, b) = Reconstruct("a", u) /\ "a" \in Kinds
  BY DEF SplitInTwo, Halved, Kinds
<1> HIDE DEF a, b
<1>2. \A i, j \in Word : Plus("a", i, j) = Plus("a", j, i) /\ Minus("a", Plus("a", i, j), j) = i
  BY <1>1, RingLaws
<1>3. Minus("a", Plus("a", a, b), a) = b
  <2>1. Plus("a", a, b) = Plus("a", b, a)
    BY <1>1, <1>2
  <2>2. QED
    BY <1>1, <1>2, <2>1
<1>4. QED
  BY <1>1, <1>3 DEF a, b
=============================================================================
