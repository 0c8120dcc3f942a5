------------------------------- MODULE Ring2k -------------------------------
(***************************************************************************)
(* The words the protocols compute with.  A Data is a signed C++ integer   *)
(* of Width bits, held here as its unsigned image 0 .. 2^Width - 1, so     *)
(* that addition and multiplication wrap as the hardware's do.  The        *)
(* element-wise operators of Vector are parametrised by the kind of the    *)
(* sharing they serve: "a" for arithmetic (+, -, * modulo 2^Width) and "b" *)
(* for boolean (^, ^, &).                                                  *)
(***************************************************************************)
EXTENDS Integers, Sequences

CONSTANT Width      \* bits of a word

ASSUME WidthAssumption == Width \in Nat \ {0, 1}

\* The powers of two up to the ring's size.
Power[n \in 0 .. Width] == IF n = 0 THEN 1 ELSE 2 * Power[n - 1]

Modulus == Power[Width]
Word    == 0 .. Modulus - 1
Kinds   == {"a", "b"}

\* a & b, bit by bit, for all words.
AndTable ==
    [a \in Word |-> [b \in Word |->
        LET and[i \in 0 .. Width] ==
              IF i = 0 THEN 0
              ELSE 2 * and[i - 1] + ((a \div Power[Width - i]) % 2) * ((b \div Power[Width - i]) % 2)
        IN  and[Width]]]

Wrap(i)        == i % Modulus
BitAnd(a, b)   == AndTable[a][b]
BitXor(a, b)   == a + b - 2 * AndTable[a][b]
BitNot(a)      == Modulus - 1 - a           \* ~a
LogicalNot(a)  == IF a = 0 THEN 1 ELSE 0    \* !a

Plus(k, a, b)  == IF k = "a" THEN Wrap(a + b) ELSE BitXor(a, b)
Minus(k, a, b) == IF k = "a" THEN Wrap(a - b) ELSE BitXor(a, b)
Times(k, a, b) == IF k = "a" THEN Wrap(a * b) ELSE BitAnd(a, b)

\* The integer a word stands for, and the least significant bit of a word.
Signed(a)      == IF 2 * a < Modulus THEN a ELSE a - Modulus
LowBit(a)      == a % 2

\* bit_arithmetic_right_shift: the sign is copied into the vacated bits.
ShiftRight(a, d) == Wrap(Signed(a) \div Power[d])

\* C++ division truncates towards zero; a / c and a % c for a signed word a
\* and a positive c.
Towards0(i, c)  == IF i < 0 THEN -((-i) \div c) ELSE i \div c
Quotient(a, c)  == Towards0(Signed(a), c)
Remainder(a, c) == Signed(a) - c * Quotient(a, c)
Negative(a)     == IF 2 * a >= Modulus THEN 1 ELSE 0

\* The sum of a sequence of words.
Total(k, s) ==
    LET sum[i \in 0 .. Len(s)] == IF i = 0 THEN 0 ELSE Plus(k, sum[i - 1], s[i])
    IN  sum[Len(s)]
=============================================================================
