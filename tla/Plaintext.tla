----------------------------- MODULE Plaintext ------------------------------
(***************************************************************************)
(* What every protocol promises: the same operations on plain words.  x    *)
(* holds the last result and y the one before; op names the last           *)
(* operation.  truncate and div_const_a round: each of the two halves a    *)
(* protocol divides is rounded on its own, and when the sum of the halves  *)
(* overflows the result is off by a multiple of the ring size over the     *)
(* divisor.                                                                *)
(***************************************************************************)
EXTENDS Ring2k

CONSTANTS Data, Precisions, Divisors

VARIABLES x, y, op

Reg(k, d, v) == [kind |-> k, prec |-> d, val |-> v]

\* The integers that the sum of two signed halves of v may be.
Lifts(v) == {Signed(v) - Modulus, Signed(v), Signed(v) + Modulus}

\* The results of dividing v by c that leave a remainder in E.
Quotients(v, c, E) ==
    {Wrap((h[1] - h[2]) \div c) : h \in {g \in Lifts(v) \X E : (g[1] - g[2]) % c = 0}}

Truncations(v, d) == IF d = 0 THEN {v} ELSE Quotients(v, Power[d], 0 .. 2 * Power[d])

Does(name)         == op' = name
Push(reg)          == x' = reg /\ y' = x
PushEither(d, S)   == x' \in {Reg("a", d, q) : q \in S} /\ y' = x

Init == x = Reg("a", 0, 0) /\ y = Reg("a", 0, 0) /\ op = "init"

secret_share ==
    /\ Does("secret_share")
    /\ \E k \in Kinds, d \in Precisions, v \in Data : (k = "b" => d = 0) /\ Push(Reg(k, d, v))

public_share ==
    /\ Does("public_share")
    /\ \E k \in Kinds, v \in Data : Push(Reg(k, 0, v))

Both(k) == x.kind = k /\ y.kind = k

add_a == Does("add_a") /\ Both("a") /\ Push(Reg("a", x.prec, Plus("a", x.val, y.val)))
sub_a == Does("sub_a") /\ Both("a") /\ Push(Reg("a", x.prec, Minus("a", x.val, y.val)))
neg_a == Does("neg_a") /\ x.kind = "a" /\ Push(Reg("a", x.prec, Minus("a", 0, x.val)))
xor_b == Does("xor_b") /\ Both("b") /\ Push(Reg("b", x.prec, BitXor(x.val, y.val)))
and_b == Does("and_b") /\ Both("b") /\ Push(Reg("b", x.prec, BitAnd(x.val, y.val)))
not_b == Does("not_b") /\ x.kind = "b" /\ Push(Reg("b", x.prec, BitNot(x.val)))

\* On a bit, after mask(1).
not_b_1 == Does("not_b_1") /\ x.kind = "b" /\ Push(Reg("b", x.prec, 1 - LowBit(x.val)))

b2a_bit == Does("b2a_bit") /\ x.kind = "b" /\ Push(Reg("a", 0, LowBit(x.val)))

multiply_a ==
    /\ Does("multiply_a") /\ Both("a") /\ x.prec = y.prec
    /\ PushEither(x.prec, Truncations(Times("a", x.val, y.val), x.prec))

\* (x, y) . (y, x): one truncation of the sum, or one of each product.
SumOfProducts ==
    /\ \E name \in {"dot_product_a", "matrix", "conv_2d"} : Does(name)
    /\ Both("a") /\ x.prec = y.prec
    /\ LET xy  == Times("a", x.val, y.val)
           one == Truncations(xy, x.prec)
       IN  PushEither(x.prec, Truncations(Wrap(xy + xy), x.prec)
                              \cup {Wrap(q[1] + q[2]) : q \in one \X one})

\* The quotient goes to x and the error e to y, where x = q * c + (e + c): the
\* sign of e decides about the correction.
div_const_a ==
    /\ Does("div_const_a") /\ x.kind = "a"
    /\ \E c \in Divisors : \E e \in -c .. c :
         /\ y' = Reg("a", 0, Wrap(e))
         /\ x' \in {Reg("a", 0, q) : q \in Quotients(x.val, c, {e + c})}

\* Two boolean sharings of words that add up to x.
redistribute_shares_b ==
    /\ Does("redistribute_shares_b") /\ x.kind = "a"
    /\ \E u \in Word : x' = Reg("b", 0, u) /\ y' = Reg("b", 0, Minus("a", x.val, u))

reshare == Does("reshare") /\ UNCHANGED <<x, y>>

Next == \/ secret_share \/ public_share \/ add_a \/ sub_a \/ neg_a \/ xor_b \/ and_b \/ not_b
        \/ not_b_1 \/ multiply_a \/ SumOfProducts \/ b2a_bit \/ div_const_a
        \/ redistribute_shares_b \/ reshare

Spec == Init /\ [][Next]_<<x, y, op>>
=============================================================================
