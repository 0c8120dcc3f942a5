------------------------------ MODULE Protocols -----------------------------
(***************************************************************************)
(* A program of secure operations, run by the parties of one of the four   *)
(* protocols.  Registers x and y hold what every party holds; an operation *)
(* computes every party's new shares, moves its generators on, and puts    *)
(* the result into x and the previous x into y.                            *)
(***************************************************************************)
EXTENDS Beaver2PC, Replicated3PC, Custom4PC, Dalskov4PC

CONSTANTS Inputs,       \* <<p, v>>: party p contributes the secret v
          Public,       \* public values
          Precisions,   \* fixed-point fraction bits of arithmetic inputs
          Divisors,     \* public divisors
          Seeds,        \* instances of the parties' seeds
          MaxOps        \* bound on the length of a program

ASSUME ProtocolsAssumption ==
    /\ Inputs \subseteq (0 .. 3) \X Word /\ Public \subseteq Word
    /\ Precisions \subseteq 0 .. Width - 2
    /\ Divisors \subseteq 2 .. Modulus \div 4
    /\ Seeds \subseteq Nat /\ MaxOps \in Nat

VARIABLES proto,    \* the protocol this build was compiled for
          x, y,     \* registers: [kind, prec, sh]
          r,        \* generators and hash checks
          ops,      \* operations done so far
          op        \* the last operation

vars == <<proto, x, y, r, ops, op>>

Protos == {"2PC", "3PC", "C4", "F4"}
Parties(pr) == CASE pr = "2PC" -> 2 [] pr = "3PC" -> 3 [] OTHER -> 4
Replication(pr) == CASE pr = "2PC" -> 1 [] pr = "3PC" -> 2 [] OTHER -> 3

Reg(k, d, sh) == [kind |-> k, prec |-> d, sh |-> sh]

Init ==
    /\ proto \in Protos
    /\ x = Reg("a", 0, ZeroShares(Parties(proto), Replication(proto)))
    /\ y = x
    /\ \E seed \in Seeds : r = NewWorld(Parties(proto), seed)
    /\ ops = 0
    /\ op = "init"

(***************************************************************************)
(* The virtual functions of Protocol, by the protocol compiled in.         *)
(***************************************************************************)
Multiply(u, v, w) ==
    CASE proto = "2PC" -> multiply_2PC(u, v, w)
      [] proto = "3PC" -> multiply_3PC(u, v, w)
      [] proto = "C4"  -> multiply_C4(u, v, w)
      [] proto = "F4"  -> multiply_F4(u, v, w)

And(u, v, w) ==
    CASE proto = "2PC" -> and_b_2PC(u, v, w)
      [] proto = "3PC" -> and_b_3PC(u, v, w)
      [] proto = "C4"  -> and_b_C4(u, v, w)
      [] proto = "F4"  -> and_b_F4(u, v, w)

Matrix(X, Y, w) ==
    CASE proto = "2PC" -> matrix_2PC(X, Y, w)
      [] proto = "3PC" -> matrix_3PC(X, Y, w)
      [] proto = "C4"  -> matrix_C4(X, Y, w)
      [] proto = "F4"  -> matrix_F4(X, Y, w)

Conv(X, Y, w) ==
    CASE proto = "2PC" -> conv_2PC(X, Y, w)
      [] proto = "3PC" -> conv_3PC(X, Y, w)
      [] proto = "C4"  -> conv_C4(X, Y, w)
      [] proto = "F4"  -> conv_F4(X, Y, w)

DivConst(u, c, w) ==
    CASE proto = "2PC" -> div_const_2PC(u, c, w)
      [] proto = "3PC" -> div_const_3PC(u, c, w)
      [] proto = "C4"  -> div_const_C4(u, c, w)
      [] proto = "F4"  -> div_const_F4(u, c, w)

\* truncate: two overrides; otherwise the division by 2^d without its error.
Truncate(res, d) ==
    LET quotient(q) == Result(q.u, q.r) IN
    CASE d = 0                   -> res
      [] d > 0 /\ proto = "2PC" -> truncate_2PC(res.z, d, res.r)
      [] d > 0 /\ proto = "3PC" -> truncate_3PC(res.z, d, res.r)
      [] d > 0 /\ proto = "C4"  -> quotient(div_const_C4(res.z, Power[d], res.r))
      [] d > 0 /\ proto = "F4"  -> quotient(div_const_F4(res.z, Power[d], res.r))

\* dot_product_a: the default multiplies element by element, with a truncation
\* each, and sums up; two protocols override it.
DotDefault(X, Y, d, w) ==
    LET sum(s, t) == Result(PlusShares("a", s.z, t.z), t.r)
        second(s) == sum(s, Truncate(Multiply(X[2], Y[2], s.r), d))
    IN  second(Truncate(Multiply(X[1], Y[1], w), d))

DotProduct(X, Y, d, w) ==
    CASE proto = "3PC" -> Truncate(dot_product_3PC(X, Y, w), d)
      [] proto = "F4"  -> Truncate(dot_product_F4(X, Y, w), d)
      [] OTHER         -> DotDefault(X, Y, d, w)

Not(u) ==
    CASE proto = "2PC" -> not_b_2PC(u)
      [] proto = "3PC" -> not_b_3PC(u)
      [] proto = "C4"  -> not_b_C4(u)
      [] proto = "F4"  -> not_b_F4(u)

NotBit(u) ==
    CASE proto = "2PC" -> not_b_1_2PC(u)
      [] proto = "3PC" -> not_b_1_3PC(u)
      [] proto = "C4"  -> not_b_1_C4(u)
      [] proto = "F4"  -> not_b_1_F4(u)

BitToArithmetic(u, w) ==
    CASE proto = "2PC" -> b2a_bit_2PC(u, w)
      [] proto = "3PC" -> b2a_bit_3PC(u, w)
      [] proto = "C4"  -> b2a_bit_C4(u, w)
      [] proto = "F4"  -> b2a_bit_F4(u, w)

Redistribute(u, w) ==
    CASE proto = "2PC" -> redistribute_2PC(u, w)
      [] proto = "3PC" -> redistribute_3PC(u, w)
      [] proto = "C4"  -> redistribute_C4(u, w)
      [] proto = "F4"  -> redistribute_F4(u, w)

SecretShare(k, v, who, w) ==
    CASE proto = "2PC" -> secret_share_2PC(k, v, who, w)
      [] proto = "3PC" -> secret_share_3PC(k, v, who, w)
      [] proto = "C4"  -> secret_share_C4(k, v, who, w)
      [] proto = "F4"  -> secret_share_F4(k, v, who, w)

Open(k, u) ==
    CASE proto = "2PC" -> open_2PC(k, u)
      [] proto = "3PC" -> open_3PC(k, u)
      [] proto = "C4"  -> open_C4(k, u)
      [] proto = "F4"  -> open_F4(k, u)

PublicShare(v, knows) ==
    CASE proto = "2PC" -> public_share_2PC(v, knows)
      [] proto = "3PC" -> public_share_3PC(v, knows)
      [] proto = "C4"  -> public_share_C4(v)
      [] proto = "F4"  -> public_share_F4(v, knows)

\* The sets of parties that public_share accepts; {} stands for everyone.
MayKnow ==
    CASE proto = "2PC" -> {{}, {0}, {1}}
      [] proto = "3PC" -> {{}} \cup Groups(3)
      [] proto = "C4"  -> {{}}
      [] proto = "F4"  -> {{}} \cup Groups(4)

Reshare(k, u, G, w) ==
    CASE proto = "3PC" -> reshare(3, k, u, G, w)
      [] proto = "C4"  -> reshare_C4(k, u, G, w)
      [] proto = "F4"  -> reshare_F4(k, u, G, w)

(***************************************************************************)
(* The operations.  A failed check aborts the program, so no operation     *)
(* follows one; operands of unequal precision make handle_precision throw. *)
(***************************************************************************)
Begin(name) == ops < MaxOps /\ r.ok /\ ops' = ops + 1 /\ op' = name /\ UNCHANGED proto

\* The result, its world, and the register it displaces.
Push(k, d, res) == x' = Reg(k, d, res.z) /\ y' = x /\ r' = res.r
PushTwo(k, res) == x' = Reg(k, 0, res.u) /\ y' = Reg(k, 0, res.v) /\ r' = res.r
Replace(res)    == x' = [x EXCEPT !.sh = res.z] /\ y' = y /\ r' = res.r

BothOf(k) == x.kind = k /\ y.kind = k

secret_share(k, d, v, who) ==
    /\ Begin("secret_share")
    /\ Push(k, d, SecretShare(k, v, who, r))

public_share(k, v, knows) ==
    /\ Begin("public_share")
    /\ Push(k, 0, Result(PublicShare(v, knows), r))

add_a ==
    /\ BothOf("a") /\ Begin("add_a")
    /\ Push("a", x.prec, Result(PlusShares("a", x.sh, y.sh), r))

sub_a ==
    /\ BothOf("a") /\ Begin("sub_a")
    /\ Push("a", x.prec, Result(MinusShares("a", x.sh, y.sh), r))

neg_a ==
    /\ x.kind = "a" /\ Begin("neg_a")
    /\ LET zero == ZeroShares(Parties(proto), Replication(proto))
       IN  Push("a", x.prec, Result(MinusShares("a", zero, x.sh), r))

xor_b ==
    /\ BothOf("b") /\ Begin("xor_b")
    /\ Push("b", x.prec, Result(PlusShares("b", x.sh, y.sh), r))

\* multiply_a with handle_precision and truncate.
multiply_a ==
    /\ BothOf("a") /\ x.prec = y.prec /\ Begin("multiply_a")
    /\ Push("a", x.prec, Truncate(Multiply(x.sh, y.sh, r), x.prec))

\* The scalar product of (x, y) and (y, x), as a dot product, as an entry of a
\* matrix product and as a convolution with a filter of two.
dot_product_a ==
    /\ BothOf("a") /\ x.prec = y.prec /\ Begin("dot_product_a")
    /\ Push("a", x.prec, DotProduct(<<x.sh, y.sh>>, <<y.sh, x.sh>>, x.prec, r))

matrix_right_multiply ==
    /\ BothOf("a") /\ x.prec = y.prec /\ Begin("matrix")
    /\ Push("a", x.prec, Truncate(Matrix(<<x.sh, y.sh>>, <<y.sh, x.sh>>, r), x.prec))

conv_2d ==
    /\ BothOf("a") /\ x.prec = y.prec /\ Begin("conv_2d")
    /\ Push("a", x.prec, Truncate(Conv(<<x.sh, y.sh>>, <<y.sh, x.sh>>, r), x.prec))

and_b ==
    /\ BothOf("b") /\ x.prec = y.prec /\ Begin("and_b")
    /\ Push("b", x.prec, And(x.sh, y.sh, r))

not_b ==
    /\ x.kind = "b" /\ Begin("not_b")
    /\ Push("b", x.prec, Result(Not(x.sh), r))

\* not_b_1 is called on bits: results of mask(1).
not_b_1 ==
    /\ x.kind = "b" /\ Begin("not_b_1")
    /\ Push("b", x.prec, Result(NotBit(MaskShares(x.sh)), r))

b2a_bit ==
    /\ x.kind = "b" /\ Begin("b2a_bit")
    /\ Push("a", 0, BitToArithmetic(x.sh, r))

\* Two results: quotient and error, or the two words that add up to x.
div_const_a(c) ==
    /\ x.kind = "a" /\ Begin("div_const_a")
    /\ PushTwo("a", DivConst(x.sh, c, r))

redistribute_shares_b ==
    /\ x.kind = "a" /\ Begin("redistribute_shares_b")
    /\ PushTwo("b", Redistribute(x.sh, r))

reshare_shares(G) ==
    /\ Begin("reshare")
    /\ Replace(Reshare(x.kind, x.sh, G, r))

Next ==
    \/ \E k \in Kinds, d \in Precisions, i \in {j \in Inputs : j[1] < Parties(proto)} :
           (k = "b" => d = 0) /\ secret_share(k, d, i[2], i[1])
    \/ \E k \in Kinds, v \in Public, knows \in MayKnow : public_share(k, v, knows)
    \/ add_a \/ sub_a \/ neg_a \/ xor_b
    \/ multiply_a \/ dot_product_a \/ matrix_right_multiply \/ conv_2d
    \/ and_b \/ not_b \/ not_b_1 \/ b2a_bit
    \/ \E c \in Divisors : div_const_a(c)
    \/ redistribute_shares_b
    \/ \E G \in Groups(Parties(proto)) : reshare_shares(G)

Spec == Init /\ [][Next]_vars

-----------------------------------------------------------------------------
RegType == [kind : Kinds, prec : 0 .. Width,
            sh : [0 .. Parties(proto) - 1 -> [1 .. Replication(proto) -> Word]]]

\* Registers hold words of the ring and the generators of each party are those
\* that set-up gave it.
TypeOK ==
    /\ proto \in Protos
    /\ x \in RegType /\ y \in RegType
    /\ DOMAIN r.pos = 0 .. Parties(proto) - 1
    /\ \A p \in DOMAIN r.pos : r.pos[p] \in [HeldBy(Parties(proto), p) -> Nat]
    /\ ops \in 0 .. MaxOps

\* Replicated shares: a share held by several parties is the same at all of
\* them, whatever each computed it from (its own products, a value received, a
\* common draw).  Party p keeps share p + i at index i.  Every party's shares
\* are words, as many as its protocol has it hold.
ReplicasAgree ==
    /\ TypeOK
    /\ \A reg \in {x, y} : \A p, q \in DOMAIN reg.sh :
         \A i, j \in 1 .. Replication(proto) :
            (p + i) % Parties(proto) = (q + j) % Parties(proto) => reg.sh[p][i] = reg.sh[q][j]

\* Generators stay in step: all holders of a common generator have drawn from it
\* equally often.  A party that draws once too little or too often leaves every
\* later operation with different "common" values.
GeneratorsInStep ==
    \A h \in Holders(Parties(proto)) : \A p, q \in h[2] : r.pos[p][h[1]] = r.pos[q][h[1]]

\* Honest parties never accuse each other: in every check the hash sent by one
\* party is that of the value sent by the other.
HonestRunsPass == r.ok

\* Every party opens the value the shares reconstruct to.
AllOpenTheValue ==
    \A reg \in {x, y} : \A p \in DOMAIN reg.sh :
        Open(reg.kind, reg.sh)[p] = Reconstruct(reg.kind, reg.sh)

\* The parties compute what one party would on the plain values, up to the
\* documented rounding of truncation and division.
Data == {i[2] : i \in Inputs} \cup Public

PlainReg(reg) == [kind |-> reg.kind, prec |-> reg.prec, val |-> Reconstruct(reg.kind, reg.sh)]

Plain == INSTANCE Plaintext WITH x <- PlainReg(x), y <- PlainReg(y)

ImplementsPlaintext == Plain!Spec
=============================================================================
