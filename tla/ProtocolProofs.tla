--------------------------- MODULE ProtocolProofs ---------------------------
(***************************************************************************)
(* Whatever program of secure operations the parties run, the replicated   *)
(* shares agree, the common generators stay in step, no check of an honest *)
(* run fails and every party opens the same value; and the values are      *)
(* those of the plain machine of Plaintext, which the protocols implement. *)
(* All of this for every word width, every set of inputs and every length  *)
(* of program.                                                             *)
(***************************************************************************)
EXTENDS Protocols, ProtocolLemmas

LEMMA Sizes ==
    /\ Parties("2PC") = 2 /\ Replication("2PC") = 1
    /\ Parties("3PC") = 3 /\ Replication("3PC") = 2
    /\ Parties("C4") = 4 /\ Replication("C4") = 3
    /\ Parties("F4") = 4 /\ Replication("F4") = 3
  BY DEF Parties, Replication

(* A value shared among the parties of the protocol, and their world.      *)
Shared(u)       == Replicated(Parties(proto), Replication(proto), u)
HonestWorld(w)  == Honest(Parties(proto), w)
GoodResult(s)   == Shared(s.z) /\ HonestWorld(s.r)
GoodResults(s)  == Shared(s.u) /\ Shared(s.v) /\ HonestWorld(s.r)

LEMMA GoodOf ==
    ASSUME NEW s
    PROVE  /\ (proto = "2PC" => (GoodResult(s) <=> Good(2, 1, s)) /\ (GoodResults(s) <=> GoodTwo(2, 1, s)))
           /\ (proto = "3PC" => (GoodResult(s) <=> Good(3, 2, s)) /\ (GoodResults(s) <=> GoodTwo(3, 2, s)))
           /\ (proto \in {"C4", "F4"} => (GoodResult(s) <=> Good(4, 3, s)) /\ (GoodResults(s) <=> GoodTwo(4, 3, s)))
  BY Sizes DEF GoodResult, GoodResults, Good, GoodTwo, Shared, HonestWorld

LEMMA SharedOf ==
    ASSUME NEW u
    PROVE  /\ (proto = "2PC" => (Shared(u) <=> Replicated(2, 1, u)) /\ (HonestWorld(u) <=> Honest(2, u)))
           /\ (proto = "3PC" => (Shared(u) <=> Replicated(3, 2, u)) /\ (HonestWorld(u) <=> Honest(3, u)))
           /\ (proto \in {"C4", "F4"} => (Shared(u) <=> Replicated(4, 3, u)) /\ (HonestWorld(u) <=> Honest(4, u)))
  BY Sizes DEF Shared, HonestWorld

LEMMA KindNames == "a" \in Kinds /\ "b" \in Kinds
  BY DEF Kinds

(* The world that set-up leaves.                                           *)
LEMMA NewHonest ==
    ASSUME NEW n \in {2, 3, 4}, NEW seed \in Nat
    PROVE  Honest(n, NewWorld(n, seed))
<1> DEFINE w == NewWorld(n, seed)
           pos == [p \in 0 .. n - 1 |-> [g \in HeldBy(n, p) |-> 0]]
<1>1. w = [seed |-> seed, pos |-> pos, ok |-> TRUE]
  BY DEF NewWorld
<1> HIDE DEF pos
<1>2. w.seed = seed /\ w.pos = pos /\ w.ok = TRUE
  BY <1>1
<1>3. Positions(n, pos)
  BY DEF Positions, pos
<1>4. InStep(n, pos)
  <2>1. ASSUME NEW h \in Holders(n), NEW p \in h[2] PROVE pos[p][h[1]] = 0
    <3>1. p \in 0 .. n - 1
      BY HoldersAreParties
    <3>2. h[1] \in HeldBy(n, p)
      BY <3>1, HoldersHold
    <3>3. QED
      BY <3>1, <3>2 DEF pos
  <2>2. QED
    BY <2>1 DEF InStep
<1> HIDE DEF w
<1>5. w = [seed |-> w.seed, pos |-> w.pos, ok |-> w.ok]
  BY <1>1, <1>2
<1>6. QED
  BY <1>2, <1>3, <1>4, <1>5 DEF Honest, w

LEMMA GroupsThree == Groups(2) = {} /\ Groups(3) = {{0, 1}, {0, 2}, {1, 2}}
  BY DEF Groups

(* Operands of one and of two elements.                                    *)
LEMMA OperandsOf ==
    ASSUME NEW n \in {3, 4}, NEW m, m = n - 1, NEW u, Replicated(n, m, u), NEW v, Replicated(n, m, v)
    PROVE  /\ Operands(n, m, <<u>>) /\ Operands(n, m, <<v>>) /\ Len(<<u>>) = Len(<<v>>)
           /\ Operands(n, m, <<u, v>>) /\ Operands(n, m, <<v, u>>) /\ Len(<<u, v>>) = Len(<<v, u>>)
<1>1. n \in Nat /\ m \in Nat
  OBVIOUS
<1>2. /\ Operands(n, m, <<u>>) /\ Len(<<u>>) = 1 /\ Operands(n, m, <<u, v>>) /\ Len(<<u, v>>) = 2
  BY ONLY <1>1, Replicated(n, m, u), Replicated(n, m, v), OneOperand
<1>3. /\ Operands(n, m, <<v>>) /\ Len(<<v>>) = 1 /\ Operands(n, m, <<v, u>>) /\ Len(<<v, u>>) = 2
  BY ONLY <1>1, Replicated(n, m, u), Replicated(n, m, v), OneOperand
<1>4. QED
  BY <1>2, <1>3

-----------------------------------------------------------------------------
(* The virtual functions.                                                  *)
LEMMA MultiplyKept ==
    ASSUME proto \in Protos, NEW u, Shared(u), NEW v, Shared(v), NEW w, HonestWorld(w)
    PROVE  GoodResult(Multiply(u, v, w)) /\ GoodResult(And(u, v, w))
<1>1. CASE proto = "2PC"
  <2>1. Multiply(u, v, w) = MultiplyBeaver("a", u, v, BeaverTriple("a", w))
    BY <1>1 DEF Multiply, multiply_2PC
  <2>2. And(u, v, w) = MultiplyBeaver("b", u, v, BeaverTriple("b", w))
    BY <1>1 DEF And, and_b_2PC
  <2>3. Replicated(2, 1, u) /\ Replicated(2, 1, v) /\ Honest(2, w)
    BY <1>1, SharedOf
  <2>4. /\ Good(2, 1, MultiplyBeaver("a", u, v, BeaverTriple("a", w)))
        /\ Good(2, 1, MultiplyBeaver("b", u, v, BeaverTriple("b", w)))
    BY <2>3, KindNames, MultiplyGood2
  <2>5. QED
    BY <1>1, <2>1, <2>2, <2>4, GoodOf
<1>2. CASE proto = "3PC"
  <2>1. Multiply(u, v, w) = Multiply3("a", <<u>>, <<v>>, w)
    BY <1>2 DEF Multiply, multiply_3PC
  <2>2. And(u, v, w) = Multiply3("b", <<u>>, <<v>>, w)
    BY <1>2 DEF And, and_b_3PC
  <2>3. Replicated(3, 2, u) /\ Replicated(3, 2, v) /\ Honest(3, w)
    BY <1>2, SharedOf
  <2>4. Operands(3, 2, <<u>>) /\ Operands(3, 2, <<v>>) /\ Len(<<u>>) = Len(<<v>>)
    <3>1. 3 \in {3, 4} /\ 2 = 3 - 1
      OBVIOUS
    <3>2. QED
      BY ONLY <2>3, <3>1, OperandsOf
  <2>5. Good(3, 2, Multiply3("a", <<u>>, <<v>>, w)) /\ Good(3, 2, Multiply3("b", <<u>>, <<v>>, w))
    BY <2>3, <2>4, KindNames, MultiplyGood3
  <2>6. QED
    BY <1>2, <2>1, <2>2, <2>5, GoodOf
<1>3. ASSUME proto \in {"C4", "F4"}
      PROVE  /\ Operands(4, 3, <<u>>) /\ Operands(4, 3, <<v>>) /\ Len(<<u>>) = Len(<<v>>) /\ Honest(4, w)
  <2>1. Replicated(4, 3, u) /\ Replicated(4, 3, v) /\ Honest(4, w)
    BY <1>3, SharedOf
  <2>2. 4 \in {3, 4} /\ 3 = 4 - 1
    OBVIOUS
  <2>3. Operands(4, 3, <<u>>) /\ Operands(4, 3, <<v>>) /\ Len(<<u>>) = Len(<<v>>)
    BY ONLY <2>1, <2>2, OperandsOf
  <2>4. QED
    BY <2>1, <2>3
<1>4. CASE proto = "C4"
  <2>1. Multiply(u, v, w) = MultiplyC4("a", <<u>>, <<v>>, w)
    BY <1>4 DEF Multiply, multiply_C4
  <2>2. And(u, v, w) = MultiplyC4("b", <<u>>, <<v>>, w)
    BY <1>4 DEF And, and_b_C4
  <2>3. Good(4, 3, MultiplyC4("a", <<u>>, <<v>>, w)) /\ Good(4, 3, MultiplyC4("b", <<u>>, <<v>>, w))
    BY <1>3, <1>4, KindNames, MultiplyGood4
  <2>4. QED
    BY <1>4, <2>1, <2>2, <2>3, GoodOf
<1>5. CASE proto = "F4"
  <2>1. Multiply(u, v, w) = generic_multiply("a", <<u>>, <<v>>, w)
    BY <1>5 DEF Multiply, multiply_F4
  <2>2. And(u, v, w) = generic_multiply("b", <<u>>, <<v>>, w)
    BY <1>5 DEF And, and_b_F4
  <2>3. Good(4, 3, generic_multiply("a", <<u>>, <<v>>, w)) /\ Good(4, 3, generic_multiply("b", <<u>>, <<v>>, w))
    BY <1>3, <1>5, KindNames, MultiplyGoodF
  <2>4. QED
    BY <1>5, <2>1, <2>2, <2>3, GoodOf
<1>6. QED
  BY <1>1, <1>2, <1>4, <1>5 DEF Protos

(* Scalar products of (u, v) and (v, u).                                   *)
LEMMA ScalarKept ==
    ASSUME proto \in Protos, NEW u, Shared(u), NEW v, Shared(v), NEW w, HonestWorld(w)
    PROVE  LET X == <<u, v>>
               Y == <<v, u>>
           IN  /\ GoodResult(Matrix(X, Y, w)) /\ GoodResult(Conv(X, Y, w))
               /\ (proto = "3PC" => GoodResult(dot_product_3PC(X, Y, w)))
               /\ (proto = "F4" => GoodResult(dot_product_F4(X, Y, w)))
<1> DEFINE X == <<u, v>>
           Y == <<v, u>>
<1>1. CASE proto = "2PC"
  <2>1. Matrix(X, Y, w) = ProductSum_2PC(X, Y, w) /\ Conv(X, Y, w) = ProductSum_2PC(X, Y, w)
    BY <1>1 DEF Matrix, matrix_2PC, Conv, conv_2PC
  <2>2. Replicated(2, 1, u) /\ Replicated(2, 1, v) /\ Honest(2, w)
    BY <1>1, SharedOf
  <2>3. Good(2, 1, ProductSum_2PC(X, Y, w))
    BY <2>2, SumGood2
  <2>4. QED
    BY <1>1, <2>1, <2>3, GoodOf
<1>2. CASE proto = "3PC"
  <2>1. /\ Matrix(X, Y, w) = Multiply3("a", X, Y, w) /\ Conv(X, Y, w) = Multiply3("a", X, Y, w)
        /\ dot_product_3PC(X, Y, w) = Multiply3("a", X, Y, w)
    BY <1>2 DEF Matrix, matrix_3PC, Conv, conv_3PC, dot_product_3PC
  <2>2. Replicated(3, 2, u) /\ Replicated(3, 2, v) /\ Honest(3, w)
    BY <1>2, SharedOf
  <2>3. Operands(3, 2, X) /\ Operands(3, 2, Y) /\ Len(X) = Len(Y)
    <3>1. 3 \in {3, 4} /\ 2 = 3 - 1
      OBVIOUS
    <3>2. QED
      BY ONLY <2>2, <3>1, OperandsOf
  <2> HIDE DEF X, Y
  <2>4. Good(3, 2, Multiply3("a", X, Y, w))
    BY <2>2, <2>3, KindNames, MultiplyGood3
  <2>5. QED
    BY <1>2, <2>1, <2>4, GoodOf DEF X, Y
<1>3. ASSUME proto \in {"C4", "F4"}
      PROVE  Operands(4, 3, X) /\ Operands(4, 3, Y) /\ Len(X) = Len(Y) /\ Honest(4, w)
  <2>1. Replicated(4, 3, u) /\ Replicated(4, 3, v) /\ Honest(4, w)
    BY <1>3, SharedOf
  <2>2. 4 \in {3, 4} /\ 3 = 4 - 1
    OBVIOUS
  <2>3. Operands(4, 3, X) /\ Operands(4, 3, Y) /\ Len(X) = Len(Y)
    BY ONLY <2>1, <2>2, OperandsOf
  <2>4. QED
    BY <2>1, <2>3
<1>4. CASE proto = "C4"
  <2>1. Matrix(X, Y, w) = MultiplyC4("a", X, Y, w) /\ Conv(X, Y, w) = MultiplyC4("a", X, Y, w)
    BY <1>4 DEF Matrix, matrix_C4, Conv, conv_C4
  <2> HIDE DEF X, Y
  <2>2. Good(4, 3, MultiplyC4("a", X, Y, w))
    BY <1>3, <1>4, KindNames, MultiplyGood4
  <2>3. QED
    BY <1>4, <2>1, <2>2, GoodOf DEF X, Y
<1>5. CASE proto = "F4"
  <2>1. /\ Matrix(X, Y, w) = generic_multiply("a", X, Y, w) /\ Conv(X, Y, w) = generic_multiply("a", X, Y, w)
        /\ dot_product_F4(X, Y, w) = generic_multiply("a", X, Y, w)
    BY <1>5 DEF Matrix, matrix_F4, Conv, conv_F4, dot_product_F4
  <2> HIDE DEF X, Y
  <2>2. Good(4, 3, generic_multiply("a", X, Y, w))
    BY <1>3, <1>5, KindNames, MultiplyGoodF
  <2>3. QED
    BY <1>5, <2>1, <2>2, GoodOf DEF X, Y
<1>6. QED
  BY <1>1, <1>2, <1>4, <1>5 DEF Protos

LEMMA DivKept ==
    ASSUME proto \in Protos, NEW u, Shared(u), NEW w, HonestWorld(w), NEW c \in Nat, c > 0
    PROVE  GoodResults(DivConst(u, c, w))
<1>1. CASE proto = "2PC"
  <2>1. Replicated(2, 1, u) /\ Honest(2, w) /\ 0 \in 0 .. Width
    BY <1>1, SharedOf, WidthAssumption
  <2>2. GoodTwo(2, 1, div_const_2PC(u, c, w))
    BY <2>1, LocalGood2
  <2>3. QED
    BY <1>1, <2>2, GoodOf DEF DivConst
<1>2. CASE proto = "3PC"
  <2>1. Replicated(3, 2, u) /\ Honest(3, w)
    BY <1>2, SharedOf
  <2>2. GoodTwo(3, 2, div_const_3PC(u, c, w))
    BY <2>1, DivGood3
  <2>3. QED
    BY <1>2, <2>2, GoodOf DEF DivConst
<1>3. CASE proto = "C4"
  <2>1. Replicated(4, 3, u) /\ Honest(4, w)
    BY <1>3, SharedOf
  <2>2. GoodTwo(4, 3, div_const_C4(u, c, w))
    BY <2>1, DivGood4
  <2>3. QED
    BY <1>3, <2>2, GoodOf DEF DivConst
<1>4. CASE proto = "F4"
  <2>1. Replicated(4, 3, u) /\ Honest(4, w)
    BY <1>4, SharedOf
  <2>2. GoodTwo(4, 3, div_const_F4(u, c, w))
    BY <2>1, DivGoodF
  <2>3. QED
    BY <1>4, <2>2, GoodOf DEF DivConst
<1>5. QED
  BY <1>1, <1>2, <1>3, <1>4 DEF Protos

LEMMA TruncateKept ==
    ASSUME proto \in Protos, NEW s, GoodResult(s), NEW d \in 0 .. Width
    PROVE  GoodResult(Truncate(s, d))
<1>1. Shared(s.z) /\ HonestWorld(s.r)
  BY DEF GoodResult
<1>2. CASE d = 0
  BY <1>2 DEF Truncate
<1>3. ASSUME d > 0, proto = "2PC" PROVE GoodResult(Truncate(s, d))
  <2>1. Replicated(2, 1, s.z) /\ Honest(2, s.r) /\ 1 \in Nat /\ 1 > 0
    BY <1>1, <1>3, SharedOf
  <2>2. Good(2, 1, truncate_2PC(s.z, d, s.r))
    BY ONLY <2>1, d \in 0 .. Width, LocalGood2
  <2>3. QED
    BY <1>3, <2>2, GoodOf DEF Truncate
<1>4. ASSUME d > 0, proto = "3PC" PROVE GoodResult(Truncate(s, d))
  <2>1. Replicated(3, 2, s.z) /\ Honest(3, s.r)
    BY <1>1, <1>4, SharedOf
  <2>2. Good(3, 2, truncate_3PC(s.z, d, s.r))
    BY <2>1, TruncateGood3
  <2>3. QED
    BY <1>4, <2>2, GoodOf DEF Truncate
<1>5. Power[d] \in Nat /\ Power[d] > 0
  BY Powers
<1> DEFINE c == Power[d]
<1>6. \A t : Result(t.u, t.r).z = t.u /\ Result(t.u, t.r).r = t.r
  BY ResultFields
<1>7. ASSUME d > 0, proto = "C4" PROVE GoodResult(Truncate(s, d))
  <2> DEFINE q == div_const_C4(s.z, c, s.r)
  <2>1. Replicated(4, 3, s.z) /\ Honest(4, s.r)
    BY <1>1, <1>7, SharedOf
  <2>2. GoodTwo(4, 3, q)
    BY <1>5, <2>1, DivGood4
  <2>3. Truncate(s, d) = Result(q.u, q.r)
    BY <1>7 DEF Truncate
  <2> HIDE DEF q
  <2>4. Good(4, 3, Result(q.u, q.r))
    BY <1>6, <2>2 DEF Good, GoodTwo
  <2>5. QED
    BY <1>7, <2>3, <2>4, GoodOf
<1>8. ASSUME d > 0, proto = "F4" PROVE GoodResult(Truncate(s, d))
  <2> DEFINE q == div_const_F4(s.z, c, s.r)
  <2>1. Replicated(4, 3, s.z) /\ Honest(4, s.r)
    BY <1>1, <1>8, SharedOf
  <2>2. GoodTwo(4, 3, q)
    BY <1>5, <2>1, DivGoodF
  <2>3. Truncate(s, d) = Result(q.u, q.r)
    BY <1>8 DEF Truncate
  <2> HIDE DEF q
  <2>4. Good(4, 3, Result(q.u, q.r))
    BY <1>6, <2>2 DEF Good, GoodTwo
  <2>5. QED
    BY <1>8, <2>3, <2>4, GoodOf
<1>9. d = 0 \/ d > 0
  OBVIOUS
<1>10. QED
  BY <1>2, <1>3, <1>4, <1>7, <1>8, <1>9 DEF Protos

(* Local steps on any protocol's shares.                                   *)
LEMMA LocalKept ==
    ASSUME proto \in Protos, NEW u, Shared(u), NEW v, Shared(v), NEW k \in Kinds
    PROVE  /\ Shared(PlusShares(k, u, v)) /\ Shared(MinusShares(k, u, v)) /\ Shared(MaskShares(u))
           /\ Shared(ZeroShares(Parties(proto), Replication(proto)))
<1> DEFINE n == Parties(proto)  rep == Replication(proto)
<1>1. n \in Nat /\ rep \in Nat
  BY Sizes DEF Protos
<1>2. Replicated(n, rep, u) /\ Replicated(n, rep, v)
  BY DEF Shared
<1> HIDE DEF n, rep
<1>3. Replicated(n, rep, PlusShares(k, u, v)) /\ Replicated(n, rep, MinusShares(k, u, v))
  BY ONLY <1>1, <1>2, k \in Kinds, PlusReplicated
<1>4. Replicated(n, rep, MaskShares(u)) /\ Replicated(n, rep, ZeroShares(n, rep))
  BY ONLY <1>1, <1>2, MaskReplicated, ZeroReplicated
<1>5. QED
  BY <1>3, <1>4 DEF Shared, n, rep

LEMMA DotKept ==
    ASSUME proto \in Protos, NEW u, Shared(u), NEW v, Shared(v), NEW w, HonestWorld(w), NEW d \in 0 .. Width
    PROVE  GoodResult(DotProduct(<<u, v>>, <<v, u>>, d, w))
<1> DEFINE X == <<u, v>>
           Y == <<v, u>>
           s == Truncate(Multiply(u, v, w), d)
           t == Truncate(Multiply(v, u, s.r), d)
<1>1. CASE proto = "3PC"
  <2>1. GoodResult(dot_product_3PC(X, Y, w))
    BY <1>1, ScalarKept
  <2>2. DotProduct(X, Y, d, w) = Truncate(dot_product_3PC(X, Y, w), d)
    BY <1>1 DEF DotProduct
  <2>3. QED
    BY <2>1, <2>2, TruncateKept
<1>2. CASE proto = "F4"
  <2>1. GoodResult(dot_product_F4(X, Y, w))
    BY <1>2, ScalarKept
  <2>2. DotProduct(X, Y, d, w) = Truncate(dot_product_F4(X, Y, w), d)
    BY <1>2 DEF DotProduct
  <2>3. QED
    BY <2>1, <2>2, TruncateKept
<1>3. CASE proto \notin {"3PC", "F4"}
  <2>1. DotProduct(X, Y, d, w) = Result(PlusShares("a", s.z, t.z), t.r)
    <3>1. X[1] = u /\ X[2] = v /\ Y[1] = v /\ Y[2] = u
      OBVIOUS
    <3>2. DotProduct(X, Y, d, w) = DotDefault(X, Y, d, w)
      BY <1>3 DEF DotProduct
    <3> HIDE DEF X, Y
    <3>3. QED
      BY <3>1, <3>2 DEF DotDefault
  <2>2. GoodResult(s)
    BY MultiplyKept, TruncateKept
  <2> HIDE DEF s
  <2>3. GoodResult(t)
    <3>1. HonestWorld(s.r)
      BY <2>2 DEF GoodResult
    <3>2. QED
      BY <3>1, MultiplyKept, TruncateKept
  <2> HIDE DEF t
  <2>4. Shared(PlusShares("a", s.z, t.z)) /\ HonestWorld(t.r)
    BY <2>2, <2>3, LocalKept, KindNames DEF GoodResult
  <2>5. QED
    BY <2>1, <2>4, ResultFields DEF GoodResult
<1>4. QED
  BY <1>1, <1>2, <1>3

LEMMA NotKept ==
    ASSUME proto \in Protos, NEW u, Shared(u)
    PROVE  Shared(Not(u)) /\ Shared(NotBit(u))
<1>1. CASE proto = "2PC"
  <2>1. Replicated(2, 1, u) /\ 0 \in 0 .. Width /\ 1 \in Nat /\ 1 > 0
    BY <1>1, SharedOf, WidthAssumption
  <2>2. Honest(2, NewWorld(2, 0))
    BY NewHonest
  <2>3. Replicated(2, 1, not_b_2PC(u)) /\ Replicated(2, 1, not_b_1_2PC(u))
    BY ONLY <2>1, <2>2, LocalGood2
  <2>4. QED
    BY <1>1, <2>3, SharedOf DEF Not, NotBit
<1>2. CASE proto = "3PC"
  <2>1. Replicated(3, 2, u)
    BY <1>2, SharedOf
  <2>2. Replicated(3, 2, not_b_3PC(u)) /\ Replicated(3, 2, not_b_1_3PC(u))
    BY <2>1, NotGood3
  <2>3. QED
    BY <1>2, <2>2, SharedOf DEF Not, NotBit
<1>3. CASE proto = "C4"
  <2>1. Replicated(4, 3, u)
    BY <1>3, SharedOf
  <2>2. Replicated(4, 3, not_b_C4(u)) /\ Replicated(4, 3, not_b_1_C4(u))
    BY <2>1, NotGood4
  <2>3. QED
    BY <1>3, <2>2, SharedOf DEF Not, NotBit
<1>4. CASE proto = "F4"
  <2>1. Replicated(4, 3, u)
    BY <1>4, SharedOf
  <2>2. Replicated(4, 3, not_b_F4(u)) /\ Replicated(4, 3, not_b_1_F4(u))
    BY <2>1, NotGoodF
  <2>3. QED
    BY <1>4, <2>2, SharedOf DEF Not, NotBit
<1>5. QED
  BY <1>1, <1>2, <1>3, <1>4 DEF Protos

LEMMA BitKept ==
    ASSUME proto \in Protos, NEW u, Shared(u), NEW w, HonestWorld(w)
    PROVE  GoodResult(BitToArithmetic(u, w)) /\ GoodResults(Redistribute(u, w))
<1>1. CASE proto = "2PC"
  <2>1. Replicated(2, 1, u) /\ Honest(2, w)
    BY <1>1, SharedOf
  <2>2. Good(2, 1, b2a_bit_2PC(u, w)) /\ GoodTwo(2, 1, redistribute_2PC(u, w))
    BY <2>1, BitGood2, RedistributeGood2
  <2>3. QED
    BY <1>1, <2>2, GoodOf DEF BitToArithmetic, Redistribute
<1>2. CASE proto = "3PC"
  <2>1. Replicated(3, 2, u) /\ Honest(3, w)
    BY <1>2, SharedOf
  <2>2. Good(3, 2, b2a_bit_3PC(u, w)) /\ GoodTwo(3, 2, redistribute_3PC(u, w))
    BY <2>1, BitGood3, RedistributeGood3
  <2>3. QED
    BY <1>2, <2>2, GoodOf DEF BitToArithmetic, Redistribute
<1>3. CASE proto = "C4"
  <2>1. Replicated(4, 3, u) /\ Honest(4, w)
    BY <1>3, SharedOf
  <2>2. Good(4, 3, b2a_bit_C4(u, w)) /\ GoodTwo(4, 3, redistribute_C4(u, w))
    BY <2>1, BitGood4, RedistributeGood4
  <2>3. QED
    BY <1>3, <2>2, GoodOf DEF BitToArithmetic, Redistribute
<1>4. CASE proto = "F4"
  <2>1. Replicated(4, 3, u) /\ Honest(4, w)
    BY <1>4, SharedOf
  <2>2. Good(4, 3, b2a_bit_F4(u, w)) /\ GoodTwo(4, 3, redistribute_F4(u, w))
    BY <2>1, BitGoodF, RedistributeGoodF
  <2>3. QED
    BY <1>4, <2>2, GoodOf DEF BitToArithmetic, Redistribute
<1>5. QED
  BY <1>1, <1>2, <1>3, <1>4 DEF Protos

LEMMA ShareKept ==
    ASSUME proto \in Protos, NEW k \in Kinds, NEW a \in Word, NEW who \in 0 .. 3, who < Parties(proto),
           NEW w, HonestWorld(w)
    PROVE  GoodResult(SecretShare(k, a, who, w))
<1>1. CASE proto = "2PC"
  <2>1. Honest(2, w) /\ who \in P2
    BY <1>1, SharedOf, Sizes DEF P2
  <2>2. Good(2, 1, secret_share_2PC(k, a, who, w))
    BY <2>1, ShareGood2
  <2>3. QED
    BY <1>1, <2>2, GoodOf DEF SecretShare
<1>2. CASE proto = "3PC"
  <2>1. Honest(3, w) /\ who \in P3
    BY <1>2, SharedOf, Sizes DEF P3
  <2>2. Good(3, 2, secret_share_3PC(k, a, who, w))
    BY <2>1, ShareGood3
  <2>3. QED
    BY <1>2, <2>2, GoodOf DEF SecretShare
<1>3. CASE proto = "C4"
  <2>1. Honest(4, w)
    BY <1>3, SharedOf
  <2>2. Good(4, 3, secret_share_C4(k, a, who, w))
    BY <2>1, ShareGood4 DEF Carries
  <2>3. QED
    BY <1>3, <2>2, GoodOf DEF SecretShare
<1>4. CASE proto = "F4"
  <2>1. Honest(4, w)
    BY <1>4, SharedOf
  <2>2. Good(4, 3, secret_share_F4(k, a, who, w))
    BY <2>1, ShareGoodF DEF Carries
  <2>3. QED
    BY <1>4, <2>2, GoodOf DEF SecretShare
<1>5. QED
  BY <1>1, <1>2, <1>3, <1>4 DEF Protos

LEMMA PublicKept ==
    ASSUME proto \in Protos, NEW a \in Word, NEW K \in MayKnow
    PROVE  Shared(PublicShare(a, K))
<1>1. CASE proto = "2PC"
  <2>1. Replicated(2, 1, public_share_2PC(a, K))
    BY PublicShared2
  <2>2. QED
    BY <1>1, <2>1, SharedOf DEF PublicShare
<1>2. CASE proto = "3PC"
  <2>1. K \in {{}, {0, 1}, {0, 2}, {1, 2}}
    BY <1>2, GroupsThree DEF MayKnow
  <2>2. Replicated(3, 2, public_share_3PC(a, K))
    BY <2>1, PublicShared3
  <2>3. QED
    BY <1>2, <2>2, SharedOf DEF PublicShare
<1>3. CASE proto = "C4"
  <2>1. Replicated(4, 3, public_share_C4(a))
    BY PublicGood4
  <2>2. QED
    BY <1>3, <2>1, SharedOf DEF PublicShare
<1>4. CASE proto = "F4"
  <2>1. Replicated(4, 3, public_share_F4(a, K))
    BY PublicGoodF
  <2>2. QED
    BY <1>4, <2>1, SharedOf DEF PublicShare
<1>5. QED
  BY <1>1, <1>2, <1>3, <1>4 DEF Protos

LEMMA ReshareKept ==
    ASSUME proto \in Protos, NEW k \in Kinds, NEW u, Shared(u), NEW G \in Groups(Parties(proto)),
           NEW w, HonestWorld(w)
    PROVE  GoodResult(Reshare(k, u, G, w))
<1>1. CASE proto = "2PC"
  BY <1>1, GroupsThree, Sizes
<1>2. CASE proto = "3PC"
  <2>1. Replicated(3, 2, u) /\ Honest(3, w) /\ G \in Groups(3)
    BY <1>2, SharedOf, Sizes
  <2>2. Good(3, 2, reshare(3, k, u, G, w))
    BY <2>1, ReshareGood3
  <2>3. QED
    BY <1>2, <2>2, GoodOf DEF Reshare
<1>3. CASE proto = "C4"
  <2>1. Replicated(4, 3, u) /\ Honest(4, w) /\ G \in Groups(4)
    BY <1>3, SharedOf, Sizes
  <2>2. Good(4, 3, reshare_C4(k, u, G, w))
    BY <2>1, ReshareGood4
  <2>3. QED
    BY <1>3, <2>2, GoodOf DEF Reshare
<1>4. CASE proto = "F4"
  <2>1. Replicated(4, 3, u) /\ Honest(4, w) /\ G \in Groups(4)
    BY <1>4, SharedOf, Sizes
  <2>2. Good(4, 3, reshare_F4(k, u, G, w))
    BY <2>1, ReshareGoodF
  <2>3. QED
    BY <1>4, <2>2, GoodOf DEF Reshare
<1>5. QED
  BY <1>1, <1>2, <1>3, <1>4 DEF Protos

-----------------------------------------------------------------------------
(* The inductive invariant: both registers hold shared words, and the      *)
(* world is as honest parties leave it.                                    *)
Register(reg) ==
    /\ reg = [kind |-> reg.kind, prec |-> reg.prec, sh |-> reg.sh]
    /\ reg.kind \in Kinds /\ reg.prec \in 0 .. Width
    /\ Shared(reg.sh)

ProtocolInv ==
    /\ proto \in Protos
    /\ Register(x) /\ Register(y)
    /\ HonestWorld(r)
    /\ ops \in 0 .. MaxOps

LEMMA RegisterOf ==
    ASSUME NEW k \in Kinds, NEW d \in 0 .. Width, NEW u, Shared(u)
    PROVE  Register(Reg(k, d, u))
<1> DEFINE R == Reg(k, d, u)
<1>1. R = [kind |-> k, prec |-> d, sh |-> u]
  BY DEF Reg
<1> HIDE DEF R
<1>2. R.kind = k /\ R.prec = d /\ R.sh = u
  BY <1>1
<1>3. R = [kind |-> R.kind, prec |-> R.prec, sh |-> R.sh]
  BY <1>1, <1>2
<1>4. QED
  BY <1>2, <1>3 DEF Register, R

(* A step that counts and fills the registers keeps the invariant.         *)
LEMMA StepKept ==
    ASSUME ProtocolInv, NEW name, Begin(name), Register(x'), Register(y'), HonestWorld(r')
    PROVE  ProtocolInv'
<1>1. proto' = proto /\ ops' = ops + 1 /\ ops < MaxOps /\ ops \in 0 .. MaxOps /\ proto \in Protos
  BY DEF Begin, ProtocolInv
<1>2. ops' \in 0 .. MaxOps
  BY <1>1, ProtocolsAssumption
<1>3. Register(x)' /\ Register(y)' /\ HonestWorld(r)'
  BY <1>1 DEF Register, Shared, HonestWorld
<1>4. QED
  BY <1>1, <1>2, <1>3 DEF ProtocolInv

LEMMA PushKept ==
    ASSUME ProtocolInv, NEW name, Begin(name), NEW k \in Kinds, NEW d \in 0 .. Width,
           NEW s, GoodResult(s), Push(k, d, s)
    PROVE  ProtocolInv'
<1>1. x' = Reg(k, d, s.z) /\ y' = x /\ r' = s.r
  BY DEF Push
<1>2. Register(x') /\ Register(y') /\ HonestWorld(r')
  BY <1>1, RegisterOf DEF GoodResult, ProtocolInv
<1>3. QED
  BY <1>2, StepKept

LEMMA PushTwoKept ==
    ASSUME ProtocolInv, NEW name, Begin(name), NEW k \in Kinds, NEW s, GoodResults(s), PushTwo(k, s)
    PROVE  ProtocolInv'
<1>1. x' = Reg(k, 0, s.u) /\ y' = Reg(k, 0, s.v) /\ r' = s.r /\ 0 \in 0 .. Width
  BY WidthAssumption DEF PushTwo
<1>2. Register(x') /\ Register(y') /\ HonestWorld(r')
  BY <1>1, RegisterOf DEF GoodResults, ProtocolInv
<1>3. QED
  BY <1>2, StepKept

LEMMA ReplaceKept ==
    ASSUME ProtocolInv, NEW name, Begin(name), NEW s, GoodResult(s), Replace(s)
    PROVE  ProtocolInv'
<1>1. x' = [x EXCEPT !.sh = s.z] /\ y' = y /\ r' = s.r
  BY DEF Replace
<1>2. x = [kind |-> x.kind, prec |-> x.prec, sh |-> x.sh] /\ x.kind \in Kinds /\ x.prec \in 0 .. Width
  BY DEF ProtocolInv, Register
<1>3. x' = Reg(x.kind, x.prec, s.z)
  BY <1>1, <1>2 DEF Reg
<1>4. Register(x') /\ Register(y') /\ HonestWorld(r')
  BY <1>1, <1>2, <1>3, RegisterOf DEF GoodResult, ProtocolInv
<1>5. QED
  BY <1>4, StepKept

LEMMA LocalResult ==
    ASSUME NEW u, Shared(u), HonestWorld(r)
    PROVE  GoodResult(Result(u, r))
  BY ResultFields DEF GoodResult

LEMMA InvInit == Init => ProtocolInv
<1> SUFFICES ASSUME Init PROVE ProtocolInv
  OBVIOUS
<1>1. proto \in Protos /\ y = x /\ ops = 0 /\ x = Reg("a", 0, ZeroShares(Parties(proto), Replication(proto)))
  BY DEF Init
<1>2. PICK seed \in Seeds : r = NewWorld(Parties(proto), seed)
  BY DEF Init
<1>3. Parties(proto) \in {2, 3, 4} /\ Replication(proto) \in Nat
  BY <1>1, Sizes DEF Protos
<1>4. HonestWorld(r)
  BY <1>2, <1>3, NewHonest, ProtocolsAssumption DEF HonestWorld
<1>5. Shared(ZeroShares(Parties(proto), Replication(proto)))
  BY <1>3, ZeroReplicated DEF Shared
<1>6. Register(x)
  <2>1. 0 \in 0 .. Width
    BY WidthAssumption
  <2>2. QED
    BY <1>1, <1>5, <2>1, KindNames, RegisterOf
<1>7. ops \in 0 .. MaxOps
  BY <1>1, ProtocolsAssumption
<1>8. QED
  BY <1>1, <1>4, <1>6, <1>7 DEF ProtocolInv

LEMMA InvNext == ProtocolInv /\ [Next]_vars => ProtocolInv'
<1> SUFFICES ASSUME ProtocolInv, [Next]_vars PROVE ProtocolInv'
  OBVIOUS
<1>0. /\ proto \in Protos /\ HonestWorld(r) /\ Shared(x.sh) /\ Shared(y.sh)
      /\ x.kind \in Kinds /\ x.prec \in 0 .. Width /\ 0 \in 0 .. Width /\ "a" \in Kinds /\ "b" \in Kinds
  BY WidthAssumption, KindNames DEF ProtocolInv, Register
<1>1. ASSUME NEW k \in Kinds, NEW d \in Precisions, NEW i \in {j \in Inputs : j[1] < Parties(proto)},
             secret_share(k, d, i[2], i[1])
      PROVE  ProtocolInv'
  <2>1. i[1] \in 0 .. 3 /\ i[1] < Parties(proto) /\ i[2] \in Word /\ d \in 0 .. Width
    BY ProtocolsAssumption, WidthAssumption
  <2>2. GoodResult(SecretShare(k, i[2], i[1], r))
    BY <1>0, <2>1, ShareKept
  <2>3. QED
    BY <1>1, <2>1, <2>2, PushKept DEF secret_share
<1>2. ASSUME NEW k \in Kinds, NEW v \in Public, NEW K \in MayKnow, public_share(k, v, K)
      PROVE  ProtocolInv'
  <2>1. v \in Word
    BY ProtocolsAssumption
  <2>2. GoodResult(Result(PublicShare(v, K), r))
    BY <1>0, <2>1, PublicKept, LocalResult
  <2>3. QED
    BY <1>0, <1>2, <2>2, PushKept DEF public_share
<1>3. CASE add_a
  <2>1. GoodResult(Result(PlusShares("a", x.sh, y.sh), r))
    BY <1>0, LocalKept, LocalResult
  <2>2. QED
    BY <1>0, <1>3, <2>1, PushKept DEF add_a
<1>4. CASE sub_a
  <2>1. GoodResult(Result(MinusShares("a", x.sh, y.sh), r))
    BY <1>0, LocalKept, LocalResult
  <2>2. QED
    BY <1>0, <1>4, <2>1, PushKept DEF sub_a
<1>5. CASE neg_a
  <2> DEFINE zero == ZeroShares(Parties(proto), Replication(proto))
  <2>1. Shared(zero)
    BY <1>0, LocalKept
  <2>2. Begin("neg_a") /\ Push("a", x.prec, Result(MinusShares("a", zero, x.sh), r))
    BY <1>5 DEF neg_a
  <2> HIDE DEF zero
  <2>3. GoodResult(Result(MinusShares("a", zero, x.sh), r))
    BY <1>0, <2>1, LocalKept, LocalResult
  <2>4. QED
    BY <1>0, <2>2, <2>3, PushKept
<1>6. CASE xor_b
  <2>1. GoodResult(Result(PlusShares("b", x.sh, y.sh), r))
    BY <1>0, LocalKept, LocalResult
  <2>2. QED
    BY <1>0, <1>6, <2>1, PushKept DEF xor_b
<1>7. CASE multiply_a
  <2>1. GoodResult(Truncate(Multiply(x.sh, y.sh, r), x.prec))
    BY <1>0, MultiplyKept, TruncateKept
  <2>2. QED
    BY <1>0, <1>7, <2>1, PushKept DEF multiply_a
<1>8. CASE dot_product_a
  <2>1. GoodResult(DotProduct(<<x.sh, y.sh>>, <<y.sh, x.sh>>, x.prec, r))
    BY <1>0, DotKept
  <2>2. QED
    BY <1>0, <1>8, <2>1, PushKept DEF dot_product_a
<1>9. CASE matrix_right_multiply
  <2>1. GoodResult(Matrix(<<x.sh, y.sh>>, <<y.sh, x.sh>>, r))
    BY <1>0, ScalarKept
  <2>2. GoodResult(Truncate(Matrix(<<x.sh, y.sh>>, <<y.sh, x.sh>>, r), x.prec))
    BY <1>0, <2>1, TruncateKept
  <2>3. QED
    BY <1>0, <1>9, <2>2, PushKept DEF matrix_right_multiply
<1>10. CASE conv_2d
  <2>1. GoodResult(Conv(<<x.sh, y.sh>>, <<y.sh, x.sh>>, r))
    BY <1>0, ScalarKept
  <2>2. GoodResult(Truncate(Conv(<<x.sh, y.sh>>, <<y.sh, x.sh>>, r), x.prec))
    BY <1>0, <2>1, TruncateKept
  <2>3. QED
    BY <1>0, <1>10, <2>2, PushKept DEF conv_2d
<1>11. CASE and_b
  <2>1. GoodResult(And(x.sh, y.sh, r))
    BY <1>0, MultiplyKept
  <2>2. QED
    BY <1>0, <1>11, <2>1, PushKept DEF and_b
<1>12. CASE not_b
  <2>1. GoodResult(Result(Not(x.sh), r))
    BY <1>0, NotKept, LocalResult
  <2>2. QED
    BY <1>0, <1>12, <2>1, PushKept DEF not_b
<1>13. CASE not_b_1
  <2>1. Shared(MaskShares(x.sh))
    BY <1>0, LocalKept
  <2>2. GoodResult(Result(NotBit(MaskShares(x.sh)), r))
    BY <1>0, <2>1, NotKept, LocalResult
  <2>3. QED
    BY <1>0, <1>13, <2>2, PushKept DEF not_b_1
<1>14. CASE b2a_bit
  <2>1. GoodResult(BitToArithmetic(x.sh, r))
    BY <1>0, BitKept
  <2>2. QED
    BY <1>0, <1>14, <2>1, PushKept DEF b2a_bit
<1>15. ASSUME NEW c \in Divisors, div_const_a(c)
       PROVE  ProtocolInv'
  <2>1. c \in Nat /\ c > 0
    BY ProtocolsAssumption
  <2>2. GoodResults(DivConst(x.sh, c, r))
    BY <1>0, <2>1, DivKept
  <2>3. QED
    BY <1>0, <1>15, <2>2, PushTwoKept DEF div_const_a
<1>16. CASE redistribute_shares_b
  <2>1. GoodResults(Redistribute(x.sh, r))
    BY <1>0, BitKept
  <2>2. QED
    BY <1>0, <1>16, <2>1, PushTwoKept DEF redistribute_shares_b
<1>17. ASSUME NEW G \in Groups(Parties(proto)), reshare_shares(G)
       PROVE  ProtocolInv'
  <2>1. GoodResult(Reshare(x.kind, x.sh, G, r))
    BY <1>0, ReshareKept
  <2>2. QED
    BY <1>17, <2>1, ReplaceKept DEF reshare_shares
<1>18. CASE UNCHANGED vars
  BY <1>18 DEF vars, ProtocolInv, Register, Shared, HonestWorld
<1>19. QED
  BY <1>1, <1>2, <1>3, <1>4, <1>5, <1>6, <1>7, <1>8, <1>9, <1>10, <1>11, <1>12, <1>13, <1>14,
     <1>15, <1>16, <1>17, <1>18 DEF Next

-----------------------------------------------------------------------------
(* Opening.                                                                *)
LEMMA OpenTwo ==
    ASSUME NEW k \in Kinds, NEW u, Replicated(2, 1, u), NEW p \in 0 .. 1
    PROVE  open_2PC(k, u)[p] = Reconstruct(k, u)
<1> DEFINE a == u[0][1]  b == u[1][1]
<1>1. a \in Word /\ b \in Word
  BY Shares2
<1>2. open_2PC(k, u)[0] = Plus(k, a, b) /\ open_2PC(k, u)[1] = Plus(k, b, a)
  BY DEF open_2PC, P2
<1>3. Reconstruct(k, u) = Plus(k, a, b)
  BY ReconstructSums
<1> HIDE DEF a, b
<1>4. Plus(k, b, a) = Plus(k, a, b)
  BY <1>1, PlusAlgebra
<1>5. p = 0 \/ p = 1
  OBVIOUS
<1>6. QED
  BY <1>2, <1>3, <1>4, <1>5

LEMMA OpenThree ==
    ASSUME NEW k \in Kinds, NEW u, Replicated(3, 2, u), NEW p \in 0 .. 2
    PROVE  open_3PC(k, u)[p] = Reconstruct(k, u)
<1> DEFINE a == u[0][1]  b == u[1][1]  c == u[2][1]
           t(i, j, l) == Total(k, <<i, j, l>>)
<1>1. /\ a \in Word /\ b \in Word /\ c \in Word
      /\ u[0][2] = b /\ u[1][2] = c /\ u[2][2] = a
  BY Shares3, Parties3
<1>2. /\ open_3PC(k, u)[0] = t(u[0][1], u[0][2], u[1][2])
      /\ open_3PC(k, u)[1] = t(u[1][1], u[1][2], u[2][2])
      /\ open_3PC(k, u)[2] = t(u[2][1], u[2][2], u[0][2])
  <2>1. (0 + 1) % 3 = 1 /\ (1 + 1) % 3 = 2 /\ (2 + 1) % 3 = 0 /\ 0 \in P3 /\ 1 \in P3 /\ 2 \in P3
    BY Parties3
  <2>2. QED
    BY <2>1 DEF open_3PC
<1>3. Reconstruct(k, u) = Plus(k, Plus(k, a, b), c)
  BY ReconstructSums
<1>4. /\ open_3PC(k, u)[0] = t(a, b, c) /\ open_3PC(k, u)[1] = t(b, c, a) /\ open_3PC(k, u)[2] = t(c, a, b)
  BY <1>1, <1>2
<1> HIDE DEF a, b, c
<1>5. /\ t(a, b, c) = Plus(k, Plus(k, a, b), c) /\ t(b, c, a) = Plus(k, Plus(k, b, c), a)
      /\ t(c, a, b) = Plus(k, Plus(k, c, a), b)
  BY <1>1, TotalThree
<1>6. Plus(k, Plus(k, b, c), a) = Plus(k, Plus(k, a, b), c) /\ Plus(k, Plus(k, c, a), b) = Plus(k, Plus(k, b, c), a)
  BY <1>1, TurnThree
<1>7. p = 0 \/ p = 1 \/ p = 2
  OBVIOUS
<1> HIDE DEF t
<1>8. QED
  BY <1>3, <1>4, <1>5, <1>6, <1>7

(* The four shares, and the sum that each party forms.                     *)
LEMMA FourSums ==
    ASSUME NEW k \in Kinds, NEW u, Replicated(4, 3, u), NEW m,
           m[0] = u[3][1], m[1] = u[0][1], m[2] = u[1][1], m[3] = u[2][1]
    PROVE  \A p \in 0 .. 3 : Plus(k, Total(k, u[p]), m[p]) = Reconstruct(k, u)
<1> DEFINE a == u[0][1]  b == u[0][2]  c == u[0][3]  d == u[1][3]
           t(i, j, l) == Total(k, <<i, j, l>>)
           S == Plus(k, Plus(k, Plus(k, a, b), c), d)
<1>1. /\ a \in Word /\ b \in Word /\ c \in Word /\ d \in Word
      /\ u[0] = <<a, b, c>> /\ u[1] = <<b, c, d>> /\ u[2] = <<c, d, a>> /\ u[3] = <<d, a, b>>
  BY Shares4
<1>2. u[1][1] = b /\ u[2][1] = c /\ u[3][1] = d
  BY <1>1
<1>3. Reconstruct(k, u) = S
  BY <1>2, ReconstructSums
<1>4. m[0] = d /\ m[1] = a /\ m[2] = b /\ m[3] = c
  BY <1>2
<1>5. /\ Total(k, u[0]) = t(a, b, c) /\ Total(k, u[1]) = t(b, c, d)
      /\ Total(k, u[2]) = t(c, d, a) /\ Total(k, u[3]) = t(d, a, b)
  BY ONLY <1>1
<1> HIDE DEF a, b, c, d
<1>6. /\ t(a, b, c) = Plus(k, Plus(k, a, b), c) /\ t(b, c, d) = Plus(k, Plus(k, b, c), d)
      /\ t(c, d, a) = Plus(k, Plus(k, c, d), a) /\ t(d, a, b) = Plus(k, Plus(k, d, a), b)
  BY ONLY k \in Kinds, <1>1, TotalThree
<1> HIDE DEF t
<1>7. Plus(k, Plus(k, Plus(k, b, c), d), a) = S
  BY ONLY k \in Kinds, <1>1, TurnFour
<1>8. Plus(k, Plus(k, Plus(k, c, d), a), b) = Plus(k, Plus(k, Plus(k, b, c), d), a)
  BY ONLY k \in Kinds, <1>1, TurnFour
<1>9. Plus(k, Plus(k, Plus(k, d, a), b), c) = Plus(k, Plus(k, Plus(k, c, d), a), b)
  BY ONLY k \in Kinds, <1>1, TurnFour
<1>10. /\ Plus(k, Total(k, u[0]), m[0]) = S /\ Plus(k, Total(k, u[1]), m[1]) = S
       /\ Plus(k, Total(k, u[2]), m[2]) = S /\ Plus(k, Total(k, u[3]), m[3]) = S
  BY ONLY <1>4, <1>5, <1>6, <1>7, <1>8, <1>9
<1>11. \A p \in 0 .. 3 : p = 0 \/ p = 1 \/ p = 2 \/ p = 3
  OBVIOUS
<1> HIDE DEF S
<1>12. QED
  BY ONLY <1>3, <1>10, <1>11

LEMMA OpenFour ==
    ASSUME NEW k \in Kinds, NEW u, Replicated(4, 3, u), NEW p \in 0 .. 3
    PROVE  open_C4(k, u)[p] = Reconstruct(k, u) /\ open_F4(k, u)[p] = Reconstruct(k, u)
<1>1. open_C4(k, u)[p] = Reconstruct(k, u)
  <2> DEFINE m == [q \in 0 .. 3 |-> u[(q + 3) % 4][1]]
  <2>1. m[0] = u[3][1] /\ m[1] = u[0][1] /\ m[2] = u[1][1] /\ m[3] = u[2][1]
    OBVIOUS
  <2>2. open_C4(k, u)[p] = Plus(k, Total(k, u[p]), m[p])
    BY Parties4 DEF open_C4
  <2> HIDE DEF m
  <2>3. QED
    BY <2>1, <2>2, FourSums
<1>2. open_F4(k, u)[p] = Reconstruct(k, u)
  <2> DEFINE from(q) == CHOOSE i \in PF : next_party(i, (i + 1) % 4) = q
             passed(q, i, j) == jmp([h \in {i, j} |-> u[h][abs2sh(h, q)]], i, j)
             m == [q \in 0 .. 3 |-> passed(q, from(q), (from(q) + 1) % 4)]
  <2>1. open_F4(k, u)[p] = Plus(k, Total(k, u[p]), m[p])
    BY PartiesF DEF open_F4
  <2>2. /\ u[2][3] = u[0][1] /\ u[3][2] = u[0][1] /\ u[1][1] = u[0][2] /\ u[3][3] = u[0][2]
        /\ u[1][2] = u[0][3] /\ u[2][1] = u[0][3] /\ u[2][2] = u[1][3] /\ u[3][1] = u[1][3]
    BY Shares4
  <2>3. /\ next_party(0, 1) = 2 /\ next_party(1, 2) = 3 /\ next_party(2, 3) = 0 /\ next_party(3, 0) = 1
    BY DEF next_party
  <2>4. from(0) = 2 /\ from(1) = 3 /\ from(2) = 0 /\ from(3) = 1
    <3>1. (0 + 1) % 4 = 1 /\ (1 + 1) % 4 = 2 /\ (2 + 1) % 4 = 3 /\ (3 + 1) % 4 = 0
      OBVIOUS
    <3>2. \A i \in PF : i = 0 \/ i = 1 \/ i = 2 \/ i = 3
      BY PartiesF
    <3>3. /\ \A i \in PF : next_party(i, (i + 1) % 4) = 0 <=> i = 2
          /\ \A i \in PF : next_party(i, (i + 1) % 4) = 1 <=> i = 3
          /\ \A i \in PF : next_party(i, (i + 1) % 4) = 2 <=> i = 0
          /\ \A i \in PF : next_party(i, (i + 1) % 4) = 3 <=> i = 1
      BY <2>3, <3>1, <3>2
    <3>4. 0 \in PF /\ 1 \in PF /\ 2 \in PF /\ 3 \in PF
      BY PartiesF
    <3>5. QED
      BY <3>3, <3>4
  <2> HIDE DEF from
  <2>5. abs2sh(2, 0) = 2 /\ abs2sh(0, 1) = 1 /\ abs2sh(0, 2) = 2 /\ abs2sh(1, 3) = 2
    <3>1. (0 - 2 - 1) % 4 = 1 % 4
      <4>1. 0 - 2 - 1 \in Int /\ 1 \in Int /\ -1 \in Int /\ 0 - 2 - 1 = 1 + 4 * (-1)
        OBVIOUS
      <4>2. QED
        BY <4>1, ModFour
    <3>2. 1 % 4 = 1 /\ (1 - 0 - 1) % 4 = 0 /\ (2 - 0 - 1) % 4 = 1 /\ (3 - 1 - 1) % 4 = 1
      OBVIOUS
    <3>3. QED
      BY <3>1, <3>2 DEF abs2sh
  <2>6. /\ passed(0, 2, 3) = u[2][2] /\ passed(1, 3, 0) = u[0][1]
        /\ passed(2, 0, 1) = u[0][2] /\ passed(3, 1, 2) = u[1][2]
    BY <2>5 DEF jmp, Sender
  <2>7. /\ m[0] = passed(0, from(0), (from(0) + 1) % 4) /\ m[1] = passed(1, from(1), (from(1) + 1) % 4)
        /\ m[2] = passed(2, from(2), (from(2) + 1) % 4) /\ m[3] = passed(3, from(3), (from(3) + 1) % 4)
    OBVIOUS
  <2> HIDE DEF m, passed
  <2>8. m[0] = passed(0, 2, 3) /\ m[1] = passed(1, 3, 0) /\ m[2] = passed(2, 0, 1) /\ m[3] = passed(3, 1, 2)
    <3>1. (2 + 1) % 4 = 3 /\ (3 + 1) % 4 = 0 /\ (0 + 1) % 4 = 1 /\ (1 + 1) % 4 = 2
      OBVIOUS
    <3>2. QED
      BY ONLY <2>4, <2>7, <3>1
  <2>9. m[0] = u[3][1] /\ m[1] = u[0][1] /\ m[2] = u[1][1] /\ m[3] = u[2][1]
    BY ONLY <2>2, <2>6, <2>8
  <2>10. QED
    BY <2>1, <2>9, FourSums
<1>3. QED
  BY <1>1, <1>2

-----------------------------------------------------------------------------
(* The operations keep the inductive invariant.                            *)
THEOREM ProtocolInvariant == Spec => []ProtocolInv
  BY InvInit, InvNext, PTL DEF Spec

(* Honest parties never accuse each other: every hash that a party of the  *)
(* four-party protocols sends is that of the value the other one sent.     *)
THEOREM HonestRunsAlwaysPass == Spec => []HonestRunsPass
<1>1. ProtocolInv => HonestRunsPass
  BY DEF ProtocolInv, HonestWorld, Honest, HonestRunsPass
<1>2. QED
  BY <1>1, ProtocolInvariant, PTL

(* All holders of a common generator have always drawn from it equally     *)
(* often.                                                                  *)
THEOREM GeneratorsAlwaysInStep == Spec => []GeneratorsInStep
<1>1. ProtocolInv => GeneratorsInStep
  BY DEF ProtocolInv, HonestWorld, Honest, InStep, GeneratorsInStep
<1>2. QED
  BY <1>1, ProtocolInvariant, PTL

(* A share that several parties hold is always the same at all of them,    *)
(* and everything is of its type.                                          *)
THEOREM ReplicasAlwaysAgree == Spec => []ReplicasAgree
<1>1. ProtocolInv => ReplicasAgree
  <2> SUFFICES ASSUME ProtocolInv PROVE ReplicasAgree
    OBVIOUS
  <2> DEFINE n == Parties(proto)  rep == Replication(proto)
  <2>1. ASSUME NEW reg, Register(reg)
        PROVE  /\ reg \in RegType /\ DOMAIN reg.sh = 0 .. n - 1
               /\ \A p, q \in DOMAIN reg.sh : \A i, j \in 1 .. rep : (p + i) % n = (q + j) % n => reg.sh[p][i] = reg.sh[q][j]
    <3> DEFINE a == reg.kind  b == reg.prec  c == reg.sh
    <3>1. reg = [kind |-> a, prec |-> b, sh |-> c] /\ a \in Kinds /\ b \in 0 .. Width
      BY <2>1 DEF Register
    <3>2. /\ c \in [0 .. n - 1 -> [1 .. rep -> Word]]
          /\ \A p, q \in 0 .. n - 1 : \A i, j \in 1 .. rep : (p + i) % n = (q + j) % n => c[p][i] = c[q][j]
      BY <2>1 DEF Register, Shared, Replicated, Words
    <3> HIDE DEF a, b, c, n, rep
    <3>3. reg \in [kind : Kinds, prec : 0 .. Width, sh : [0 .. n - 1 -> [1 .. rep -> Word]]]
      BY <3>1, <3>2
    <3>4. DOMAIN c = 0 .. n - 1
      BY <3>2
    <3>5. /\ reg \in RegType /\ DOMAIN c = 0 .. n - 1
          /\ \A p, q \in DOMAIN c : \A i, j \in 1 .. rep : (p + i) % n = (q + j) % n => c[p][i] = c[q][j]
      BY <3>2, <3>3, <3>4 DEF RegType, n, rep
    <3>6. QED
      BY <3>5 DEF c
  <2>2. Register(x) /\ Register(y)
    BY DEF ProtocolInv
  <2>3. DOMAIN r.pos = 0 .. n - 1 /\ \A p \in 0 .. n - 1 : r.pos[p] \in [HeldBy(n, p) -> Nat]
    BY DEF ProtocolInv, HonestWorld, Honest, Positions
  <2>4. TypeOK
    BY <2>1, <2>2, <2>3 DEF ProtocolInv, TypeOK
  <2> HIDE DEF n, rep
  <2>5. \A reg \in {x, y} : \A p, q \in DOMAIN reg.sh : \A i, j \in 1 .. rep :
           (p + i) % n = (q + j) % n => reg.sh[p][i] = reg.sh[q][j]
    BY <2>1, <2>2
  <2>6. QED
    BY <2>4, <2>5 DEF ReplicasAgree, n, rep
<1>2. QED
  BY <1>1, ProtocolInvariant, PTL

(* Every party always opens the value that all the shares add up to.       *)
THEOREM AllAlwaysOpenTheValue == Spec => []AllOpenTheValue
<1>1. ProtocolInv => AllOpenTheValue
  <2> SUFFICES ASSUME ProtocolInv, NEW reg \in {x, y}, NEW p \in DOMAIN reg.sh
               PROVE  Open(reg.kind, reg.sh)[p] = Reconstruct(reg.kind, reg.sh)
    BY DEF AllOpenTheValue
  <2> DEFINE k == reg.kind  u == reg.sh
  <2>1. proto \in Protos /\ k \in Kinds /\ Shared(u) /\ p \in DOMAIN u
    BY DEF ProtocolInv, Register
  <2>2. DOMAIN u = 0 .. Parties(proto) - 1
    BY <2>1 DEF Shared, Replicated, Words
  <2> HIDE DEF k, u
  <2>3. CASE proto = "2PC"
    <3>1. Replicated(2, 1, u) /\ p \in 0 .. 1
      BY <2>1, <2>2, <2>3, SharedOf, Sizes
    <3>2. QED
      BY <2>1, <2>3, <3>1, OpenTwo DEF Open, k, u
  <2>4. CASE proto = "3PC"
    <3>1. Replicated(3, 2, u) /\ p \in 0 .. 2
      BY <2>1, <2>2, <2>4, SharedOf, Sizes
    <3>2. QED
      BY <2>1, <2>4, <3>1, OpenThree DEF Open, k, u
  <2>5. CASE proto = "C4"
    <3>1. Replicated(4, 3, u) /\ p \in 0 .. 3
      BY <2>1, <2>2, <2>5, SharedOf, Sizes
    <3>2. QED
      BY <2>1, <2>5, <3>1, OpenFour DEF Open, k, u
  <2>6. CASE proto = "F4"
    <3>1. Replicated(4, 3, u) /\ p \in 0 .. 3
      BY <2>1, <2>2, <2>6, SharedOf, Sizes
    <3>2. QED
      BY <2>1, <2>6, <3>1, OpenFour DEF Open, k, u
  <2>7. QED
    BY <2>1, <2>3, <2>4, <2>5, <2>6 DEF Protos
<1>2. QED
  BY <1>1, ProtocolInvariant, PTL

-----------------------------------------------------------------------------
(***************************************************************************)
(* What the operations compute, whichever protocol is compiled in.         *)
(***************************************************************************)
LEMMA MultiplyValue ==
    ASSUME proto \in Protos, NEW u, Shared(u), NEW v, Shared(v), NEW w, HonestWorld(w)
    PROVE  /\ Reconstruct("a", Multiply(u, v, w).z) = Times("a", Reconstruct("a", u), Reconstruct("a", v))
           /\ Reconstruct("b", And(u, v, w).z) = Times("b", Reconstruct("b", u), Reconstruct("b", v))
<1>0. "a" \in Kinds /\ "b" \in Kinds
  BY KindNames
<1>1. CASE proto = "2PC"
  <2>1. Multiply(u, v, w) = MultiplyBeaver("a", u, v, BeaverTriple("a", w))
    BY <1>1 DEF Multiply, multiply_2PC
  <2>2. And(u, v, w) = MultiplyBeaver("b", u, v, BeaverTriple("b", w))
    BY <1>1 DEF And, and_b_2PC
  <2>3. Replicated(2, 1, u) /\ Replicated(2, 1, v) /\ Honest(2, w)
    BY <1>1, SharedOf
  <2>4. \A k \in Kinds : Reconstruct(k, MultiplyBeaver(k, u, v, BeaverTriple(k, w)).z)
                           = Times(k, Reconstruct(k, u), Reconstruct(k, v))
    BY ONLY <2>3, MultiplyValue2
  <2>5. QED
    BY <1>0, <2>1, <2>2, <2>4
<1>2. CASE proto = "3PC"
  <2>1. Multiply(u, v, w) = Multiply3("a", <<u>>, <<v>>, w)
    BY <1>2 DEF Multiply, multiply_3PC
  <2>2. And(u, v, w) = Multiply3("b", <<u>>, <<v>>, w)
    BY <1>2 DEF And, and_b_3PC
  <2>3. Replicated(3, 2, u) /\ Replicated(3, 2, v) /\ Honest(3, w)
    BY <1>2, SharedOf
  <2>4. \A k \in Kinds : Reconstruct(k, Multiply3(k, <<u>>, <<v>>, w).z)
                           = Times(k, Reconstruct(k, u), Reconstruct(k, v))
    BY ONLY <2>3, MultiplyValues3
  <2>5. QED
    BY <1>0, <2>1, <2>2, <2>4
<1>3. CASE proto = "C4"
  <2>1. Multiply(u, v, w) = MultiplyC4("a", <<u>>, <<v>>, w)
    BY <1>3 DEF Multiply, multiply_C4
  <2>2. And(u, v, w) = MultiplyC4("b", <<u>>, <<v>>, w)
    BY <1>3 DEF And, and_b_C4
  <2>3. Replicated(4, 3, u) /\ Replicated(4, 3, v) /\ Honest(4, w)
    BY <1>3, SharedOf
  <2>4. \A k \in Kinds : Reconstruct(k, MultiplyC4(k, <<u>>, <<v>>, w).z)
                           = Times(k, Reconstruct(k, u), Reconstruct(k, v))
    BY ONLY <2>3, MultiplyValues4
  <2>5. QED
    BY <1>0, <2>1, <2>2, <2>4
<1>4. CASE proto = "F4"
  <2>1. Multiply(u, v, w) = generic_multiply("a", <<u>>, <<v>>, w)
    BY <1>4 DEF Multiply, multiply_F4
  <2>2. And(u, v, w) = generic_multiply("b", <<u>>, <<v>>, w)
    BY <1>4 DEF And, and_b_F4
  <2>3. Replicated(4, 3, u) /\ Replicated(4, 3, v) /\ Honest(4, w)
    BY <1>4, SharedOf
  <2>4. \A k \in Kinds : Reconstruct(k, generic_multiply(k, <<u>>, <<v>>, w).z)
                           = Times(k, Reconstruct(k, u), Reconstruct(k, v))
    BY ONLY <2>3, MultiplyValuesF
  <2>5. QED
    BY <1>0, <2>1, <2>2, <2>4
<1>5. QED
  BY <1>1, <1>2, <1>3, <1>4 DEF Protos

LEMMA ScalarValue ==
    ASSUME proto \in Protos, NEW u, Shared(u), NEW v, Shared(v), NEW w, HonestWorld(w)
    PROVE  LET X == <<u, v>>
               Y == <<v, u>>
               xy == Times("a", Reconstruct("a", u), Reconstruct("a", v))
           IN  /\ Reconstruct("a", Matrix(X, Y, w).z) = Plus("a", xy, xy)
               /\ Reconstruct("a", Conv(X, Y, w).z) = Plus("a", xy, xy)
               /\ proto = "3PC" => Reconstruct("a", dot_product_3PC(X, Y, w).z) = Plus("a", xy, xy)
               /\ proto = "F4" => Reconstruct("a", dot_product_F4(X, Y, w).z) = Plus("a", xy, xy)
<1> DEFINE X == <<u, v>>
           Y == <<v, u>>
           xy == Times("a", Reconstruct("a", u), Reconstruct("a", v))
<1>0. "a" \in Kinds
  BY KindNames
<1>1. CASE proto = "2PC"
  <2>1. Matrix(X, Y, w) = ProductSum_2PC(X, Y, w) /\ Conv(X, Y, w) = ProductSum_2PC(X, Y, w)
    BY <1>1 DEF Matrix, matrix_2PC, Conv, conv_2PC
  <2>2. Replicated(2, 1, u) /\ Replicated(2, 1, v) /\ Honest(2, w)
    BY <1>1, SharedOf
  <2>3. Reconstruct("a", ProductSum_2PC(X, Y, w).z) = Plus("a", xy, xy)
    BY ONLY <2>2, SumValue2
  <2> HIDE DEF X, Y, xy
  <2>4. /\ Reconstruct("a", Matrix(X, Y, w).z) = Plus("a", xy, xy)
        /\ Reconstruct("a", Conv(X, Y, w).z) = Plus("a", xy, xy)
    BY <2>1, <2>3
  <2>5. QED
    BY <1>1, <2>4 DEF X, Y, xy
<1>2. CASE proto = "3PC"
  <2>1. /\ Matrix(X, Y, w) = Multiply3("a", X, Y, w) /\ Conv(X, Y, w) = Multiply3("a", X, Y, w)
        /\ dot_product_3PC(X, Y, w) = Multiply3("a", X, Y, w)
    BY <1>2 DEF Matrix, matrix_3PC, Conv, conv_3PC, dot_product_3PC
  <2>2. Replicated(3, 2, u) /\ Replicated(3, 2, v) /\ Honest(3, w)
    BY <1>2, SharedOf
  <2>3. Reconstruct("a", Multiply3("a", X, Y, w).z) = Plus("a", xy, xy)
    BY ONLY <1>0, <2>2, MultiplyValues3
  <2> HIDE DEF X, Y, xy
  <2>4. /\ Reconstruct("a", Matrix(X, Y, w).z) = Plus("a", xy, xy)
        /\ Reconstruct("a", Conv(X, Y, w).z) = Plus("a", xy, xy)
        /\ Reconstruct("a", dot_product_3PC(X, Y, w).z) = Plus("a", xy, xy)
    BY <2>1, <2>3
  <2>5. QED
    BY <1>2, <2>4 DEF X, Y, xy
<1>3. CASE proto = "C4"
  <2>1. Matrix(X, Y, w) = MultiplyC4("a", X, Y, w) /\ Conv(X, Y, w) = MultiplyC4("a", X, Y, w)
    BY <1>3 DEF Matrix, matrix_C4, Conv, conv_C4
  <2>2. Replicated(4, 3, u) /\ Replicated(4, 3, v) /\ Honest(4, w)
    BY <1>3, SharedOf
  <2>3. Reconstruct("a", MultiplyC4("a", X, Y, w).z) = Plus("a", xy, xy)
    BY ONLY <1>0, <2>2, MultiplyValues4
  <2> HIDE DEF X, Y, xy
  <2>4. /\ Reconstruct("a", Matrix(X, Y, w).z) = Plus("a", xy, xy)
        /\ Reconstruct("a", Conv(X, Y, w).z) = Plus("a", xy, xy)
    BY <2>1, <2>3
  <2>5. QED
    BY <1>3, <2>4 DEF X, Y, xy
<1>4. CASE proto = "F4"
  <2>1. /\ Matrix(X, Y, w) = generic_multiply("a", X, Y, w) /\ Conv(X, Y, w) = generic_multiply("a", X, Y, w)
        /\ dot_product_F4(X, Y, w) = generic_multiply("a", X, Y, w)
    BY <1>4 DEF Matrix, matrix_F4, Conv, conv_F4, dot_product_F4
  <2>2. Replicated(4, 3, u) /\ Replicated(4, 3, v) /\ Honest(4, w)
    BY <1>4, SharedOf
  <2>3. Reconstruct("a", generic_multiply("a", X, Y, w).z) = Plus("a", xy, xy)
    BY ONLY <1>0, <2>2, MultiplyValuesF
  <2> HIDE DEF X, Y, xy
  <2>4. /\ Reconstruct("a", Matrix(X, Y, w).z) = Plus("a", xy, xy)
        /\ Reconstruct("a", Conv(X, Y, w).z) = Plus("a", xy, xy)
        /\ Reconstruct("a", dot_product_F4(X, Y, w).z) = Plus("a", xy, xy)
    BY <2>1, <2>3
  <2>5. QED
    BY <1>4, <2>4 DEF X, Y, xy
<1>5. QED
  BY <1>1, <1>2, <1>3, <1>4 DEF Protos

LEMMA DivValue ==
    ASSUME proto \in Protos, NEW u, Shared(u), NEW w, HonestWorld(w), NEW c \in Nat, c > 0
    PROVE  Divided(u, c, DivConst(u, c, w))
<1>1. CASE proto = "2PC"
  <2>1. Replicated(2, 1, u) /\ Honest(2, w) /\ 0 \in 0 .. Width
    BY <1>1, SharedOf, WidthAssumption
  <2>2. Divided(u, c, div_const_2PC(u, c, w))
    BY ONLY c \in Nat, c > 0, <2>1, LocalGood2
  <2>3. QED
    BY <1>1, <2>2 DEF DivConst
<1>2. CASE proto = "3PC"
  <2>1. Replicated(3, 2, u) /\ Honest(3, w)
    BY <1>2, SharedOf
  <2>2. Divided(u, c, div_const_3PC(u, c, w))
    BY <2>1, DivGood3
  <2>3. QED
    BY <1>2, <2>2 DEF DivConst
<1>3. CASE proto = "C4"
  <2>1. Replicated(4, 3, u) /\ Honest(4, w)
    BY <1>3, SharedOf
  <2>2. Divided(u, c, div_const_C4(u, c, w))
    BY <2>1, DivGood4
  <2>3. QED
    BY <1>3, <2>2 DEF DivConst
<1>4. CASE proto = "F4"
  <2>1. Replicated(4, 3, u) /\ Honest(4, w)
    BY <1>4, SharedOf
  <2>2. Divided(u, c, div_const_F4(u, c, w))
    BY <2>1, DivGoodF
  <2>3. QED
    BY <1>4, <2>2 DEF DivConst
<1>5. QED
  BY <1>1, <1>2, <1>3, <1>4 DEF Protos

LEMMA TruncateValue ==
    ASSUME proto \in Protos, NEW s, GoodResult(s), NEW d \in 0 .. Width
    PROVE  TruncatedTo(Reconstruct("a", s.z), d, Reconstruct("a", Truncate(s, d).z))
<1>1. Shared(s.z) /\ HonestWorld(s.r)
  BY DEF GoodResult
<1>2. CASE d = 0
  BY <1>2 DEF Truncate, TruncatedTo
<1>3. d > 0 => d \in 1 .. Width
  BY WidthAssumption
<1>4. ASSUME d > 0, proto = "2PC" PROVE TruncatedTo(Reconstruct("a", s.z), d, Reconstruct("a", Truncate(s, d).z))
  <2>1. Replicated(2, 1, s.z) /\ Honest(2, s.r) /\ 1 \in Nat /\ 1 > 0
    BY <1>1, <1>4, SharedOf
  <2>2. Shifted(s.z, d, truncate_2PC(s.z, d, s.r))
    BY ONLY <2>1, d \in 0 .. Width, LocalGood2
  <2>3. Truncate(s, d) = truncate_2PC(s.z, d, s.r)
    BY <1>4 DEF Truncate
  <2>4. QED
    BY <1>3, <1>4, <2>2, <2>3, ShiftedValues
<1>5. ASSUME d > 0, proto = "3PC" PROVE TruncatedTo(Reconstruct("a", s.z), d, Reconstruct("a", Truncate(s, d).z))
  <2>1. Replicated(3, 2, s.z) /\ Honest(3, s.r)
    BY <1>1, <1>5, SharedOf
  <2>2. Shifted(s.z, d, truncate_3PC(s.z, d, s.r))
    BY <2>1, TruncateGood3
  <2>3. Truncate(s, d) = truncate_3PC(s.z, d, s.r)
    BY <1>5 DEF Truncate
  <2>4. QED
    BY <1>3, <1>5, <2>2, <2>3, ShiftedValues
<1>6. Power[d] \in Nat /\ Power[d] > 0
  BY Powers
<1>7. \A t : Result(t.u, t.r).z = t.u
  BY ResultFields
<1>8. ASSUME d > 0, proto = "C4" PROVE TruncatedTo(Reconstruct("a", s.z), d, Reconstruct("a", Truncate(s, d).z))
  <2> DEFINE q == div_const_C4(s.z, Power[d], s.r)
  <2>1. Replicated(4, 3, s.z) /\ Honest(4, s.r)
    BY <1>1, <1>8, SharedOf
  <2>2. Divided(s.z, Power[d], q)
    BY <1>6, <2>1, DivGood4
  <2>3. Truncate(s, d) = Result(q.u, q.r)
    BY <1>8 DEF Truncate
  <2> HIDE DEF q
  <2>4. Truncate(s, d).z = q.u
    BY <1>7, <2>3
  <2>5. QED
    BY <1>3, <1>8, <2>2, <2>4, DividedByPower
<1>9. ASSUME d > 0, proto = "F4" PROVE TruncatedTo(Reconstruct("a", s.z), d, Reconstruct("a", Truncate(s, d).z))
  <2> DEFINE q == div_const_F4(s.z, Power[d], s.r)
  <2>1. Replicated(4, 3, s.z) /\ Honest(4, s.r)
    BY <1>1, <1>9, SharedOf
  <2>2. Divided(s.z, Power[d], q)
    BY <1>6, <2>1, DivGoodF
  <2>3. Truncate(s, d) = Result(q.u, q.r)
    BY <1>9 DEF Truncate
  <2> HIDE DEF q
  <2>4. Truncate(s, d).z = q.u
    BY <1>7, <2>3
  <2>5. QED
    BY <1>3, <1>9, <2>2, <2>4, DividedByPower
<1>10. d = 0 \/ d > 0
  OBVIOUS
<1>11. QED
  BY <1>2, <1>4, <1>5, <1>8, <1>9, <1>10 DEF Protos

\* Local operators, in terms of the number of parties.
LEMMA LocalValue ==
    ASSUME proto \in Protos, NEW u, Shared(u), NEW v, Shared(v), NEW k \in Kinds
    PROVE  /\ Reconstruct(k, u) \in Word
           /\ Reconstruct(k, PlusShares(k, u, v)) = Plus(k, Reconstruct(k, u), Reconstruct(k, v))
           /\ Reconstruct(k, MinusShares(k, u, v)) = Minus(k, Reconstruct(k, u), Reconstruct(k, v))
           /\ Reconstruct(k, ZeroShares(Parties(proto), Replication(proto))) = 0
           /\ Reconstruct("b", MaskShares(u)) = LowBit(Reconstruct("b", u))
<1> DEFINE n == Parties(proto)
<1>1. Size(n) /\ Replication(proto) = n - 1
  BY Sizes DEF Protos, Size
<1>2. Replicated(n, n - 1, u) /\ Replicated(n, n - 1, v)
  BY <1>1 DEF Shared
<1> HIDE DEF n
<1>3. Reconstruct(k, u) \in Word
  BY ONLY k \in Kinds, <1>1, <1>2, ValueType
<1>4. /\ Reconstruct(k, PlusShares(k, u, v)) = Plus(k, Reconstruct(k, u), Reconstruct(k, v))
      /\ Reconstruct(k, MinusShares(k, u, v)) = Minus(k, Reconstruct(k, u), Reconstruct(k, v))
  BY ONLY k \in Kinds, <1>1, <1>2, AddedValues
<1>5. Reconstruct(k, ZeroShares(n, n - 1)) = 0
  BY ONLY k \in Kinds, <1>1, ZeroValue
<1>6. Reconstruct("b", MaskShares(u)) = LowBit(Reconstruct("b", u))
  BY ONLY <1>1, <1>2, MaskedValue
<1>7. Reconstruct(k, ZeroShares(Parties(proto), Replication(proto))) = 0
  BY <1>1, <1>5 DEF n
<1>8. QED
  BY <1>3, <1>4, <1>6, <1>7

\* w is the sum of the products, truncated once or twice.
ProductsTo(p, d, w) ==
    \/ TruncatedTo(Plus("a", p, p), d, w)
    \/ \E i, j \in Word : TruncatedTo(p, d, i) /\ TruncatedTo(p, d, j) /\ w = Plus("a", i, j)

LEMMA DotValue ==
    ASSUME proto \in Protos, NEW u, Shared(u), NEW v, Shared(v), NEW w, HonestWorld(w), NEW d \in 0 .. Width
    PROVE  ProductsTo(Times("a", Reconstruct("a", u), Reconstruct("a", v)), d,
                      Reconstruct("a", DotProduct(<<u, v>>, <<v, u>>, d, w).z))
<1> DEFINE X == <<u, v>>
           Y == <<v, u>>
           s == Truncate(Multiply(u, v, w), d)
           t == Truncate(Multiply(v, u, s.r), d)
           xy == Times("a", Reconstruct("a", u), Reconstruct("a", v))
<1>1. CASE proto = "3PC"
  <2> DEFINE m == dot_product_3PC(X, Y, w)
  <2>1. GoodResult(m) /\ Reconstruct("a", m.z) = Plus("a", xy, xy)
    BY <1>1, ScalarKept, ScalarValue
  <2>2. DotProduct(X, Y, d, w) = Truncate(m, d)
    BY <1>1 DEF DotProduct
  <2> HIDE DEF m, X, Y, xy
  <2>3. TruncatedTo(Reconstruct("a", m.z), d, Reconstruct("a", Truncate(m, d).z))
    BY <2>1, TruncateValue
  <2>4. ProductsTo(xy, d, Reconstruct("a", DotProduct(X, Y, d, w).z))
    BY <2>1, <2>2, <2>3 DEF ProductsTo
  <2>5. QED
    BY <2>4 DEF X, Y, xy
<1>2. CASE proto = "F4"
  <2> DEFINE m == dot_product_F4(X, Y, w)
  <2>1. GoodResult(m) /\ Reconstruct("a", m.z) = Plus("a", xy, xy)
    BY <1>2, ScalarKept, ScalarValue
  <2>2. DotProduct(X, Y, d, w) = Truncate(m, d)
    BY <1>2 DEF DotProduct
  <2> HIDE DEF m, X, Y, xy
  <2>3. TruncatedTo(Reconstruct("a", m.z), d, Reconstruct("a", Truncate(m, d).z))
    BY <2>1, TruncateValue
  <2>4. ProductsTo(xy, d, Reconstruct("a", DotProduct(X, Y, d, w).z))
    BY <2>1, <2>2, <2>3 DEF ProductsTo
  <2>5. QED
    BY <2>4 DEF X, Y, xy
<1>3. CASE proto \notin {"3PC", "F4"}
  <2>1. DotProduct(X, Y, d, w) = Result(PlusShares("a", s.z, t.z), t.r)
    <3>1. X[1] = u /\ X[2] = v /\ Y[1] = v /\ Y[2] = u
      OBVIOUS
    <3>2. DotProduct(X, Y, d, w) = DotDefault(X, Y, d, w)
      BY <1>3 DEF DotProduct
    <3> HIDE DEF X, Y
    <3>3. QED
      BY <3>1, <3>2 DEF DotDefault
  <2>2. GoodResult(Multiply(u, v, w)) /\ Reconstruct("a", Multiply(u, v, w).z) = xy
    BY MultiplyKept, MultiplyValue
  <2>3. GoodResult(s) /\ TruncatedTo(xy, d, Reconstruct("a", s.z))
    <3> DEFINE m == Multiply(u, v, w)
    <3> HIDE DEF m, xy
    <3>1. GoodResult(m) /\ Reconstruct("a", m.z) = xy
      BY <2>2 DEF m
    <3>2. GoodResult(Truncate(m, d)) /\ TruncatedTo(Reconstruct("a", m.z), d, Reconstruct("a", Truncate(m, d).z))
      BY <3>1, TruncateKept, TruncateValue
    <3>3. QED
      BY <3>1, <3>2 DEF m
  <2> HIDE DEF s
  <2>4. HonestWorld(s.r)
    BY <2>3 DEF GoodResult
  <2>5. GoodResult(Multiply(v, u, s.r)) /\ Reconstruct("a", Multiply(v, u, s.r).z) = xy
    <3>1. Times("a", Reconstruct("a", v), Reconstruct("a", u)) = xy
      <4>1. Reconstruct("a", v) \in Word /\ Reconstruct("a", u) \in Word /\ "a" \in Kinds
        BY LocalValue, KindNames
      <4>2. \A i, j \in Word : Times("a", i, j) = Times("a", j, i)
        BY <4>1, RingLaws
      <4>3. QED
        BY <4>1, <4>2
    <3>2. /\ GoodResult(Multiply(v, u, s.r))
          /\ Reconstruct("a", Multiply(v, u, s.r).z) = Times("a", Reconstruct("a", v), Reconstruct("a", u))
      BY <2>4, MultiplyKept, MultiplyValue
    <3>3. QED
      BY <3>1, <3>2
  <2>6. GoodResult(t) /\ TruncatedTo(xy, d, Reconstruct("a", t.z))
    <3> DEFINE m == Multiply(v, u, s.r)
    <3> HIDE DEF m, xy
    <3>1. GoodResult(m) /\ Reconstruct("a", m.z) = xy
      BY <2>5 DEF m
    <3>2. GoodResult(Truncate(m, d)) /\ TruncatedTo(Reconstruct("a", m.z), d, Reconstruct("a", Truncate(m, d).z))
      BY <3>1, TruncateKept, TruncateValue
    <3>3. QED
      BY <3>1, <3>2 DEF m
  <2> HIDE DEF t, xy
  <2>7. Shared(s.z) /\ Shared(t.z)
    BY <2>3, <2>6 DEF GoodResult
  <2>8. /\ Reconstruct("a", s.z) \in Word /\ Reconstruct("a", t.z) \in Word
        /\ Reconstruct("a", PlusShares("a", s.z, t.z)) = Plus("a", Reconstruct("a", s.z), Reconstruct("a", t.z))
    BY <2>7, KindNames, LocalValue
  <2>9. DotProduct(X, Y, d, w).z = PlusShares("a", s.z, t.z)
    BY <2>1, ResultFields
  <2> HIDE DEF X, Y
  <2>10. ProductsTo(xy, d, Reconstruct("a", DotProduct(X, Y, d, w).z))
    BY <2>3, <2>6, <2>8, <2>9 DEF ProductsTo
  <2>11. QED
    BY <2>10 DEF X, Y, xy
<1>4. QED
  BY <1>1, <1>2, <1>3

\* not_b complements; not_b_1 complements a bit.
LEMMA NotValue ==
    ASSUME proto \in Protos, NEW u, Shared(u)
    PROVE  /\ Reconstruct("b", Not(u)) = BitNot(Reconstruct("b", u))
           /\ (\A p \in 0 .. Parties(proto) - 1 : u[p][1] \in {0, 1}) =>
                 Reconstruct("b", NotBit(u)) = BitXor(1, Reconstruct("b", u))
<1>1. CASE proto = "2PC"
  <2>1. Replicated(2, 1, u) /\ Honest(2, NewWorld(2, 0)) /\ 0 .. Parties(proto) - 1 = P2
    BY <1>1, SharedOf, NewHonest, Sizes DEF P2
  <2>2. /\ Reconstruct("b", not_b_2PC(u)) = BitNot(Reconstruct("b", u))
        /\ (\A p \in P2 : u[p][1] \in {0, 1}) =>
              Reconstruct("b", not_b_1_2PC(u)) = BitXor(1, Reconstruct("b", u))
    BY ONLY <2>1, NotValue2
  <2>3. Not(u) = not_b_2PC(u) /\ NotBit(u) = not_b_1_2PC(u)
    BY <1>1 DEF Not, NotBit
  <2>4. QED
    BY <2>1, <2>2, <2>3
<1>2. CASE proto = "3PC"
  <2>1. Replicated(3, 2, u) /\ 0 .. Parties(proto) - 1 = P3
    BY <1>2, SharedOf, Sizes DEF P3
  <2>2. /\ Reconstruct("b", not_b_3PC(u)) = BitNot(Reconstruct("b", u))
        /\ (\A p \in P3 : u[p][1] \in {0, 1}) =>
              Reconstruct("b", not_b_1_3PC(u)) = BitXor(1, Reconstruct("b", u))
    BY ONLY <2>1, NotValue3
  <2>3. Not(u) = not_b_3PC(u) /\ NotBit(u) = not_b_1_3PC(u)
    BY <1>2 DEF Not, NotBit
  <2>4. QED
    BY <2>1, <2>2, <2>3
<1>3. CASE proto \in {"C4", "F4"}
  <2>1. Replicated(4, 3, u) /\ 0 .. Parties(proto) - 1 = 0 .. 3
    BY <1>3, SharedOf, Sizes
  <2>2. /\ Reconstruct("b", not_b_C4(u)) = BitNot(Reconstruct("b", u))
        /\ Reconstruct("b", not_b_F4(u)) = BitNot(Reconstruct("b", u))
        /\ (\A p \in 0 .. 3 : u[p][1] \in {0, 1}) =>
              /\ Reconstruct("b", not_b_1_C4(u)) = BitXor(1, Reconstruct("b", u))
              /\ Reconstruct("b", not_b_1_F4(u)) = BitXor(1, Reconstruct("b", u))
    BY ONLY <2>1, NotValues4
  <2>3. \/ Not(u) = not_b_C4(u) /\ NotBit(u) = not_b_1_C4(u)
        \/ Not(u) = not_b_F4(u) /\ NotBit(u) = not_b_1_F4(u)
    BY <1>3 DEF Not, NotBit
  <2>4. QED
    BY <2>1, <2>2, <2>3
<1>4. QED
  BY <1>1, <1>2, <1>3 DEF Protos

LEMMA NotBitValue ==
    ASSUME proto \in Protos, NEW u, Shared(u)
    PROVE  Reconstruct("b", NotBit(MaskShares(u))) = 1 - LowBit(Reconstruct("b", u))
<1> DEFINE m == MaskShares(u)
<1>1. "b" \in Kinds
  BY KindNames
<1>2. Shared(m) /\ Reconstruct("b", m) = LowBit(Reconstruct("b", u)) /\ Reconstruct("b", u) \in Word
  BY <1>1, LocalKept, LocalValue
<1>3. \A p \in 0 .. Parties(proto) - 1 : m[p][1] \in {0, 1}
  <2>1. TAKE p \in 0 .. Parties(proto) - 1
  <2>2. u \in [0 .. Parties(proto) - 1 -> [1 .. Replication(proto) -> Word]]
    BY DEF Shared, Replicated, Words
  <2>3. 1 \in 1 .. Replication(proto)
    BY Sizes DEF Protos
  <2>4. u[p][1] \in Word /\ m[p][1] = LowBit(u[p][1])
    BY <2>2, <2>3 DEF MaskShares
  <2>5. QED
    BY <2>4, LowBits
<1> HIDE DEF m
<1>4. Reconstruct("b", NotBit(m)) = BitXor(1, Reconstruct("b", m))
  BY <1>2, <1>3, NotValue
<1>5. LowBit(Reconstruct("b", u)) \in {0, 1}
  BY <1>2, LowBits
<1>6. BitXor(1, LowBit(Reconstruct("b", u))) = 1 - LowBit(Reconstruct("b", u))
  BY <1>5, LogicalNotIsXor
<1>7. QED
  BY <1>2, <1>4, <1>6 DEF m

LEMMA BitValue ==
    ASSUME proto \in Protos, NEW u, Shared(u), NEW w, HonestWorld(w)
    PROVE  /\ Reconstruct("a", BitToArithmetic(u, w).z) = LowBit(Reconstruct("b", u))
           /\ SplitInTwo(u, Redistribute(u, w))
<1>1. CASE proto = "2PC"
  <2>1. Replicated(2, 1, u) /\ Honest(2, w)
    BY <1>1, SharedOf
  <2>2. Reconstruct("a", b2a_bit_2PC(u, w).z) = BitOf(u) /\ SplitInTwo(u, redistribute_2PC(u, w))
    BY <2>1, BitGood2, RedistributeGood2
  <2>3. QED
    BY <1>1, <2>2 DEF BitToArithmetic, Redistribute, BitOf
<1>2. CASE proto = "3PC"
  <2>1. Replicated(3, 2, u) /\ Honest(3, w)
    BY <1>2, SharedOf
  <2>2. Reconstruct("a", b2a_bit_3PC(u, w).z) = BitOf(u) /\ SplitInTwo(u, redistribute_3PC(u, w))
    BY <2>1, BitGood3, RedistributeGood3
  <2>3. QED
    BY <1>2, <2>2 DEF BitToArithmetic, Redistribute, BitOf
<1>3. CASE proto = "C4"
  <2>1. Replicated(4, 3, u) /\ Honest(4, w)
    BY <1>3, SharedOf
  <2>2. Reconstruct("a", b2a_bit_C4(u, w).z) = BitOf(u) /\ SplitInTwo(u, redistribute_C4(u, w))
    BY <2>1, BitGood4, RedistributeGood4
  <2>3. QED
    BY <1>3, <2>2 DEF BitToArithmetic, Redistribute, BitOf
<1>4. CASE proto = "F4"
  <2>1. Replicated(4, 3, u) /\ Honest(4, w)
    BY <1>4, SharedOf
  <2>2. Reconstruct("a", b2a_bit_F4(u, w).z) = BitOf(u) /\ SplitInTwo(u, redistribute_F4(u, w))
    BY <2>1, BitGoodF, RedistributeGoodF
  <2>3. QED
    BY <1>4, <2>2 DEF BitToArithmetic, Redistribute, BitOf
<1>5. QED
  BY <1>1, <1>2, <1>3, <1>4 DEF Protos

LEMMA ShareValue ==
    ASSUME proto \in Protos, NEW k \in Kinds, NEW a \in Word, NEW who \in 0 .. 3, who < Parties(proto),
           NEW w, HonestWorld(w)
    PROVE  Reconstruct(k, SecretShare(k, a, who, w).z) = a
<1>1. CASE proto = "2PC"
  <2>1. Honest(2, w) /\ who \in P2
    BY <1>1, SharedOf, Sizes DEF P2
  <2>2. Reconstruct(k, secret_share_2PC(k, a, who, w).z) = a
    BY <2>1, ShareGood2
  <2>3. QED
    BY <1>1, <2>2 DEF SecretShare
<1>2. CASE proto = "3PC"
  <2>1. Honest(3, w) /\ who \in P3
    BY <1>2, SharedOf, Sizes DEF P3
  <2>2. Reconstruct(k, secret_share_3PC(k, a, who, w).z) = a
    BY <2>1, ShareGood3
  <2>3. QED
    BY <1>2, <2>2 DEF SecretShare
<1>3. CASE proto = "C4"
  <2>1. Honest(4, w)
    BY <1>3, SharedOf
  <2>2. Reconstruct(k, secret_share_C4(k, a, who, w).z) = a
    BY <2>1, ShareGood4 DEF Carries
  <2>3. QED
    BY <1>3, <2>2 DEF SecretShare
<1>4. CASE proto = "F4"
  <2>1. Honest(4, w)
    BY <1>4, SharedOf
  <2>2. Reconstruct(k, secret_share_F4(k, a, who, w).z) = a
    BY <2>1, ShareGoodF DEF Carries
  <2>3. QED
    BY <1>4, <2>2 DEF SecretShare
<1>5. QED
  BY <1>1, <1>2, <1>3, <1>4 DEF Protos

LEMMA PublicValue ==
    ASSUME proto \in Protos, NEW k \in Kinds, NEW a \in Word, NEW K \in MayKnow
    PROVE  Reconstruct(k, PublicShare(a, K)) = a
<1>1. CASE proto = "2PC"
  <2>1. K \in {{}, {0}, {1}}
    BY <1>1 DEF MayKnow
  <2>2. Reconstruct(k, public_share_2PC(a, K)) = a
    BY <2>1, PublicValue2
  <2>3. QED
    BY <1>1, <2>2 DEF PublicShare
<1>2. CASE proto = "3PC"
  <2>1. K \in {{}, {0, 1}, {0, 2}, {1, 2}}
    BY <1>2, GroupsThree DEF MayKnow
  <2>2. Reconstruct(k, public_share_3PC(a, K)) = a
    BY <2>1, PublicValue3
  <2>3. QED
    BY <1>2, <2>2 DEF PublicShare
<1>3. CASE proto = "C4"
  <2>2. Reconstruct(k, public_share_C4(a)) = a
    BY PublicValue4
  <2>3. QED
    BY <1>3, <2>2 DEF PublicShare
<1>4. CASE proto = "F4"
  <2>1. K \in {{}} \cup Groups(4)
    BY <1>4 DEF MayKnow
  <2>2. Reconstruct(k, public_share_F4(a, K)) = a
    BY <2>1, PublicValueF
  <2>3. QED
    BY <1>4, <2>2 DEF PublicShare
<1>5. QED
  BY <1>1, <1>2, <1>3, <1>4 DEF Protos

LEMMA ReshareValue ==
    ASSUME proto \in Protos, NEW k \in Kinds, NEW u, Shared(u), NEW G \in Groups(Parties(proto)),
           NEW w, HonestWorld(w)
    PROVE  Reconstruct(k, Reshare(k, u, G, w).z) = Reconstruct(k, u)
<1>1. CASE proto = "2PC"
  BY <1>1, GroupsThree, Sizes
<1>2. CASE proto = "3PC"
  <2> DEFINE s == reshare(3, k, u, G, w)
  <2>1. Replicated(3, 2, u) /\ Honest(3, w) /\ G \in Groups(3)
    BY <1>2, SharedOf, Sizes
  <2>2. Good(3, 2, s) /\ AddsZero(3, k, u, G, s.z)
    BY <2>1, ReshareGood3
  <2>3. Reshare(k, u, G, w) = s
    BY <1>2 DEF Reshare
  <2> HIDE DEF s
  <2>4. Replicated(3, 2, s.z)
    BY <2>2 DEF Good
  <2>5. Reconstruct(k, s.z) = Reconstruct(k, u)
    BY <2>1, <2>2, <2>4, ReshareValue3
  <2>6. QED
    BY <2>3, <2>5
<1>3. CASE proto = "C4"
  <2> DEFINE s == reshare_C4(k, u, G, w)
  <2>1. Replicated(4, 3, u) /\ Honest(4, w) /\ G \in Groups(4)
    BY <1>3, SharedOf, Sizes
  <2>2. Good(4, 3, s) /\ AddsZero(4, k, u, G, s.z)
    BY <2>1, ReshareGood4
  <2>3. Reshare(k, u, G, w) = s
    BY <1>3 DEF Reshare
  <2> HIDE DEF s
  <2>4. Replicated(4, 3, s.z)
    BY <2>2 DEF Good
  <2>5. Reconstruct(k, s.z) = Reconstruct(k, u)
    BY <2>1, <2>2, <2>4, ReshareValue4
  <2>6. QED
    BY <2>3, <2>5
<1>4. CASE proto = "F4"
  <2> DEFINE s == reshare_F4(k, u, G, w)
  <2>1. Replicated(4, 3, u) /\ Honest(4, w) /\ G \in Groups(4)
    BY <1>4, SharedOf, Sizes
  <2>2. Good(4, 3, s) /\ AddsZero(4, k, u, G, s.z)
    BY <2>1, ReshareGoodF
  <2>3. Reshare(k, u, G, w) = s
    BY <1>4 DEF Reshare
  <2> HIDE DEF s
  <2>4. Replicated(4, 3, s.z)
    BY <2>2 DEF Good
  <2>5. Reconstruct(k, s.z) = Reconstruct(k, u)
    BY <2>1, <2>2, <2>4, ReshareValue4
  <2>6. QED
    BY <2>3, <2>5
<1>5. QED
  BY <1>1, <1>2, <1>3, <1>4 DEF Protos

-----------------------------------------------------------------------------
(***************************************************************************)
(* The plain machine computes in the same ring.                            *)
(***************************************************************************)
LEMMA SameRing ==
    /\ Plain!Power = Power /\ Plain!Modulus = Modulus /\ Plain!Word = Word /\ Plain!Kinds = Kinds
    /\ Plain!AndTable = AndTable
<1>1. Plain!Power = Power
  BY Zenon DEF Plain!Power, Power
<1>2. Plain!Modulus = Modulus /\ Plain!Word = Word /\ Plain!Kinds = Kinds
  BY <1>1, Zenon DEF Plain!Modulus, Modulus, Plain!Word, Word, Plain!Kinds, Kinds
<1>3. Plain!AndTable = AndTable
  BY Zenon DEF Plain!AndTable, AndTable, Plain!Word, Word, Plain!Modulus, Modulus, Plain!Power, Power
<1>4. QED
  BY <1>1, <1>2, <1>3

LEMMA SameOperations ==
    ASSUME NEW k, NEW a, NEW b
    PROVE  /\ Plain!Wrap(a) = Wrap(a) /\ Plain!BitAnd(a, b) = BitAnd(a, b) /\ Plain!BitXor(a, b) = BitXor(a, b)
           /\ Plain!BitNot(a) = BitNot(a) /\ Plain!Plus(k, a, b) = Plus(k, a, b)
           /\ Plain!Minus(k, a, b) = Minus(k, a, b) /\ Plain!Times(k, a, b) = Times(k, a, b)
           /\ Plain!Signed(a) = Signed(a) /\ Plain!LowBit(a) = LowBit(a)
  BY SameRing, Zenon DEF Plain!Wrap, Wrap, Plain!BitAnd, BitAnd, Plain!BitXor, BitXor, Plain!BitNot, BitNot,
     Plain!Plus, Plus, Plain!Minus, Minus, Plain!Times, Times, Plain!Signed, Signed, Plain!LowBit, LowBit

\* What the lemmas on values call rounding is what the plain machine allows.
LEMMA RoundedIsQuotient ==
    ASSUME NEW v, NEW c, NEW E, NEW h \in E, NEW w, Rounded(v, c, h, w)
    PROVE  w \in Plain!Quotients(v, c, E)
<1>1. PICK g \in Lifted(v) : (g - h) % c = 0 /\ w = Wrap((g - h) \div c)
  BY DEF Rounded
<1>2. Plain!Lifts(v) = Lifted(v)
  BY SameRing, SameOperations, Zenon DEF Plain!Lifts, Lifted
<1> DEFINE G == {f \in Plain!Lifts(v) \X E : (f[1] - f[2]) % c = 0}
<1>3. <<g, h>> \in G
  BY <1>1, <1>2
<1>4. w = Plain!Wrap((<<g, h>>[1] - <<g, h>>[2]) \div c)
  BY <1>1, SameOperations
<1>5. Plain!Quotients(v, c, E) = {Plain!Wrap((f[1] - f[2]) \div c) : f \in G}
  BY DEF Plain!Quotients
<1> HIDE DEF G
<1>6. QED
  BY <1>3, <1>4, <1>5

LEMMA TruncatedIsTruncation ==
    ASSUME NEW v, NEW d \in 0 .. Width, NEW w, TruncatedTo(v, d, w)
    PROVE  w \in Plain!Truncations(v, d)
<1>1. CASE d = 0
  BY <1>1 DEF TruncatedTo, Plain!Truncations
<1>2. CASE d > 0
  <2>1. PICK h \in 0 .. 2 * Power[d] : Rounded(v, Power[d], h, w)
    BY <1>2 DEF TruncatedTo
  <2>2. w \in Plain!Quotients(v, Power[d], 0 .. 2 * Power[d])
    BY <2>1, RoundedIsQuotient
  <2>3. QED
    BY <1>2, <2>2, SameRing DEF Plain!Truncations
<1>3. QED
  BY <1>1, <1>2

LEMMA ProductsAreSums ==
    ASSUME NEW p \in Word, NEW d \in 0 .. Width, NEW w, ProductsTo(p, d, w)
    PROVE  w \in Plain!Truncations(Plain!Wrap(p + p), d)
                 \cup {Plain!Wrap(q[1] + q[2]) : q \in Plain!Truncations(p, d) \X Plain!Truncations(p, d)}
<1>1. CASE TruncatedTo(Plus("a", p, p), d, w)
  <2>1. Plus("a", p, p) = Plain!Wrap(p + p)
    BY SameOperations DEF Plus
  <2>2. w \in Plain!Truncations(Plus("a", p, p), d)
    BY <1>1, TruncatedIsTruncation
  <2>3. QED
    BY <2>1, <2>2
<1>2. CASE \E i, j \in Word : TruncatedTo(p, d, i) /\ TruncatedTo(p, d, j) /\ w = Plus("a", i, j)
  <2>1. PICK i, j \in Word : TruncatedTo(p, d, i) /\ TruncatedTo(p, d, j) /\ w = Plus("a", i, j)
    BY <1>2
  <2> DEFINE T == Plain!Truncations(p, d)
  <2>2. i \in T /\ j \in T
    BY <2>1, TruncatedIsTruncation
  <2>3. w = Plain!Wrap(<<i, j>>[1] + <<i, j>>[2])
    BY <2>1, SameOperations DEF Plus
  <2> HIDE DEF T
  <2>4. w \in {Plain!Wrap(q[1] + q[2]) : q \in T \X T}
    BY <2>2, <2>3
  <2>5. QED
    BY <2>4 DEF T
<1>3. QED
  BY <1>1, <1>2 DEF ProductsTo

(***************************************************************************)
(* Every operation of the parties is the plain operation on the values     *)
(* that their shares reconstruct to.                                       *)
(***************************************************************************)
LEMMA PlainPush ==
    ASSUME NEW name, Begin(name), NEW k, NEW d, NEW s, Push(k, d, s)
    PROVE  /\ Plain!Does(name)
           /\ Plain!Push(Plain!Reg(k, d, Reconstruct(k, s.z)))
<1>1. x' = [kind |-> k, prec |-> d, sh |-> s.z] /\ y' = x /\ op' = name
  BY DEF Begin, Push, Reg
<1>2. PlainReg(x)' = [kind |-> k, prec |-> d, val |-> Reconstruct(k, s.z)]
  BY <1>1 DEF PlainReg
<1>3. PlainReg(y)' = PlainReg(x)
  BY <1>1 DEF PlainReg
<1>4. QED
  BY <1>1, <1>2, <1>3 DEF Plain!Does, Plain!Push, Plain!Reg

LEMMA PlainPushTwo ==
    ASSUME NEW name, Begin(name), NEW k, NEW s, PushTwo(k, s)
    PROVE  /\ Plain!Does(name)
           /\ PlainReg(x)' = Plain!Reg(k, 0, Reconstruct(k, s.u))
           /\ PlainReg(y)' = Plain!Reg(k, 0, Reconstruct(k, s.v))
<1>1. x' = [kind |-> k, prec |-> 0, sh |-> s.u] /\ y' = [kind |-> k, prec |-> 0, sh |-> s.v] /\ op' = name
  BY DEF Begin, PushTwo, Reg
<1>2. PlainReg(x)' = [kind |-> k, prec |-> 0, val |-> Reconstruct(k, s.u)]
  BY <1>1 DEF PlainReg
<1>3. PlainReg(y)' = [kind |-> k, prec |-> 0, val |-> Reconstruct(k, s.v)]
  BY <1>1 DEF PlainReg
<1>4. QED
  BY <1>1, <1>2, <1>3 DEF Plain!Does, Plain!Reg

LEMMA PlainFields ==
    /\ PlainReg(x).kind = x.kind /\ PlainReg(x).prec = x.prec /\ PlainReg(x).val = Reconstruct(x.kind, x.sh)
    /\ PlainReg(y).kind = y.kind /\ PlainReg(y).prec = y.prec /\ PlainReg(y).val = Reconstruct(y.kind, y.sh)
  BY DEF PlainReg

LEMMA PlainInit == Init => Plain!Init
<1> SUFFICES ASSUME Init PROVE Plain!Init
  OBVIOUS
<1> DEFINE u == ZeroShares(Parties(proto), Replication(proto))
<1>1. proto \in Protos /\ x = [kind |-> "a", prec |-> 0, sh |-> u] /\ y = x /\ op = "init"
  BY DEF Init, Reg
<1>2. ProtocolInv
  BY InvInit
<1>3. Shared(x.sh)
  BY <1>2 DEF ProtocolInv, Register
<1>4. Reconstruct("a", u) = 0
  BY <1>1, <1>3, KindNames, LocalValue
<1> HIDE DEF u
<1>5. PlainReg(x) = [kind |-> "a", prec |-> 0, val |-> 0]
  BY <1>1, <1>4 DEF PlainReg
<1>6. PlainReg(y) = PlainReg(x)
  BY <1>1 DEF PlainReg
<1>7. QED
  BY <1>1, <1>5, <1>6 DEF Plain!Init, Plain!Reg

LEMMA PlainShare ==
    ASSUME ProtocolInv, NEW k \in Kinds, NEW d \in Precisions, NEW i \in {j \in Inputs : j[1] < Parties(proto)},
           k = "b" => d = 0, secret_share(k, d, i[2], i[1])
    PROVE  Plain!secret_share
<1>1. i \in Inputs /\ i[1] \in 0 .. 3 /\ i[2] \in Word /\ i[1] < Parties(proto)
  BY ProtocolsAssumption
<1>2. proto \in Protos /\ HonestWorld(r)
  BY DEF ProtocolInv
<1> DEFINE v == i[2]
           s == SecretShare(k, v, i[1], r)
<1>3. Reconstruct(k, s.z) = v
  BY <1>1, <1>2, ShareValue
<1>4. Begin("secret_share") /\ Push(k, d, s)
  BY DEF secret_share
<1>5. v \in Data
  BY <1>1 DEF Data
<1> HIDE DEF s, v
<1>6. Plain!Does("secret_share") /\ Plain!Push(Plain!Reg(k, d, v))
  BY <1>3, <1>4, PlainPush
<1>7. k \in Plain!Kinds
  BY SameRing
<1>8. QED
  BY <1>5, <1>6, <1>7 DEF Plain!secret_share

LEMMA PlainPublic ==
    ASSUME ProtocolInv, NEW k \in Kinds, NEW v \in Public, NEW K \in MayKnow, public_share(k, v, K)
    PROVE  Plain!public_share
<1>1. v \in Word /\ v \in Data
  BY ProtocolsAssumption DEF Data
<1>2. proto \in Protos
  BY DEF ProtocolInv
<1> DEFINE s == Result(PublicShare(v, K), r)
<1>3. Reconstruct(k, s.z) = v
  BY <1>1, <1>2, PublicValue, ResultFields
<1>4. Begin("public_share") /\ Push(k, 0, s)
  BY DEF public_share
<1> HIDE DEF s
<1>5. Plain!Does("public_share") /\ Plain!Push(Plain!Reg(k, 0, v))
  BY <1>3, <1>4, PlainPush
<1>6. k \in Plain!Kinds
  BY SameRing
<1>7. QED
  BY <1>1, <1>5, <1>6 DEF Plain!public_share

LEMMA PlainLocal ==
    ASSUME ProtocolInv
    PROVE  /\ (add_a => Plain!add_a) /\ (sub_a => Plain!sub_a) /\ (neg_a => Plain!neg_a)
           /\ (xor_b => Plain!xor_b) /\ (not_b => Plain!not_b) /\ (not_b_1 => Plain!not_b_1)
<1> DEFINE X == Reconstruct(x.kind, x.sh)
           Y == Reconstruct(y.kind, y.sh)
           zero == ZeroShares(Parties(proto), Replication(proto))
<1>1. proto \in Protos /\ Shared(x.sh) /\ Shared(y.sh) /\ "a" \in Kinds /\ "b" \in Kinds
  BY KindNames DEF ProtocolInv, Register
<1>2. \A u, w : Result(u, w).z = u
  BY ResultFields
<1>3. ASSUME add_a PROVE Plain!add_a
  <2>1. /\ Begin("add_a") /\ Push("a", x.prec, Result(PlusShares("a", x.sh, y.sh), r))
        /\ x.kind = "a" /\ y.kind = "a"
    BY <1>3 DEF add_a, BothOf
  <2>2. Reconstruct("a", PlusShares("a", x.sh, y.sh)) = Plain!Plus("a", X, Y)
    BY <1>1, <2>1, LocalValue, SameOperations
  <2>3. Plain!Does("add_a") /\ Plain!Push(Plain!Reg("a", x.prec, Plain!Plus("a", X, Y)))
    BY <1>2, <2>1, <2>2, PlainPush
  <2>4. QED
    BY <2>1, <2>3, PlainFields DEF Plain!add_a, Plain!Both
<1>4. ASSUME sub_a PROVE Plain!sub_a
  <2>1. /\ Begin("sub_a") /\ Push("a", x.prec, Result(MinusShares("a", x.sh, y.sh), r))
        /\ x.kind = "a" /\ y.kind = "a"
    BY <1>4 DEF sub_a, BothOf
  <2>2. Reconstruct("a", MinusShares("a", x.sh, y.sh)) = Plain!Minus("a", X, Y)
    BY <1>1, <2>1, LocalValue, SameOperations
  <2>3. Plain!Does("sub_a") /\ Plain!Push(Plain!Reg("a", x.prec, Plain!Minus("a", X, Y)))
    BY <1>2, <2>1, <2>2, PlainPush
  <2>4. QED
    BY <2>1, <2>3, PlainFields DEF Plain!sub_a, Plain!Both
<1>5. ASSUME neg_a PROVE Plain!neg_a
  <2>1. Begin("neg_a") /\ Push("a", x.prec, Result(MinusShares("a", zero, x.sh), r)) /\ x.kind = "a"
    BY <1>5 DEF neg_a
  <2>2. Shared(zero) /\ Reconstruct("a", zero) = 0
    BY <1>1, LocalKept, LocalValue
  <2> HIDE DEF zero
  <2>3. Reconstruct("a", MinusShares("a", zero, x.sh)) = Plain!Minus("a", 0, X)
    BY <1>1, <2>1, <2>2, LocalValue, SameOperations
  <2>4. Plain!Does("neg_a") /\ Plain!Push(Plain!Reg("a", x.prec, Plain!Minus("a", 0, X)))
    BY <1>2, <2>1, <2>3, PlainPush
  <2>5. QED
    BY <2>1, <2>4, PlainFields DEF Plain!neg_a
<1>6. ASSUME xor_b PROVE Plain!xor_b
  <2>1. /\ Begin("xor_b") /\ Push("b", x.prec, Result(PlusShares("b", x.sh, y.sh), r))
        /\ x.kind = "b" /\ y.kind = "b"
    BY <1>6 DEF xor_b, BothOf
  <2>2. Plus("b", X, Y) = Plain!BitXor(X, Y)
    BY SameOperations DEF Plus
  <2>3. Reconstruct("b", PlusShares("b", x.sh, y.sh)) = Plain!BitXor(X, Y)
    BY <1>1, <2>1, <2>2, LocalValue
  <2>4. Plain!Does("xor_b") /\ Plain!Push(Plain!Reg("b", x.prec, Plain!BitXor(X, Y)))
    BY <1>2, <2>1, <2>3, PlainPush
  <2>5. QED
    BY <2>1, <2>4, PlainFields DEF Plain!xor_b, Plain!Both
<1>7. ASSUME not_b PROVE Plain!not_b
  <2>1. Begin("not_b") /\ Push("b", x.prec, Result(Not(x.sh), r)) /\ x.kind = "b"
    BY <1>7 DEF not_b
  <2>2. Reconstruct("b", Not(x.sh)) = Plain!BitNot(X)
    BY <1>1, <2>1, NotValue, SameOperations
  <2>3. Plain!Does("not_b") /\ Plain!Push(Plain!Reg("b", x.prec, Plain!BitNot(X)))
    BY <1>2, <2>1, <2>2, PlainPush
  <2>4. QED
    BY <2>1, <2>3, PlainFields DEF Plain!not_b
<1>8. ASSUME not_b_1 PROVE Plain!not_b_1
  <2>1. Begin("not_b_1") /\ Push("b", x.prec, Result(NotBit(MaskShares(x.sh)), r)) /\ x.kind = "b"
    BY <1>8 DEF not_b_1
  <2>2. Reconstruct("b", NotBit(MaskShares(x.sh))) = 1 - Plain!LowBit(X)
    BY <1>1, <2>1, NotBitValue, SameOperations
  <2>3. Plain!Does("not_b_1") /\ Plain!Push(Plain!Reg("b", x.prec, 1 - Plain!LowBit(X)))
    BY <1>2, <2>1, <2>2, PlainPush
  <2>4. QED
    BY <2>1, <2>3, PlainFields DEF Plain!not_b_1
<1>9. QED
  BY <1>3, <1>4, <1>5, <1>6, <1>7, <1>8

LEMMA PlainProducts ==
    ASSUME ProtocolInv
    PROVE  /\ (multiply_a => Plain!multiply_a) /\ (and_b => Plain!and_b)
           /\ (dot_product_a => Plain!SumOfProducts) /\ (matrix_right_multiply => Plain!SumOfProducts)
           /\ (conv_2d => Plain!SumOfProducts)
<1> DEFINE X == Reconstruct(x.kind, x.sh)
           Y == Reconstruct(y.kind, y.sh)
           xy == Times("a", X, Y)
           sums == Plain!Truncations(Plain!Wrap(xy + xy), x.prec)
                   \cup {Plain!Wrap(q[1] + q[2]) : q \in Plain!Truncations(xy, x.prec) \X Plain!Truncations(xy, x.prec)}
<1>1. /\ proto \in Protos /\ Shared(x.sh) /\ Shared(y.sh) /\ HonestWorld(r) /\ x.prec \in 0 .. Width
      /\ x.kind \in Kinds /\ y.kind \in Kinds /\ "a" \in Kinds /\ "b" \in Kinds
  BY KindNames DEF ProtocolInv, Register
<1>2. X \in Word /\ Y \in Word
  BY <1>1, LocalValue
<1>3. xy \in Word
  BY <1>1, <1>2, RingLaws
<1>4. ASSUME multiply_a PROVE Plain!multiply_a
  <2> DEFINE m == Multiply(x.sh, y.sh, r)
             q == Reconstruct("a", Truncate(m, x.prec).z)
  <2>1. /\ Begin("multiply_a") /\ Push("a", x.prec, Truncate(m, x.prec))
        /\ x.kind = "a" /\ y.kind = "a" /\ x.prec = y.prec
    BY <1>4 DEF multiply_a, BothOf
  <2>2. GoodResult(m) /\ Reconstruct("a", m.z) = xy
    BY <1>1, <2>1, MultiplyKept, MultiplyValue
  <2> HIDE DEF m
  <2>3. TruncatedTo(xy, x.prec, q)
    BY <1>1, <2>2, TruncateValue
  <2>4. Plain!Does("multiply_a") /\ Plain!Push(Plain!Reg("a", x.prec, q))
    BY <2>1, PlainPush
  <2> HIDE DEF q
  <2>5. q \in Plain!Truncations(xy, x.prec)
    BY <1>1, <2>3, TruncatedIsTruncation
  <2>6. q \in Plain!Truncations(Plain!Times("a", X, Y), x.prec)
    BY <2>5, SameOperations
  <2>7. QED
    BY <2>1, <2>4, <2>6, PlainFields DEF Plain!multiply_a, Plain!Both, Plain!Push, Plain!PushEither
<1>5. ASSUME and_b PROVE Plain!and_b
  <2>1. /\ Begin("and_b") /\ Push("b", x.prec, And(x.sh, y.sh, r))
        /\ x.kind = "b" /\ y.kind = "b"
    BY <1>5 DEF and_b, BothOf
  <2>2. Times("b", X, Y) = Plain!BitAnd(X, Y)
    BY SameOperations DEF Times
  <2>3. Reconstruct("b", And(x.sh, y.sh, r).z) = Plain!BitAnd(X, Y)
    BY <1>1, <2>1, <2>2, MultiplyValue
  <2>4. Plain!Does("and_b") /\ Plain!Push(Plain!Reg("b", x.prec, Plain!BitAnd(X, Y)))
    BY <2>1, <2>3, PlainPush
  <2>5. QED
    BY <2>1, <2>4, PlainFields DEF Plain!and_b, Plain!Both
<1>6. ASSUME NEW name \in {"dot_product_a", "matrix", "conv_2d"}, Begin(name), NEW s, Push("a", x.prec, s),
             x.kind = "a", y.kind = "a", x.prec = y.prec, ProductsTo(xy, x.prec, Reconstruct("a", s.z))
      PROVE  Plain!SumOfProducts
  <2> DEFINE q == Reconstruct("a", s.z)
  <2>1. Plain!Does(name) /\ Plain!Push(Plain!Reg("a", x.prec, q))
    BY <1>6, PlainPush
  <2> HIDE DEF q, xy
  <2>2. q \in sums
    BY <1>1, <1>3, <1>6, ProductsAreSums DEF q
  <2>3. xy = Plain!Times("a", PlainReg(x).val, PlainReg(y).val)
    BY SameOperations, PlainFields DEF xy
  <2> HIDE DEF sums
  <2>4. Plain!PushEither(x.prec, sums)
    BY <2>1, <2>2 DEF Plain!Push, Plain!PushEither
  <2>5. QED
    BY <1>6, <2>1, <2>3, <2>4, PlainFields DEF Plain!SumOfProducts, Plain!Both, sums
<1>7. ASSUME dot_product_a PROVE Plain!SumOfProducts
  <2> DEFINE s == DotProduct(<<x.sh, y.sh>>, <<y.sh, x.sh>>, x.prec, r)
  <2>1. /\ Begin("dot_product_a") /\ Push("a", x.prec, s)
        /\ x.kind = "a" /\ y.kind = "a" /\ x.prec = y.prec
    BY <1>7 DEF dot_product_a, BothOf
  <2>2. ProductsTo(xy, x.prec, Reconstruct("a", s.z))
    BY <1>1, <2>1, DotValue
  <2> HIDE DEF s, xy
  <2>3. QED
    BY <1>6, <2>1, <2>2
<1>8. ASSUME NEW m, GoodResult(m), Reconstruct("a", m.z) = Plus("a", xy, xy)
      PROVE  ProductsTo(xy, x.prec, Reconstruct("a", Truncate(m, x.prec).z))
  <2> HIDE DEF xy
  <2>1. TruncatedTo(Plus("a", xy, xy), x.prec, Reconstruct("a", Truncate(m, x.prec).z))
    BY <1>1, <1>8, TruncateValue
  <2>2. QED
    BY <2>1 DEF ProductsTo
<1>9. ASSUME matrix_right_multiply PROVE Plain!SumOfProducts
  <2> DEFINE m == Matrix(<<x.sh, y.sh>>, <<y.sh, x.sh>>, r)
  <2>1. /\ Begin("matrix") /\ Push("a", x.prec, Truncate(m, x.prec))
        /\ x.kind = "a" /\ y.kind = "a" /\ x.prec = y.prec
    BY <1>9 DEF matrix_right_multiply, BothOf
  <2>2. GoodResult(m) /\ Reconstruct("a", m.z) = Plus("a", xy, xy)
    BY <1>1, <2>1, ScalarKept, ScalarValue
  <2> HIDE DEF m, xy
  <2>3. QED
    BY <1>6, <1>8, <2>1, <2>2
<1>10. ASSUME conv_2d PROVE Plain!SumOfProducts
  <2> DEFINE m == Conv(<<x.sh, y.sh>>, <<y.sh, x.sh>>, r)
  <2>1. /\ Begin("conv_2d") /\ Push("a", x.prec, Truncate(m, x.prec))
        /\ x.kind = "a" /\ y.kind = "a" /\ x.prec = y.prec
    BY <1>10 DEF conv_2d, BothOf
  <2>2. GoodResult(m) /\ Reconstruct("a", m.z) = Plus("a", xy, xy)
    BY <1>1, <2>1, ScalarKept, ScalarValue
  <2> HIDE DEF m, xy
  <2>3. QED
    BY <1>6, <1>8, <2>1, <2>2
<1>11. QED
  BY <1>4, <1>5, <1>7, <1>9, <1>10

LEMMA PlainConversions ==
    ASSUME ProtocolInv
    PROVE  (b2a_bit => Plain!b2a_bit) /\ (redistribute_shares_b => Plain!redistribute_shares_b)
<1> DEFINE X == Reconstruct(x.kind, x.sh)
<1>1. proto \in Protos /\ Shared(x.sh) /\ HonestWorld(r)
  BY DEF ProtocolInv, Register
<1>2. ASSUME b2a_bit PROVE Plain!b2a_bit
  <2>1. Begin("b2a_bit") /\ Push("a", 0, BitToArithmetic(x.sh, r)) /\ x.kind = "b"
    BY <1>2 DEF b2a_bit
  <2>2. Reconstruct("a", BitToArithmetic(x.sh, r).z) = Plain!LowBit(X)
    BY <1>1, <2>1, BitValue, SameOperations
  <2>3. Plain!Does("b2a_bit") /\ Plain!Push(Plain!Reg("a", 0, Plain!LowBit(X)))
    BY <2>1, <2>2, PlainPush
  <2>4. QED
    BY <2>1, <2>3, PlainFields DEF Plain!b2a_bit
<1>3. ASSUME redistribute_shares_b PROVE Plain!redistribute_shares_b
  <2> DEFINE s == Redistribute(x.sh, r)
             u == Reconstruct("b", s.u)
  <2>1. Begin("redistribute_shares_b") /\ PushTwo("b", s) /\ x.kind = "a"
    BY <1>3 DEF redistribute_shares_b
  <2>2. SplitInTwo(x.sh, s)
    BY <1>1, BitValue
  <2> HIDE DEF s
  <2>3. u \in Word /\ Reconstruct("b", s.v) = Minus("a", X, u)
    BY <2>1, <2>2, SplitValues
  <2>4. /\ Plain!Does("redistribute_shares_b")
        /\ PlainReg(x)' = Plain!Reg("b", 0, u)
        /\ PlainReg(y)' = Plain!Reg("b", 0, Reconstruct("b", s.v))
    BY <2>1, PlainPushTwo
  <2> HIDE DEF u
  <2>5. u \in Plain!Word /\ Reconstruct("b", s.v) = Plain!Minus("a", PlainReg(x).val, u)
    BY <2>3, SameRing, SameOperations, PlainFields
  <2>6. QED
    BY <2>1, <2>4, <2>5, PlainFields DEF Plain!redistribute_shares_b
<1>4. QED
  BY <1>2, <1>3

LEMMA PlainDivision ==
    ASSUME ProtocolInv, NEW c \in Divisors, div_const_a(c)
    PROVE  Plain!div_const_a
<1> DEFINE s == DivConst(x.sh, c, r)
           q == Reconstruct("a", s.u)
<1>1. proto \in Protos /\ Shared(x.sh) /\ HonestWorld(r) /\ c \in Nat /\ c > 0
  BY ProtocolsAssumption DEF ProtocolInv, Register
<1>2. Begin("div_const_a") /\ PushTwo("a", s) /\ x.kind = "a"
  BY DEF div_const_a
<1>3. Divided(x.sh, c, s)
  BY <1>1, DivValue
<1> HIDE DEF s
<1>4. PICK e \in -c .. c : Reconstruct("a", s.v) = Wrap(e) /\ Rounded(Reconstruct("a", x.sh), c, e + c, q)
  BY <1>1, <1>3, DividedValues
<1>5. /\ Plain!Does("div_const_a")
      /\ PlainReg(x)' = Plain!Reg("a", 0, q)
      /\ PlainReg(y)' = Plain!Reg("a", 0, Reconstruct("a", s.v))
  BY <1>2, PlainPushTwo
<1> HIDE DEF q
<1>6. q \in Plain!Quotients(PlainReg(x).val, c, {e + c})
  <2>1. PlainReg(x).val = Reconstruct("a", x.sh) /\ e + c \in {e + c}
    BY <1>2, PlainFields
  <2>2. QED
    BY <1>4, <2>1, RoundedIsQuotient
<1>7. Reconstruct("a", s.v) = Plain!Wrap(e)
  BY <1>4, SameOperations
<1>8. /\ PlainReg(y)' = Plain!Reg("a", 0, Plain!Wrap(e))
      /\ PlainReg(x)' \in {Plain!Reg("a", 0, f) : f \in Plain!Quotients(PlainReg(x).val, c, {e + c})}
  BY <1>5, <1>6, <1>7
<1>9. PlainReg(x).kind = "a"
  BY <1>2, PlainFields
<1>10. QED
  BY <1>5, <1>8, <1>9 DEF Plain!div_const_a

LEMMA PlainReshare ==
    ASSUME ProtocolInv, NEW G \in Groups(Parties(proto)), reshare_shares(G)
    PROVE  Plain!reshare
<1> DEFINE s == Reshare(x.kind, x.sh, G, r)
<1>1. /\ proto \in Protos /\ Shared(x.sh) /\ HonestWorld(r) /\ x.kind \in Kinds
      /\ x = [kind |-> x.kind, prec |-> x.prec, sh |-> x.sh]
  BY DEF ProtocolInv, Register
<1>2. op' = "reshare" /\ x' = [x EXCEPT !.sh = s.z] /\ y' = y
  BY DEF reshare_shares, Begin, Replace
<1>3. Reconstruct(x.kind, s.z) = Reconstruct(x.kind, x.sh)
  BY <1>1, ReshareValue
<1> HIDE DEF s
<1>4. x'.kind = x.kind /\ x'.prec = x.prec /\ x'.sh = s.z
  BY <1>1, <1>2
<1>5. PlainReg(x)' = PlainReg(x) /\ PlainReg(y)' = PlainReg(y)
  BY <1>2, <1>3, <1>4 DEF PlainReg
<1>6. QED
  BY <1>2, <1>5 DEF Plain!reshare, Plain!Does

LEMMA PlainStep == ProtocolInv /\ [Next]_vars => [Plain!Next]_<<PlainReg(x), PlainReg(y), op>>
<1> SUFFICES ASSUME ProtocolInv, [Next]_vars PROVE [Plain!Next]_<<PlainReg(x), PlainReg(y), op>>
  OBVIOUS
<1>1. ASSUME NEW k \in Kinds, NEW d \in Precisions, NEW i \in {j \in Inputs : j[1] < Parties(proto)},
             k = "b" => d = 0, secret_share(k, d, i[2], i[1])
      PROVE  Plain!Next
  BY <1>1, PlainShare DEF Plain!Next
<1>2. ASSUME NEW k \in Kinds, NEW v \in Public, NEW K \in MayKnow, public_share(k, v, K)
      PROVE  Plain!Next
  BY <1>2, PlainPublic DEF Plain!Next
<1>3. ASSUME add_a \/ sub_a \/ neg_a \/ xor_b \/ not_b \/ not_b_1
      PROVE  Plain!Next
  BY <1>3, PlainLocal DEF Plain!Next
<1>4. ASSUME multiply_a \/ and_b \/ dot_product_a \/ matrix_right_multiply \/ conv_2d
      PROVE  Plain!Next
  BY <1>4, PlainProducts DEF Plain!Next
<1>5. ASSUME b2a_bit \/ redistribute_shares_b
      PROVE  Plain!Next
  BY <1>5, PlainConversions DEF Plain!Next
<1>6. ASSUME NEW c \in Divisors, div_const_a(c)
      PROVE  Plain!Next
  BY <1>6, PlainDivision DEF Plain!Next
<1>7. ASSUME NEW G \in Groups(Parties(proto)), reshare_shares(G)
      PROVE  Plain!Next
  BY <1>7, PlainReshare DEF Plain!Next
<1>8. ASSUME UNCHANGED vars
      PROVE  UNCHANGED <<PlainReg(x), PlainReg(y), op>>
  <2>1. x' = x /\ y' = y /\ op' = op
    BY <1>8 DEF vars
  <2>2. QED
    BY <2>1 DEF PlainReg
<1>9. QED
  BY <1>1, <1>2, <1>3, <1>4, <1>5, <1>6, <1>7, <1>8 DEF Next

\* The parties compute what one party would on the plain values: every program,
\* by any of the four protocols, with any ring size and any seeds, is a program
\* of the plain machine on the values that the shares reconstruct to.  An
\* operation of a protocol (secret_share, multiply_a, b2a_bit, div_const_a and
\* so on) is the plain operation of the same name, up to the documented rounding
\* of truncation and division; resharing changes no value.
THEOREM ProtocolsImplementPlaintext == Spec => ImplementsPlaintext
<1>1. Init => Plain!Init
  BY PlainInit
<1>2. ProtocolInv /\ [Next]_vars => [Plain!Next]_<<PlainReg(x), PlainReg(y), op>>
  BY PlainStep
<1>3. QED
  BY <1>1, <1>2, ProtocolInvariant, PTL DEF Spec, ImplementsPlaintext, Plain!Spec
=============================================================================
