------------------------- MODULE CommunicatorProofs -------------------------
(***************************************************************************)
(* The byte streams between the parties, for every number of parties,      *)
(* workers and send threads, every capacity of the connections and all     *)
(* programs of calls that match each other (ProgramsAssumption).           *)
(***************************************************************************)
EXTENDS Communicator, ModLemmas, FiniteSetTheorems, SequenceTheorems

-----------------------------------------------------------------------------
(* The rank of a position counts on by one at each member of the set.      *)
LEMMA RankRecursion ==
    ASSUME NEW N \in Nat, NEW S \in SUBSET (1 .. N)
    PROVE  /\ Rank(S, 0) = 0
           /\ \A m \in Nat : Rank(S, m) \in Nat
           /\ \A m \in Nat : Rank(S, m + 1) = Rank(S, m) + (IF m + 1 \in S THEN 1 ELSE 0)
           /\ Rank(S, N) = Cardinality(S)
<1> DEFINE C(m) == {j \in S : j <= m}
<1>0. \A j \in S : j \in Nat /\ 1 <= j /\ j <= N
  <2>1. \A j \in S : j \in 1 .. N
    BY Zenon
  <2>2. QED
    BY ONLY <2>1, N \in Nat
<1>1. C(0) = {}
  <2>1. \A j \in S : ~(j <= 0)
    BY ONLY <1>0
  <2>2. QED
    BY ONLY <2>1, Zenon
<1>2. IsFiniteSet(S)
  <2>1. IsFiniteSet(1 .. N)
    BY FS_Interval
  <2>2. QED
    BY <2>1, FS_Subset
<1>3. \A m : IsFiniteSet(C(m))
  <2>1. \A m : C(m) \in SUBSET S
    OBVIOUS
  <2>2. QED
    BY <1>2, <2>1, FS_Subset
<1>4. \A m : Cardinality(C(m)) \in Nat
  BY <1>3, FS_CardinalityType
<1>5. ASSUME NEW m \in Nat
      PROVE  Cardinality(C(m + 1)) = Cardinality(C(m)) + (IF m + 1 \in S THEN 1 ELSE 0)
  <2>1. CASE m + 1 \in S
    <3>1. C(m + 1) = C(m) \cup {m + 1} /\ m + 1 \notin C(m)
      <4>1. \A j \in S : j <= m + 1 <=> (j <= m \/ j = m + 1)
        BY ONLY <1>0, m \in Nat
      <4>2. ~(m + 1 <= m)
        BY ONLY m \in Nat
      <4>3. QED
        BY ONLY <2>1, <4>1, <4>2, Zenon
    <3>2. Cardinality(C(m) \cup {m + 1}) = Cardinality(C(m)) + 1
      <4>1. IsFiniteSet(C(m)) /\ m + 1 \notin C(m)
        BY <1>3, <3>1
      <4> HIDE DEF C
      <4>2. QED
        BY <4>1, FS_AddElement
    <3>3. QED
      BY <2>1, <3>1, <3>2
  <2>2. CASE m + 1 \notin S
    <3>1. C(m + 1) = C(m)
      <4>1. \A j \in S : j # m + 1 => (j <= m + 1 <=> j <= m)
        BY ONLY <1>0, m \in Nat
      <4>2. \A j \in S : j # m + 1
        BY ONLY <2>2
      <4>3. \A j \in S : j <= m + 1 <=> j <= m
        BY ONLY <4>1, <4>2
      <4>4. QED
        BY ONLY <4>3, Zenon
    <3>2. QED
      BY <1>4, <2>2, <3>1
  <2>3. QED
    BY <2>1, <2>2
<1>6. Cardinality(C(0)) = 0
  BY <1>1, FS_EmptySet
<1>7. C(N) = S
  BY ONLY <1>0
<1>8. \A m : Rank(S, m) = Cardinality(C(m))
  BY DEF Rank
<1> HIDE DEF C
<1>9. QED
  BY <1>4, <1>5, <1>6, <1>7, <1>8

(* The units that vectors of these sizes add up to, up to a position.      *)
Offset(N, size) == Recursor(N, Nat, 0, [j \in 1 .. N |-> [v \in Nat |-> v + size[j]]])

(* Offset adds up the sizes one after the other.                           *)
LEMMA OffsetRecursion ==
    ASSUME NEW N \in Nat, NEW size \in [1 .. N -> Nat]
    PROVE  /\ Offset(N, size) \in [0 .. N -> Nat]
           /\ Offset(N, size)[0] = 0
           /\ \A j \in 1 .. N : Offset(N, size)[j] =
                Offset(N, size)[j - 1] + size[j]
<1> DEFINE step == [j \in 1 .. N |-> [v \in Nat |-> v + size[j]]]
<1>1. step \in [1 .. N -> [Nat -> Nat]]
  OBVIOUS
<1>2. \A j \in 1 .. N : \A v \in Nat : step[j][v] = v + size[j]
  OBVIOUS
<1>3. Offset(N, size) = Recursor(N, Nat, 0, step)
  BY DEF Offset
<1> HIDE DEF step
<1> DEFINE f == Recursor(N, Nat, 0, step)
<1>4. Recurs(f, N, Nat, 0, step)
  <2>1. 0 \in Nat
    OBVIOUS
  <2>2. QED
    BY <1>1, <2>1, BoundedRecursion, Zenon
<1> HIDE DEF f
<1>5. f \in [0 .. N -> Nat] /\ f[0] = 0 /\ \A j \in 1 .. N : f[j] = step[j][f[j - 1]]
  BY <1>4 DEF Recurs
<1>6. \A j \in 1 .. N : f[j - 1] \in Nat
  BY <1>5
<1>7. QED
  BY <1>2, <1>3, <1>5, <1>6 DEF f

(* What comes later starts later.                                          *)
LEMMA OffsetMonotone ==
    ASSUME NEW N \in Nat, NEW f \in [0 .. N -> Nat], NEW size \in [1 .. N -> Nat],
           \A j \in 1 .. N : f[j] = f[j - 1] + size[j],
           NEW a \in 0 .. N, NEW b \in 0 .. N, a <= b
    PROVE  f[a] <= f[b]
<1> DEFINE S == {n \in 0 .. N : a <= n => f[a] <= f[n]}
<1>1. 0 \in S
  OBVIOUS
<1>2. ASSUME NEW n \in 1 .. N, n - 1 \in S PROVE n \in S
  <2>1. n - 1 \in 0 .. N /\ n \in 0 .. N /\ size[n] \in Nat
    OBVIOUS
  <2>2. f[n] \in Nat /\ f[n - 1] \in Nat /\ f[n] = f[n - 1] + size[n] /\ f[a] \in Nat
    BY <2>1
  <2>3. CASE a = n
    BY <2>1, <2>2, <2>3
  <2>4. CASE a # n
    BY <1>2, <2>1, <2>2, <2>4
  <2>5. QED
    BY <2>3, <2>4
<1> HIDE DEF S
<1>3. \A n \in 0 .. N : n \in S
  BY <1>1, <1>2, BoundedInduction
<1>4. b \in S
  BY <1>3
<1>5. QED
  BY <1>4 DEF S

(* Where as many vectors have been sent as have been received, as many     *)
(* units have been, if vectors of the same rank are equally long.          *)
AddsUp(f, N, S, size) ==
    /\ f \in [0 .. N -> Nat] /\ size \in [1 .. N -> Nat]
    /\ f[0] = 0 /\ \A j \in 1 .. N : f[j] = f[j - 1] + size[j]
    /\ \A j \in (1 .. N) \ S : size[j] = 0
SameSizes(S, x, T, y) == \A j \in S, i \in T : Rank(S, j) = Rank(T, i) => x[j] = y[i]

(* Two sequences of vectors with the same sizes have the same offsets.     *)
LEMMA OffsetsAgree ==
    ASSUME NEW N \in Nat, NEW M \in Nat, NEW S \in SUBSET (1 .. N), NEW T \in SUBSET (1 .. M),
           NEW f, NEW g, NEW x, NEW y, AddsUp(f, N, S, x), AddsUp(g, M, T, y), SameSizes(S, x, T, y)
    PROVE  \A a \in 0 .. N, b \in 0 .. M : Rank(S, a) = Rank(T, b) => f[a] = g[b]
<1>0. /\ f \in [0 .. N -> Nat] /\ x \in [1 .. N -> Nat] /\ f[0] = 0
      /\ \A j \in 1 .. N : f[j] = f[j - 1] + x[j]
      /\ \A j \in (1 .. N) \ S : x[j] = 0
      /\ g \in [0 .. M -> Nat] /\ y \in [1 .. M -> Nat] /\ g[0] = 0
      /\ \A i \in 1 .. M : g[i] = g[i - 1] + y[i]
      /\ \A i \in (1 .. M) \ T : y[i] = 0
      /\ \A j \in S, i \in T : Rank(S, j) = Rank(T, i) => x[j] = y[i]
  BY DEF AddsUp, SameSizes
<1> DEFINE Z == {n \in Nat : \A a \in 0 .. N, b \in 0 .. M :
                   a + b <= n /\ Rank(S, a) = Rank(T, b) => f[a] = g[b]}
<1>1. /\ Rank(S, 0) = 0 /\ \A m \in Nat : Rank(S, m) \in Nat
      /\ \A m \in Nat : Rank(S, m + 1) = Rank(S, m) + (IF m + 1 \in S THEN 1 ELSE 0)
  BY RankRecursion
<1>2. /\ Rank(T, 0) = 0 /\ \A m \in Nat : Rank(T, m) \in Nat
      /\ \A m \in Nat : Rank(T, m + 1) = Rank(T, m) + (IF m + 1 \in T THEN 1 ELSE 0)
  BY RankRecursion
<1>3. \A m \in 1 .. N : Rank(S, m) = Rank(S, m - 1) + (IF m \in S THEN 1 ELSE 0)
  <2>1. ASSUME NEW m \in 1 .. N PROVE Rank(S, m) = Rank(S, m - 1) + (IF m \in S THEN 1 ELSE 0)
    <3>1. m - 1 \in Nat /\ (m - 1) + 1 = m
      OBVIOUS
    <3>2. QED
      BY ONLY <1>1, <3>1
  <2>2. QED
    BY <2>1
<1>4. \A m \in 1 .. M : Rank(T, m) = Rank(T, m - 1) + (IF m \in T THEN 1 ELSE 0)
  <2>1. ASSUME NEW m \in 1 .. M PROVE Rank(T, m) = Rank(T, m - 1) + (IF m \in T THEN 1 ELSE 0)
    <3>1. m - 1 \in Nat /\ (m - 1) + 1 = m
      OBVIOUS
    <3>2. QED
      BY ONLY <1>2, <3>1
  <2>2. QED
    BY <2>1
<1>5. 0 \in Z
  <2>1. \A a \in 0 .. N, b \in 0 .. M : a + b <= 0 => a = 0 /\ b = 0
    OBVIOUS
  <2>2. QED
    BY <1>0, <2>1
<1>6. ASSUME NEW n \in Nat, n \in Z PROVE n + 1 \in Z
  <2>1. SUFFICES ASSUME NEW a \in 0 .. N, NEW b \in 0 .. M, a + b <= n + 1, Rank(S, a) = Rank(T, b)
                 PROVE  f[a] = g[b]
    OBVIOUS
  <2>2. \A c \in 0 .. N, d \in 0 .. M : c + d <= n /\ Rank(S, c) = Rank(T, d) => f[c] = g[d]
    BY <1>6
  <2>3. CASE a # 0 /\ a \notin S
    <3>1. /\ a - 1 \in 0 .. N /\ a \in 1 .. N /\ (a - 1) + b <= n
          /\ Rank(S, a - 1) \in Nat
      BY <1>1, <2>1, <2>3
    <3>2. Rank(S, a - 1) = Rank(S, a) /\ f[a] = f[a - 1]
      BY <1>0, <1>3, <2>3, <3>1
    <3>3. QED
      BY <2>1, <2>2, <3>1, <3>2
  <2>4. CASE b # 0 /\ b \notin T
    <3>1. /\ b - 1 \in 0 .. M /\ b \in 1 .. M /\ a + (b - 1) <= n
          /\ Rank(T, b - 1) \in Nat
      BY <1>2, <2>1, <2>4
    <3>2. Rank(T, b - 1) = Rank(T, b) /\ g[b] = g[b - 1]
      BY <1>0, <1>4, <2>4, <3>1
    <3>3. QED
      BY <2>1, <2>2, <3>1, <3>2
  <2>5. CASE a \in S /\ b \in T
    <3>1. /\ a - 1 \in 0 .. N /\ a \in 1 .. N /\ b - 1 \in 0 .. M /\ b \in 1 .. M
          /\ (a - 1) + (b - 1) <= n /\ Rank(S, a - 1) \in Nat /\ Rank(T, b - 1) \in Nat
      BY <1>1, <1>2, <2>1, <2>5
    <3>2. Rank(S, a - 1) = Rank(T, b - 1)
      BY <1>3, <1>4, <2>1, <2>5, <3>1
    <3>3. f[a - 1] = g[b - 1] /\ x[a] = y[b]
      BY <1>0, <2>1, <2>2, <2>5, <3>1, <3>2
    <3>4. QED
      BY <1>0, <2>5, <3>1, <3>3
  <2>6. CASE a = 0 /\ b = 0
    BY <1>0, <2>6
  <2>7. ~(a = 0 /\ b \in T)
    <3>1. SUFFICES ASSUME a = 0, b \in T PROVE FALSE
      OBVIOUS
    <3>2. b \in 1 .. M /\ b - 1 \in Nat
      BY <3>1
    <3>3. Rank(T, b) = Rank(T, b - 1) + 1 /\ Rank(T, b - 1) \in Nat
      BY <1>2, <1>4, <3>1, <3>2
    <3>4. QED
      BY <1>1, <2>1, <3>1, <3>3
  <2>8. ~(a \in S /\ b = 0)
    <3>1. SUFFICES ASSUME a \in S, b = 0 PROVE FALSE
      OBVIOUS
    <3>2. a \in 1 .. N /\ a - 1 \in Nat
      BY <3>1
    <3>3. Rank(S, a) = Rank(S, a - 1) + 1 /\ Rank(S, a - 1) \in Nat
      BY <1>1, <1>3, <3>1, <3>2
    <3>4. QED
      BY <1>2, <2>1, <3>1, <3>3
  <2>9. QED
    BY <2>3, <2>4, <2>5, <2>6, <2>7, <2>8
<1> HIDE DEF Z
<1>7. \A n \in Nat : n \in Z
  BY <1>5, <1>6, SetInduction
<1>8. \A a \in 0 .. N, b \in 0 .. M : a + b \in Nat /\ a + b <= a + b
  OBVIOUS
<1>9. SUFFICES ASSUME NEW a \in 0 .. N, NEW b \in 0 .. M, Rank(S, a) = Rank(T, b)
               PROVE  f[a] = g[b]
  OBVIOUS
<1>10. a + b \in Z /\ a + b <= a + b
  BY <1>7, <1>8
<1>11. QED
  BY <1>9, <1>10 DEF Z

(* A set has a member of every rank up to its size.                        *)
LEMMA RankOnto ==
    ASSUME NEW N \in Nat, NEW S \in SUBSET (1 .. N), NEW k \in 1 .. Cardinality(S)
    PROVE  \E j \in S : Rank(S, j) = k
<1>1. /\ Rank(S, 0) = 0 /\ \A m \in Nat : Rank(S, m) \in Nat
      /\ \A m \in Nat : Rank(S, m + 1) = Rank(S, m) + (IF m + 1 \in S THEN 1 ELSE 0)
      /\ Rank(S, N) = Cardinality(S)
  BY RankRecursion
<1>2. Cardinality(S) \in Nat /\ k \in Nat /\ 1 <= k /\ k <= Cardinality(S)
  BY <1>1
<1> DEFINE A == {m \in Nat : Rank(S, m) >= k}
<1>3. N \in A
  BY <1>1, <1>2
<1>4. A \in SUBSET Nat /\ A # {}
  BY <1>3
<1>5. PICK m \in A : \A n \in A : m <= n
  <2> HIDE DEF A
  <2>1. QED
    BY <1>4, LeastNumber
<1>6. m \in Nat /\ Rank(S, m) >= k /\ Rank(S, m) \in Nat
  BY <1>1, <1>5
<1>7. m # 0
  BY <1>1, <1>2, <1>6
<1>8. m - 1 \in Nat /\ (m - 1) + 1 = m /\ ~(m <= m - 1)
  BY <1>6, <1>7
<1>9. m - 1 \notin A
  BY <1>5, <1>8
<1>10. Rank(S, m - 1) < k /\ Rank(S, m - 1) \in Nat
  BY <1>1, <1>2, <1>8, <1>9
<1>11. Rank(S, m) = Rank(S, m - 1) + (IF m \in S THEN 1 ELSE 0)
  BY <1>1, <1>8
<1>12. m \in S /\ Rank(S, m) = k
  BY <1>2, <1>6, <1>10, <1>11
<1>13. QED
  BY <1>12

(* The rank of a member is between 1 and the size of the set.              *)
LEMMA RankBounds ==
    ASSUME NEW N \in Nat, NEW S \in SUBSET (1 .. N), NEW i \in S
    PROVE  Rank(S, i) \in 1 .. Cardinality(S) /\ Rank(S, i) = Rank(S, i - 1) + 1
<1>1. /\ \A m \in Nat : Rank(S, m) \in Nat
      /\ \A m \in Nat : Rank(S, m + 1) = Rank(S, m) + (IF m + 1 \in S THEN 1 ELSE 0)
      /\ Rank(S, N) = Cardinality(S)
  BY RankRecursion
<1>2. i \in 1 .. N
  OBVIOUS
<1>3. i \in 0 .. N /\ N \in 0 .. N /\ i <= N /\ i - 1 \in Nat /\ (i - 1) + 1 = i /\ N \in Nat
  BY <1>2
<1>4. Rank(S, i) = Rank(S, i - 1) + 1 /\ Rank(S, i - 1) \in Nat
  BY <1>1, <1>3
<1> DEFINE f == [m \in 0 .. N |-> Rank(S, m)]
<1>5. f \in [0 .. N -> Nat]
  BY <1>1
<1> DEFINE size == [m \in 1 .. N |-> IF m \in S THEN 1 ELSE 0]
<1>10. size \in [1 .. N -> Nat]
  OBVIOUS
<1>6. ASSUME NEW m \in 1 .. N PROVE f[m] = f[m - 1] + size[m]
  <2>1. m - 1 \in Nat /\ (m - 1) + 1 = m /\ m - 1 \in 0 .. N /\ m \in 0 .. N
    OBVIOUS
  <2>2. Rank(S, m) = Rank(S, m - 1) + (IF m \in S THEN 1 ELSE 0) /\ Rank(S, m - 1) \in Nat
    BY <1>1, <2>1
  <2>3. QED
    BY <2>1, <2>2
<1>7. f[i] = Rank(S, i) /\ f[N] = Rank(S, N)
  BY <1>3
<1> HIDE DEF f, size
<1>8. f[i] <= f[N]
  BY ONLY <1>3, <1>5, <1>6, <1>10, OffsetMonotone
<1>9. QED
  BY <1>1, <1>3, <1>4, <1>7, <1>8

-----------------------------------------------------------------------------
(* The programs of a scenario, and the stream of units from q to p: where  *)
(* the vectors pushed and those received begin and end in it, and which    *)
(* unit is the u-th.                                                       *)
PartiesOf(nm) == 0 .. Scenarios[nm].parties - 1
WorkersOf(nm) == 0 .. Scenarios[nm].workers - 1
Prog(nm, p, t) == Programs[nm][p][t]
Sends(nm, q, t, p) == PushesTo(Prog(nm, q, t), p)
Gets(nm, p, t, q) == ReceivesFrom(Prog(nm, p, t), q)
SendSize(nm, q, t, p) ==
    [j \in 1 .. Len(Prog(nm, q, t)) |->
        IF j \in Sends(nm, q, t, p) THEN Len(Prog(nm, q, t)[j].vec) ELSE 0]
GetSize(nm, p, t, q) ==
    [i \in 1 .. Len(Prog(nm, p, t)) |->
        IF i \in Gets(nm, p, t, q) THEN Prog(nm, p, t)[i].len ELSE 0]
SendOffset(nm, q, t, p) == Offset(Len(Prog(nm, q, t)), SendSize(nm, q, t, p))
GetOffset(nm, p, t, q) == Offset(Len(Prog(nm, p, t)), GetSize(nm, p, t, q))
StreamUnit(nm, q, t, p, u) ==
    LET j == CHOOSE j \in Sends(nm, q, t, p) :
               SendOffset(nm, q, t, p)[j - 1] < u /\ u <= SendOffset(nm, q, t, p)[j]
    IN Prog(nm, q, t)[j].vec[u - SendOffset(nm, q, t, p)[j - 1]]

(* The program of a worker is one (ProgramsAssumption).                    *)
LEMMA ProgramFacts ==
    ASSUME NEW nm \in DOMAIN Scenarios, NEW p \in PartiesOf(nm), NEW t \in WorkersOf(nm)
    PROVE  IsProgram(Prog(nm, p, t), p, PartiesOf(nm))
BY ProgramsAssumption DEF PartiesOf, WorkersOf, Prog

(* What one worker pushes matches what the other receives.                 *)
LEMMA MatchFacts ==
    ASSUME NEW nm \in DOMAIN Scenarios, NEW p \in PartiesOf(nm), NEW t \in WorkersOf(nm),
           NEW q \in PartiesOf(nm), q # p
    PROVE  /\ Cardinality(Sends(nm, q, t, p)) = Cardinality(Gets(nm, p, t, q))
           /\ \A j \in Sends(nm, q, t, p), i \in Gets(nm, p, t, q) :
                Rank(Sends(nm, q, t, p), j) = Rank(Gets(nm, p, t, q), i) =>
                    Len(Prog(nm, q, t)[j].vec) = Prog(nm, p, t)[i].len
BY ProgramsAssumption DEF PartiesOf, WorkersOf, Prog, Sends, Gets, Matches

(* Where pushes and receives stand in a program, and what they carry.      *)
LEMMA Positions ==
    ASSUME NEW nm \in DOMAIN Scenarios, NEW p \in PartiesOf(nm), NEW t \in WorkersOf(nm), NEW q
    PROVE  /\ Len(Prog(nm, p, t)) \in Nat
           /\ DOMAIN Prog(nm, p, t) = 1 .. Len(Prog(nm, p, t))
           /\ Sends(nm, p, t, q) \in SUBSET (1 .. Len(Prog(nm, p, t)))
           /\ Gets(nm, p, t, q) \in SUBSET (1 .. Len(Prog(nm, p, t)))
           /\ ReceivesOf(Prog(nm, p, t)) \in SUBSET (1 .. Len(Prog(nm, p, t)))
           /\ \A j \in Sends(nm, p, t, q) : /\ Len(Prog(nm, p, t)[j].vec) \in Nat
                                            /\ DOMAIN Prog(nm, p, t)[j].vec = 1 .. Len(Prog(nm, p, t)[j].vec)
           /\ \A i \in Gets(nm, p, t, q) : Prog(nm, p, t)[i].len \in Nat
<1> DEFINE B == Prog(nm, p, t)
<1>1. IsProgram(B, p, PartiesOf(nm))
  BY ProgramFacts
<1> HIDE DEF B
<1>2. Len(B) \in Nat /\ B = [i \in 1 .. Len(B) |-> B[i]]
  BY <1>1 DEF IsProgram, IsSequence
<1>3. DOMAIN B = 1 .. Len(B)
  BY <1>2
<1>4. /\ PushesTo(B, q) \in SUBSET (1 .. Len(B)) /\ ReceivesFrom(B, q) \in SUBSET (1 .. Len(B))
      /\ ReceivesOf(B) \in SUBSET (1 .. Len(B))
  BY <1>3 DEF PushesTo, ReceivesFrom, ReceivesOf
<1>5. ASSUME NEW j \in PushesTo(B, q)
      PROVE  Len(B[j].vec) \in Nat /\ DOMAIN B[j].vec = 1 .. Len(B[j].vec)
  <2>1. IsSequence(B[j].vec)
    BY <1>1 DEF IsProgram, PushesTo
  <2> DEFINE v == B[j].vec
  <2> HIDE DEF v
  <2>2. Len(v) \in Nat /\ v = [i \in 1 .. Len(v) |-> v[i]]
    BY <2>1 DEF IsSequence, v
  <2>3. QED
    BY <2>2 DEF v
<1>6. \A i \in ReceivesFrom(B, q) : B[i].len \in Nat
  BY <1>1 DEF IsProgram, ReceivesFrom, ReceivesOf
<1>7. QED
  BY <1>2, <1>3, <1>4, <1>5, <1>6, Zenon DEF B, Sends, Gets

(* How much each push adds to the stream.                                  *)
LEMMA SendSizes ==
    ASSUME NEW nm \in DOMAIN Scenarios, NEW q \in PartiesOf(nm), NEW t \in WorkersOf(nm), NEW p
    PROVE  /\ SendSize(nm, q, t, p) \in [1 .. Len(Prog(nm, q, t)) -> Nat]
           /\ \A i \in Sends(nm, q, t, p) : SendSize(nm, q, t, p)[i] = Len(Prog(nm, q, t)[i].vec)
           /\ \A i \in (1 .. Len(Prog(nm, q, t))) \ Sends(nm, q, t, p) : SendSize(nm, q, t, p)[i] = 0
<1>1. /\ \A i \in Sends(nm, q, t, p) : Len(Prog(nm, q, t)[i].vec) \in Nat
      /\ Sends(nm, q, t, p) \in SUBSET (1 .. Len(Prog(nm, q, t)))
  BY Positions
<1>2. QED
  BY <1>1 DEF SendSize

(* How much has been pushed up to each position.                           *)
LEMMA SendOffsets ==
    ASSUME NEW nm \in DOMAIN Scenarios, NEW q \in PartiesOf(nm), NEW t \in WorkersOf(nm), NEW p
    PROVE  /\ SendOffset(nm, q, t, p) \in [0 .. Len(Prog(nm, q, t)) -> Nat]
           /\ SendOffset(nm, q, t, p)[0] = 0
           /\ \A i \in 1 .. Len(Prog(nm, q, t)) : SendOffset(nm, q, t, p)[i] =
                SendOffset(nm, q, t, p)[i - 1] + SendSize(nm, q, t, p)[i]
           /\ \A a, b \in 0 .. Len(Prog(nm, q, t)) :
                a <= b => SendOffset(nm, q, t, p)[a] <= SendOffset(nm, q, t, p)[b]
<1> DEFINE N == Len(Prog(nm, q, t))
           size == SendSize(nm, q, t, p)
           f == SendOffset(nm, q, t, p)
<1>1. N \in Nat /\ size \in [1 .. N -> Nat]
  BY Positions, SendSizes
<1>2. f = Offset(N, size)
  BY DEF SendOffset
<1> HIDE DEF size, f, N
<1>3. f \in [0 .. N -> Nat] /\ f[0] = 0 /\ \A i \in 1 .. N : f[i] = f[i - 1] + size[i]
  BY <1>1, <1>2, OffsetRecursion
<1>4. \A a, b \in 0 .. N : a <= b => f[a] <= f[b]
  BY ONLY <1>1, <1>3, OffsetMonotone
<1>5. QED
  BY <1>3, <1>4 DEF N, f, size

(* How much each receive takes from the stream.                            *)
LEMMA GetSizes ==
    ASSUME NEW nm \in DOMAIN Scenarios, NEW p \in PartiesOf(nm), NEW t \in WorkersOf(nm), NEW q
    PROVE  /\ GetSize(nm, p, t, q) \in [1 .. Len(Prog(nm, p, t)) -> Nat]
           /\ \A i \in Gets(nm, p, t, q) : GetSize(nm, p, t, q)[i] = Prog(nm, p, t)[i].len
           /\ \A i \in (1 .. Len(Prog(nm, p, t))) \ Gets(nm, p, t, q) : GetSize(nm, p, t, q)[i] = 0
<1>1. /\ \A i \in Gets(nm, p, t, q) : Prog(nm, p, t)[i].len \in Nat
      /\ Gets(nm, p, t, q) \in SUBSET (1 .. Len(Prog(nm, p, t)))
  BY Positions
<1>2. QED
  BY <1>1 DEF GetSize

(* How much has been asked for up to each position.                        *)
LEMMA GetOffsets ==
    ASSUME NEW nm \in DOMAIN Scenarios, NEW p \in PartiesOf(nm), NEW t \in WorkersOf(nm), NEW q
    PROVE  /\ GetOffset(nm, p, t, q) \in [0 .. Len(Prog(nm, p, t)) -> Nat]
           /\ GetOffset(nm, p, t, q)[0] = 0
           /\ \A i \in 1 .. Len(Prog(nm, p, t)) : GetOffset(nm, p, t, q)[i] =
                GetOffset(nm, p, t, q)[i - 1] + GetSize(nm, p, t, q)[i]
           /\ \A a, b \in 0 .. Len(Prog(nm, p, t)) :
                a <= b => GetOffset(nm, p, t, q)[a] <= GetOffset(nm, p, t, q)[b]
<1> DEFINE N == Len(Prog(nm, p, t))
           size == GetSize(nm, p, t, q)
           f == GetOffset(nm, p, t, q)
<1>1. N \in Nat /\ size \in [1 .. N -> Nat]
  BY Positions, GetSizes
<1>2. f = Offset(N, size)
  BY DEF GetOffset
<1> HIDE DEF size, f, N
<1>3. f \in [0 .. N -> Nat] /\ f[0] = 0 /\ \A i \in 1 .. N : f[i] = f[i - 1] + size[i]
  BY <1>1, <1>2, OffsetRecursion
<1>4. \A a, b \in 0 .. N : a <= b => f[a] <= f[b]
  BY ONLY <1>1, <1>3, OffsetMonotone
<1>5. QED
  BY <1>3, <1>4 DEF N, f, size

(* The units of a vector follow each other in the stream.                  *)
LEMMA VectorInStream ==
    ASSUME NEW nm \in DOMAIN Scenarios, NEW q \in PartiesOf(nm), NEW t \in WorkersOf(nm), NEW p,
           NEW j \in Sends(nm, q, t, p), NEW k \in 1 .. Len(Prog(nm, q, t)[j].vec)
    PROVE  StreamUnit(nm, q, t, p, SendOffset(nm, q, t, p)[j - 1] + k) = Prog(nm, q, t)[j].vec[k]
<1> DEFINE N == Len(Prog(nm, q, t))
           S == Sends(nm, q, t, p)
           f == SendOffset(nm, q, t, p)
           u == f[j - 1] + k
           i == CHOOSE l \in S : f[l - 1] < u /\ u <= f[l]
<1>1. /\ N \in Nat /\ S \in SUBSET (1 .. N)
      /\ \A l \in S : Len(Prog(nm, q, t)[l].vec) \in Nat
  BY Positions
<1>2. f \in [0 .. N -> Nat] /\ \A l \in 1 .. N : f[l] = f[l - 1] + SendSize(nm, q, t, p)[l]
  BY SendOffsets
<1>3. \A l, m \in 0 .. N : l <= m => f[l] <= f[m]
  BY SendOffsets
<1>4. StreamUnit(nm, q, t, p, u) = Prog(nm, q, t)[i].vec[u - f[i - 1]]
  BY DEF StreamUnit
<1> HIDE DEF N, S, f, i, u
<1>5. \A l \in S : l \in 1 .. N /\ l \in 0 .. N /\ l - 1 \in 0 .. N /\ f[l] \in Nat /\ f[l - 1] \in Nat
  BY <1>1, <1>2
<1>6. j \in S
  BY DEF S
<1>7. f[j] = f[j - 1] + Len(Prog(nm, q, t)[j].vec) /\ k \in Nat /\ 1 <= k /\ k <= Len(Prog(nm, q, t)[j].vec)
  BY <1>1, <1>2, <1>5, <1>6, SendSizes DEF S
<1>8. f[j - 1] < u /\ u <= f[j] /\ u \in Nat
  BY <1>1, <1>5, <1>6, <1>7 DEF u
<1>9. i \in S /\ f[i - 1] < u /\ u <= f[i]
  BY <1>6, <1>8, Zenon DEF i
<1>10. i = j
  <2>1. ~(i < j)
    <3>1. SUFFICES ASSUME i < j PROVE FALSE
      OBVIOUS
    <3>2. i <= j - 1
      BY <1>5, <1>6, <1>9, <3>1
    <3>3. f[i] <= f[j - 1]
      BY <1>3, <1>5, <1>6, <1>9, <3>2
    <3>4. QED
      BY <1>5, <1>6, <1>8, <1>9, <3>3
  <2>2. ~(j < i)
    <3>1. SUFFICES ASSUME j < i PROVE FALSE
      OBVIOUS
    <3>2. j <= i - 1
      BY <1>5, <1>6, <1>9, <3>1
    <3>3. f[j] <= f[i - 1]
      BY <1>3, <1>5, <1>6, <1>9, <3>2
    <3>4. QED
      BY <1>5, <1>6, <1>8, <1>9, <3>3
  <2>3. QED
    BY <1>5, <1>6, <1>9, <2>1, <2>2
<1>11. u - f[j - 1] = k
  BY <1>5, <1>6, <1>7 DEF u
<1>12. QED
  BY <1>4, <1>10, <1>11 DEF u, f

(* What is sent is what is received: the streams have the same length, and *)
(* the vector a receive is meant for lies where the receive reads.         *)
LEMMA StreamsMatch ==
    ASSUME NEW nm \in DOMAIN Scenarios, NEW p \in PartiesOf(nm), NEW t \in WorkersOf(nm),
           NEW q \in PartiesOf(nm), q # p
    PROVE  /\ SendOffset(nm, q, t, p)[Len(Prog(nm, q, t))] = GetOffset(nm, p, t, q)[Len(Prog(nm, p, t))]
           /\ \A i \in Gets(nm, p, t, q) :
                \E j \in Sends(nm, q, t, p) :
                  /\ MeantIn[nm][p][t][i] = Prog(nm, q, t)[j].vec
                  /\ Len(Prog(nm, q, t)[j].vec) = Prog(nm, p, t)[i].len
                  /\ SendOffset(nm, q, t, p)[j - 1] = GetOffset(nm, p, t, q)[i - 1]
<1> DEFINE N == Len(Prog(nm, q, t))
           M == Len(Prog(nm, p, t))
           S == Sends(nm, q, t, p)
           T == Gets(nm, p, t, q)
           f == SendOffset(nm, q, t, p)
           g == GetOffset(nm, p, t, q)
           x == SendSize(nm, q, t, p)
           y == GetSize(nm, p, t, q)
<1>1. N \in Nat /\ M \in Nat /\ S \in SUBSET (1 .. N) /\ T \in SUBSET (1 .. M)
  BY Positions
<1>2. /\ f \in [0 .. N -> Nat] /\ f[0] = 0 /\ x \in [1 .. N -> Nat]
      /\ \A j \in 1 .. N : f[j] = f[j - 1] + x[j]
      /\ \A j \in (1 .. N) \ S : x[j] = 0
  BY SendOffsets, SendSizes
<1>3. /\ g \in [0 .. M -> Nat] /\ g[0] = 0 /\ y \in [1 .. M -> Nat]
      /\ \A i \in 1 .. M : g[i] = g[i - 1] + y[i]
      /\ \A i \in (1 .. M) \ T : y[i] = 0
  BY GetOffsets, GetSizes
<1>5. (\A j \in S : x[j] = Len(Prog(nm, q, t)[j].vec)) /\ \A i \in T : y[i] = Prog(nm, p, t)[i].len
  BY SendSizes, GetSizes
<1>4. Cardinality(S) = Cardinality(T) /\ \A j \in S, i \in T : Rank(S, j) = Rank(T, i) => x[j] = y[i]
  BY <1>5, MatchFacts
<1>6. ASSUME NEW i \in T
      PROVE  MeantIn[nm][p][t][i] = Prog(nm, q, t)[CHOOSE j \in S : Rank(S, j) = Rank(T, i)].vec
  <2>1. i \in ReceivesOf(Prog(nm, p, t)) /\ Prog(nm, p, t)[i].peer = q
    BY DEF Gets, ReceivesFrom
  <2>2. QED
    BY <2>1 DEF MeantIn, PartiesOf, WorkersOf, Prog, Sends, Gets
<1> HIDE DEF N, M, S, T, f, g, x, y
<1>7. \A a \in 0 .. N, b \in 0 .. M : Rank(S, a) = Rank(T, b) => f[a] = g[b]
  <2>1. AddsUp(f, N, S, x) /\ AddsUp(g, M, T, y) /\ SameSizes(S, x, T, y)
    BY <1>2, <1>3, <1>4 DEF AddsUp, SameSizes
  <2>2. QED
    BY ONLY <1>1, <2>1, OffsetsAgree
<1>8. f[N] = g[M]
  <2>1. Rank(S, N) = Cardinality(S) /\ Rank(T, M) = Cardinality(T)
    BY <1>1, RankRecursion
  <2>2. N \in 0 .. N /\ M \in 0 .. M
    BY <1>1
  <2>3. QED
    BY <1>4, <1>7, <2>1, <2>2
<1>9. ASSUME NEW i \in T
      PROVE  \E j \in S : /\ MeantIn[nm][p][t][i] = Prog(nm, q, t)[j].vec
                          /\ x[j] = y[i] /\ f[j - 1] = g[i - 1]
  <2>1. Rank(T, i) \in 1 .. Cardinality(S) /\ Rank(T, i) = Rank(T, i - 1) + 1
    BY <1>1, <1>4, RankBounds
  <2> DEFINE j == CHOOSE j \in S : Rank(S, j) = Rank(T, i)
  <2>2. \E l \in S : Rank(S, l) = Rank(T, i)
    BY <1>1, <2>1, RankOnto
  <2>3. j \in S /\ Rank(S, j) = Rank(T, i)
    BY <2>2, Zenon
  <2>4. MeantIn[nm][p][t][i] = Prog(nm, q, t)[j].vec
    BY <1>6
  <2> HIDE DEF j
  <2>5. x[j] = y[i]
    BY <1>4, <2>3
  <2>6. Rank(S, j) = Rank(S, j - 1) + 1
    BY <1>1, <2>3, RankBounds
  <2>7. \A m \in Nat : Rank(S, m) \in Nat
    BY <1>1, RankRecursion
  <2>8. \A m \in Nat : Rank(T, m) \in Nat
    BY <1>1, RankRecursion
  <2>9. j - 1 \in 0 .. N /\ i - 1 \in 0 .. M /\ j - 1 \in Nat /\ i - 1 \in Nat
    BY <1>1, <2>3
  <2>10. Rank(S, j - 1) = Rank(T, i - 1)
    BY <2>1, <2>3, <2>6, <2>7, <2>8, <2>9
  <2>11. f[j - 1] = g[i - 1]
    BY <1>7, <2>9, <2>10
  <2>12. QED
    BY <2>3, <2>4, <2>5, <2>11
<1>10. \A i \in T : \E j \in S : /\ MeantIn[nm][p][t][i] = Prog(nm, q, t)[j].vec
                                /\ Len(Prog(nm, q, t)[j].vec) = Prog(nm, p, t)[i].len
                                /\ f[j - 1] = g[i - 1]
  BY <1>5, <1>9
<1>11. QED
  BY <1>8, <1>10 DEF N, M, S, T, f, g

(* The vector meant for a receive is what the stream has there.            *)
LEMMA MeantInStream ==
    ASSUME NEW nm \in DOMAIN Scenarios, NEW p \in PartiesOf(nm), NEW t \in WorkersOf(nm),
           NEW q \in PartiesOf(nm), q # p, NEW i \in Gets(nm, p, t, q)
    PROVE  /\ Len(MeantIn[nm][p][t][i]) = Prog(nm, p, t)[i].len
           /\ DOMAIN MeantIn[nm][p][t][i] = 1 .. Prog(nm, p, t)[i].len
           /\ \A k \in 1 .. Prog(nm, p, t)[i].len :
                MeantIn[nm][p][t][i][k] = StreamUnit(nm, q, t, p, GetOffset(nm, p, t, q)[i - 1] + k)
<1>1. PICK j \in Sends(nm, q, t, p) :
             /\ MeantIn[nm][p][t][i] = Prog(nm, q, t)[j].vec
             /\ Len(Prog(nm, q, t)[j].vec) = Prog(nm, p, t)[i].len
             /\ SendOffset(nm, q, t, p)[j - 1] = GetOffset(nm, p, t, q)[i - 1]
  BY StreamsMatch
<1>2. DOMAIN Prog(nm, q, t)[j].vec = 1 .. Len(Prog(nm, q, t)[j].vec)
  BY Positions
<1>3. \A k \in 1 .. Len(Prog(nm, q, t)[j].vec) :
        StreamUnit(nm, q, t, p, SendOffset(nm, q, t, p)[j - 1] + k) = Prog(nm, q, t)[j].vec[k]
  BY VectorInStream
<1>4. QED
  BY <1>1, <1>2, <1>3

-----------------------------------------------------------------------------
(* Something was pushed to q before position m and not yet waited for.     *)
Outstanding(nm, p, t, q, m) ==
    \E j \in Sends(nm, p, t, q) :
        /\ j < m
        /\ \A l \in j + 1 .. m - 1 :
             ~(Prog(nm, p, t)[l].do \in {"push", "wait"} /\ Prog(nm, p, t)[l].peer = q)

(* A push begins to be outstanding, and only its wait ends that.           *)
LEMMA Outstands ==
    ASSUME NEW nm \in DOMAIN Scenarios, NEW p \in PartiesOf(nm), NEW t \in WorkersOf(nm), NEW q
    PROVE  /\ \A m \in Sends(nm, p, t, q) :
                ~Outstanding(nm, p, t, q, m) /\ Outstanding(nm, p, t, q, m + 1)
           /\ \A m \in 1 .. Len(Prog(nm, p, t)) :
                /\ Outstanding(nm, p, t, q, m)
                /\ ~(Prog(nm, p, t)[m].do = "wait" /\ Prog(nm, p, t)[m].peer = q)
                => Outstanding(nm, p, t, q, m + 1)
           /\ \A m \in Nat : m > Len(Prog(nm, p, t)) => ~Outstanding(nm, p, t, q, m)
<1> DEFINE B == Prog(nm, p, t)
           S == Sends(nm, p, t, q)
           Mine(l) == B[l].do \in {"push", "wait"} /\ B[l].peer = q
           O(m) == \E j \in S : j < m /\ \A l \in j + 1 .. m - 1 : ~Mine(l)
<1>1. Len(B) \in Nat /\ S \in SUBSET (1 .. Len(B)) /\ DOMAIN B = 1 .. Len(B)
  BY Positions
<1>2. \A m : Outstanding(nm, p, t, q, m) <=> O(m)
  BY DEF Outstanding
<1>3. \A j \in S : j \in 1 .. Len(B) /\ B[j].do = "push" /\ B[j].peer = q
  BY <1>1 DEF Sends, PushesTo
<1>4. \A l \in 1 .. Len(B) : B[l].do = "push" /\ B[l].peer = q => l \in S
  BY <1>1 DEF Sends, PushesTo
<1>5. ASSUME NEW j \in S
      PROVE  \E k \in j + 1 .. Len(B) : /\ B[k].do = "wait" /\ B[k].peer = q
                                        /\ \A l \in j + 1 .. k - 1 : l \notin S
  <2>1. j \in DOMAIN B /\ B[j].do = "push" /\ B[j].peer = q
    BY <1>1, <1>3
  <2>2. IsProgram(B, p, PartiesOf(nm))
    BY ProgramFacts
  <2>3. S = PushesTo(B, q)
    BY DEF Sends
  <2> HIDE DEF B, S
  <2>4. QED
    BY <2>1, <2>2, <2>3 DEF IsProgram
<1> HIDE DEF B, S
<1>6. ASSUME NEW j \in S, NEW m \in Nat, j < m, \A l \in j + 1 .. m - 1 : ~Mine(l)
      PROVE  m \notin S /\ m <= Len(B)
  <2>1. PICK k \in j + 1 .. Len(B) : /\ B[k].do = "wait" /\ B[k].peer = q
                                     /\ \A l \in j + 1 .. k - 1 : l \notin S
    BY <1>5
  <2>2. j \in Nat /\ k \in Nat /\ Mine(k)
    BY <1>1, <1>3, <2>1
  <2>3. ~(k <= m - 1)
    BY <1>6, <2>1, <2>2
  <2>4. m <= k
    BY <2>2, <2>3
  <2>5. CASE m = k
    <3>1. m \notin S
      BY <1>3, <2>1, <2>5
    <3>2. QED
      BY <1>1, <2>1, <2>5, <3>1
  <2>6. CASE m # k
    <3>1. m \in j + 1 .. k - 1
      BY <1>6, <2>2, <2>4, <2>6
    <3>2. m <= Len(B)
      BY <1>1, <2>1, <3>1
    <3>3. QED
      BY <2>1, <3>1, <3>2
  <2>7. QED
    BY <2>5, <2>6
<1>7. ASSUME NEW m \in S PROVE ~O(m) /\ O(m + 1)
  <2>1. m \in Nat
    BY <1>1, <1>3
  <2>2. ~O(m)
    BY <1>6, <2>1
  <2>3. m < m + 1 /\ m + 1 .. (m + 1) - 1 = {}
    BY <2>1
  <2>4. O(m + 1)
    BY <2>3
  <2>5. QED
    BY <2>2, <2>4
<1>8. ASSUME NEW m \in 1 .. Len(B), O(m), ~(B[m].do = "wait" /\ B[m].peer = q) PROVE O(m + 1)
  <2>1. PICK j \in S : j < m /\ \A l \in j + 1 .. m - 1 : ~Mine(l)
    BY <1>8
  <2>2. m \in Nat /\ j \in Nat
    BY <1>1, <1>3
  <2>3. m \notin S
    BY <1>6, <2>1, <2>2
  <2>4. ~Mine(m)
    BY <1>4, <1>8, <2>3
  <2>5. \A l \in j + 1 .. (m + 1) - 1 : l \in j + 1 .. m - 1 \/ l = m
    BY <2>2
  <2>6. j < m + 1
    BY <2>1, <2>2
  <2> HIDE DEF Mine
  <2>7. QED
    BY <2>1, <2>4, <2>5, <2>6
<1>9. ASSUME NEW m \in Nat, m > Len(B) PROVE ~O(m)
  <2>1. ~(m <= Len(B))
    BY <1>1, <1>9
  <2>2. QED
    BY <1>6, <2>1
<1> HIDE DEF O
<1>10. QED
  BY <1>2, <1>7, <1>8, <1>9 DEF B, S

(* The rings of a send thread belong to workers, and lead to others.       *)
LEMMA RingsServed ==
    ASSUME NEW nm \in DOMAIN Scenarios, NEW p \in PartiesOf(nm),
           NEW s \in 0 .. Scenarios[nm].sendThreads - 1, NEW n \in DOMAIN RingsIn[nm][p][s]
    PROVE  /\ n \in Nat /\ 0 \in DOMAIN RingsIn[nm][p][s]
           /\ RingsIn[nm][p][s][n].worker \in WorkersOf(nm)
           /\ RingsIn[nm][p][s][n].peer \in PartiesOf(nm) /\ RingsIn[nm][p][s][n].peer # p
<1> DEFINE W == Scenarios[nm].workers
           X == Scenarios[nm].sendThreads
           peers == Scenarios[nm].parties - 1
           served == (W - s + X - 1) \div X
<1>1. W \in Nat /\ X \in Nat /\ 1 <= X /\ X <= W /\ peers \in Nat /\ 1 <= peers
      /\ peers = Scenarios[nm].parties - 1
  BY ScenariosAssumption
<1>2. PartiesOf(nm) = 0 .. peers /\ WorkersOf(nm) = 0 .. W - 1
  BY <1>1 DEF PartiesOf, WorkersOf
<1>3. RingsIn[nm][p][s] = [i \in 0 .. served * peers - 1 |->
          [worker |-> s + X * (i \div peers),
           peer |-> IF i % peers < p THEN i % peers ELSE (i % peers) + 1]]
  BY DEF RingsIn, PartiesOf
<1>4. s \in Nat /\ s <= X - 1 /\ p \in Nat /\ p <= peers
  BY <1>1, <1>2
<1> HIDE DEF W, X, peers
<1>5. served \in Nat /\ X * served <= W - s + X - 1
  <2>1. W - s + X - 1 \in Nat /\ X > 0
    BY <1>1, <1>4
  <2> DEFINE a == W - s + X - 1
  <2> HIDE DEF a
  <2>2. a \in Nat
    BY <2>1 DEF a
  <2>3. a % X \in 0 .. X - 1 /\ a \div X \in Int /\ a = X * (a \div X) + (a % X)
    BY <1>1, <2>1, <2>2, DivMod
  <2>4. a \div X \in Nat
    BY <1>1, <2>1, <2>2, DivNat
  <2>5. a \div X = served
    BY DEF a
  <2> HIDE DEF served
  <2>6. QED
    BY <1>1, <2>2, <2>3, <2>4, <2>5 DEF a
<1> HIDE DEF served
<1>6. n \in 0 .. served * peers - 1 /\ n \in Nat /\ n <= served * peers - 1
  BY <1>1, <1>3, <1>5
<1>7. served * peers \in Nat /\ 0 \in 0 .. served * peers - 1
  BY <1>1, <1>5, <1>6
<1> DEFINE d == n \div peers
           r == n % peers
<1>8. r \in 0 .. peers - 1 /\ d \in Int /\ n = peers * d + r
  BY <1>1, <1>6, DivMod
<1>9. d \in Nat
  BY <1>1, <1>6, DivNat
<1>10. /\ RingsIn[nm][p][s][n].worker = s + X * d
       /\ RingsIn[nm][p][s][n].peer = IF r < p THEN r ELSE r + 1
  BY <1>3, <1>6
<1> HIDE DEF d, r
<1>11. d <= served - 1
  <2>1. SUFFICES ASSUME served <= d PROVE FALSE
    BY <1>5, <1>9
  <2>2. served * peers <= d * peers
    BY <1>1, <1>5, <1>9, <2>1, MulMono
  <2>3. d * peers = peers * d /\ d * peers \in Nat
    BY <1>1, <1>9
  <2>4. QED
    BY <1>1, <1>6, <1>7, <1>8, <2>2, <2>3
<1>12. s + X * d \in 0 .. W - 1
  <2>1. X * d <= X * (served - 1) /\ served - 1 \in Int
    BY <1>1, <1>5, <1>9, <1>11, MulMono
  <2>2. X * (served - 1) = X * served - X /\ X * d \in Nat /\ X * served \in Nat
    BY <1>1, <1>5, <1>9
  <2>3. QED
    BY <1>1, <1>4, <1>5, <2>1, <2>2
<1>13. (IF r < p THEN r ELSE r + 1) \in 0 .. peers /\ (IF r < p THEN r ELSE r + 1) # p
  BY <1>1, <1>4, <1>8
<1>14. DOMAIN RingsIn[nm][p][s] = 0 .. served * peers - 1
  BY <1>3
<1>15. QED
  BY <1>2, <1>6, <1>7, <1>10, <1>12, <1>13, <1>14

-----------------------------------------------------------------------------
(* v is what the stream has after its first o units.                       *)
InStream(nm, q, t, p, v, o) == \A k \in 1 .. Len(v) : v[k] = StreamUnit(nm, q, t, p, o + k)

LEMMA Nothing == Len(<<>>) = 0 /\ \A U : <<>> \in Seq(U)
OBVIOUS

(* Nothing is anywhere in the stream.                                      *)
LEMMA EmptyInStream ==
    ASSUME NEW nm, NEW q, NEW t, NEW p, NEW o PROVE InStream(nm, q, t, p, <<>>, o)
BY DEF InStream

(* Reading n units of w after v.                                           *)
LEMMA ReadFrom ==
    ASSUME NEW nm, NEW q, NEW t, NEW p, NEW U, NEW v \in Seq(U), NEW w \in Seq(U), NEW o \in Nat,
           InStream(nm, q, t, p, v, o), InStream(nm, q, t, p, w, o + Len(v)), NEW n \in 1 .. Len(w)
    PROVE  /\ v \o SubSeq(w, 1, n) \in Seq(U) /\ SubSeq(w, n + 1, Len(w)) \in Seq(U)
           /\ Len(v \o SubSeq(w, 1, n)) = Len(v) + n
           /\ Len(SubSeq(w, n + 1, Len(w))) = Len(w) - n
           /\ InStream(nm, q, t, p, v \o SubSeq(w, 1, n), o)
           /\ InStream(nm, q, t, p, SubSeq(w, n + 1, Len(w)), (o + Len(v)) + n)
<1>1. Len(v) \in Nat /\ Len(w) \in Nat /\ n \in Nat /\ 1 <= n /\ n <= Len(w)
  BY LenProperties
<1>2. \A i \in 1 .. Len(w) : w[i] \in U
  BY ElementOfSeq
<1> DEFINE a == SubSeq(w, 1, n)
           b == SubSeq(w, n + 1, Len(w))
<1>3. a \in Seq(U) /\ Len(a) = n /\ \A i \in 1 .. n : a[i] = w[i]
  <2>1. 1 \in Int /\ n \in Int /\ \A i \in 1 .. n : w[i] \in U
    BY <1>1, <1>2
  <2>2. /\ a \in Seq(U) /\ Len(a) = IF 1 <= n THEN n - 1 + 1 ELSE 0
        /\ \A i \in 1 .. n - 1 + 1 : a[i] = w[1 + i - 1]
    BY ONLY <2>1, SubSeqProperties
  <2> HIDE DEF a
  <2>3. QED
    BY <1>1, <2>2
<1>4. b \in Seq(U) /\ Len(b) = Len(w) - n /\ \A i \in 1 .. Len(w) - n : b[i] = w[n + i]
  <2>1. n + 1 \in Int /\ Len(w) \in Int /\ \A i \in n + 1 .. Len(w) : w[i] \in U
    BY <1>1, <1>2
  <2>2. /\ b \in Seq(U) /\ Len(b) = IF n + 1 <= Len(w) THEN Len(w) - (n + 1) + 1 ELSE 0
        /\ \A i \in 1 .. Len(w) - (n + 1) + 1 : b[i] = w[(n + 1) + i - 1]
    BY ONLY <2>1, SubSeqProperties
  <2> HIDE DEF b
  <2>3. Len(b) = Len(w) - n
    BY <1>1, <2>2
  <2>4. ASSUME NEW i \in 1 .. Len(w) - n PROVE b[i] = w[n + i]
    <3>1. (n + 1) + i - 1 = n + i /\ Len(w) - (n + 1) + 1 = Len(w) - n
      BY <1>1
    <3>2. QED
      BY <2>2, <3>1
  <2>5. QED
    BY <2>2, <2>3, <2>4
<1> HIDE DEF a, b
<1>5. /\ v \o a \in Seq(U) /\ Len(v \o a) = Len(v) + n
      /\ \A i \in 1 .. Len(v) + n : (v \o a)[i] = IF i <= Len(v) THEN v[i] ELSE a[i - Len(v)]
  BY <1>3, ConcatProperties
<1>6. ASSUME NEW i \in 1 .. Len(v) + n PROVE (v \o a)[i] = StreamUnit(nm, q, t, p, o + i)
  <2>1. CASE i <= Len(v)
    <3>1. i \in 1 .. Len(v)
      BY <1>1, <2>1
    <3>2. QED
      BY <1>5, <2>1, <3>1 DEF InStream
  <2>2. CASE ~(i <= Len(v))
    <3>1. /\ i - Len(v) \in 1 .. n /\ i - Len(v) \in 1 .. Len(w)
          /\ (o + Len(v)) + (i - Len(v)) = o + i
      BY <1>1, <2>2
    <3>2. (v \o a)[i] = w[i - Len(v)]
      BY <1>3, <1>5, <2>2, <3>1
    <3>3. w[i - Len(v)] = StreamUnit(nm, q, t, p, (o + Len(v)) + (i - Len(v)))
      BY <3>1 DEF InStream
    <3>4. QED
      BY <3>1, <3>2, <3>3
  <2>3. QED
    BY <2>1, <2>2
<1>7. ASSUME NEW i \in 1 .. Len(w) - n PROVE b[i] = StreamUnit(nm, q, t, p, ((o + Len(v)) + n) + i)
  <2>1. n + i \in 1 .. Len(w) /\ (o + Len(v)) + (n + i) = ((o + Len(v)) + n) + i
    BY <1>1
  <2>2. w[n + i] = StreamUnit(nm, q, t, p, (o + Len(v)) + (n + i))
    BY <2>1 DEF InStream
  <2>3. QED
    BY <1>4, <2>1, <2>2
<1>8. InStream(nm, q, t, p, v \o a, o) /\ InStream(nm, q, t, p, b, (o + Len(v)) + n)
  BY <1>4, <1>5, <1>6, <1>7 DEF InStream
<1>9. QED
  BY <1>3, <1>4, <1>5, <1>8 DEF a, b

(* Sending the first unit of e after w.                                    *)
LEMMA SendFrom ==
    ASSUME NEW nm, NEW q, NEW t, NEW p, NEW U, NEW w \in Seq(U), NEW e \in Seq(U), e # <<>>,
           NEW o \in Nat, InStream(nm, q, t, p, w, o), InStream(nm, q, t, p, e, o + Len(w))
    PROVE  /\ Append(w, Head(e)) \in Seq(U) /\ Tail(e) \in Seq(U)
           /\ Len(Append(w, Head(e))) = Len(w) + 1 /\ Len(Tail(e)) = Len(e) - 1
           /\ InStream(nm, q, t, p, Append(w, Head(e)), o)
           /\ InStream(nm, q, t, p, Tail(e), (o + Len(w)) + 1)
<1>1. Len(w) \in Nat /\ Len(e) \in Nat \ {0}
  BY LenProperties, EmptySeq
<1>2. /\ Head(e) = e[1] /\ Head(e) \in U /\ Tail(e) \in Seq(U) /\ Len(Tail(e)) = Len(e) - 1
      /\ \A i \in 1 .. Len(Tail(e)) : Tail(e)[i] = e[i + 1]
  BY HeadTailProperties
<1> DEFINE a == Append(w, Head(e))
           b == Tail(e)
<1>3. a \in Seq(U) /\ Len(a) = Len(w) + 1 /\ (\A i \in 1 .. Len(w) : a[i] = w[i]) /\ a[Len(w) + 1] = e[1]
  BY <1>2, AppendProperties
<1>4. b \in Seq(U) /\ Len(b) = Len(e) - 1 /\ \A i \in 1 .. Len(e) - 1 : b[i] = e[i + 1]
  BY <1>2
<1> HIDE DEF a, b
<1>5. ASSUME NEW i \in 1 .. Len(w) + 1 PROVE a[i] = StreamUnit(nm, q, t, p, o + i)
  <2>1. CASE i \in 1 .. Len(w)
    BY <1>3, <2>1 DEF InStream
  <2>2. CASE i = Len(w) + 1
    <3>1. (o + Len(w)) + 1 = o + i /\ 1 \in 1 .. Len(e)
      BY <1>1, <2>2
    <3>2. e[1] = StreamUnit(nm, q, t, p, (o + Len(w)) + 1)
      BY <3>1 DEF InStream
    <3>3. QED
      BY <1>3, <2>2, <3>1, <3>2
  <2>3. QED
    BY <1>1, <2>1, <2>2
<1>6. ASSUME NEW i \in 1 .. Len(e) - 1 PROVE b[i] = StreamUnit(nm, q, t, p, ((o + Len(w)) + 1) + i)
  <2>1. i + 1 \in 1 .. Len(e) /\ (o + Len(w)) + (i + 1) = ((o + Len(w)) + 1) + i
    BY <1>1
  <2>2. e[i + 1] = StreamUnit(nm, q, t, p, (o + Len(w)) + (i + 1))
    BY <2>1 DEF InStream
  <2>3. QED
    BY <1>4, <2>1, <2>2
<1>7. InStream(nm, q, t, p, a, o) /\ InStream(nm, q, t, p, b, (o + Len(w)) + 1)
  BY <1>3, <1>4, <1>5, <1>6 DEF InStream
<1>8. QED
  BY <1>3, <1>4, <1>7 DEF a, b

-----------------------------------------------------------------------------
(* The stream from q to p when q is at position m and p at position i with *)
(* b read so far, the connection holds w and the ring r: what p has read,  *)
(* w and r together are what q has pushed.                                 *)
Consumed(nm, q, t, p, i, b) ==
    GetOffset(nm, p, t, q)[i - 1] + (IF i \in Gets(nm, p, t, q) THEN Len(b) ELSE 0)
Left(r) == IF r = <<>> THEN 0 ELSE Len(r[1])
Intact(nm, q, t, p, m, i, b, w, r) ==
    /\ (Consumed(nm, q, t, p, i, b) + Len(w)) + Left(r) = SendOffset(nm, q, t, p)[m - 1]
    /\ InStream(nm, q, t, p, w, Consumed(nm, q, t, p, i, b))
    /\ r # <<>> => InStream(nm, q, t, p, r[1], Consumed(nm, q, t, p, i, b) + Len(w))

(* The positions of both and the types of what lies between them.          *)
IsChannel(nm, q, t, p, m, i, b, w, r, U) ==
    /\ nm \in DOMAIN Scenarios /\ q \in PartiesOf(nm) /\ p \in PartiesOf(nm) /\ t \in WorkersOf(nm)
    /\ m \in 1 .. Len(Prog(nm, q, t)) + 1 /\ i \in 1 .. Len(Prog(nm, p, t)) + 1
    /\ b \in Seq(U) /\ w \in Seq(U) /\ r \in Seq(Seq(U))

(* The lengths and offsets of a channel are numbers.                       *)
LEMMA ChannelNumbers ==
    ASSUME NEW nm, NEW q, NEW t, NEW p, NEW m, NEW i, NEW b, NEW w, NEW r, NEW U,
           IsChannel(nm, q, t, p, m, i, b, w, r, U)
    PROVE  /\ Len(Prog(nm, q, t)) \in Nat /\ Len(Prog(nm, p, t)) \in Nat
           /\ m \in Nat /\ 1 <= m /\ i \in Nat /\ 1 <= i
           /\ Len(b) \in Nat /\ Len(w) \in Nat /\ Left(r) \in Nat
           /\ (m + 1) - 1 = m /\ (i + 1) - 1 = i
           /\ SendOffset(nm, q, t, p)[m - 1] \in Nat /\ GetOffset(nm, p, t, q)[i - 1] \in Nat
           /\ Consumed(nm, q, t, p, i, b) \in Nat
<1>1. /\ nm \in DOMAIN Scenarios /\ q \in PartiesOf(nm) /\ p \in PartiesOf(nm) /\ t \in WorkersOf(nm)
      /\ m \in 1 .. Len(Prog(nm, q, t)) + 1 /\ i \in 1 .. Len(Prog(nm, p, t)) + 1
      /\ b \in Seq(U) /\ w \in Seq(U) /\ r \in Seq(Seq(U))
  BY DEF IsChannel
<1>2. Len(Prog(nm, q, t)) \in Nat /\ Len(Prog(nm, p, t)) \in Nat
  BY <1>1, Positions
<1>3. m \in Nat /\ 1 <= m /\ i \in Nat /\ 1 <= i /\ (m + 1) - 1 = m /\ (i + 1) - 1 = i
  BY <1>1, <1>2
<1>4. Len(b) \in Nat /\ Len(w) \in Nat
  BY <1>1, LenProperties
<1>5. Left(r) \in Nat
  <2>1. CASE r = <<>>
    BY <2>1 DEF Left
  <2>2. CASE r # <<>>
    <3>1. Len(r) \in Nat \ {0}
      BY <1>1, <2>2, EmptySeq
    <3>2. 1 \in 1 .. Len(r)
      BY <3>1
    <3>3. r[1] \in Seq(U)
      BY <1>1, <3>2, ElementOfSeq
    <3>4. Len(r[1]) \in Nat
      BY <3>3, LenProperties
    <3>5. QED
      BY <2>2, <3>4 DEF Left
  <2>3. QED
    BY <2>1, <2>2
<1>6. m - 1 \in 0 .. Len(Prog(nm, q, t)) /\ i - 1 \in 0 .. Len(Prog(nm, p, t))
  BY <1>1, <1>2
<1>7. SendOffset(nm, q, t, p)[m - 1] \in Nat
  <2>1. SendOffset(nm, q, t, p) \in [0 .. Len(Prog(nm, q, t)) -> Nat]
    BY <1>1, SendOffsets
  <2>2. QED
    BY <1>6, <2>1
<1>8. GetOffset(nm, p, t, q)[i - 1] \in Nat
  <2>1. GetOffset(nm, p, t, q) \in [0 .. Len(Prog(nm, p, t)) -> Nat]
    BY <1>1, GetOffsets
  <2>2. QED
    BY <1>6, <2>1
<1>9. Consumed(nm, q, t, p, i, b) \in Nat
  BY <1>4, <1>8 DEF Consumed
<1>10. QED
  BY <1>2, <1>3, <1>4, <1>5, <1>7, <1>8, <1>9

(* The sender pushes a vector: the empty ring now holds it.                *)
LEMMA PushStep ==
    ASSUME NEW nm, NEW q, NEW t, NEW p, NEW m, NEW i, NEW b, NEW w, NEW U,
           IsChannel(nm, q, t, p, m, i, b, w, <<>>, U), m \in Sends(nm, q, t, p),
           Intact(nm, q, t, p, m, i, b, w, <<>>)
    PROVE  Intact(nm, q, t, p, m + 1, i, b, w, <<Prog(nm, q, t)[m].vec>>)
<1> DEFINE c == Consumed(nm, q, t, p, i, b)
           v == Prog(nm, q, t)[m].vec
           f == SendOffset(nm, q, t, p)
           N == Len(Prog(nm, q, t))
<1>1. /\ nm \in DOMAIN Scenarios /\ q \in PartiesOf(nm) /\ t \in WorkersOf(nm)
      /\ c \in Nat /\ Len(w) \in Nat /\ m \in Nat /\ (m + 1) - 1 = m
  BY ChannelNumbers DEF IsChannel
<1>2. m \in 1 .. N /\ Len(v) \in Nat
  BY <1>1, Positions
<1>3. f[m] = f[m - 1] + SendSize(nm, q, t, p)[m] /\ SendSize(nm, q, t, p)[m] = Len(v)
  <2>1. \A j \in 1 .. N : f[j] = f[j - 1] + SendSize(nm, q, t, p)[j]
    BY ONLY <1>1, SendOffsets
  <2>2. \A j \in Sends(nm, q, t, p) : SendSize(nm, q, t, p)[j] = Len(Prog(nm, q, t)[j].vec)
    BY ONLY <1>1, SendSizes
  <2>3. QED
    BY <1>2, <2>1, <2>2
<1>4. \A k \in 1 .. Len(v) : StreamUnit(nm, q, t, p, f[m - 1] + k) = v[k]
  BY <1>1, VectorInStream
<1>5. InStream(nm, q, t, p, v, f[m - 1])
  BY <1>4 DEF InStream
<1>6. (c + Len(w)) + Left(<<>>) = f[m - 1] /\ InStream(nm, q, t, p, w, c) /\ Left(<<>>) = 0
  BY DEF Intact, Left
<1> HIDE DEF c, v, f, N
<1>7. c + Len(w) = f[m - 1]
  BY <1>1, <1>6
<1>8. <<v>> # <<>> /\ <<v>>[1] = v /\ Left(<<v>>) = Len(v)
  BY DEF Left
<1>9. (c + Len(w)) + Left(<<v>>) = f[(m + 1) - 1] /\ InStream(nm, q, t, p, <<v>>[1], c + Len(w))
  BY <1>1, <1>3, <1>5, <1>7, <1>8
<1>10. QED
  BY <1>6, <1>9 DEF Intact, c, v, f

(* The sender goes on without pushing to p.                                *)
LEMMA SenderStep ==
    ASSUME NEW nm, NEW q, NEW t, NEW p, NEW m, NEW i, NEW b, NEW w, NEW r, NEW U,
           IsChannel(nm, q, t, p, m, i, b, w, r, U), m <= Len(Prog(nm, q, t)),
           m \notin Sends(nm, q, t, p), Intact(nm, q, t, p, m, i, b, w, r)
    PROVE  Intact(nm, q, t, p, m + 1, i, b, w, r)
<1>1. /\ nm \in DOMAIN Scenarios /\ q \in PartiesOf(nm) /\ t \in WorkersOf(nm)
      /\ m \in Nat /\ (m + 1) - 1 = m /\ SendOffset(nm, q, t, p)[m - 1] \in Nat
      /\ m \in 1 .. Len(Prog(nm, q, t))
  <2>1. /\ nm \in DOMAIN Scenarios /\ q \in PartiesOf(nm) /\ t \in WorkersOf(nm)
    BY DEF IsChannel
  <2>2. /\ m \in Nat /\ 1 <= m /\ Len(Prog(nm, q, t)) \in Nat
        /\ SendOffset(nm, q, t, p)[m - 1] \in Nat
    BY ONLY IsChannel(nm, q, t, p, m, i, b, w, r, U), ChannelNumbers
  <2>3. QED
    BY <2>1, <2>2
<1>2. SendOffset(nm, q, t, p)[m] = SendOffset(nm, q, t, p)[m - 1] + SendSize(nm, q, t, p)[m]
  BY <1>1, SendOffsets
<1>3. SendSize(nm, q, t, p)[m] = 0
  BY <1>1, SendSizes
<1>4. SendOffset(nm, q, t, p)[(m + 1) - 1] = SendOffset(nm, q, t, p)[m - 1]
  BY <1>1, <1>2, <1>3
<1>5. QED
  BY <1>4 DEF Intact

(* The receiver goes on, having read all of its vector if it was receiving *)
(* from q: n units more than b.                                            *)
LEMMA ReceiverStep ==
    ASSUME NEW nm, NEW q, NEW t, NEW p, NEW m, NEW i, NEW b, NEW w, NEW r, NEW U,
           IsChannel(nm, q, t, p, m, i, b, w, r, U), i <= Len(Prog(nm, p, t)),
           i \in Gets(nm, p, t, q) => Len(b) = Prog(nm, p, t)[i].len,
           Intact(nm, q, t, p, m, i, b, w, r)
    PROVE  Intact(nm, q, t, p, m, i + 1, <<>>, w, r)
<1>1. /\ nm \in DOMAIN Scenarios /\ p \in PartiesOf(nm) /\ t \in WorkersOf(nm)
      /\ i \in Nat /\ (i + 1) - 1 = i /\ GetOffset(nm, p, t, q)[i - 1] \in Nat
      /\ i \in 1 .. Len(Prog(nm, p, t)) /\ Len(b) \in Nat
  <2>1. /\ nm \in DOMAIN Scenarios /\ p \in PartiesOf(nm) /\ t \in WorkersOf(nm)
    BY DEF IsChannel
  <2>2. /\ i \in Nat /\ 1 <= i /\ Len(Prog(nm, p, t)) \in Nat
        /\ GetOffset(nm, p, t, q)[i - 1] \in Nat /\ Len(b) \in Nat
    BY ONLY IsChannel(nm, q, t, p, m, i, b, w, r, U), ChannelNumbers
  <2>3. QED
    BY <2>1, <2>2
<1>2. GetOffset(nm, p, t, q)[i] = GetOffset(nm, p, t, q)[i - 1] + GetSize(nm, p, t, q)[i]
  BY <1>1, GetOffsets
<1>3. GetSize(nm, p, t, q)[i] = IF i \in Gets(nm, p, t, q) THEN Len(b) ELSE 0
  BY <1>1, GetSizes
<1>4. Consumed(nm, q, t, p, i, b) = GetOffset(nm, p, t, q)[i]
  BY <1>2, <1>3 DEF Consumed
<1>5. GetOffset(nm, p, t, q)[i] \in Nat
  BY <1>1, <1>2, <1>3
<1>6. Consumed(nm, q, t, p, i + 1, <<>>) = GetOffset(nm, p, t, q)[i]
  BY <1>1, <1>5, Nothing DEF Consumed
<1>7. QED
  BY <1>4, <1>6 DEF Intact

(* The receiver reads n units from q.                                      *)
LEMMA ReadStep ==
    ASSUME NEW nm, NEW q, NEW t, NEW p, NEW m, NEW i, NEW b, NEW w, NEW r, NEW U,
           IsChannel(nm, q, t, p, m, i, b, w, r, U), i \in Gets(nm, p, t, q),
           InStream(nm, q, t, p, b, GetOffset(nm, p, t, q)[i - 1]),
           Intact(nm, q, t, p, m, i, b, w, r), NEW n \in 1 .. Len(w)
    PROVE  /\ b \o SubSeq(w, 1, n) \in Seq(U) /\ SubSeq(w, n + 1, Len(w)) \in Seq(U)
           /\ Len(b \o SubSeq(w, 1, n)) = Len(b) + n
           /\ Len(SubSeq(w, n + 1, Len(w))) <= Len(w)
           /\ InStream(nm, q, t, p, b \o SubSeq(w, 1, n), GetOffset(nm, p, t, q)[i - 1])
           /\ Intact(nm, q, t, p, m, i, b \o SubSeq(w, 1, n), SubSeq(w, n + 1, Len(w)), r)
<1> DEFINE o == GetOffset(nm, p, t, q)[i - 1]
           bb == b \o SubSeq(w, 1, n)
           ww == SubSeq(w, n + 1, Len(w))
<1>1. o \in Nat /\ Len(b) \in Nat /\ Len(w) \in Nat /\ Left(r) \in Nat /\ n \in Nat /\ n <= Len(w)
  BY ChannelNumbers
<1>2. b \in Seq(U) /\ w \in Seq(U)
  BY DEF IsChannel
<1>3. Consumed(nm, q, t, p, i, b) = o + Len(b) /\ Consumed(nm, q, t, p, i, bb) = o + Len(bb)
  BY DEF Consumed
<1>4. InStream(nm, q, t, p, w, o + Len(b))
  BY <1>3 DEF Intact
<1>5. /\ bb \in Seq(U) /\ ww \in Seq(U)
      /\ Len(bb) = Len(b) + n /\ Len(ww) = Len(w) - n
      /\ InStream(nm, q, t, p, bb, o) /\ InStream(nm, q, t, p, ww, (o + Len(b)) + n)
  <2>1. InStream(nm, q, t, p, b, o)
    OBVIOUS
  <2> HIDE DEF o
  <2>2. QED
    BY ONLY <1>1, <1>2, <1>4, <2>1, n \in 1 .. Len(w), ReadFrom
<1>6. /\ ((o + Len(b)) + Len(w)) + Left(r) = SendOffset(nm, q, t, p)[m - 1]
      /\ r # <<>> => InStream(nm, q, t, p, r[1], (o + Len(b)) + Len(w))
  BY <1>3 DEF Intact
<1> HIDE DEF o, bb, ww
<1>7. (o + Len(b)) + n = o + Len(bb) /\ (o + Len(bb)) + Len(ww) = (o + Len(b)) + Len(w) /\ Len(ww) <= Len(w)
  BY <1>1, <1>5
<1>8. Intact(nm, q, t, p, m, i, bb, ww, r)
  BY <1>3, <1>5, <1>6, <1>7 DEF Intact
<1>9. QED
  BY <1>5, <1>7, <1>8 DEF o, bb, ww

(* The send thread moves a unit from the ring to the connection.           *)
LEMMA SendStep ==
    ASSUME NEW nm, NEW q, NEW t, NEW p, NEW m, NEW i, NEW b, NEW w, NEW e, NEW U,
           IsChannel(nm, q, t, p, m, i, b, w, <<e>>, U), e \in Seq(U), e # <<>>,
           Intact(nm, q, t, p, m, i, b, w, <<e>>)
    PROVE  /\ Append(w, Head(e)) \in Seq(U) /\ Len(Append(w, Head(e))) = Len(w) + 1
           /\ Tail(e) \in Seq(U)
           /\ Intact(nm, q, t, p, m, i, b, Append(w, Head(e)), <<Tail(e)>>)
<1> DEFINE c == Consumed(nm, q, t, p, i, b)
           ww == Append(w, Head(e))
           ee == Tail(e)
<1>1. c \in Nat /\ Len(w) \in Nat /\ w \in Seq(U)
  BY ChannelNumbers DEF IsChannel
<1>2. \A x : <<x>> # <<>> /\ <<x>>[1] = x /\ Left(<<x>>) = Len(x)
  BY DEF Left
<1>3. /\ (c + Len(w)) + Len(e) = SendOffset(nm, q, t, p)[m - 1]
      /\ InStream(nm, q, t, p, w, c) /\ InStream(nm, q, t, p, e, c + Len(w))
  BY <1>2 DEF Intact
<1>4. /\ ww \in Seq(U) /\ ee \in Seq(U) /\ Len(ww) = Len(w) + 1 /\ Len(ee) = Len(e) - 1
      /\ InStream(nm, q, t, p, ww, c) /\ InStream(nm, q, t, p, ee, (c + Len(w)) + 1)
  <2> HIDE DEF c
  <2>1. QED
    BY ONLY <1>1, <1>3, e \in Seq(U), e # <<>>, SendFrom
<1>5. Len(e) \in Nat
  BY LenProperties
<1> HIDE DEF c, ww, ee
<1>6. (c + Len(w)) + 1 = c + Len(ww) /\ (c + Len(ww)) + Len(ee) = (c + Len(w)) + Len(e)
  BY <1>1, <1>4, <1>5
<1>7. Intact(nm, q, t, p, m, i, b, ww, <<ee>>)
  BY <1>2, <1>3, <1>4, <1>6 DEF Intact, c
<1>8. QED
  BY <1>4, <1>7 DEF ww, ee

(* The send thread pops an entry it has sent.                              *)
LEMMA PopStep ==
    ASSUME NEW nm, NEW q, NEW t, NEW p, NEW m, NEW i, NEW b, NEW w,
           Intact(nm, q, t, p, m, i, b, w, <<<<>>>>)
    PROVE  Intact(nm, q, t, p, m, i, b, w, <<>>)
<1>1. Left(<<<<>>>>) = 0 /\ Left(<<>>) = 0
  BY Nothing DEF Left
<1>2. QED
  BY <1>1 DEF Intact

(* What a worker reads from others does not concern the stream from q.     *)
LEMMA ReadElsewhere ==
    ASSUME NEW nm, NEW q, NEW t, NEW p, NEW m, NEW i, NEW b, NEW w, NEW r, NEW bb,
           i \notin Gets(nm, p, t, q), Intact(nm, q, t, p, m, i, b, w, r)
    PROVE  Intact(nm, q, t, p, m, i, bb, w, r)
BY DEF Intact, Consumed

-----------------------------------------------------------------------------
(* Worker t of party p at position i, with b read of the vector it is      *)
(* receiving and x delivered before: all of it is where it belongs.        *)
WorkerOK(nm, p, t, i, b, x) ==
    LET program == Prog(nm, p, t)
        place(k) == Rank(ReceivesOf(program), k)
    IN /\ b # <<>> => i \in ReceivesOf(program) /\ Len(b) < program[i].len
       /\ Len(x) = place(i - 1)
       /\ \A k \in ReceivesOf(program) : k < i => Len(x[place(k)]) <= program[k].len
       /\ \A q \in PartiesOf(nm) :
            /\ i \in Gets(nm, p, t, q) => InStream(nm, q, t, p, b, GetOffset(nm, p, t, q)[i - 1])
            /\ \A k \in Gets(nm, p, t, q) : k < i =>
                 InStream(nm, q, t, p, x[place(k)], GetOffset(nm, p, t, q)[k - 1])
InFull(nm, p, t, i, x) ==
    \A k \in ReceivesOf(Prog(nm, p, t)) : k < i =>
        Len(x[Rank(ReceivesOf(Prog(nm, p, t)), k)]) = Prog(nm, p, t)[k].len

IsWorker(nm, p, t, i, b, x, U) ==
    /\ nm \in DOMAIN Scenarios /\ p \in PartiesOf(nm) /\ t \in WorkersOf(nm)
    /\ i \in 1 .. Len(Prog(nm, p, t)) + 1 /\ b \in Seq(U) /\ x \in Seq(Seq(U))

(* The rank grows with the position.                                       *)
LEMMA RankMonotone ==
    ASSUME NEW N \in Nat, NEW S \in SUBSET (1 .. N), NEW a \in Nat, NEW b \in Nat, a <= b
    PROVE  Rank(S, a) <= Rank(S, b)
<1>1. \A j \in S : j \in 1 .. N
  BY Zenon
<1>2. \A j \in S : j <= a => j <= b
  BY ONLY <1>1, N \in Nat, a \in Nat, b \in Nat, a <= b
<1>3. {j \in S : j <= a} \in SUBSET {j \in S : j <= b}
  BY ONLY <1>2, Zenon
<1>4. IsFiniteSet({j \in S : j <= b})
  <2>1. IsFiniteSet(1 .. N)
    BY FS_Interval
  <2>2. {j \in S : j <= b} \in SUBSET (1 .. N)
    BY ONLY <1>1, Zenon
  <2>3. QED
    BY ONLY <2>1, <2>2, FS_Subset
<1>5. QED
  BY ONLY <1>3, <1>4, FS_Subset DEF Rank

(* Where the vectors delivered so far are in the inbox.                    *)
LEMMA Places ==
    ASSUME NEW nm, NEW p, NEW t, NEW i, NEW b, NEW x, NEW U, IsWorker(nm, p, t, i, b, x, U),
           Len(x) = Rank(ReceivesOf(Prog(nm, p, t)), i - 1)
    PROVE  /\ i \in Nat /\ 1 <= i /\ (i + 1) - 1 = i /\ Len(x) \in Nat
           /\ \A k \in ReceivesOf(Prog(nm, p, t)) : k \in Nat
           /\ \A k \in ReceivesOf(Prog(nm, p, t)) : k < i =>
                Rank(ReceivesOf(Prog(nm, p, t)), k) \in 1 .. Len(x)
           /\ Rank(ReceivesOf(Prog(nm, p, t)), i) =
                Len(x) + (IF i \in ReceivesOf(Prog(nm, p, t)) THEN 1 ELSE 0)
<1> DEFINE N == Len(Prog(nm, p, t))
           S == ReceivesOf(Prog(nm, p, t))
<1>1. nm \in DOMAIN Scenarios /\ p \in PartiesOf(nm) /\ t \in WorkersOf(nm) /\ i \in 1 .. N + 1
  BY DEF IsWorker
<1>2. N \in Nat /\ S \in SUBSET (1 .. N)
  BY <1>1, Positions
<1> HIDE DEF N, S
<1>3. i \in Nat /\ 1 <= i /\ (i + 1) - 1 = i /\ i - 1 \in Nat /\ (i - 1) + 1 = i
  BY <1>1, <1>2
<1>4. /\ \A m \in Nat : Rank(S, m) \in Nat
      /\ \A m \in Nat : Rank(S, m + 1) = Rank(S, m) + (IF m + 1 \in S THEN 1 ELSE 0)
  BY ONLY <1>2, RankRecursion
<1>5. Len(x) \in Nat /\ Len(x) = Rank(S, i - 1)
  BY <1>3, <1>4 DEF S
<1>6. \A k \in S : k \in 1 .. N
  BY <1>2
<1>7. \A k \in S : k \in Nat
  BY <1>2, <1>6
<1>8. ASSUME NEW k \in S, k < i PROVE Rank(S, k) \in 1 .. Len(x)
  <2>1. k \in Nat /\ i - 1 \in Nat /\ k <= i - 1
    BY <1>3, <1>7, <1>8
  <2>2. Rank(S, k) <= Rank(S, i - 1)
    BY ONLY <1>2, <2>1, RankMonotone
  <2>3. Rank(S, k) \in 1 .. Cardinality(S)
    BY ONLY <1>2, k \in S, RankBounds
  <2>4. Rank(S, k) \in Nat /\ 1 <= Rank(S, k)
    BY <1>4, <2>1, <2>3
  <2>5. QED
    BY <1>5, <2>2, <2>4
<1>9. Rank(S, i) = Rank(S, i - 1) + (IF i \in S THEN 1 ELSE 0)
  BY ONLY <1>3, <1>4
<1>10. QED
  BY <1>3, <1>5, <1>7, <1>8, <1>9 DEF S

(* The worker passes a position that receives nothing.                     *)
LEMMA WorkerStep ==
    ASSUME NEW nm, NEW p, NEW t, NEW i, NEW b, NEW x, NEW U, IsWorker(nm, p, t, i, b, x, U),
           WorkerOK(nm, p, t, i, b, x), i \notin ReceivesOf(Prog(nm, p, t))
    PROVE  /\ b = <<>> /\ WorkerOK(nm, p, t, i + 1, <<>>, x)
           /\ InFull(nm, p, t, i, x) => InFull(nm, p, t, i + 1, x)
<1> DEFINE S == ReceivesOf(Prog(nm, p, t))
<1>1. b = <<>> /\ Len(x) = Rank(S, i - 1)
  BY DEF WorkerOK
<1>2. /\ i \in Nat /\ (i + 1) - 1 = i /\ Len(x) \in Nat /\ \A k \in S : k \in Nat
      /\ Rank(S, i) = Len(x) + 0
  BY <1>1, Places
<1>3. Rank(S, (i + 1) - 1) = Len(x)
  BY <1>2
<1>4. \A k \in S : k < i + 1 => k < i
  BY <1>2
<1>5. \A q : \A k \in Gets(nm, p, t, q) : k \in S
  BY DEF Gets, ReceivesFrom
<1>6. WorkerOK(nm, p, t, i + 1, <<>>, x)
  <2>1. \A k \in S : k < i + 1 => Len(x[Rank(S, k)]) <= Prog(nm, p, t)[k].len
    BY <1>4 DEF WorkerOK
  <2>2. \A q \in PartiesOf(nm) : InStream(nm, q, t, p, <<>>, GetOffset(nm, p, t, q)[(i + 1) - 1])
    BY EmptyInStream
  <2>3. \A q \in PartiesOf(nm) : \A k \in Gets(nm, p, t, q) : k < i + 1 =>
          InStream(nm, q, t, p, x[Rank(S, k)], GetOffset(nm, p, t, q)[k - 1])
    BY <1>4, <1>5 DEF WorkerOK
  <2>4. QED
    BY <1>3, <2>1, <2>2, <2>3 DEF WorkerOK
<1>7. InFull(nm, p, t, i, x) => InFull(nm, p, t, i + 1, x)
  BY <1>4 DEF InFull
<1>8. QED
  BY <1>1, <1>6, <1>7

(* The worker has read bb and misses some of its vector still.             *)
LEMMA WorkerReads ==
    ASSUME NEW nm, NEW p, NEW t, NEW i, NEW b, NEW x, NEW q, NEW bb,
           WorkerOK(nm, p, t, i, b, x), i \in Gets(nm, p, t, q), Len(bb) < Prog(nm, p, t)[i].len,
           InStream(nm, q, t, p, bb, GetOffset(nm, p, t, q)[i - 1])
    PROVE  WorkerOK(nm, p, t, i, bb, x)
<1>1. i \in ReceivesOf(Prog(nm, p, t)) /\ \A o : i \in Gets(nm, p, t, o) => o = q
  BY DEF Gets, ReceivesFrom
<1>2. QED
  BY <1>1 DEF WorkerOK

(* A receive returns v.                                                    *)
LEMMA WorkerDelivers ==
    ASSUME NEW nm, NEW p, NEW t, NEW i, NEW b, NEW x, NEW U, IsWorker(nm, p, t, i, b, x, U),
           WorkerOK(nm, p, t, i, b, x), NEW q, i \in Gets(nm, p, t, q),
           NEW v \in Seq(U), Len(v) <= Prog(nm, p, t)[i].len,
           InStream(nm, q, t, p, v, GetOffset(nm, p, t, q)[i - 1])
    PROVE  /\ Append(x, v) \in Seq(Seq(U)) /\ WorkerOK(nm, p, t, i + 1, <<>>, Append(x, v))
           /\ InFull(nm, p, t, i, x) /\ Len(v) = Prog(nm, p, t)[i].len
                => InFull(nm, p, t, i + 1, Append(x, v))
<1> DEFINE S == ReceivesOf(Prog(nm, p, t))
           y == Append(x, v)
<1>1. Len(x) = Rank(S, i - 1)
  BY DEF WorkerOK
<1>2. i \in S /\ \A o : i \in Gets(nm, p, t, o) => o = q
  BY DEF Gets, ReceivesFrom
<1>3. /\ i \in Nat /\ (i + 1) - 1 = i /\ Len(x) \in Nat /\ \A k \in S : k \in Nat
      /\ \A k \in S : k < i => Rank(S, k) \in 1 .. Len(x)
      /\ Rank(S, i) = Len(x) + 1
  BY <1>1, <1>2, Places
<1>4. /\ y \in Seq(Seq(U)) /\ Len(y) = Len(x) + 1 /\ y[Len(x) + 1] = v
      /\ \A k \in 1 .. Len(x) : y[k] = x[k]
  <2>1. x \in Seq(Seq(U))
    BY DEF IsWorker
  <2>2. QED
    BY ONLY <2>1, v \in Seq(U), AppendProperties
<1>5. \A k \in S : k < i + 1 => k < i \/ k = i
  BY <1>3
<1>6. y[Rank(S, i)] = v /\ \A k \in S : k < i => y[Rank(S, k)] = x[Rank(S, k)]
  BY <1>3, <1>4
<1>7. \A o : \A k \in Gets(nm, p, t, o) : k \in S
  BY DEF Gets, ReceivesFrom
<1> HIDE DEF y
<1>8. WorkerOK(nm, p, t, i + 1, <<>>, y)
  <2>1. Len(y) = Rank(S, (i + 1) - 1)
    BY <1>3, <1>4
  <2>2. \A k \in S : k < i + 1 => Len(y[Rank(S, k)]) <= Prog(nm, p, t)[k].len
    BY <1>5, <1>6 DEF WorkerOK
  <2>3. \A o \in PartiesOf(nm) : InStream(nm, o, t, p, <<>>, GetOffset(nm, p, t, o)[(i + 1) - 1])
    BY EmptyInStream
  <2>4. ASSUME NEW o \in PartiesOf(nm), NEW k \in Gets(nm, p, t, o), k < i + 1
        PROVE  InStream(nm, o, t, p, y[Rank(S, k)], GetOffset(nm, p, t, o)[k - 1])
    <3>1. CASE k < i
      BY <1>6, <1>7, <3>1 DEF WorkerOK
    <3>2. CASE k = i
      BY <1>2, <1>6, <3>2
    <3>3. QED
      BY <1>5, <1>7, <2>4, <3>1, <3>2
  <2>5. QED
    BY <2>1, <2>2, <2>3, <2>4 DEF WorkerOK
<1>9. InFull(nm, p, t, i, x) /\ Len(v) = Prog(nm, p, t)[i].len => InFull(nm, p, t, i + 1, y)
  BY <1>5, <1>6 DEF InFull
<1>10. QED
  BY <1>4, <1>8, <1>9 DEF y

-----------------------------------------------------------------------------
(* The units of all vectors pushed in a scenario.                          *)
ElementsOf(v) == {v[k] : k \in DOMAIN v}
ProgramUnits(nm, p, t) == UNION {ElementsOf(Prog(nm, p, t)[j].vec) : j \in DOMAIN Prog(nm, p, t)}
UnitsOf(nm) == UNION {UNION {ProgramUnits(nm, p, t) : t \in WorkersOf(nm)} : p \in PartiesOf(nm)}

(* A vector pushed consists of these units.                                *)
LEMMA PushedVector ==
    ASSUME NEW nm \in DOMAIN Scenarios, NEW p \in PartiesOf(nm), NEW t \in WorkersOf(nm),
           NEW j \in DOMAIN Prog(nm, p, t), Prog(nm, p, t)[j].do = "push"
    PROVE  Prog(nm, p, t)[j].vec \in Seq(UnitsOf(nm))
<1> DEFINE v == Prog(nm, p, t)[j].vec
<1>1. IsSequence(v)
  BY ProgramFacts DEF IsProgram
<1>2. ElementsOf(v) \in SUBSET UnitsOf(nm)
  <2>1. ElementsOf(v) \in SUBSET ProgramUnits(nm, p, t)
    BY Zenon DEF ProgramUnits
  <2>2. ProgramUnits(nm, p, t) \in SUBSET UNION {ProgramUnits(nm, p, u) : u \in WorkersOf(nm)}
    BY Zenon
  <2>3. UNION {ProgramUnits(nm, p, u) : u \in WorkersOf(nm)} \in SUBSET UnitsOf(nm)
    BY Zenon DEF UnitsOf
  <2>4. QED
    BY <2>1, <2>2, <2>3, Zenon
<1> HIDE DEF v
<1>3. Len(v) \in Nat /\ v = [i \in 1 .. Len(v) |-> v[i]]
  BY <1>1 DEF IsSequence
<1>4. DOMAIN v = 1 .. Len(v)
  BY <1>3
<1>5. \A k \in 1 .. Len(v) : v[k] \in UnitsOf(nm)
  BY <1>2, <1>4 DEF ElementsOf
<1>6. v \in Seq(UnitsOf(nm))
  BY <1>3, <1>5
<1>7. QED
  BY <1>6 DEF v

(* What EXCEPT changes and what it leaves alone.                           *)
LEMMA Update ==
    ASSUME NEW P, NEW V, NEW f \in [P -> V], NEW a \in P, NEW v \in V
    PROVE  /\ [f EXCEPT ![a] = v] \in [P -> V] /\ [f EXCEPT ![a] = v][a] = v
           /\ \A p \in P : p # a => [f EXCEPT ![a] = v][p] = f[p]
OBVIOUS

LEMMA Update2 ==
    ASSUME NEW P, NEW T, NEW V, NEW f \in [P -> [T -> V]], NEW a \in P, NEW b \in T, NEW v \in V
    PROVE  /\ [f EXCEPT ![a][b] = v] \in [P -> [T -> V]] /\ [f EXCEPT ![a][b] = v][a][b] = v
           /\ \A p \in P, t \in T : ~(p = a /\ t = b) => [f EXCEPT ![a][b] = v][p][t] = f[p][t]
OBVIOUS

IsTable3(f, P, T, Q, V) == f \in [P -> [T -> [Q -> V]]]
Replaces3(g, f, a, b, c, v) == g = [f EXCEPT ![a][b][c] = v]
DiffersAt3(g, f, P, T, Q, a, b, c, v) ==
    /\ g[a][b][c] = v
    /\ \A p \in P, t \in T, q \in Q : ~(p = a /\ t = b /\ q = c) => g[p][t][q] = f[p][t][q]

LEMMA Update3 ==
    ASSUME NEW P, NEW T, NEW Q, NEW V, NEW f, NEW g, NEW a \in P, NEW b \in T, NEW c \in Q, NEW v \in V,
           IsTable3(f, P, T, Q, V), Replaces3(g, f, a, b, c, v)
    PROVE  IsTable3(g, P, T, Q, V) /\ DiffersAt3(g, f, P, T, Q, a, b, c, v)
BY DEF IsTable3, Replaces3, DiffersAt3

-----------------------------------------------------------------------------
(* The inductive invariant.                                                *)
Units == UnitsOf(scenario)
StateTypes ==
    /\ scenario \in DOMAIN Scenarios
    /\ pc \in [Parties -> [Workers -> Nat]]
    /\ buf \in [Parties -> [Workers -> Seq(Units)]]
    /\ inbox \in [Parties -> [Workers -> Seq(Seq(Units))]]
    /\ ring \in [Parties -> [Workers -> [Parties -> Seq(Seq(Units))]]]
    /\ scan \in [Parties -> [Senders -> Int]]
    /\ wire \in [Parties -> [Workers -> [Parties -> Seq(Units)]]]
    /\ status \in [Parties -> {"running", "exited", "dead"}]

(* A worker has what it should have received, and has not passed the end   *)
(* of its program.                                                         *)
WorkerHolds(p, t) ==
    /\ pc[p][t] \in 1 .. Len(Prog(scenario, p, t)) + 1
    /\ WorkerOK(scenario, p, t, pc[p][t], buf[p][t], inbox[p][t])
    /\ NobodyDead => InFull(scenario, p, t, pc[p][t], inbox[p][t])
    /\ status[p] = "exited" => pc[p][t] = Len(Prog(scenario, p, t)) + 1

(* A ring holds at most the one vector that was pushed and not yet waited  *)
(* for.                                                                    *)
RingHolds(p, t, q) ==
    /\ ring[p][t][q] # <<>> => Len(ring[p][t][q]) = 1 /\ Outstanding(scenario, p, t, q, pc[p][t])
    /\ Len(wire[p][t][q]) <= SocketCapacity

(* Nothing is lost between q and p unless q is dead, and then nothing that *)
(* comes after the loss is left.                                           *)
StreamHolds(q, t, p) ==
    \/ Intact(scenario, q, t, p, pc[q][t], pc[p][t], buf[p][t], wire[q][t][p], ring[q][t][p])
    \/ status[q] = "dead" /\ wire[q][t][p] = <<>>

ScanHolds(p, s) == scan[p][s] \in DOMAIN Rings(p, s) \cup {Idle}

CommInv ==
    /\ StateTypes
    /\ \A p \in Parties, t \in Workers : WorkerHolds(p, t)
    /\ \A p \in Parties, t \in Workers, q \in Parties : RingHolds(p, t, q)
    /\ \A q \in Parties, t \in Workers, p \in Parties : q # p => StreamHolds(q, t, p)
    /\ \A p \in Parties, s \in Senders : ScanHolds(p, s)

(* The sets of the state are those of its scenario.                        *)
LEMMA SameSets ==
    /\ Parties = PartiesOf(scenario) /\ Workers = WorkersOf(scenario)
    /\ \A p, t : Program(p, t) = Prog(scenario, p, t)
BY DEF Parties, PartiesOf, Workers, WorkersOf, NumParties, NumWorkers, Program, Prog

LEMMA SameSetsNext ==
    ASSUME scenario' = scenario
    PROVE  /\ Parties' = Parties /\ Workers' = Workers /\ Senders' = Senders /\ Units' = Units
           /\ SocketCapacity' = SocketCapacity /\ \A p, s : Rings(p, s)' = Rings(p, s)
BY DEF Parties, Workers, Senders, Units, NumParties, NumWorkers, SendThreads, SocketCapacity, Rings

(* The numbers of a scenario (ScenariosAssumption).                        *)
LEMMA ScenarioFacts ==
    ASSUME scenario \in DOMAIN Scenarios
    PROVE  SocketCapacity \in Nat /\ SocketCapacity > 0 /\ NumParties \in Nat /\ NumWorkers \in Nat
           /\ SendThreads \in Nat
BY ScenariosAssumption DEF SocketCapacity, NumParties, NumWorkers, SendThreads

(* Channels and workers of a state are what the lemmas above speak of.     *)
LEMMA ChannelTypes ==
    ASSUME StateTypes, \A p \in Parties, t \in Workers : WorkerHolds(p, t),
           NEW q \in Parties, NEW t \in Workers, NEW p \in Parties
    PROVE  /\ IsChannel(scenario, q, t, p, pc[q][t], pc[p][t], buf[p][t], wire[q][t][p],
                        ring[q][t][p], Units)
           /\ IsWorker(scenario, p, t, pc[p][t], buf[p][t], inbox[p][t], Units)
<1>1. /\ scenario \in DOMAIN Scenarios /\ buf[p][t] \in Seq(Units) /\ inbox[p][t] \in Seq(Seq(Units))
      /\ wire[q][t][p] \in Seq(Units) /\ ring[q][t][p] \in Seq(Seq(Units))
  BY DEF StateTypes
<1>2. pc[p][t] \in 1 .. Len(Prog(scenario, p, t)) + 1 /\ pc[q][t] \in 1 .. Len(Prog(scenario, q, t)) + 1
  BY DEF WorkerHolds
<1>3. q \in PartiesOf(scenario) /\ p \in PartiesOf(scenario) /\ t \in WorkersOf(scenario)
  BY SameSets
<1>4. QED
  BY <1>1, <1>2, <1>3 DEF IsChannel, IsWorker

(* Nothing has been sent or received at the beginning.                     *)
LEMMA Beginning ==
    ASSUME NEW nm \in DOMAIN Scenarios, NEW p \in PartiesOf(nm), NEW t \in WorkersOf(nm)
    PROVE  /\ 1 \in 1 .. Len(Prog(nm, p, t)) + 1
           /\ WorkerOK(nm, p, t, 1, <<>>, <<>>) /\ InFull(nm, p, t, 1, <<>>)
           /\ \A q \in PartiesOf(nm) : Intact(nm, q, t, p, 1, 1, <<>>, <<>>, <<>>)
<1> DEFINE N == Len(Prog(nm, p, t))
           S == ReceivesOf(Prog(nm, p, t))
<1>1. N \in Nat /\ S \in SUBSET (1 .. N)
  BY Positions
<1>2. \A k \in S : ~(k < 1)
  <2> HIDE DEF S
  <2>1. \A k \in S : k \in 1 .. N
    BY <1>1, Zenon
  <2>2. QED
    BY <1>1, <2>1
<1>3. Len(<<>>) = Rank(S, 1 - 1)
  <2> HIDE DEF N, S
  <2>1. Rank(S, 0) = 0
    BY ONLY <1>1, RankRecursion
  <2>2. QED
    BY <2>1, Nothing
<1>4. \A q : \A k \in Gets(nm, p, t, q) : k \in S
  BY DEF Gets, ReceivesFrom
<1>5. WorkerOK(nm, p, t, 1, <<>>, <<>>)
  BY <1>2, <1>3, <1>4, EmptyInStream DEF WorkerOK
<1>6. ASSUME NEW q \in PartiesOf(nm) PROVE Intact(nm, q, t, p, 1, 1, <<>>, <<>>, <<>>)
  <2>1. SendOffset(nm, q, t, p)[0] = 0 /\ GetOffset(nm, p, t, q)[0] = 0
    BY SendOffsets, GetOffsets
  <2>2. Consumed(nm, q, t, p, 1, <<>>) = 0
    BY <2>1, Nothing DEF Consumed
  <2>3. QED
    BY <2>1, <2>2, Nothing, EmptyInStream DEF Intact, Left
<1>7. QED
  BY <1>1, <1>2, <1>5, <1>6 DEF InFull

(* The invariant holds at the beginning.                                   *)
LEMMA InitHolds == Init => CommInv
<1> SUFFICES ASSUME Init PROVE CommInv
  OBVIOUS
<1>1. scenario \in DOMAIN Scenarios
  BY DEF Init
<1>2. StateTypes
  BY Nothing DEF Init, StateTypes, Idle
<1>3. /\ \A p \in Parties, t \in Workers : pc[p][t] = 1 /\ buf[p][t] = <<>> /\ inbox[p][t] = <<>>
      /\ \A p \in Parties, t \in Workers, q \in Parties : ring[p][t][q] = <<>> /\ wire[p][t][q] = <<>>
      /\ \A p \in Parties, s \in Senders : scan[p][s] = Idle
      /\ \A p \in Parties : status[p] = "running"
  BY DEF Init
<1>4. \A p \in Parties, t \in Workers : WorkerHolds(p, t)
  BY <1>1, <1>3, Beginning, SameSets DEF WorkerHolds
<1>5. \A p \in Parties, t \in Workers, q \in Parties : RingHolds(p, t, q)
  BY <1>1, <1>3, ScenarioFacts, Nothing DEF RingHolds
<1>6. \A q \in Parties, t \in Workers, p \in Parties : StreamHolds(q, t, p)
  BY <1>1, <1>3, Beginning, SameSets DEF StreamHolds
<1>7. \A p \in Parties, s \in Senders : ScanHolds(p, s)
  BY <1>3 DEF ScanHolds
<1>8. QED
  BY <1>2, <1>4, <1>5, <1>6, <1>7 DEF CommInv

-----------------------------------------------------------------------------
(* The instruction a worker is at.                                         *)
LEMMA InstructionFacts ==
    ASSUME CommInv, NEW p \in Parties, NEW t \in Workers, RunningWorker(p, t)
    PROVE  /\ status[p] = "running" /\ Instruction(p, t) = Prog(scenario, p, t)[pc[p][t]]
           /\ pc[p][t] \in 1 .. Len(Prog(scenario, p, t)) /\ pc[p][t] \in DOMAIN Prog(scenario, p, t)
           /\ pc[p][t] + 1 \in 1 .. Len(Prog(scenario, p, t)) + 1 /\ pc[p][t] + 1 \in Nat
           /\ Instruction(p, t).peer \in Parties /\ Instruction(p, t).peer # p
<1>1. pc[p][t] \in 1 .. Len(Prog(scenario, p, t)) + 1 /\ scenario \in DOMAIN Scenarios
  BY DEF CommInv, WorkerHolds, StateTypes
<1>2. p \in PartiesOf(scenario) /\ t \in WorkersOf(scenario)
  BY SameSets
<1>3. /\ Len(Prog(scenario, p, t)) \in Nat
      /\ DOMAIN Prog(scenario, p, t) = 1 .. Len(Prog(scenario, p, t))
  BY ONLY <1>1, <1>2, Positions
<1>4. /\ status[p] = "running" /\ pc[p][t] <= Len(Prog(scenario, p, t))
      /\ Instruction(p, t) = Prog(scenario, p, t)[pc[p][t]]
  BY SameSets DEF RunningWorker, Instruction
<1>5. /\ pc[p][t] \in 1 .. Len(Prog(scenario, p, t)) /\ pc[p][t] \in DOMAIN Prog(scenario, p, t)
      /\ pc[p][t] + 1 \in 1 .. Len(Prog(scenario, p, t)) + 1 /\ pc[p][t] + 1 \in Nat
  BY <1>1, <1>3, <1>4
<1>6. IsProgram(Prog(scenario, p, t), p, PartiesOf(scenario))
  BY ONLY <1>1, <1>2, ProgramFacts
<1>7. Instruction(p, t).peer \in PartiesOf(scenario) \ {p}
  BY <1>4, <1>5, <1>6 DEF IsProgram
<1>8. QED
  BY <1>4, <1>5, <1>7, SameSets

(* Which positions push and receive, and with what.                        *)
LEMMA InstructionKinds ==
    ASSUME CommInv, NEW p \in Parties, NEW t \in Workers, RunningWorker(p, t)
    PROVE  LET i == Instruction(p, t)
               here == pc[p][t]
           IN /\ i.do = "push" <=> here \in Sends(scenario, p, t, i.peer)
              /\ i.do = "recv" <=> here \in Gets(scenario, p, t, i.peer)
              /\ i.do = "recv" <=> here \in ReceivesOf(Prog(scenario, p, t))
              /\ \A q : here \in Sends(scenario, p, t, q) => i.do = "push" /\ q = i.peer
              /\ \A q : here \in Gets(scenario, p, t, q) => i.do = "recv" /\ q = i.peer
              /\ i.do = "recv" => i.len \in Nat
              /\ i.do = "push" => i.vec \in Seq(Units)
<1>1. /\ Instruction(p, t) = Prog(scenario, p, t)[pc[p][t]] /\ pc[p][t] \in DOMAIN Prog(scenario, p, t)
  BY InstructionFacts
<1>2. p \in PartiesOf(scenario) /\ t \in WorkersOf(scenario) /\ scenario \in DOMAIN Scenarios
  BY SameSets DEF CommInv, StateTypes
<1>3. IsProgram(Prog(scenario, p, t), p, PartiesOf(scenario))
  BY ONLY <1>2, ProgramFacts
<1>4. Instruction(p, t).do = "recv" => Instruction(p, t).len \in Nat
  BY <1>1, <1>3 DEF IsProgram
<1>5. Instruction(p, t).do = "push" => Instruction(p, t).vec \in Seq(Units)
  BY <1>1, <1>2, PushedVector DEF Units
<1>6. QED
  BY <1>1, <1>4, <1>5 DEF Sends, Gets, PushesTo, ReceivesFrom, ReceivesOf

-----------------------------------------------------------------------------
(* What a step leaves alone stays as it was.                               *)
LEMMA WorkerStays ==
    ASSUME NEW p, NEW t, scenario' = scenario, pc'[p][t] = pc[p][t], buf'[p][t] = buf[p][t],
           inbox'[p][t] = inbox[p][t], NobodyDead' => NobodyDead,
           status'[p] = "exited" => status[p] = "exited", WorkerHolds(p, t)
    PROVE  WorkerHolds(p, t)'
BY DEF WorkerHolds

LEMMA RingStays ==
    ASSUME NEW p, NEW t, NEW q, scenario' = scenario, pc'[p][t] = pc[p][t],
           ring'[p][t][q] = ring[p][t][q], wire'[p][t][q] = wire[p][t][q], RingHolds(p, t, q)
    PROVE  RingHolds(p, t, q)'
BY DEF RingHolds, SocketCapacity

LEMMA StreamStays ==
    ASSUME NEW q, NEW t, NEW p, scenario' = scenario, pc'[q][t] = pc[q][t], pc'[p][t] = pc[p][t],
           buf'[p][t] = buf[p][t], wire'[q][t][p] = wire[q][t][p], ring'[q][t][p] = ring[q][t][p],
           status[q] = "dead" => status'[q] = "dead", StreamHolds(q, t, p)
    PROVE  StreamHolds(q, t, p)'
BY DEF StreamHolds

LEMMA ScanStays ==
    ASSUME NEW p, NEW s, scenario' = scenario, scan'[p][s] = scan[p][s], ScanHolds(p, s)
    PROVE  ScanHolds(p, s)'
BY DEF ScanHolds, Rings

(* A step of worker t of party p concerns its own state and its streams.   *)
Elsewhere(p, t) ==
    /\ scenario' = scenario /\ status' = status /\ scan' = scan
    /\ \A a \in Parties, b \in Workers : ~(a = p /\ b = t) =>
         pc'[a][b] = pc[a][b] /\ buf'[a][b] = buf[a][b] /\ inbox'[a][b] = inbox[a][b]
    /\ \A a \in Parties, b \in Workers, c \in Parties : ~(b = t /\ (a = p \/ c = p)) =>
         ring'[a][b][c] = ring[a][b][c] /\ wire'[a][b][c] = wire[a][b][c]

(* It is enough to look at these.                                          *)
LEMMA WorkerStepHolds ==
    ASSUME CommInv, NEW p \in Parties, NEW t \in Workers, Elsewhere(p, t), StateTypes',
           WorkerHolds(p, t)',
           \A q \in Parties : RingHolds(p, t, q)' /\ (q # p => RingHolds(q, t, p)'),
           \A q \in Parties : q # p => StreamHolds(p, t, q)' /\ StreamHolds(q, t, p)'
    PROVE  CommInv'
<1>1. scenario' = scenario /\ status' = status /\ scan' = scan
  BY DEF Elsewhere
<1>2. Parties' = Parties /\ Workers' = Workers /\ Senders' = Senders
  BY <1>1, SameSetsNext
<1>3. NobodyDead' => NobodyDead
  BY <1>1, <1>2 DEF NobodyDead
<1>4. ASSUME NEW a \in Parties, NEW b \in Workers PROVE WorkerHolds(a, b)'
  <2>1. CASE ~(a = p /\ b = t)
    <3>1. pc'[a][b] = pc[a][b] /\ buf'[a][b] = buf[a][b] /\ inbox'[a][b] = inbox[a][b]
      BY <2>1 DEF Elsewhere
    <3>2. WorkerHolds(a, b)
      BY DEF CommInv
    <3>3. QED
      BY ONLY <1>1, <1>3, <3>1, <3>2, WorkerStays
  <2>2. QED
    BY <2>1
<1>5. ASSUME NEW a \in Parties, NEW b \in Workers, NEW c \in Parties PROVE RingHolds(a, b, c)'
  <2>1. CASE ~(b = t /\ (a = p \/ c = p))
    <3>1. ring'[a][b][c] = ring[a][b][c] /\ wire'[a][b][c] = wire[a][b][c] /\ pc'[a][b] = pc[a][b]
      BY <2>1 DEF Elsewhere
    <3>2. RingHolds(a, b, c)
      BY DEF CommInv
    <3>3. QED
      BY ONLY <1>1, <3>1, <3>2, RingStays
  <2>2. QED
    BY <2>1
<1>6. ASSUME NEW a \in Parties, NEW b \in Workers, NEW c \in Parties, a # c PROVE StreamHolds(a, b, c)'
  <2>1. CASE ~(b = t /\ (a = p \/ c = p))
    <3>1. /\ ring'[a][b][c] = ring[a][b][c] /\ wire'[a][b][c] = wire[a][b][c] /\ pc'[a][b] = pc[a][b]
          /\ pc'[c][b] = pc[c][b] /\ buf'[c][b] = buf[c][b]
      BY <2>1 DEF Elsewhere
    <3>2. StreamHolds(a, b, c)
      BY <1>6 DEF CommInv
    <3>3. status[a] = "dead" => status'[a] = "dead"
      BY <1>1
    <3>4. QED
      BY ONLY <1>1, <3>1, <3>2, <3>3, StreamStays
  <2>2. QED
    BY <1>6, <2>1
<1>7. ASSUME NEW a \in Parties, NEW s \in Senders PROVE ScanHolds(a, s)'
  <2>1. ScanHolds(a, s) /\ scan'[a][s] = scan[a][s]
    BY <1>1 DEF CommInv
  <2>2. QED
    BY ONLY <1>1, <2>1, ScanStays
<1>8. QED
  BY <1>2, <1>4, <1>5, <1>6, <1>7 DEF CommInv

(* The streams a worker sends, when it goes on without a push.             *)
LEMMA SendingGoesOn ==
    ASSUME CommInv, NEW p \in Parties, NEW t \in Workers, RunningWorker(p, t),
           Instruction(p, t).do # "push", NEW q \in Parties,
           Instruction(p, t).do = "wait" /\ Instruction(p, t).peer = q => ring[p][t][q] = <<>>,
           scenario' = scenario, pc'[p][t] = pc[p][t] + 1,
           ring'[p][t][q] = ring[p][t][q], wire'[p][t][q] = wire[p][t][q],
           q # p => pc'[q][t] = pc[q][t] /\ buf'[q][t] = buf[q][t]
    PROVE  RingHolds(p, t, q)' /\ (q # p => StreamHolds(p, t, q)')
<1>1. /\ status[p] = "running" /\ Instruction(p, t) = Prog(scenario, p, t)[pc[p][t]]
      /\ pc[p][t] \in 1 .. Len(Prog(scenario, p, t))
  BY InstructionFacts
<1>2. p \in PartiesOf(scenario) /\ t \in WorkersOf(scenario) /\ scenario \in DOMAIN Scenarios
  BY SameSets DEF CommInv, StateTypes
<1>3. \A m \in 1 .. Len(Prog(scenario, p, t)) :
        /\ Outstanding(scenario, p, t, q, m)
        /\ ~(Prog(scenario, p, t)[m].do = "wait" /\ Prog(scenario, p, t)[m].peer = q)
        => Outstanding(scenario, p, t, q, m + 1)
  BY ONLY <1>2, Outstands
<1>4. RingHolds(p, t, q)
  BY DEF CommInv
<1>5. RingHolds(p, t, q)'
  BY <1>1, <1>3, <1>4 DEF RingHolds, SocketCapacity
<1>6. ASSUME q # p PROVE StreamHolds(p, t, q)'
  <2> DEFINE m == pc[p][t]
             i == pc[q][t]
             b == buf[q][t]
             w == wire[p][t][q]
             r == ring[p][t][q]
  <2>1. Intact(scenario, p, t, q, m, i, b, w, r)
    BY <1>1, <1>6 DEF CommInv, StreamHolds
  <2>2. IsChannel(scenario, p, t, q, m, i, b, w, r, Units)
    BY ChannelTypes DEF CommInv
  <2>3. m \notin Sends(scenario, p, t, q)
    BY InstructionKinds
  <2>4. m <= Len(Prog(scenario, p, t))
    BY <1>1, <1>2, Positions
  <2>5. /\ pc'[p][t] = m + 1 /\ pc'[q][t] = i /\ buf'[q][t] = b
        /\ wire'[p][t][q] = w /\ ring'[p][t][q] = r
    BY <1>6
  <2> HIDE DEF m, i, b, w, r
  <2>6. Intact(scenario, p, t, q, m + 1, i, b, w, r)
    BY ONLY <2>1, <2>2, <2>3, <2>4, SenderStep
  <2>7. QED
    BY <2>5, <2>6 DEF StreamHolds
<1>7. QED
  BY <1>5, <1>6

(* The streams a worker receives, when it goes on with all it asked for.   *)
LEMMA ReceivingGoesOn ==
    ASSUME CommInv, NEW p \in Parties, NEW t \in Workers, RunningWorker(p, t),
           NEW q \in Parties, q # p,
           pc[p][t] \in Gets(scenario, p, t, q) => Len(buf[p][t]) = Instruction(p, t).len,
           scenario' = scenario, status' = status, pc'[p][t] = pc[p][t] + 1, buf'[p][t] = <<>>,
           pc'[q][t] = pc[q][t], ring'[q][t][p] = ring[q][t][p], wire'[q][t][p] = wire[q][t][p]
    PROVE  RingHolds(q, t, p)' /\ StreamHolds(q, t, p)'
<1>1. /\ Instruction(p, t) = Prog(scenario, p, t)[pc[p][t]]
      /\ pc[p][t] \in 1 .. Len(Prog(scenario, p, t))
  BY InstructionFacts
<1>2. p \in PartiesOf(scenario) /\ t \in WorkersOf(scenario) /\ scenario \in DOMAIN Scenarios
  BY SameSets DEF CommInv, StateTypes
<1>3. RingHolds(q, t, p)'
  <2>1. RingHolds(q, t, p)
    BY DEF CommInv
  <2>2. QED
    BY <2>1, RingStays
<1>4. CASE Intact(scenario, q, t, p, pc[q][t], pc[p][t], buf[p][t], wire[q][t][p], ring[q][t][p])
  <2> DEFINE m == pc[q][t]
             i == pc[p][t]
             b == buf[p][t]
             w == wire[q][t][p]
             r == ring[q][t][p]
  <2>1. Intact(scenario, q, t, p, m, i, b, w, r)
    BY <1>4
  <2>2. IsChannel(scenario, q, t, p, m, i, b, w, r, Units)
    BY ChannelTypes DEF CommInv
  <2>3. i <= Len(Prog(scenario, p, t))
    BY <1>1, <1>2, Positions
  <2>4. i \in Gets(scenario, p, t, q) => Len(b) = Prog(scenario, p, t)[i].len
    BY <1>1
  <2>5. /\ pc'[q][t] = m /\ pc'[p][t] = i + 1 /\ buf'[p][t] = <<>>
        /\ wire'[q][t][p] = w /\ ring'[q][t][p] = r
    OBVIOUS
  <2> HIDE DEF m, i, b, w, r
  <2>6. Intact(scenario, q, t, p, m, i + 1, <<>>, w, r)
    BY ONLY <2>1, <2>2, <2>3, <2>4, ReceiverStep
  <2>7. QED
    BY <1>3, <2>5, <2>6 DEF StreamHolds
<1>5. CASE status[q] = "dead" /\ wire[q][t][p] = <<>>
  BY <1>3, <1>5 DEF StreamHolds
<1>6. QED
  BY <1>4, <1>5 DEF CommInv, StreamHolds

(* Only the position of worker t of party p changes.                       *)
LEMMA Advanced ==
    ASSUME StateTypes, NEW p \in Parties, NEW t \in Workers, Advance(p, t), pc[p][t] + 1 \in Nat
    PROVE  /\ pc' \in [Parties -> [Workers -> Nat]] /\ pc'[p][t] = pc[p][t] + 1
           /\ \A a \in Parties, b \in Workers : ~(a = p /\ b = t) => pc'[a][b] = pc[a][b]
<1>1. pc \in [Parties -> [Workers -> Nat]]
  BY DEF StateTypes
<1>2. pc' = [pc EXCEPT ![p][t] = pc[p][t] + 1]
  BY DEF Advance
<1>3. QED
  BY ONLY <1>1, <1>2, p \in Parties, t \in Workers, pc[p][t] + 1 \in Nat, Update2

(* Only what worker t of party p has received changes.                     *)
LEMMA Delivered ==
    ASSUME StateTypes, NEW p \in Parties, NEW t \in Workers, NEW v \in Seq(Units), Deliver(p, t, v)
    PROVE  /\ buf' \in [Parties -> [Workers -> Seq(Units)]]
           /\ inbox' \in [Parties -> [Workers -> Seq(Seq(Units))]]
           /\ buf'[p][t] = <<>> /\ inbox'[p][t] = Append(inbox[p][t], v)
           /\ \A a \in Parties, b \in Workers : ~(a = p /\ b = t) =>
                buf'[a][b] = buf[a][b] /\ inbox'[a][b] = inbox[a][b]
<1>1. buf \in [Parties -> [Workers -> Seq(Units)]] /\ inbox \in [Parties -> [Workers -> Seq(Seq(Units))]]
  BY DEF StateTypes
<1>2. /\ buf' = [buf EXCEPT ![p][t] = <<>>]
      /\ inbox' = [inbox EXCEPT ![p][t] = Append(inbox[p][t], v)]
  BY DEF Deliver
<1>3. <<>> \in Seq(Units)
  BY Nothing
<1>4. Append(inbox[p][t], v) \in Seq(Seq(Units))
  <2>1. inbox[p][t] \in Seq(Seq(Units))
    BY <1>1
  <2>2. QED
    BY <2>1, AppendProperties
<1>5. /\ buf' \in [Parties -> [Workers -> Seq(Units)]] /\ buf'[p][t] = <<>>
      /\ \A a \in Parties, b \in Workers : ~(a = p /\ b = t) => buf'[a][b] = buf[a][b]
  BY ONLY <1>1, <1>2, <1>3, p \in Parties, t \in Workers, Update2
<1>6. /\ inbox' \in [Parties -> [Workers -> Seq(Seq(Units))]] /\ inbox'[p][t] = Append(inbox[p][t], v)
      /\ \A a \in Parties, b \in Workers : ~(a = p /\ b = t) => inbox'[a][b] = inbox[a][b]
  BY ONLY <1>1, <1>2, <1>4, p \in Parties, t \in Workers, Update2
<1>7. QED
  BY <1>5, <1>6

-----------------------------------------------------------------------------
(* The primitives of a worker.                                             *)
LEMMA WaitHolds ==
    ASSUME CommInv, NEW p \in Parties, NEW t \in Workers, RunningWorker(p, t),
           DoWait(p, t, Instruction(p, t))
    PROVE  CommInv'
<1> DEFINE i == Instruction(p, t)
<1>1. /\ i.do = "wait" /\ ring[p][t][i.peer] = <<>> /\ Advance(p, t)
      /\ scenario' = scenario /\ buf' = buf /\ inbox' = inbox /\ ring' = ring /\ scan' = scan
      /\ wire' = wire /\ status' = status
  BY DEF DoWait
<1>2. StateTypes
  BY DEF CommInv
<1>3. /\ status[p] = "running" /\ pc[p][t] + 1 \in Nat
      /\ pc[p][t] + 1 \in 1 .. Len(Prog(scenario, p, t)) + 1
  BY InstructionFacts
<1>4. /\ pc' \in [Parties -> [Workers -> Nat]] /\ pc'[p][t] = pc[p][t] + 1
      /\ \A a \in Parties, b \in Workers : ~(a = p /\ b = t) => pc'[a][b] = pc[a][b]
  BY ONLY <1>1, <1>2, <1>3, p \in Parties, t \in Workers, Advanced
<1>5. Parties' = Parties /\ Workers' = Workers /\ Senders' = Senders /\ Units' = Units
  BY <1>1, SameSetsNext
<1>6. StateTypes'
  BY <1>1, <1>2, <1>4, <1>5 DEF StateTypes
<1>7. Elsewhere(p, t)
  BY <1>1, <1>4 DEF Elsewhere
<1>8. /\ pc[p][t] \notin ReceivesOf(Prog(scenario, p, t))
      /\ \A q : pc[p][t] \notin Gets(scenario, p, t, q)
  BY <1>1, InstructionKinds
<1>9. WorkerHolds(p, t)' /\ buf[p][t] = <<>>
  <2> DEFINE k == pc[p][t]
             b == buf[p][t]
             x == inbox[p][t]
  <2>1. WorkerHolds(p, t)
    BY DEF CommInv
  <2>2. IsWorker(scenario, p, t, k, b, x, Units)
    BY ChannelTypes DEF CommInv
  <2>3. WorkerOK(scenario, p, t, k, b, x) /\ (NobodyDead => InFull(scenario, p, t, k, x))
    BY <2>1 DEF WorkerHolds
  <2>4. /\ b = <<>> /\ WorkerOK(scenario, p, t, k + 1, <<>>, x)
        /\ InFull(scenario, p, t, k, x) => InFull(scenario, p, t, k + 1, x)
    <3>1. k \notin ReceivesOf(Prog(scenario, p, t))
      BY <1>8
    <3> HIDE DEF k, b, x
    <3>2. QED
      BY ONLY <2>2, <2>3, <3>1, WorkerStep
  <2>5. NobodyDead' => NobodyDead
    BY <1>1, <1>5 DEF NobodyDead
  <2>6. QED
    BY <1>1, <1>3, <1>4, <2>3, <2>4, <2>5 DEF WorkerHolds
<1>10. ASSUME NEW q \in Parties PROVE RingHolds(p, t, q)' /\ (q # p => StreamHolds(p, t, q)')
  BY <1>1, <1>4, SendingGoesOn
<1>11. ASSUME NEW q \in Parties, q # p PROVE RingHolds(q, t, p)' /\ StreamHolds(q, t, p)'
  BY <1>1, <1>4, <1>8, <1>9, <1>11, ReceivingGoesOn
<1>12. QED
  BY <1>6, <1>7, <1>9, <1>10, <1>11, WorkerStepHolds

(* push() finds the ring empty.                                            *)
LEMMA PushHolds ==
    ASSUME CommInv, NEW p \in Parties, NEW t \in Workers, RunningWorker(p, t),
           DoPush(p, t, Instruction(p, t))
    PROVE  CommInv'
<1> DEFINE i == Instruction(p, t)
           v == i.vec
           to == i.peer
<1>1. /\ i.do = "push" /\ ring' = [ring EXCEPT ![p][t][to] = Append(ring[p][t][to], v)]
      /\ Advance(p, t) /\ scenario' = scenario /\ buf' = buf /\ inbox' = inbox /\ scan' = scan
      /\ wire' = wire /\ status' = status
  BY DEF DoPush
<1>2. StateTypes
  BY DEF CommInv
<1>3. /\ status[p] = "running" /\ pc[p][t] + 1 \in Nat /\ pc[p][t] \in 1 .. Len(Prog(scenario, p, t))
      /\ pc[p][t] + 1 \in 1 .. Len(Prog(scenario, p, t)) + 1 /\ to \in Parties /\ to # p
      /\ i = Prog(scenario, p, t)[pc[p][t]]
  BY InstructionFacts
<1>4. /\ pc' \in [Parties -> [Workers -> Nat]] /\ pc'[p][t] = pc[p][t] + 1
      /\ \A a \in Parties, b \in Workers : ~(a = p /\ b = t) => pc'[a][b] = pc[a][b]
  BY ONLY <1>1, <1>2, <1>3, p \in Parties, t \in Workers, Advanced
<1>5. Parties' = Parties /\ Workers' = Workers /\ Senders' = Senders /\ Units' = Units
  BY <1>1, SameSetsNext
<1>6. /\ pc[p][t] \in Sends(scenario, p, t, to)
      /\ \A q : pc[p][t] \in Sends(scenario, p, t, q) => q = to
      /\ pc[p][t] \notin ReceivesOf(Prog(scenario, p, t))
      /\ \A q : pc[p][t] \notin Gets(scenario, p, t, q)
      /\ v \in Seq(Units)
  BY <1>1, InstructionKinds
<1>7. p \in PartiesOf(scenario) /\ t \in WorkersOf(scenario) /\ scenario \in DOMAIN Scenarios
  BY SameSets DEF CommInv, StateTypes
<1>8. ring[p][t][to] = <<>>
  <2>1. ~Outstanding(scenario, p, t, to, pc[p][t])
    BY <1>6, <1>7, Outstands
  <2>2. RingHolds(p, t, to)
    BY <1>3 DEF CommInv
  <2>3. QED
    BY <2>1, <2>2 DEF RingHolds
<1>9. ring' = [ring EXCEPT ![p][t][to] = <<v>>]
  <2>1. Append(<<>>, v) = <<v>>
    OBVIOUS
  <2>2. QED
    BY <1>1, <1>8, <2>1
<1>10. /\ ring' \in [Parties -> [Workers -> [Parties -> Seq(Seq(Units))]]] /\ ring'[p][t][to] = <<v>>
       /\ \A a \in Parties, b \in Workers, c \in Parties : ~(a = p /\ b = t /\ c = to) =>
            ring'[a][b][c] = ring[a][b][c]
  <2>1. ring \in [Parties -> [Workers -> [Parties -> Seq(Seq(Units))]]]
    BY <1>2 DEF StateTypes
  <2>2. <<v>> \in Seq(Seq(Units))
    <3> HIDE DEF v
    <3>1. QED
      BY <1>6
  <2> DEFINE e == <<v>>
  <2>3. e \in Seq(Seq(Units)) /\ ring' = [ring EXCEPT ![p][t][to] = e] /\ to \in Parties
    BY <1>3, <1>9, <2>2
  <2> HIDE DEF v, to, e
  <2>4. IsTable3(ring, Parties, Workers, Parties, Seq(Seq(Units))) /\ Replaces3(ring', ring, p, t, to, e)
    BY <2>1, <2>3, Zenon DEF IsTable3, Replaces3
  <2>5. p \in Parties /\ to \in Parties /\ e \in Seq(Seq(Units))
    BY <2>1, <2>3
  <2>6. /\ IsTable3(ring', Parties, Workers, Parties, Seq(Seq(Units)))
        /\ DiffersAt3(ring', ring, Parties, Workers, Parties, p, t, to, e)
    BY ONLY <2>4, <2>5, t \in Workers, Update3
  <2>7. QED
    BY <2>6, Zenon DEF IsTable3, DiffersAt3, e
<1>11. StateTypes'
  BY <1>1, <1>2, <1>4, <1>5, <1>10 DEF StateTypes
<1>12. Elsewhere(p, t)
  BY <1>1, <1>4, <1>10 DEF Elsewhere
<1>13. WorkerHolds(p, t)' /\ buf[p][t] = <<>>
  <2> DEFINE k == pc[p][t]
             b == buf[p][t]
             x == inbox[p][t]
  <2>1. WorkerHolds(p, t)
    BY DEF CommInv
  <2>2. IsWorker(scenario, p, t, k, b, x, Units)
    BY ChannelTypes DEF CommInv
  <2>3. WorkerOK(scenario, p, t, k, b, x) /\ (NobodyDead => InFull(scenario, p, t, k, x))
    BY <2>1 DEF WorkerHolds
  <2>4. /\ b = <<>> /\ WorkerOK(scenario, p, t, k + 1, <<>>, x)
        /\ InFull(scenario, p, t, k, x) => InFull(scenario, p, t, k + 1, x)
    <3>1. k \notin ReceivesOf(Prog(scenario, p, t))
      BY <1>6
    <3> HIDE DEF k, b, x
    <3>2. QED
      BY ONLY <2>2, <2>3, <3>1, WorkerStep
  <2>5. NobodyDead' => NobodyDead
    BY <1>1, <1>5 DEF NobodyDead
  <2>6. QED
    BY <1>1, <1>3, <1>4, <2>3, <2>4, <2>5 DEF WorkerHolds
<1>14. ASSUME NEW q \in Parties PROVE RingHolds(p, t, q)' /\ (q # p => StreamHolds(p, t, q)')
  <2>1. \A m \in 1 .. Len(Prog(scenario, p, t)) :
          /\ Outstanding(scenario, p, t, q, m)
          /\ ~(Prog(scenario, p, t)[m].do = "wait" /\ Prog(scenario, p, t)[m].peer = q)
          => Outstanding(scenario, p, t, q, m + 1)
    BY ONLY <1>7, Outstands
  <2>2. RingHolds(p, t, q) /\ i.do # "wait"
    BY <1>1 DEF CommInv
  <2>3. CASE q = to
    <3>1. Outstanding(scenario, p, t, to, pc[p][t] + 1)
      BY <1>6, <1>7, Outstands
    <3>2. Len(<<v>>) = 1
      OBVIOUS
    <3>3. RingHolds(p, t, q)'
      <4> HIDE DEF v, to
      <4>1. QED
        BY <1>1, <1>4, <1>10, <2>2, <2>3, <3>1, <3>2 DEF RingHolds, SocketCapacity
    <3> DEFINE m == pc[p][t]
               j == pc[q][t]
               b == buf[q][t]
               w == wire[p][t][q]
    <3>4. Intact(scenario, p, t, q, m, j, b, w, <<>>)
      BY <1>3, <1>8, <2>3 DEF CommInv, StreamHolds
    <3>5. IsChannel(scenario, p, t, q, m, j, b, w, <<>>, Units)
      BY <1>8, <2>3, ChannelTypes DEF CommInv
    <3>6. m \in Sends(scenario, p, t, q) /\ v = Prog(scenario, p, t)[m].vec
      BY <1>3, <1>6, <2>3
    <3>7. /\ pc'[p][t] = m + 1 /\ pc'[q][t] = j /\ buf'[q][t] = b
          /\ wire'[p][t][q] = w /\ ring'[p][t][q] = <<v>>
      BY <1>1, <1>3, <1>4, <1>10, <2>3
    <3> HIDE DEF m, j, b, w, v
    <3>8. Intact(scenario, p, t, q, m + 1, j, b, w, <<Prog(scenario, p, t)[m].vec>>)
      BY ONLY <3>4, <3>5, <3>6, PushStep
    <3>9. QED
      BY <1>1, <3>3, <3>6, <3>7, <3>8 DEF StreamHolds
  <2>4. CASE q # to
    <3>1. ring'[p][t][q] = ring[p][t][q]
      BY <1>10, <2>4
    <3>2. RingHolds(p, t, q)'
      BY <1>1, <1>3, <1>4, <2>1, <2>2, <3>1 DEF RingHolds, SocketCapacity
    <3>3. ASSUME q # p PROVE StreamHolds(p, t, q)'
      <4> DEFINE m == pc[p][t]
                 j == pc[q][t]
                 b == buf[q][t]
                 w == wire[p][t][q]
                 r == ring[p][t][q]
      <4>1. Intact(scenario, p, t, q, m, j, b, w, r)
        BY <1>3, <3>3 DEF CommInv, StreamHolds
      <4>2. IsChannel(scenario, p, t, q, m, j, b, w, r, Units)
        BY ChannelTypes DEF CommInv
      <4>3. m \notin Sends(scenario, p, t, q) /\ m <= Len(Prog(scenario, p, t))
        BY <1>3, <1>6, <1>7, <2>4, Positions
      <4>4. /\ pc'[p][t] = m + 1 /\ pc'[q][t] = j /\ buf'[q][t] = b
            /\ wire'[p][t][q] = w /\ ring'[p][t][q] = r
        BY <1>1, <1>4, <3>1, <3>3
      <4> HIDE DEF m, j, b, w, r
      <4>5. Intact(scenario, p, t, q, m + 1, j, b, w, r)
        BY ONLY <4>1, <4>2, <4>3, SenderStep
      <4>6. QED
        BY <1>1, <4>4, <4>5 DEF StreamHolds
    <3>4. QED
      BY <3>2, <3>3
  <2>5. QED
    BY <2>3, <2>4
<1>15. ASSUME NEW q \in Parties, q # p PROVE RingHolds(q, t, p)' /\ StreamHolds(q, t, p)'
  <2>1. ring'[q][t][p] = ring[q][t][p]
    BY <1>10, <1>15
  <2>2. QED
    BY <1>1, <1>4, <1>6, <1>13, <1>15, <2>1, ReceivingGoesOn
<1>16. QED
  BY <1>11, <1>12, <1>13, <1>14, <1>15, WorkerStepHolds

(* A receive returns with v, which is all it asked for or cut off by a     *)
(* death.                                                                  *)
LEMMA DeliveryHolds ==
    ASSUME CommInv, NEW p \in Parties, NEW t \in Workers, RunningWorker(p, t),
           Instruction(p, t).do = "recv", NEW v \in Seq(Units), Deliver(p, t, v),
           Len(v) <= Instruction(p, t).len, NobodyDead => Len(v) = Instruction(p, t).len,
           InStream(scenario, Instruction(p, t).peer, t, p, v,
                    GetOffset(scenario, p, t, Instruction(p, t).peer)[pc[p][t] - 1]),
           scenario' = scenario, status' = status
    PROVE  WorkerHolds(p, t)'
<1> DEFINE k == pc[p][t]
           b == buf[p][t]
           x == inbox[p][t]
           q == Instruction(p, t).peer
<1>1. WorkerHolds(p, t) /\ StateTypes
  BY DEF CommInv
<1>2. IsWorker(scenario, p, t, k, b, x, Units)
  BY ChannelTypes DEF CommInv
<1>3. WorkerOK(scenario, p, t, k, b, x) /\ (NobodyDead => InFull(scenario, p, t, k, x))
  BY <1>1 DEF WorkerHolds
<1>4. /\ status[p] = "running" /\ k + 1 \in Nat /\ k + 1 \in 1 .. Len(Prog(scenario, p, t)) + 1
      /\ Instruction(p, t) = Prog(scenario, p, t)[k]
  BY InstructionFacts
<1>5. k \in Gets(scenario, p, t, q)
  BY InstructionKinds
<1>6. Advance(p, t)
  BY DEF Deliver
<1>7. pc'[p][t] = k + 1
  BY <1>1, <1>4, <1>6, Advanced
<1>8. buf'[p][t] = <<>> /\ inbox'[p][t] = Append(x, v)
  BY <1>1, Delivered
<1>9. Len(v) <= Prog(scenario, p, t)[k].len /\ (NobodyDead => Len(v) = Prog(scenario, p, t)[k].len)
  BY <1>4
<1>10. InStream(scenario, q, t, p, v, GetOffset(scenario, p, t, q)[k - 1])
  OBVIOUS
<1> HIDE DEF k, b, x, q
<1>11. /\ WorkerOK(scenario, p, t, k + 1, <<>>, Append(x, v))
       /\ InFull(scenario, p, t, k, x) /\ Len(v) = Prog(scenario, p, t)[k].len
            => InFull(scenario, p, t, k + 1, Append(x, v))
  BY ONLY <1>2, <1>3, <1>5, <1>9, <1>10, v \in Seq(Units), WorkerDelivers
<1>12. NobodyDead' => NobodyDead
  <2>1. Parties' = Parties
    BY SameSetsNext
  <2>2. QED
    BY <2>1 DEF NobodyDead
<1>13. QED
  BY <1>3, <1>4, <1>7, <1>8, <1>9, <1>11, <1>12 DEF WorkerHolds

(* A receive of length zero returns at once.                               *)
LEMMA ReceiveNothingHolds ==
    ASSUME CommInv, NEW p \in Parties, NEW t \in Workers, RunningWorker(p, t),
           DoReceiveNothing(p, t, Instruction(p, t))
    PROVE  CommInv'
<1> DEFINE i == Instruction(p, t)
<1>1. /\ i.do = "recv" /\ i.len = 0 /\ Deliver(p, t, <<>>) /\ Advance(p, t)
      /\ scenario' = scenario /\ ring' = ring /\ scan' = scan /\ wire' = wire /\ status' = status
  BY DEF DoReceiveNothing, Deliver
<1>2. StateTypes
  BY DEF CommInv
<1>3. pc[p][t] + 1 \in Nat /\ i = Prog(scenario, p, t)[pc[p][t]]
  BY InstructionFacts
<1>4. /\ pc' \in [Parties -> [Workers -> Nat]] /\ pc'[p][t] = pc[p][t] + 1
      /\ \A a \in Parties, b \in Workers : ~(a = p /\ b = t) => pc'[a][b] = pc[a][b]
  BY ONLY <1>1, <1>2, <1>3, p \in Parties, t \in Workers, Advanced
<1>5. Parties' = Parties /\ Workers' = Workers /\ Senders' = Senders /\ Units' = Units
  BY <1>1, SameSetsNext
<1>6. /\ buf' \in [Parties -> [Workers -> Seq(Units)]]
      /\ inbox' \in [Parties -> [Workers -> Seq(Seq(Units))]]
      /\ buf'[p][t] = <<>>
      /\ \A a \in Parties, b \in Workers : ~(a = p /\ b = t) =>
           buf'[a][b] = buf[a][b] /\ inbox'[a][b] = inbox[a][b]
  BY <1>1, <1>2, Nothing, Delivered
<1>7. StateTypes'
  BY <1>1, <1>2, <1>4, <1>5, <1>6 DEF StateTypes
<1>8. Elsewhere(p, t)
  BY <1>1, <1>4, <1>6 DEF Elsewhere
<1>9. WorkerHolds(p, t)'
  <2>1. Len(<<>>) <= i.len /\ Len(<<>>) = i.len /\ <<>> \in Seq(Units)
    BY <1>1, Nothing
  <2>2. InStream(scenario, i.peer, t, p, <<>>, GetOffset(scenario, p, t, i.peer)[pc[p][t] - 1])
    BY EmptyInStream
  <2>3. QED
    BY <1>1, <2>1, <2>2, DeliveryHolds
<1>10. Len(buf[p][t]) = i.len
  <2>1. buf[p][t] # <<>> => Len(buf[p][t]) < 0
    BY <1>1, <1>3 DEF CommInv, WorkerHolds, WorkerOK
  <2>2. Len(buf[p][t]) \in Nat
    BY <1>2 DEF StateTypes
  <2>3. QED
    BY <1>1, <2>1, <2>2, Nothing
<1>11. ASSUME NEW q \in Parties PROVE RingHolds(p, t, q)' /\ (q # p => StreamHolds(p, t, q)')
  BY <1>1, <1>4, <1>6, SendingGoesOn
<1>12. ASSUME NEW q \in Parties, q # p PROVE RingHolds(q, t, p)' /\ StreamHolds(q, t, p)'
  BY <1>1, <1>4, <1>6, <1>10, <1>12, ReceivingGoesOn
<1>13. QED
  BY <1>7, <1>8, <1>9, <1>11, <1>12, WorkerStepHolds

(* A receive finds the connection closed.  The peer has not exited: one    *)
(* that has exited has sent all it ever would, which is all that is to be  *)
(* received.                                                               *)
LEMMA ExitedHasSent ==
    ASSUME CommInv, NEW p \in Parties, NEW t \in Workers, RunningWorker(p, t),
           Instruction(p, t).do = "recv", Instruction(p, t).len > 0,
           status[Instruction(p, t).peer] = "exited"
    PROVE  wire[Instruction(p, t).peer][t][p] # <<>>
<1> DEFINE q == Instruction(p, t).peer
           m == pc[q][t]
           k == pc[p][t]
           b == buf[p][t]
           w == wire[q][t][p]
           r == ring[q][t][p]
           f == SendOffset(scenario, q, t, p)
           g == GetOffset(scenario, p, t, q)
           N == Len(Prog(scenario, q, t))
           M == Len(Prog(scenario, p, t))
           s == GetSize(scenario, p, t, q)
<1>1. /\ q \in Parties /\ q # p /\ k \in 1 .. M /\ Instruction(p, t) = Prog(scenario, p, t)[k]
  BY InstructionFacts
<1>2. /\ q \in PartiesOf(scenario) /\ p \in PartiesOf(scenario) /\ t \in WorkersOf(scenario)
      /\ scenario \in DOMAIN Scenarios
  BY <1>1, SameSets DEF CommInv, StateTypes
<1>3. m = N + 1 /\ N \in Nat /\ M \in Nat
  BY <1>1, <1>2, Positions DEF CommInv, WorkerHolds
<1>4. r = <<>>
  <2>1. ~Outstanding(scenario, q, t, p, m)
    <3>1. m \in Nat /\ m > N
      BY <1>3
    <3> HIDE DEF m, q
    <3>2. QED
      BY ONLY <1>2, <3>1, Outstands DEF N
  <2>2. RingHolds(q, t, p)
    BY <1>1 DEF CommInv
  <2>3. QED
    BY <2>1, <2>2 DEF RingHolds
<1>5. Intact(scenario, q, t, p, m, k, b, w, r)
  BY <1>1 DEF CommInv, StreamHolds
<1>6. IsChannel(scenario, q, t, p, m, k, b, w, r, Units)
  BY <1>1, ChannelTypes DEF CommInv
<1>7. k \in Gets(scenario, p, t, q)
  BY InstructionKinds
<1>8. WorkerOK(scenario, p, t, k, b, inbox[p][t])
  BY DEF CommInv, WorkerHolds
<1>9. Len(b) < Prog(scenario, p, t)[k].len
  BY <1>1, <1>8, Nothing DEF WorkerOK
<1>10. /\ g[k - 1] \in Nat /\ Len(b) \in Nat /\ Len(w) \in Nat
  <2> HIDE DEF q, m, k, b, w, r
  <2>1. QED
    BY ONLY <1>6, ChannelNumbers DEF g
<1>11. (g[k - 1] + Len(b)) + Len(w) = f[N]
  <2>1. Left(r) = 0
    BY <1>4 DEF Left
  <2>2. m - 1 = N
    BY <1>3
  <2>3. Consumed(scenario, q, t, p, k, b) = g[k - 1] + Len(b)
    BY <1>7 DEF Consumed
  <2> HIDE DEF q, m, k, b, w, r, N, g, f
  <2>4. (Consumed(scenario, q, t, p, k, b) + Len(w)) + Left(r) = f[m - 1]
    BY <1>5 DEF Intact, f
  <2>5. QED
    BY <1>10, <2>1, <2>2, <2>3, <2>4
<1> HIDE DEF q, m, k, b, w, r
<1>12. f[N] = g[M]
  BY ONLY <1>1, <1>2, StreamsMatch DEF f, g, N, M
<1>13. /\ g \in [0 .. M -> Nat] /\ \A j \in 1 .. M : g[j] = g[j - 1] + s[j]
       /\ \A c, d \in 0 .. M : c <= d => g[c] <= g[d]
  BY ONLY <1>2, GetOffsets DEF g, M, s
<1>14. s[k] = Prog(scenario, p, t)[k].len /\ s \in [1 .. M -> Nat]
  BY ONLY <1>2, <1>7, GetSizes DEF s, M
<1>15. k \in 0 .. M /\ M \in 0 .. M /\ k <= M
  BY <1>1, <1>3
<1> HIDE DEF f, g, s, N, M
<1>16. g[k] = g[k - 1] + s[k] /\ g[k] <= g[M] /\ s[k] \in Nat /\ g[M] \in Nat /\ g[k] \in Nat
  BY <1>1, <1>13, <1>14, <1>15
<1>17. Len(w) > 0
  BY <1>9, <1>10, <1>11, <1>12, <1>14, <1>16
<1>18. w # <<>>
  BY <1>17, Nothing
<1>19. QED
  BY <1>18 DEF w, q

(* A receive that fails is cut off by the death of its peer.               *)
LEMMA ReceiveFailsHolds ==
    ASSUME CommInv, NEW p \in Parties, NEW t \in Workers, RunningWorker(p, t),
           DoReceiveFails(p, t, Instruction(p, t))
    PROVE  CommInv'
<1> DEFINE i == Instruction(p, t)
           from == i.peer
           v == buf[p][t]
<1>1. /\ i.do = "recv" /\ i.len > 0 /\ Deliver(p, t, v) /\ Advance(p, t)
      /\ wire' = [wire EXCEPT ![from][t][p] = <<>>]
      /\ scenario' = scenario /\ ring' = ring /\ scan' = scan /\ status' = status
  BY DEF DoReceiveFails, Deliver
<1>2. status[from] = "dead"
  BY <1>1, ExitedHasSent DEF DoReceiveFails
<1>3. StateTypes
  BY DEF CommInv
<1>4. /\ pc[p][t] + 1 \in Nat /\ i = Prog(scenario, p, t)[pc[p][t]] /\ from \in Parties /\ from # p
  BY InstructionFacts
<1>5. /\ pc' \in [Parties -> [Workers -> Nat]] /\ pc'[p][t] = pc[p][t] + 1
      /\ \A a \in Parties, b \in Workers : ~(a = p /\ b = t) => pc'[a][b] = pc[a][b]
  BY ONLY <1>1, <1>3, <1>4, p \in Parties, t \in Workers, Advanced
<1>6. Parties' = Parties /\ Workers' = Workers /\ Senders' = Senders /\ Units' = Units
  BY <1>1, SameSetsNext
<1>7. v \in Seq(Units)
  BY <1>3 DEF StateTypes
<1>8. /\ buf' \in [Parties -> [Workers -> Seq(Units)]]
      /\ inbox' \in [Parties -> [Workers -> Seq(Seq(Units))]]
      /\ buf'[p][t] = <<>>
      /\ \A a \in Parties, b \in Workers : ~(a = p /\ b = t) =>
           buf'[a][b] = buf[a][b] /\ inbox'[a][b] = inbox[a][b]
  BY <1>1, <1>3, <1>7, Delivered
<1>9. /\ wire' \in [Parties -> [Workers -> [Parties -> Seq(Units)]]] /\ wire'[from][t][p] = <<>>
      /\ \A a \in Parties, b \in Workers, c \in Parties : ~(a = from /\ b = t /\ c = p) =>
           wire'[a][b][c] = wire[a][b][c]
  <2>1. wire \in [Parties -> [Workers -> [Parties -> Seq(Units)]]] /\ <<>> \in Seq(Units)
    BY <1>3, Nothing DEF StateTypes
  <2>2. from \in Parties /\ wire' = [wire EXCEPT ![from][t][p] = <<>>]
    BY <1>1, <1>4
  <2> HIDE DEF from
  <2>3. IsTable3(wire, Parties, Workers, Parties, Seq(Units)) /\ Replaces3(wire', wire, from, t, p, <<>>)
    BY <2>1, <2>2, Zenon DEF IsTable3, Replaces3
  <2>4. from \in Parties /\ p \in Parties /\ <<>> \in Seq(Units)
    BY <2>1, <2>2
  <2>5. /\ IsTable3(wire', Parties, Workers, Parties, Seq(Units))
        /\ DiffersAt3(wire', wire, Parties, Workers, Parties, from, t, p, <<>>)
    BY ONLY <2>3, <2>4, t \in Workers, Update3
  <2>6. QED
    BY <2>5, Zenon DEF IsTable3, DiffersAt3
<1>10. StateTypes'
  BY <1>1, <1>3, <1>5, <1>6, <1>8, <1>9 DEF StateTypes
<1>11. Elsewhere(p, t)
  <2>1. \A a \in Parties, b \in Workers, c \in Parties : ~(b = t /\ (a = p \/ c = p)) =>
          ring'[a][b][c] = ring[a][b][c] /\ wire'[a][b][c] = wire[a][b][c]
    <3> HIDE DEF i, from
    <3>1. QED
      BY <1>1, <1>9
  <2>2. QED
    BY <1>1, <1>5, <1>8, <2>1 DEF Elsewhere
<1>12. /\ pc[p][t] \in Gets(scenario, p, t, from) /\ i.len \in Nat
       /\ \A q : pc[p][t] \in Gets(scenario, p, t, q) => q = from
  BY <1>1, InstructionKinds
<1>13. WorkerHolds(p, t)'
  <2>1. WorkerOK(scenario, p, t, pc[p][t], v, inbox[p][t])
    BY DEF CommInv, WorkerHolds
  <2>2. Len(v) \in Nat /\ (v # <<>> => Len(v) < i.len)
    BY <1>4, <1>7, <2>1 DEF WorkerOK
  <2>3. Len(v) <= i.len
    BY <1>1, <1>12, <2>2, Nothing
  <2>4. ~NobodyDead
    BY <1>2, <1>4 DEF NobodyDead
  <2>5. InStream(scenario, from, t, p, v, GetOffset(scenario, p, t, from)[pc[p][t] - 1])
    BY <1>4, <1>12, <2>1, SameSets DEF WorkerOK
  <2>6. QED
    BY <1>1, <1>7, <2>3, <2>4, <2>5, DeliveryHolds
<1>14. ASSUME NEW q \in Parties PROVE RingHolds(p, t, q)' /\ (q # p => StreamHolds(p, t, q)')
  <2>1. wire'[p][t][q] = wire[p][t][q]
    BY <1>4, <1>9
  <2>2. QED
    BY <1>1, <1>5, <1>8, <2>1, SendingGoesOn
<1>15. ASSUME NEW q \in Parties, q # p PROVE RingHolds(q, t, p)' /\ StreamHolds(q, t, p)'
  <2>1. CASE q = from
    <3>1. StreamHolds(q, t, p)'
      BY <1>1, <1>2, <1>9, <2>1 DEF StreamHolds
    <3>2. RingHolds(q, t, p) /\ SocketCapacity \in Nat
      BY <1>3, ScenarioFacts DEF CommInv, StateTypes
    <3>3. SocketCapacity' = SocketCapacity /\ pc'[q][t] = pc[q][t] /\ wire'[q][t][p] = <<>>
      BY <1>1, <1>5, <1>9, <1>15, <2>1, SameSetsNext
    <3>4. RingHolds(q, t, p)'
      BY <1>1, <3>2, <3>3, Nothing DEF RingHolds
    <3>5. QED
      BY <3>1, <3>4
  <2>2. CASE q # from
    <3>1. wire'[q][t][p] = wire[q][t][p] /\ pc[p][t] \notin Gets(scenario, p, t, q)
      BY <1>9, <1>12, <2>2
    <3>2. pc'[q][t] = pc[q][t]
      BY <1>5, <1>15
    <3> HIDE DEF i, from, v
    <3>3. QED
      BY <1>1, <1>5, <1>8, <1>15, <3>1, <3>2, ReceivingGoesOn
  <2>3. QED
    BY <2>1, <2>2
<1>16. QED
  BY <1>10, <1>11, <1>13, <1>14, <1>15, WorkerStepHolds

(* recv() returns some of what is missing, or all of it.                   *)
LEMMA ReceiveHolds ==
    ASSUME CommInv, NEW p \in Parties, NEW t \in Workers, RunningWorker(p, t),
           DoReceive(p, t, Instruction(p, t))
    PROVE  CommInv'
<1> DEFINE i == Instruction(p, t)
           from == i.peer
           k == pc[p][t]
           b == buf[p][t]
           w == wire[from][t][p]
           r == ring[from][t][p]
           m == pc[from][t]
<1>1. PICK n \in 1 .. Len(w) :
        /\ n <= i.len - Len(b)
        /\ wire' = [wire EXCEPT ![from][t][p] = SubSeq(w, n + 1, Len(w))]
        /\ IF n = i.len - Len(b)
             THEN Deliver(p, t, b \o SubSeq(w, 1, n))
             ELSE buf' = [buf EXCEPT ![p][t] = b \o SubSeq(w, 1, n)] /\ inbox' = inbox /\ pc' = pc
  BY DEF DoReceive
<1> DEFINE got == b \o SubSeq(w, 1, n)
           rest == SubSeq(w, n + 1, Len(w))
<1>2. /\ i.do = "recv" /\ scenario' = scenario /\ ring' = ring /\ scan' = scan /\ status' = status
  BY DEF DoReceive
<1>3. StateTypes
  BY DEF CommInv
<1>4. /\ k + 1 \in Nat /\ i = Prog(scenario, p, t)[k] /\ k \in 1 .. Len(Prog(scenario, p, t))
      /\ from \in Parties /\ from # p
  BY InstructionFacts
<1>5. /\ k \in Gets(scenario, p, t, from) /\ i.len \in Nat
      /\ \A q : k \in Gets(scenario, p, t, q) => q = from
  BY <1>2, InstructionKinds
<1>6. /\ from \in PartiesOf(scenario) /\ p \in PartiesOf(scenario) /\ t \in WorkersOf(scenario)
      /\ scenario \in DOMAIN Scenarios
  BY <1>4, SameSets DEF CommInv, StateTypes
<1>7. Parties' = Parties /\ Workers' = Workers /\ Senders' = Senders /\ Units' = Units
      /\ SocketCapacity' = SocketCapacity
  BY <1>2, SameSetsNext
<1>8. IsChannel(scenario, from, t, p, m, k, b, w, r, Units)
  BY <1>4, ChannelTypes DEF CommInv
<1>9. Len(b) \in Nat /\ Len(w) \in Nat /\ n \in Nat /\ 1 <= n
  <2>1. Len(b) \in Nat /\ Len(w) \in Nat
    <3> HIDE DEF b, w, m, k, r, from
    <3>1. QED
      BY ONLY <1>8, ChannelNumbers
  <2>2. QED
    BY <2>1
<1>10. Intact(scenario, from, t, p, m, k, b, w, r)
  <2>1. w # <<>>
    BY <1>9, Nothing
  <2>2. QED
    BY <1>4, <2>1 DEF CommInv, StreamHolds
<1>11. /\ WorkerOK(scenario, p, t, k, b, inbox[p][t])
       /\ NobodyDead => InFull(scenario, p, t, k, inbox[p][t])
  BY DEF CommInv, WorkerHolds
<1>12. InStream(scenario, from, t, p, b, GetOffset(scenario, p, t, from)[k - 1])
  BY <1>5, <1>6, <1>11 DEF WorkerOK
<1>13. /\ got \in Seq(Units) /\ rest \in Seq(Units) /\ Len(got) = Len(b) + n /\ Len(rest) <= Len(w)
       /\ InStream(scenario, from, t, p, got, GetOffset(scenario, p, t, from)[k - 1])
       /\ Intact(scenario, from, t, p, m, k, got, rest, r)
  <2> HIDE DEF b, w, m, k, r, from
  <2>1. QED
    BY ONLY <1>5, <1>8, <1>10, <1>12, n \in 1 .. Len(w), ReadStep
<1>14. wire' = [wire EXCEPT ![from][t][p] = rest]
  BY <1>1
<1>15. /\ wire' \in [Parties -> [Workers -> [Parties -> Seq(Units)]]] /\ wire'[from][t][p] = rest
       /\ \A a \in Parties, c \in Workers, d \in Parties : ~(a = from /\ c = t /\ d = p) =>
            wire'[a][c][d] = wire[a][c][d]
  <2>1. wire \in [Parties -> [Workers -> [Parties -> Seq(Units)]]]
    BY <1>3 DEF StateTypes
  <2>2. from \in Parties /\ rest \in Seq(Units)
    BY <1>4, <1>13
  <2> HIDE DEF from, rest
  <2>3. IsTable3(wire, Parties, Workers, Parties, Seq(Units)) /\ Replaces3(wire', wire, from, t, p, rest)
    BY <1>14, <2>1, <2>2, Zenon DEF IsTable3, Replaces3
  <2>4. from \in Parties /\ p \in Parties /\ rest \in Seq(Units)
    BY <1>14, <2>1, <2>2
  <2>5. /\ IsTable3(wire', Parties, Workers, Parties, Seq(Units))
        /\ DiffersAt3(wire', wire, Parties, Workers, Parties, from, t, p, rest)
    BY ONLY <2>3, <2>4, t \in Workers, Update3
  <2>6. QED
    BY <2>5, Zenon DEF IsTable3, DiffersAt3
<1>16. \A a \in Parties, c \in Workers, d \in Parties : ~(c = t /\ (a = p \/ d = p)) =>
         ring'[a][c][d] = ring[a][c][d] /\ wire'[a][c][d] = wire[a][c][d]
  <2> HIDE DEF i, from, rest, got
  <2>1. QED
    BY <1>2, <1>15
<1>17. ASSUME NEW q \in Parties, q # p, pc'[q][t] = pc[q][t] PROVE RingHolds(q, t, p)'
  <2>1. RingHolds(q, t, p) /\ SocketCapacity \in Nat
    BY <1>3, ScenarioFacts DEF CommInv, StateTypes
  <2>2. Len(wire'[q][t][p]) <= SocketCapacity
    <3>1. CASE q = from
      <4>1. wire'[q][t][p] = rest
        BY <1>15, <3>1
      <4>2. Len(w) <= SocketCapacity
        BY <2>1, <3>1 DEF RingHolds
      <4>3. Len(rest) \in Nat
        <5>1. rest \in Seq(Units)
          BY <1>13
        <5> HIDE DEF rest
        <5>2. QED
          BY <5>1, LenProperties
      <4> HIDE DEF w, rest
      <4>4. QED
        BY <1>9, <1>13, <2>1, <4>1, <4>2, <4>3
    <3>2. CASE q # from
      BY <1>15, <2>1, <3>2 DEF RingHolds
    <3>3. QED
      BY <3>1, <3>2
  <2>3. QED
    BY <1>2, <1>7, <1>17, <2>1, <2>2 DEF RingHolds
<1>18. CASE n = i.len - Len(b)
  <2>1. Deliver(p, t, got) /\ Advance(p, t)
    BY <1>1, <1>18 DEF Deliver
  <2>2. /\ pc' \in [Parties -> [Workers -> Nat]] /\ pc'[p][t] = k + 1
        /\ \A a \in Parties, c \in Workers : ~(a = p /\ c = t) => pc'[a][c] = pc[a][c]
    BY ONLY <1>3, <1>4, <2>1, p \in Parties, t \in Workers, Advanced
  <2>3. /\ buf' \in [Parties -> [Workers -> Seq(Units)]]
        /\ inbox' \in [Parties -> [Workers -> Seq(Seq(Units))]]
        /\ buf'[p][t] = <<>>
        /\ \A a \in Parties, c \in Workers : ~(a = p /\ c = t) =>
             buf'[a][c] = buf[a][c] /\ inbox'[a][c] = inbox[a][c]
    <3> HIDE DEF got
    <3>1. QED
      BY ONLY <1>3, <1>13, <2>1, p \in Parties, t \in Workers, Delivered
  <2>4. StateTypes'
    BY <1>2, <1>3, <1>7, <1>15, <2>2, <2>3 DEF StateTypes
  <2>5. Elsewhere(p, t)
    BY <1>2, <1>16, <2>2, <2>3 DEF Elsewhere
  <2>6. Len(got) = i.len
    BY <1>5, <1>9, <1>13, <1>18
  <2>7. WorkerHolds(p, t)'
    <3>1. Len(got) <= i.len
      BY <1>5, <2>6
    <3>2. InStream(scenario, i.peer, t, p, got, GetOffset(scenario, p, t, i.peer)[pc[p][t] - 1])
      BY <1>13
    <3>3. got \in Seq(Units)
      BY <1>13
    <3> HIDE DEF got
    <3>4. QED
      BY <1>2, <2>1, <2>6, <3>1, <3>2, <3>3, DeliveryHolds
  <2>8. ASSUME NEW q \in Parties PROVE RingHolds(p, t, q)' /\ (q # p => StreamHolds(p, t, q)')
    <3>1. wire'[p][t][q] = wire[p][t][q]
      BY <1>4, <1>15
    <3>2. QED
      BY <1>2, <2>2, <2>3, <3>1, SendingGoesOn
  <2>9. ASSUME NEW q \in Parties, q # p PROVE RingHolds(q, t, p)' /\ StreamHolds(q, t, p)'
    <3>1. CASE q = from
      <4>1. IsChannel(scenario, from, t, p, m, k, got, rest, r, Units)
        BY <1>8, <1>13 DEF IsChannel
      <4>2. k <= Len(Prog(scenario, p, t)) /\ Len(got) = Prog(scenario, p, t)[k].len
        BY <1>4, <1>6, <2>6, Positions
      <4>3. /\ pc'[q][t] = m /\ pc'[p][t] = k + 1 /\ buf'[p][t] = <<>>
            /\ wire'[q][t][p] = rest /\ ring'[q][t][p] = r
        BY <1>2, <1>4, <1>15, <2>2, <2>3, <3>1
      <4>4. RingHolds(q, t, p)'
        BY <1>17, <2>9, <3>1, <4>3
      <4> HIDE DEF got, rest, b, w, m, k, r, from
      <4>5. Intact(scenario, from, t, p, m, k + 1, <<>>, rest, r)
        BY ONLY <1>13, <4>1, <4>2, ReceiverStep
      <4>6. QED
        BY <1>2, <3>1, <4>3, <4>4, <4>5 DEF StreamHolds
    <3>2. CASE q # from
      <4>1. wire'[q][t][p] = wire[q][t][p] /\ pc[p][t] \notin Gets(scenario, p, t, q)
        BY <1>5, <1>15, <3>2
      <4>2. pc'[q][t] = pc[q][t] /\ pc'[p][t] = pc[p][t] + 1
        BY <2>2, <2>9
      <4> HIDE DEF got, rest, b, w, m, k, r, from, i
      <4>3. QED
        BY <1>2, <2>3, <2>9, <4>1, <4>2, ReceivingGoesOn
    <3>3. QED
      BY <3>1, <3>2
  <2>10. QED
    BY <2>4, <2>5, <2>7, <2>8, <2>9, WorkerStepHolds
<1>19. CASE n # i.len - Len(b)
  <2>1. buf' = [buf EXCEPT ![p][t] = got] /\ inbox' = inbox /\ pc' = pc
    BY <1>1, <1>19
  <2>2. /\ buf' \in [Parties -> [Workers -> Seq(Units)]] /\ buf'[p][t] = got
        /\ \A a \in Parties, c \in Workers : ~(a = p /\ c = t) => buf'[a][c] = buf[a][c]
    <3>1. buf \in [Parties -> [Workers -> Seq(Units)]]
      BY <1>3 DEF StateTypes
    <3> HIDE DEF got
    <3>2. QED
      BY ONLY <1>13, <2>1, <3>1, p \in Parties, t \in Workers, Update2
  <2>3. StateTypes'
    BY <1>2, <1>3, <1>7, <1>15, <2>1, <2>2 DEF StateTypes
  <2>4. Elsewhere(p, t)
    BY <1>2, <1>16, <2>1, <2>2 DEF Elsewhere
  <2>5. Len(got) < Prog(scenario, p, t)[k].len
    <3>1. n <= i.len - Len(b) /\ n # i.len - Len(b) /\ i.len \in Nat /\ Len(got) = Len(b) + n
      BY <1>1, <1>5, <1>13, <1>19
    <3>2. Len(got) < i.len
      <4> HIDE DEF got, b, i
      <4>1. QED
        BY <1>9, <3>1
    <3>3. QED
      BY <1>4, <3>2
  <2>6. WorkerHolds(p, t)'
    <3>1. WorkerOK(scenario, p, t, k, got, inbox[p][t])
      <4> DEFINE x == inbox[p][t]
      <4>1. WorkerOK(scenario, p, t, k, b, x)
        BY <1>11
      <4> HIDE DEF got, b, k, from, x
      <4>2. WorkerOK(scenario, p, t, k, got, x)
        BY ONLY <1>5, <1>13, <2>5, <4>1, WorkerReads
      <4>3. QED
        BY <4>2 DEF x
    <3>2. NobodyDead' => NobodyDead
      BY <1>2, <1>7 DEF NobodyDead
    <3>3. WorkerHolds(p, t)
      BY DEF CommInv
    <3> HIDE DEF got
    <3>4. QED
      BY <1>2, <2>1, <2>2, <3>1, <3>2, <3>3 DEF WorkerHolds
  <2>7. ASSUME NEW q \in Parties PROVE RingHolds(p, t, q)' /\ (q # p => StreamHolds(p, t, q)')
    <3>1. wire'[p][t][q] = wire[p][t][q] /\ RingHolds(p, t, q) /\ (q # p => StreamHolds(p, t, q))
      BY <1>4, <1>15 DEF CommInv
    <3>2. q # p => buf'[q][t] = buf[q][t]
      BY <2>2
    <3>3. RingHolds(p, t, q)'
      BY <1>2, <2>1, <3>1, RingStays
    <3> HIDE DEF got, rest, b, w, m, k, r, from, i
    <3>4. q # p => StreamHolds(p, t, q)'
      BY <1>2, <2>1, <3>1, <3>2, StreamStays
    <3>5. QED
      BY <3>3, <3>4
  <2>8. ASSUME NEW q \in Parties, q # p PROVE RingHolds(q, t, p)' /\ StreamHolds(q, t, p)'
    <3>0. pc'[q][t] = pc[q][t] /\ pc'[p][t] = pc[p][t] /\ buf'[p][t] = got /\ ring'[q][t][p] = ring[q][t][p]
      BY <1>2, <2>1, <2>2
    <3>1. RingHolds(q, t, p)'
      BY <1>17, <2>8, <3>0
    <3>2. CASE q = from
      <4>1. /\ pc'[q][t] = m /\ pc'[p][t] = k /\ wire'[q][t][p] = rest /\ ring'[q][t][p] = r
        BY <1>15, <3>0, <3>2
      <4> HIDE DEF got, rest, b, w, m, k, r, from, i
      <4>2. QED
        BY <1>2, <1>13, <3>0, <3>1, <3>2, <4>1 DEF StreamHolds
    <3>3. CASE q # from
      <4>1. wire'[q][t][p] = wire[q][t][p] /\ k \notin Gets(scenario, p, t, q)
        BY <1>5, <1>15, <3>3
      <4>2. StreamHolds(q, t, p)
        BY <2>8 DEF CommInv
      <4>3. CASE status[q] = "dead" /\ wire[q][t][p] = <<>>
        BY <1>2, <3>1, <4>1, <4>3 DEF StreamHolds
      <4>4. CASE Intact(scenario, q, t, p, pc[q][t], k, b, wire[q][t][p], ring[q][t][p])
        <5> DEFINE mm == pc[q][t]
                   ww == wire[q][t][p]
                   rr == ring[q][t][p]
        <5>1. Intact(scenario, q, t, p, mm, k, b, ww, rr)
          BY <4>4
        <5>2. /\ pc'[q][t] = mm /\ pc'[p][t] = k /\ wire'[q][t][p] = ww /\ ring'[q][t][p] = rr
          BY <3>0, <4>1
        <5> HIDE DEF got, rest, b, w, m, k, r, from, i, mm, ww, rr
        <5>3. Intact(scenario, q, t, p, mm, k, got, ww, rr)
          BY ONLY <4>1, <5>1, ReadElsewhere
        <5>4. QED
          BY <1>2, <3>0, <3>1, <5>2, <5>3 DEF StreamHolds
      <4>5. QED
        BY <4>2, <4>3, <4>4 DEF StreamHolds
    <3>4. QED
      BY <3>2, <3>3
  <2>9. QED
    BY <2>3, <2>4, <2>6, <2>7, <2>8, WorkerStepHolds
<1>20. QED
  BY <1>18, <1>19

-----------------------------------------------------------------------------
(* The send threads and the processes.                                     *)
LEMMA ServedRing ==
    ASSUME CommInv, NEW p \in Parties, NEW s \in Senders, NEW n \in DOMAIN Rings(p, s)
    PROVE  /\ n \in Int /\ 0 \in DOMAIN Rings(p, s) /\ Rings(p, s)[n].worker \in Workers
           /\ Rings(p, s)[n].peer \in Parties /\ Rings(p, s)[n].peer # p
<1>1. /\ scenario \in DOMAIN Scenarios /\ p \in PartiesOf(scenario)
      /\ s \in 0 .. Scenarios[scenario].sendThreads - 1
  BY SameSets DEF CommInv, StateTypes, Senders, SendThreads
<1>2. n \in DOMAIN RingsIn[scenario][p][s]
  BY DEF Rings
<1>3. /\ n \in Nat /\ 0 \in DOMAIN RingsIn[scenario][p][s]
      /\ RingsIn[scenario][p][s][n].worker \in WorkersOf(scenario)
      /\ RingsIn[scenario][p][s][n].peer \in PartiesOf(scenario)
      /\ RingsIn[scenario][p][s][n].peer # p
  BY ONLY <1>1, <1>2, RingsServed
<1>4. QED
  BY <1>3, SameSets DEF Rings

(* The ring a send thread looks at.                                        *)
LEMMA CurrentRing ==
    ASSUME CommInv, NEW p \in Parties, NEW s \in Senders, Looking(p, s)
    PROVE  /\ status[p] = "running" /\ scan[p][s] \in DOMAIN Rings(p, s)
           /\ Current(p, s).worker \in Workers /\ Current(p, s).peer \in Parties
           /\ Current(p, s).peer # p
           /\ Entries(p, s) = ring[p][Current(p, s).worker][Current(p, s).peer]
<1>1. status[p] = "running" /\ scan[p][s] \in DOMAIN Rings(p, s)
  BY DEF CommInv, ScanHolds, Looking
<1>2. QED
  BY <1>1, ServedRing DEF Current, Entries, EntriesAt

(* Moving a send thread to another of its rings.                           *)
LEMMA ScanMoves ==
    ASSUME CommInv, NEW p \in Parties, NEW s \in Senders, NEW n \in DOMAIN Rings(p, s) \cup {Idle},
           scan' = [scan EXCEPT ![p][s] = n], scenario' = scenario
    PROVE  /\ scan' \in [Parties -> [Senders -> Int]]
           /\ \A a \in Parties, b \in Senders : ScanHolds(a, b)'
<1>1. n \in Int
  BY ServedRing DEF Idle
<1>2. scan \in [Parties -> [Senders -> Int]]
  BY DEF CommInv, StateTypes
<1>3. /\ scan' \in [Parties -> [Senders -> Int]] /\ scan'[p][s] = n
      /\ \A a \in Parties, b \in Senders : ~(a = p /\ b = s) => scan'[a][b] = scan[a][b]
  BY ONLY <1>1, <1>2, scan' = [scan EXCEPT ![p][s] = n], p \in Parties, s \in Senders, Update2
<1>4. ASSUME NEW a \in Parties, NEW b \in Senders PROVE ScanHolds(a, b)'
  <2>1. CASE a = p /\ b = s
    BY <1>3, <2>1 DEF ScanHolds, Rings
  <2>2. CASE ~(a = p /\ b = s)
    <3>1. scan'[a][b] = scan[a][b] /\ ScanHolds(a, b)
      BY <1>3, <2>2 DEF CommInv
    <3>2. QED
      BY <3>1, ScanStays
  <2>3. QED
    BY <2>1, <2>2
<1>5. QED
  BY <1>3, <1>4

(* NextRing stays among the rings served.                                  *)
LEMMA NextRingMoves ==
    ASSUME CommInv, NEW p \in Parties, NEW s \in Senders, Looking(p, s), NextRing(p, s),
           scenario' = scenario
    PROVE  /\ scan' \in [Parties -> [Senders -> Int]]
           /\ \A a \in Parties, b \in Senders : ScanHolds(a, b)'
<1> DEFINE D == DOMAIN Rings(p, s)
           n == CASE ~HasWork(p, s)' -> Idle
                  [] scan[p][s] + 1 \in D -> scan[p][s] + 1
                  [] OTHER -> 0
<1>1. scan' = [scan EXCEPT ![p][s] = n]
  BY Zenon DEF NextRing
<1>2. 0 \in D
  BY CurrentRing, ServedRing
<1>3. n \in D \cup {Idle}
  <2> HIDE DEF D
  <2>1. CASE ~HasWork(p, s)'
    BY <2>1
  <2>2. CASE HasWork(p, s)'
    BY <1>2, <2>2
  <2>3. QED
    BY <2>1, <2>2
<1> HIDE DEF n
<1>4. QED
  BY <1>1, <1>3, ScanMoves

(* A step that touches no ring, no connection and no worker.               *)
LEMMA NothingMoves ==
    ASSUME CommInv, scenario' = scenario, pc' = pc, buf' = buf, inbox' = inbox, ring' = ring,
           wire' = wire, scan' \in [Parties -> [Senders -> Int]],
           status' \in [Parties -> {"running", "exited", "dead"}],
           \A a \in Parties, b \in Senders : ScanHolds(a, b)',
           \A a \in Parties : status[a] = "dead" => status'[a] = "dead",
           \A a \in Parties : status'[a] = "exited" =>
              \A b \in Workers : pc[a][b] = Len(Prog(scenario, a, b)) + 1
    PROVE  CommInv'
<1>1. Parties' = Parties /\ Workers' = Workers /\ Senders' = Senders /\ Units' = Units
  BY SameSetsNext
<1>2. StateTypes'
  BY <1>1 DEF CommInv, StateTypes
<1>3. NobodyDead' => NobodyDead
  BY <1>1 DEF NobodyDead
<1>4. ASSUME NEW a \in Parties, NEW b \in Workers PROVE WorkerHolds(a, b)'
  <2>1. WorkerHolds(a, b)
    BY DEF CommInv
  <2>2. QED
    BY <1>3, <2>1 DEF WorkerHolds
<1>5. ASSUME NEW a \in Parties, NEW b \in Workers, NEW c \in Parties PROVE RingHolds(a, b, c)'
  <2>1. RingHolds(a, b, c)
    BY DEF CommInv
  <2>2. QED
    BY <2>1, RingStays
<1>6. ASSUME NEW a \in Parties, NEW b \in Workers, NEW c \in Parties, a # c PROVE StreamHolds(a, b, c)'
  <2>1. StreamHolds(a, b, c)
    BY <1>6 DEF CommInv
  <2>2. QED
    BY <2>1, StreamStays
<1>7. QED
  BY <1>1, <1>2, <1>4, <1>5, <1>6 DEF CommInv

(* A step of a send thread on the ring from worker t of p to q.            *)
LEMMA RingMoves ==
    ASSUME CommInv, NEW p \in Parties, NEW t \in Workers, NEW q \in Parties, q # p,
           scenario' = scenario, pc' = pc, buf' = buf, inbox' = inbox, status' = status, StateTypes',
           \A a \in Parties, b \in Workers, c \in Parties : ~(a = p /\ b = t /\ c = q) =>
               ring'[a][b][c] = ring[a][b][c] /\ wire'[a][b][c] = wire[a][b][c],
           RingHolds(p, t, q)', StreamHolds(p, t, q)',
           \A a \in Parties, b \in Senders : ScanHolds(a, b)'
    PROVE  CommInv'
<1>1. Parties' = Parties /\ Workers' = Workers /\ Senders' = Senders
  BY SameSetsNext
<1>2. NobodyDead' => NobodyDead
  BY <1>1 DEF NobodyDead
<1>3. ASSUME NEW a \in Parties, NEW b \in Workers PROVE WorkerHolds(a, b)'
  <2>1. WorkerHolds(a, b)
    BY DEF CommInv
  <2>2. QED
    BY <1>2, <2>1, WorkerStays
<1>4. ASSUME NEW a \in Parties, NEW b \in Workers, NEW c \in Parties PROVE RingHolds(a, b, c)'
  <2>1. RingHolds(a, b, c)
    BY DEF CommInv
  <2>2. CASE ~(a = p /\ b = t /\ c = q)
    BY <2>1, <2>2, RingStays
  <2>3. QED
    BY <2>2
<1>5. ASSUME NEW a \in Parties, NEW b \in Workers, NEW c \in Parties, a # c PROVE StreamHolds(a, b, c)'
  <2>1. StreamHolds(a, b, c)
    BY <1>5 DEF CommInv
  <2>2. CASE ~(a = p /\ b = t /\ c = q)
    BY <2>1, <2>2, StreamStays
  <2>3. QED
    BY <2>2
<1>6. QED
  BY <1>1, <1>3, <1>4, <1>5 DEF CommInv

(* A sequence with one member.                                             *)
LEMMA SingleEntry ==
    ASSUME NEW S, NEW r \in Seq(S), Len(r) = 1
    PROVE  r # <<>> /\ Head(r) \in S /\ Tail(r) = <<>> /\ r = <<Head(r)>>
<1>1. r # <<>>
  BY EmptySeq
<1>2. Head(r) = r[1] /\ Head(r) \in S /\ Tail(r) \in Seq(S) /\ Len(Tail(r)) = 0
  BY <1>1, HeadTailProperties
<1>3. Tail(r) = <<>>
  BY <1>2, EmptySeq
<1>4. r = <<Head(r)>>
  <2> DEFINE h == Head(r)
  <2>1. <<h>> \in Seq(S) /\ Len(<<h>>) = 1 /\ <<h>>[1] = r[1]
    BY <1>2
  <2>2. \A k \in 1 .. Len(r) : r[k] = <<h>>[k]
    BY <2>1
  <2> HIDE DEF h
  <2>3. r = <<h>>
    BY <2>1, <2>2, SeqEqual
  <2>4. QED
    BY <2>3 DEF h
<1>5. QED
  BY <1>1, <1>2, <1>3, <1>4

(* send() takes a unit.                                                    *)
LEMMA SendUnitHolds ==
    ASSUME CommInv, NEW p \in Parties, NEW s \in Senders, SendUnit(p, s)
    PROVE  CommInv'
<1>0. PICK t \in Workers, q \in Parties : t = Current(p, s).worker /\ q = Current(p, s).peer
  BY CurrentRing DEF SendUnit, Pop
<1> DEFINE r == ring[p][t][q]
           e == Head(r)
           w == wire[p][t][q]
           m == pc[p][t]
           i == pc[q][t]
           b == buf[q][t]
<1>1. Looking(p, s)
  BY DEF SendUnit
<1>2. /\ status[p] = "running" /\ t \in Workers /\ q \in Parties /\ q # p /\ Entries(p, s) = r
  BY <1>0, <1>1, CurrentRing
<1>3. /\ r # <<>> /\ e # <<>> /\ Len(w) < SocketCapacity
      /\ wire' = [wire EXCEPT ![p][t][q] = Append(w, Head(e))]
      /\ ring' = [ring EXCEPT ![p][t][q] = <<Tail(e)>> \o Tail(r)]
      /\ scenario' = scenario /\ pc' = pc /\ buf' = buf /\ inbox' = inbox /\ scan' = scan
      /\ status' = status
  BY <1>0, <1>2 DEF SendUnit, workerVars
<1>4. StateTypes
  BY DEF CommInv
<1>5. IsChannel(scenario, p, t, q, m, i, b, w, r, Units)
  BY <1>2, ChannelTypes DEF CommInv
<1>6. RingHolds(p, t, q) /\ Intact(scenario, p, t, q, m, i, b, w, r)
  BY <1>2 DEF CommInv, StreamHolds
<1>7. r \in Seq(Seq(Units)) /\ Len(r) = 1 /\ Outstanding(scenario, p, t, q, m)
  BY <1>3, <1>5, <1>6 DEF IsChannel, RingHolds
<1>8. r = <<e>> /\ e \in Seq(Units) /\ Tail(r) = <<>>
  <2> HIDE DEF r
  <2>1. QED
    BY ONLY <1>7, SingleEntry DEF e
<1> HIDE DEF e, r, w, m, i, b
<1>9. /\ Append(w, Head(e)) \in Seq(Units) /\ Len(Append(w, Head(e))) = Len(w) + 1
      /\ Tail(e) \in Seq(Units)
      /\ Intact(scenario, p, t, q, m, i, b, Append(w, Head(e)), <<Tail(e)>>)
  <2>1. /\ IsChannel(scenario, p, t, q, m, i, b, w, <<e>>, Units)
        /\ Intact(scenario, p, t, q, m, i, b, w, <<e>>)
    BY <1>5, <1>6, <1>8
  <2>2. QED
    BY ONLY <1>3, <1>8, <2>1, SendStep
<1> DEFINE ww == Append(w, Head(e))
           ee == Tail(e)
           rr == <<ee>>
<1>10. ring' = [ring EXCEPT ![p][t][q] = rr] /\ wire' = [wire EXCEPT ![p][t][q] = ww]
  <2>1. <<ee>> \o <<>> = <<ee>>
    <3> HIDE DEF ee
    <3>1. QED
      OBVIOUS
  <2>2. QED
    BY <1>3, <1>8, <2>1
<1>11. rr \in Seq(Seq(Units)) /\ ww \in Seq(Units) /\ Len(rr) = 1 /\ Len(ww) = Len(w) + 1
  <2>1. ee \in Seq(Units) /\ ww \in Seq(Units) /\ Len(ww) = Len(w) + 1
    BY <1>9
  <2> HIDE DEF ee, ww
  <2>2. QED
    BY <2>1
<1>12. Intact(scenario, p, t, q, m, i, b, ww, rr)
  BY <1>9
<1> HIDE DEF ww, rr
<1>13. /\ ring' \in [Parties -> [Workers -> [Parties -> Seq(Seq(Units))]]] /\ ring'[p][t][q] = rr
       /\ \A a \in Parties, c \in Workers, d \in Parties : ~(a = p /\ c = t /\ d = q) =>
            ring'[a][c][d] = ring[a][c][d]
  <2>1. ring \in [Parties -> [Workers -> [Parties -> Seq(Seq(Units))]]]
    BY <1>4 DEF StateTypes
  <2>2. ring' = [ring EXCEPT ![p][t][q] = rr] /\ rr \in Seq(Seq(Units))
    BY <1>10, <1>11
  <2>3. IsTable3(ring, Parties, Workers, Parties, Seq(Seq(Units))) /\ Replaces3(ring', ring, p, t, q, rr)
    BY <2>1, <2>2, Zenon DEF IsTable3, Replaces3
  <2>4. p \in Parties /\ q \in Parties /\ rr \in Seq(Seq(Units))
    BY <2>1, <2>2
  <2>5. /\ IsTable3(ring', Parties, Workers, Parties, Seq(Seq(Units)))
        /\ DiffersAt3(ring', ring, Parties, Workers, Parties, p, t, q, rr)
    BY ONLY <2>3, <2>4, t \in Workers, Update3
  <2>6. QED
    BY <2>5, Zenon DEF IsTable3, DiffersAt3
<1>14. /\ wire' \in [Parties -> [Workers -> [Parties -> Seq(Units)]]] /\ wire'[p][t][q] = ww
       /\ \A a \in Parties, c \in Workers, d \in Parties : ~(a = p /\ c = t /\ d = q) =>
            wire'[a][c][d] = wire[a][c][d]
  <2>1. wire \in [Parties -> [Workers -> [Parties -> Seq(Units)]]]
    BY <1>4 DEF StateTypes
  <2>2. wire' = [wire EXCEPT ![p][t][q] = ww] /\ ww \in Seq(Units)
    BY <1>10, <1>11
  <2>3. IsTable3(wire, Parties, Workers, Parties, Seq(Units)) /\ Replaces3(wire', wire, p, t, q, ww)
    BY <2>1, <2>2, Zenon DEF IsTable3, Replaces3
  <2>4. p \in Parties /\ q \in Parties /\ ww \in Seq(Units)
    BY <2>1, <2>2
  <2>5. /\ IsTable3(wire', Parties, Workers, Parties, Seq(Units))
        /\ DiffersAt3(wire', wire, Parties, Workers, Parties, p, t, q, ww)
    BY ONLY <2>3, <2>4, t \in Workers, Update3
  <2>6. QED
    BY <2>5, Zenon DEF IsTable3, DiffersAt3
<1>15. /\ Parties' = Parties /\ Workers' = Workers /\ Senders' = Senders /\ Units' = Units
       /\ SocketCapacity' = SocketCapacity
  BY <1>3, SameSetsNext
<1>16. StateTypes'
  BY <1>3, <1>4, <1>13, <1>14, <1>15 DEF StateTypes
<1>17. RingHolds(p, t, q)'
  <2>1. Len(w) \in Nat /\ SocketCapacity \in Nat
    BY <1>4, <1>5, ScenarioFacts DEF StateTypes, IsChannel
  <2>2. Len(ww) <= SocketCapacity
    BY <1>3, <1>11, <2>1
  <2>3. pc'[p][t] = m
    BY <1>3 DEF m
  <2>4. QED
    BY <1>3, <1>7, <1>11, <1>13, <1>14, <1>15, <2>2, <2>3 DEF RingHolds
<1>18. StreamHolds(p, t, q)'
  <2>1. pc'[p][t] = m /\ pc'[q][t] = i /\ buf'[q][t] = b
    BY <1>3 DEF m, i, b
  <2>2. QED
    BY <1>3, <1>12, <1>13, <1>14, <2>1 DEF StreamHolds
<1>19. ASSUME NEW a \in Parties, NEW c \in Senders PROVE ScanHolds(a, c)'
  BY <1>3, ScanStays DEF CommInv
<1>20. \A a \in Parties, c \in Workers, d \in Parties : ~(a = p /\ c = t /\ d = q) =>
         ring'[a][c][d] = ring[a][c][d] /\ wire'[a][c][d] = wire[a][c][d]
  <2>1. \A a \in Parties, c \in Workers, d \in Parties : ~(a = p /\ c = t /\ d = q) =>
          ring'[a][c][d] = ring[a][c][d]
    BY <1>13
  <2>2. \A a \in Parties, c \in Workers, d \in Parties : ~(a = p /\ c = t /\ d = q) =>
          wire'[a][c][d] = wire[a][c][d]
    BY <1>14
  <2>3. QED
    BY ONLY <2>1, <2>2
<1>21. q # p /\ scenario' = scenario /\ pc' = pc /\ buf' = buf /\ inbox' = inbox /\ status' = status
  BY <1>2, <1>3
<1>22. QED
  BY ONLY CommInv, p \in Parties, t \in Workers, q \in Parties,
          <1>16, <1>17, <1>18, <1>19, <1>20, <1>21, RingMoves

(* The entry sent is popped.                                               *)
LEMMA PopHolds ==
    ASSUME CommInv, NEW p \in Parties, NEW s \in Senders, Pop(p, s)
    PROVE  CommInv'
<1>0. PICK t \in Workers, q \in Parties : t = Current(p, s).worker /\ q = Current(p, s).peer
  BY CurrentRing DEF SendUnit, Pop
<1> DEFINE r == ring[p][t][q]
           w == wire[p][t][q]
           m == pc[p][t]
           i == pc[q][t]
           b == buf[q][t]
<1>1. Looking(p, s) /\ NextRing(p, s)
  BY DEF Pop
<1>2. /\ status[p] = "running" /\ t \in Workers /\ q \in Parties /\ q # p /\ Entries(p, s) = r
  BY <1>0, <1>1, CurrentRing
<1>3. /\ r # <<>> /\ Head(r) = <<>> /\ ring' = [ring EXCEPT ![p][t][q] = Tail(r)]
      /\ scenario' = scenario /\ pc' = pc /\ buf' = buf /\ inbox' = inbox /\ wire' = wire
      /\ status' = status
  BY <1>0, <1>2 DEF Pop, workerVars
<1>4. StateTypes
  BY DEF CommInv
<1>5. /\ scan' \in [Parties -> [Senders -> Int]] /\ \A a \in Parties, c \in Senders : ScanHolds(a, c)'
  BY <1>1, <1>3, NextRingMoves
<1>6. RingHolds(p, t, q) /\ Intact(scenario, p, t, q, m, i, b, w, r)
  BY <1>2 DEF CommInv, StreamHolds
<1>7. r \in Seq(Seq(Units)) /\ Len(r) = 1
  BY <1>2, <1>3, <1>4, <1>6 DEF StateTypes, RingHolds
<1>8. r = <<<<>>>> /\ Tail(r) = <<>>
  <2> HIDE DEF r
  <2>1. r = <<Head(r)>> /\ Tail(r) = <<>>
    BY ONLY <1>7, SingleEntry
  <2>2. QED
    BY <1>3, <2>1
<1>9. Intact(scenario, p, t, q, m, i, b, w, <<>>)
  <2>1. Intact(scenario, p, t, q, m, i, b, w, <<<<>>>>)
    BY <1>6, <1>8
  <2> HIDE DEF r, w, m, i, b
  <2>2. QED
    BY ONLY <2>1, PopStep
<1>10. /\ ring' \in [Parties -> [Workers -> [Parties -> Seq(Seq(Units))]]] /\ ring'[p][t][q] = <<>>
       /\ \A a \in Parties, c \in Workers, d \in Parties : ~(a = p /\ c = t /\ d = q) =>
            ring'[a][c][d] = ring[a][c][d]
  <2>1. ring \in [Parties -> [Workers -> [Parties -> Seq(Seq(Units))]]] /\ <<>> \in Seq(Seq(Units))
    BY <1>4, Nothing DEF StateTypes
  <2>2. ring' = [ring EXCEPT ![p][t][q] = <<>>]
    BY <1>3, <1>8
  <2>3. IsTable3(ring, Parties, Workers, Parties, Seq(Seq(Units))) /\ Replaces3(ring', ring, p, t, q, <<>>)
    BY <2>1, <2>2, Zenon DEF IsTable3, Replaces3
  <2>4. p \in Parties /\ q \in Parties /\ <<>> \in Seq(Seq(Units))
    BY <2>1, <2>2
  <2>5. /\ IsTable3(ring', Parties, Workers, Parties, Seq(Seq(Units)))
        /\ DiffersAt3(ring', ring, Parties, Workers, Parties, p, t, q, <<>>)
    BY ONLY <2>3, <2>4, t \in Workers, Update3
  <2>6. QED
    BY <2>5, Zenon DEF IsTable3, DiffersAt3
<1>11. /\ Parties' = Parties /\ Workers' = Workers /\ Senders' = Senders /\ Units' = Units
       /\ SocketCapacity' = SocketCapacity
  BY <1>3, SameSetsNext
<1>12. StateTypes'
  BY <1>3, <1>4, <1>5, <1>10, <1>11 DEF StateTypes
<1>13. RingHolds(p, t, q)'
  BY <1>3, <1>6, <1>10, <1>11 DEF RingHolds
<1>14. StreamHolds(p, t, q)'
  BY <1>3, <1>9, <1>10 DEF StreamHolds
<1> HIDE DEF r, w, m, i, b
<1>15. \A a \in Parties, c \in Workers, d \in Parties : ~(a = p /\ c = t /\ d = q) =>
         ring'[a][c][d] = ring[a][c][d] /\ wire'[a][c][d] = wire[a][c][d]
  BY ONLY <1>3, <1>10
<1>16. q # p /\ scenario' = scenario /\ pc' = pc /\ buf' = buf /\ inbox' = inbox /\ status' = status
  BY <1>2, <1>3
<1>17. QED
  BY ONLY CommInv, p \in Parties, t \in Workers, q \in Parties,
          <1>5, <1>12, <1>13, <1>14, <1>15, <1>16, RingMoves

(* All steps of a send thread.                                             *)
LEMMA SenderHolds ==
    ASSUME CommInv, NEW p \in Parties, NEW s \in Senders,
           \/ ComeUpon(p, s) \/ SkipRing(p, s) \/ SendUnit(p, s) \/ Pop(p, s) \/ SendFails(p, s)
    PROVE  CommInv'
<1>1. /\ status \in [Parties -> {"running", "exited", "dead"}] /\ scan \in [Parties -> [Senders -> Int]]
      /\ \A a \in Parties : status[a] = "exited" =>
           \A b \in Workers : pc[a][b] = Len(Prog(scenario, a, b)) + 1
      /\ \A a \in Parties, b \in Senders : ScanHolds(a, b)
  BY DEF CommInv, StateTypes, WorkerHolds
<1>2. CASE ComeUpon(p, s)
  <2>1. PICK n \in DOMAIN Rings(p, s) : scan' = [scan EXCEPT ![p][s] = n]
    BY <1>2 DEF ComeUpon
  <2>2. /\ scenario' = scenario /\ pc' = pc /\ buf' = buf /\ inbox' = inbox /\ ring' = ring
        /\ wire' = wire /\ status' = status
    BY <1>2 DEF ComeUpon, workerVars
  <2>3. /\ scan' \in [Parties -> [Senders -> Int]] /\ \A a \in Parties, c \in Senders : ScanHolds(a, c)'
    BY <2>1, <2>2, ScanMoves
  <2>4. QED
    BY <1>1, <2>2, <2>3, NothingMoves
<1>3. CASE SkipRing(p, s)
  <2>1. /\ scenario' = scenario /\ pc' = pc /\ buf' = buf /\ inbox' = inbox /\ ring' = ring
        /\ wire' = wire /\ status' = status /\ Looking(p, s) /\ NextRing(p, s)
    BY <1>3 DEF SkipRing, workerVars
  <2>2. /\ scan' \in [Parties -> [Senders -> Int]] /\ \A a \in Parties, c \in Senders : ScanHolds(a, c)'
    BY <2>1, NextRingMoves
  <2>3. QED
    BY <1>1, <2>1, <2>2, NothingMoves
<1>4. CASE SendFails(p, s)
  <2>1. /\ scenario' = scenario /\ pc' = pc /\ buf' = buf /\ inbox' = inbox /\ ring' = ring
        /\ wire' = wire /\ scan' = scan /\ status' = [status EXCEPT ![p] = "dead"]
    BY <1>4 DEF SendFails, workerVars
  <2>2. /\ status' \in [Parties -> {"running", "exited", "dead"}]
        /\ \A a \in Parties : status'[a] = "dead" \/ status'[a] = status[a]
    BY <1>1, <2>1
  <2>3. \A a \in Parties, b \in Senders : ScanHolds(a, b)'
    BY <1>1, <2>1, ScanStays
  <2>4. \A a \in Parties : /\ status[a] = "dead" => status'[a] = "dead"
                           /\ status'[a] = "exited" => status[a] = "exited"
    BY <2>2
  <2>5. QED
    BY <1>1, <2>1, <2>2, <2>3, <2>4, NothingMoves
<1>5. QED
  BY <1>2, <1>3, <1>4, SendUnitHolds, PopHolds

(* The end of a process, in order or not.                                  *)
LEMMA ProcessHolds ==
    ASSUME CommInv, NEW p \in Parties, Exit(p) \/ Crash(p)
    PROVE  CommInv'
<1>1. /\ status \in [Parties -> {"running", "exited", "dead"}] /\ scan \in [Parties -> [Senders -> Int]]
      /\ \A a \in Parties : status[a] = "exited" =>
           \A b \in Workers : pc[a][b] = Len(Prog(scenario, a, b)) + 1
      /\ \A a \in Parties, b \in Senders : ScanHolds(a, b)
  BY DEF CommInv, StateTypes, WorkerHolds
<1>2. /\ scenario' = scenario /\ pc' = pc /\ buf' = buf /\ inbox' = inbox /\ ring' = ring
      /\ wire' = wire /\ scan' = scan /\ status[p] = "running"
  BY DEF Exit, Crash, workerVars
<1>3. \A a \in Parties, b \in Senders : ScanHolds(a, b)'
  BY <1>1, <1>2, ScanStays
<1>4. CASE Crash(p)
  <2>1. status' = [status EXCEPT ![p] = "dead"]
    BY <1>4 DEF Crash
  <2>2. /\ status' \in [Parties -> {"running", "exited", "dead"}]
        /\ \A a \in Parties : status'[a] = "dead" \/ status'[a] = status[a]
    BY <1>1, <2>1
  <2>3. \A a \in Parties : /\ status[a] = "dead" => status'[a] = "dead"
                           /\ status'[a] = "exited" => status[a] = "exited"
    BY <2>2
  <2>4. QED
    BY <1>1, <1>2, <1>3, <2>2, <2>3, NothingMoves
<1>5. CASE Exit(p)
  <2>1. status' = [status EXCEPT ![p] = "exited"] /\ \A b \in Workers : pc[p][b] > Len(Prog(scenario, p, b))
    BY <1>5, SameSets DEF Exit
  <2>2. /\ status' \in [Parties -> {"running", "exited", "dead"}]
        /\ \A a \in Parties : a # p => status'[a] = status[a]
    BY <1>1, <2>1
  <2>3. ASSUME NEW b \in Workers PROVE pc[p][b] = Len(Prog(scenario, p, b)) + 1
    <3>1. pc[p][b] \in 1 .. Len(Prog(scenario, p, b)) + 1 /\ pc[p][b] > Len(Prog(scenario, p, b))
      BY <2>1 DEF CommInv, WorkerHolds
    <3>2. Len(Prog(scenario, p, b)) \in Nat
      BY SameSets, Positions DEF CommInv, StateTypes
    <3>3. QED
      BY <3>1, <3>2
  <2>4. \A a \in Parties : /\ status[a] = "dead" => status'[a] = "dead"
                           /\ status'[a] = "exited" => status[a] = "exited" \/ a = p
    BY <1>2, <2>2
  <2>5. \A a \in Parties : status'[a] = "exited" =>
          \A b \in Workers : pc[a][b] = Len(Prog(scenario, a, b)) + 1
    BY <1>1, <2>3, <2>4
  <2>6. QED
    BY <1>1, <1>2, <1>3, <2>2, <2>4, <2>5, NothingMoves
<1>6. QED
  BY <1>4, <1>5

(* Every step keeps the invariant.                                         *)
LEMMA NextHolds == CommInv /\ [Next]_commVars => CommInv'
<1> SUFFICES ASSUME CommInv, [Next]_commVars PROVE CommInv'
  OBVIOUS
<1>1. CASE UNCHANGED commVars
  <2>1. /\ scenario' = scenario /\ pc' = pc /\ buf' = buf /\ inbox' = inbox /\ ring' = ring
        /\ wire' = wire /\ scan' = scan /\ status' = status
    BY <1>1 DEF commVars, workerVars
  <2>2. \A a \in Parties, b \in Senders : ScanHolds(a, b)'
    BY <2>1, ScanStays DEF CommInv
  <2>3. /\ status \in [Parties -> {"running", "exited", "dead"}] /\ scan \in [Parties -> [Senders -> Int]]
        /\ \A a \in Parties : status[a] = "exited" =>
             \A b \in Workers : pc[a][b] = Len(Prog(scenario, a, b)) + 1
    BY DEF CommInv, StateTypes, WorkerHolds
  <2>4. QED
    BY <2>1, <2>2, <2>3, NothingMoves
<1>2. ASSUME NEW p \in Parties, NEW t \in Workers, RunningWorker(p, t), Do(p, t, Instruction(p, t))
      PROVE  CommInv'
  BY <1>2, PushHolds, ReceiveHolds, ReceiveNothingHolds, ReceiveFailsHolds, WaitHolds DEF Do
<1>3. QED
  BY <1>1, <1>2, SenderHolds, ProcessHolds DEF Next, Progress, Over

-----------------------------------------------------------------------------
(* What the invariant says.                                                *)
LEMMA RankAtMost ==
    ASSUME NEW N \in Nat, NEW S \in SUBSET (1 .. N), NEW m \in Nat
    PROVE  Rank(S, m) <= m
<1> DEFINE C == {j \in S : j <= m}
<1>1. \A j \in S : j \in 1 .. N
  BY Zenon
<1>2. \A j \in S : j <= m => j \in 1 .. m
  BY ONLY <1>1, N \in Nat, m \in Nat
<1>3. C \in SUBSET (1 .. m)
  BY ONLY <1>2, Zenon
<1>4. IsFiniteSet(1 .. m) /\ Cardinality(1 .. m) <= m
  BY FS_Interval
<1> HIDE DEF C
<1>5. Cardinality(C) <= Cardinality(1 .. m)
  BY ONLY <1>3, <1>4, FS_Subset
<1>6. IsFiniteSet(C)
  BY ONLY <1>3, <1>4, FS_Subset
<1>7. Cardinality(C) \in Nat /\ Cardinality(1 .. m) \in Nat
  BY ONLY <1>4, <1>6, FS_CardinalityType
<1>8. Cardinality(C) <= m
  BY <1>4, <1>5, <1>7
<1>9. QED
  BY <1>8 DEF Rank, C

(* Sequences that agree where both have members.                           *)
LEMMA BeginsAlike ==
    ASSUME NEW U, NEW v \in Seq(U), NEW w \in Seq(U), Len(v) <= Len(w),
           \A k \in 1 .. Len(v) : v[k] = w[k]
    PROVE  IsPrefix(v, w)
<1>1. Len(v) \in Nat /\ Len(w) \in Nat
  OBVIOUS
<1>2. \A k \in 1 .. Len(v) : v[k] \in U /\ w[k] \in U
  BY <1>1
<1>3. SubSeq(v, 1, Len(v)) = SubSeq(w, 1, Len(v))
  BY <1>1, <1>2
<1>4. QED
  BY <1>3 DEF IsPrefix

(* The invariant gives the type invariant ...                              *)
LEMMA TypeFollows == CommInv => TypeOK
<1> SUFFICES ASSUME CommInv PROVE TypeOK
  OBVIOUS
<1>1. ASSUME NEW p \in Parties, NEW t \in Workers
      PROVE  pc[p][t] \in 1 .. Len(Program(p, t)) + 1 /\ Len(inbox[p][t]) < pc[p][t]
  <2> DEFINE N == Len(Prog(scenario, p, t))
             S == ReceivesOf(Prog(scenario, p, t))
  <2>1. /\ pc[p][t] \in 1 .. N + 1 /\ Len(inbox[p][t]) = Rank(S, pc[p][t] - 1)
    BY DEF CommInv, WorkerHolds, WorkerOK
  <2>2. N \in Nat /\ S \in SUBSET (1 .. N)
    BY SameSets, Positions DEF CommInv, StateTypes
  <2> HIDE DEF N, S
  <2>3. pc[p][t] - 1 \in Nat /\ pc[p][t] \in Nat
    BY <2>1, <2>2
  <2>4. Rank(S, pc[p][t] - 1) <= pc[p][t] - 1
    BY ONLY <2>2, <2>3, RankAtMost
  <2>5. Rank(S, pc[p][t] - 1) \in Nat
    BY ONLY <2>2, <2>3, RankRecursion
  <2>6. Len(inbox[p][t]) < pc[p][t]
    BY <2>1, <2>3, <2>4, <2>5
  <2>7. QED
    BY <2>1, <2>6, SameSets DEF N
<1>2. ASSUME NEW p \in Parties, NEW t \in Workers, NEW q \in Parties
      PROVE  Len(wire[p][t][q]) <= SocketCapacity /\ Len(ring[p][t][q]) <= 1
  <2>1. RingHolds(p, t, q)
    BY DEF CommInv
  <2>2. CASE ring[p][t][q] = <<>>
    <3>1. Len(ring[p][t][q]) = 0
      BY <2>2
    <3>2. QED
      BY <2>1, <3>1 DEF RingHolds
  <2>3. CASE ring[p][t][q] # <<>>
    <3>1. Len(ring[p][t][q]) = 1
      BY <2>1, <2>3 DEF RingHolds
    <3>2. Len(wire[p][t][q]) <= SocketCapacity
      BY <2>1 DEF RingHolds
    <3>3. QED
      BY ONLY <3>1, <3>2
  <2>4. QED
    BY <2>2, <2>3
<1>3. status \in [Parties -> {"running", "exited", "dead"}]
  BY DEF CommInv, StateTypes
<1>4. \A p \in Parties, s \in Senders : scan[p][s] \in DOMAIN Rings(p, s) \cup {Idle}
  BY DEF CommInv, ScanHolds
<1>5. QED
  BY <1>1, <1>2, <1>3, <1>4 DEF TypeOK

(* A vector that lies where a receive reads begins the one meant for it.   *)
LEMMA MeantPrefix ==
    ASSUME NEW nm \in DOMAIN Scenarios, NEW p \in PartiesOf(nm), NEW t \in WorkersOf(nm),
           NEW i \in ReceivesOf(Prog(nm, p, t)), NEW v \in Seq(UnitsOf(nm)),
           Len(v) <= Prog(nm, p, t)[i].len,
           \A q \in PartiesOf(nm) : i \in Gets(nm, p, t, q) =>
               InStream(nm, q, t, p, v, GetOffset(nm, p, t, q)[i - 1])
    PROVE  IsPrefix(v, MeantIn[nm][p][t][i])
<1> DEFINE q == Prog(nm, p, t)[i].peer
           w == MeantIn[nm][p][t][i]
<1>1. IsProgram(Prog(nm, p, t), p, PartiesOf(nm))
  BY ProgramFacts
<1>2. q \in PartiesOf(nm) /\ q # p /\ i \in Gets(nm, p, t, q)
  BY <1>1 DEF IsProgram, ReceivesOf, ReceivesFrom, Gets
<1>3. /\ Len(w) = Prog(nm, p, t)[i].len
      /\ \A k \in 1 .. Prog(nm, p, t)[i].len :
           w[k] = StreamUnit(nm, q, t, p, GetOffset(nm, p, t, q)[i - 1] + k)
  BY <1>2, MeantInStream
<1>4. w \in Seq(UnitsOf(nm))
  <2>1. PICK j \in Sends(nm, q, t, p) : w = Prog(nm, q, t)[j].vec
    BY <1>2, StreamsMatch
  <2>2. j \in DOMAIN Prog(nm, q, t) /\ Prog(nm, q, t)[j].do = "push"
    BY DEF Sends, PushesTo
  <2>3. QED
    BY <1>2, <2>1, <2>2, PushedVector
<1>5. InStream(nm, q, t, p, v, GetOffset(nm, p, t, q)[i - 1])
  BY <1>2
<1>6. Prog(nm, p, t)[i].len \in Nat /\ Len(v) \in Nat
  BY <1>2, Positions
<1> HIDE DEF q, w
<1>7. \A k \in 1 .. Len(v) : v[k] = w[k]
  BY <1>3, <1>5, <1>6 DEF InStream
<1>8. Len(v) <= Len(w)
  BY <1>3
<1>9. IsPrefix(v, w)
  BY ONLY v \in Seq(UnitsOf(nm)), <1>4, <1>7, <1>8, BeginsAlike
<1>10. QED
  BY <1>9 DEF w

(* ... that vectors are aligned ...                                        *)
LEMMA AlignmentFollows == CommInv => VectorsAligned
<1> SUFFICES ASSUME CommInv PROVE VectorsAligned
  OBVIOUS
<1>0. scenario \in DOMAIN Scenarios
  BY DEF CommInv, StateTypes
<1>1. ASSUME NEW p \in Parties, NEW t \in Workers
      PROVE  /\ DOMAIN Meant(p, t) = ReceivesOf(Prog(scenario, p, t))
             /\ \A i \in ReceivesOf(Prog(scenario, p, t)) :
                  Received(p, t, i) = inbox[p][t][Rank(ReceivesOf(Prog(scenario, p, t)), i)]
             /\ Meant(p, t) = MeantIn[scenario][p][t]
  <2>1. p \in PartiesOf(scenario) /\ t \in WorkersOf(scenario)
    BY SameSets
  <2>2. QED
    BY <1>0, <2>1 DEF Meant, MeantIn, Received, PlaceIn, PartiesOf, WorkersOf, Prog
<1>2. ASSUME NEW p \in Parties, NEW t \in Workers
      PROVE  /\ p \in PartiesOf(scenario) /\ t \in WorkersOf(scenario)
             /\ WorkerOK(scenario, p, t, pc[p][t], buf[p][t], inbox[p][t])
             /\ IsWorker(scenario, p, t, pc[p][t], buf[p][t], inbox[p][t], Units)
             /\ NobodyDead => InFull(scenario, p, t, pc[p][t], inbox[p][t])
             /\ buf[p][t] \in Seq(UnitsOf(scenario))
  BY SameSets, ChannelTypes DEF CommInv, WorkerHolds, StateTypes, Units
<1>3. ASSUME NEW p \in Parties, NEW t \in Workers, NEW i \in ReceivesOf(Prog(scenario, p, t)),
             i < pc[p][t]
      PROVE  IsPrefix(Received(p, t, i), Meant(p, t)[i])
  <2> DEFINE x == inbox[p][t]
             S == ReceivesOf(Prog(scenario, p, t))
             v == x[Rank(S, i)]
  <2>1. Len(x) = Rank(S, pc[p][t] - 1)
    BY <1>2 DEF WorkerOK
  <2>2. Rank(S, i) \in 1 .. Len(x)
    BY <1>2, <1>3, <2>1, Places
  <2>3. v \in Seq(UnitsOf(scenario))
    <3>1. x \in Seq(Seq(UnitsOf(scenario)))
      BY <1>2 DEF IsWorker, Units
    <3> HIDE DEF x, S
    <3>2. QED
      BY <2>2, <3>1, ElementOfSeq
  <2>4. Len(v) <= Prog(scenario, p, t)[i].len
    BY <1>2, <1>3 DEF WorkerOK
  <2>5. \A q \in PartiesOf(scenario) : i \in Gets(scenario, p, t, q) =>
          InStream(scenario, q, t, p, v, GetOffset(scenario, p, t, q)[i - 1])
    BY <1>2, <1>3 DEF WorkerOK
  <2>6. Received(p, t, i) = v
    BY <1>1
  <2> HIDE DEF v
  <2>7. QED
    BY <1>0, <1>1, <1>2, <2>3, <2>4, <2>5, <2>6, MeantPrefix
<1>4. ASSUME NEW p \in Parties, NEW t \in Workers, pc[p][t] \in ReceivesOf(Prog(scenario, p, t))
      PROVE  IsPrefix(buf[p][t], Meant(p, t)[pc[p][t]])
  <2> DEFINE b == buf[p][t]
             i == pc[p][t]
  <2>1. /\ b # <<>> => Len(b) < Prog(scenario, p, t)[i].len
        /\ \A q \in PartiesOf(scenario) : i \in Gets(scenario, p, t, q) =>
             InStream(scenario, q, t, p, b, GetOffset(scenario, p, t, q)[i - 1])
    BY <1>2 DEF WorkerOK
  <2>2. Len(b) <= Prog(scenario, p, t)[i].len
    <3>1. IsProgram(Prog(scenario, p, t), p, PartiesOf(scenario))
      BY <1>0, <1>2, ProgramFacts
    <3>2. Prog(scenario, p, t)[i].len \in Nat
      BY <1>4, <3>1 DEF IsProgram, ReceivesOf
    <3>3. Len(b) \in Nat
      BY <1>2, LenProperties
    <3>4. QED
      BY <2>1, <3>2, <3>3, Nothing
  <2>3. i \in ReceivesOf(Prog(scenario, p, t)) /\ b \in Seq(UnitsOf(scenario))
    BY <1>2, <1>4
  <2> HIDE DEF b, i
  <2>4. IsPrefix(b, MeantIn[scenario][p][t][i])
    BY <1>0, <1>2, <2>1, <2>2, <2>3, MeantPrefix
  <2>5. QED
    BY <1>1, <2>4 DEF b, i
<1>5. ASSUME NobodyDead PROVE ReceivedInFull
  <2>1. ASSUME NEW p \in Parties, NEW t \in Workers, NEW i \in HasReceived(p, t)
        PROVE  Len(Received(p, t, i)) = Program(p, t)[i].len
    <3>1. i \in ReceivesOf(Prog(scenario, p, t)) /\ i < pc[p][t]
      BY <1>1 DEF HasReceived
    <3>2. QED
      BY <1>1, <1>2, <1>5, <3>1, SameSets DEF InFull
  <2>2. QED
    BY <2>1 DEF ReceivedInFull
<1>6. QED
  BY <1>1, <1>3, <1>4, <1>5 DEF VectorsAligned, HasReceived

(* ... and that processes leave in order.                                  *)
LEMMA OrderFollows == CommInv => LeavesInOrder
<1> SUFFICES ASSUME CommInv, NobodyDead, NEW p \in Parties, status[p] = "exited",
                    NEW t \in Workers, NEW q \in Parties
             PROVE  ring[p][t][q] = <<>> /\ ring[q][t][p] \in {<<>>, <<<<>>>>}
  BY DEF LeavesInOrder
<1> DEFINE N == Len(Prog(scenario, q, t))
           M == Len(Prog(scenario, p, t))
           r == ring[q][t][p]
           w == wire[q][t][p]
           m == pc[q][t]
           k == pc[p][t]
           b == buf[p][t]
           f == SendOffset(scenario, q, t, p)
           g == GetOffset(scenario, p, t, q)
<1>1. /\ q \in PartiesOf(scenario) /\ p \in PartiesOf(scenario) /\ t \in WorkersOf(scenario)
      /\ scenario \in DOMAIN Scenarios
  BY SameSets DEF CommInv, StateTypes
<1>2. N \in Nat /\ M \in Nat
  BY <1>1, Positions
<1>3. k = M + 1
  BY DEF CommInv, WorkerHolds
<1>4. ring[p][t][q] = <<>>
  <2>1. k \in Nat /\ k > M
    BY <1>2, <1>3
  <2>2. ~Outstanding(scenario, p, t, q, k)
    <3> HIDE DEF k
    <3>1. QED
      BY ONLY <1>1, <2>1, Outstands DEF M
  <2>3. RingHolds(p, t, q)
    BY DEF CommInv
  <2>4. QED
    BY <2>2, <2>3 DEF RingHolds
<1>5. ASSUME q # p, r # <<>> PROVE r = <<<<>>>>
  <2>1. IsChannel(scenario, q, t, p, m, k, b, w, r, Units)
    BY ChannelTypes DEF CommInv
  <2>2. Intact(scenario, q, t, p, m, k, b, w, r)
    BY <1>5 DEF CommInv, StreamHolds, NobodyDead
  <2>3. Len(r) = 1 /\ r \in Seq(Seq(Units))
    BY <1>5, <2>1 DEF CommInv, RingHolds, IsChannel
  <2>4. m \in 1 .. N + 1
    BY <2>1 DEF IsChannel
  <2>5. k \notin Gets(scenario, p, t, q)
    <3>1. Gets(scenario, p, t, q) \in SUBSET (1 .. M)
      BY <1>1, Positions
    <3>2. ~(k \in 1 .. M)
      BY <1>2, <1>3
    <3>3. QED
      BY <3>1, <3>2
  <2>6. Consumed(scenario, q, t, p, k, b) = g[k - 1]
    <3>1. g[k - 1] \in Nat
      <4> HIDE DEF m, k, b, w, r
      <4>1. QED
        BY ONLY <2>1, ChannelNumbers DEF g
    <3> HIDE DEF k, b
    <3>2. QED
      BY <2>5, <3>1 DEF Consumed, g
  <2>7. k - 1 = M /\ m - 1 \in 0 .. N /\ N \in 0 .. N /\ m - 1 <= N
    BY <1>2, <1>3, <2>4
  <2> HIDE DEF m, k, b, w, r
  <2>8. Len(w) \in Nat /\ Left(r) \in Nat /\ g[k - 1] \in Nat
    BY ONLY <2>1, ChannelNumbers DEF g
  <2>9. f[N] = g[M]
    BY ONLY <1>1, <1>5, StreamsMatch DEF f, g, N, M
  <2>10. f \in [0 .. N -> Nat] /\ \A c, d \in 0 .. N : c <= d => f[c] <= f[d]
    BY ONLY <1>1, SendOffsets DEF f, N
  <2>11. (Consumed(scenario, q, t, p, k, b) + Len(w)) + Left(r) = f[m - 1]
    BY <2>2 DEF Intact, f
  <2> HIDE DEF f, g, N, M
  <2>12. f[m - 1] <= f[N] /\ f[m - 1] \in Nat
    BY <2>7, <2>10
  <2>13. Left(r) = 0
    BY <2>6, <2>7, <2>8, <2>9, <2>11, <2>12
  <2>14. r = <<Head(r)>> /\ Head(r) \in Seq(Units)
    BY ONLY <2>3, SingleEntry
  <2>15. Len(Head(r)) = 0
    <3> DEFINE h == Head(r)
    <3>1. r = <<h>>
      BY <2>14
    <3> HIDE DEF h
    <3>2. Len(h) = 0
      BY <1>5, <2>13, <3>1 DEF Left
    <3>3. QED
      BY <3>2 DEF h
  <2>16. Head(r) = <<>>
    BY <2>14, <2>15, EmptySeq
  <2>17. QED
    BY <2>14, <2>16 DEF r
<1>6. QED
  BY <1>4, <1>5

(* In every state the communicator reaches the streams are whole: what a   *)
(* worker has read, what its connections hold and what the peers' rings    *)
(* still hold are together what the peers have pushed, in that order,      *)
(* except for what a dead process took with it; and a ring holds at most   *)
(* the one vector its worker has not waited for.                           *)
THEOREM StreamsAlwaysWhole == Spec => []CommInv
<1>1. QED
  BY InitHolds, NextHolds, PTL DEF Spec

(* No ring ever holds a second vector and no connection more than it can,  *)
(* a send thread looks only at rings it serves, and no worker runs past    *)
(* the end of its program.                                                 *)
THEOREM TypesAlwaysOK == Spec => []TypeOK
<1>1. QED
  BY StreamsAlwaysWhole, TypeFollows, PTL

(* receiveSharesGeneric's loop over short reads, the send threads shared   *)
(* by the workers and full connections never shift a stream: what a        *)
(* receive has read begins the vector meant for it, and is all of it       *)
(* unless somebody has died.                                               *)
THEOREM VectorsAlwaysAligned == Spec => []VectorsAligned
<1>1. QED
  BY StreamsAlwaysWhole, AlignmentFollows, PTL

(* A process that ends while nobody has died has sent all it pushed, and   *)
(* nobody is left with a unit to send to it, so that send_wrapper's        *)
(* exception is not met.                                                   *)
THEOREM AlwaysLeavesInOrder == Spec => []LeavesInOrder
<1>1. QED
  BY StreamsAlwaysWhole, OrderFollows, PTL
=============================================================================
