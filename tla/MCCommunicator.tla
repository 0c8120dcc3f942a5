--------------------------- MODULE MCCommunicator ---------------------------
(* Scenarios for model-checking Communicator: the rounds of the protocols, *)
(* one after another.  A vector of shares has two units, so that it can be *)
(* read in pieces and does not fit into a connection that holds one.       *)
EXTENDS Communicator

R2 == INSTANCE Rounds WITH NumParties <- 2, DataLen <- 2
R3 == INSTANCE Rounds WITH NumParties <- 3, DataLen <- 2
R4 == INSTANCE Rounds WITH NumParties <- 4, DataLen <- 2

Setting(parties, workers, sendThreads, capacity, crashes) ==
    [parties |-> parties, workers |-> workers, sendThreads |-> sendThreads,
     capacity |-> capacity, crashes |-> crashes]

(* Every worker of every party of a scenario makes the same calls.         *)
Everyone(setting, Calls(_)) ==
    [p \in 0 .. setting.parties - 1 |-> [t \in 0 .. setting.workers - 1 |-> Calls(p)]]

-----------------------------------------------------------------------------
\* Beaver 2PC, two workers sharing one send thread.
Two == Setting(2, 2, 1, 1, 0)
Calls2(p) ==
    R2!Open2(p) \o R2!PermuteAndShare2(p, 0) \o R2!PermuteAndShare2(p, 1) \o R2!Open2(p)

\* Replicated 3PC; the second input is a vector without elements.
Three == Setting(3, 1, 1, 1, 0)
ThreeAndADeath == Setting(3, 1, 1, 1, 1)
Calls3(p) ==
    R3!SecretShare3(p, 2, 2) \o R3!SecretShare3(p, 0, 0)
      \o R3!Multiply3(p) \o R3!Truncate3(p) \o R3!RedistributeShares3(p)

\* Fantastic 4PC, dalskov_4pc.h.
Four == Setting(4, 1, 1, 1, 0)
CallsJmp(p) == R4!GenericMultiply4(p) \o R4!OpenShares4(p) \o R4!MaliciousCheck4(p)

\* Fantastic 4PC, custom_4pc.h: the last round of the multiplication, and
\* every order of evaluation in div_const_a.
Calls4(p) ==
    R4!LastCrossTerm4(p) \o R4!DivConst4(p, [s \in {0, 1} |-> TRUE])
      \o R4!DivConst4(p, [s \in {0, 1} |-> s = 0])
      \o R4!DivConst4(p, [s \in {0, 1} |-> s = 1])
      \o R4!Reshare4(p, 0) \o R4!Reshare4(p, 3)

\* SPDZ2k: an input; openings and checks, the connections holding a vector
\* each; and an opening with a vector that is longer.
CallsInput(p) == R3!InputShare(p, 1)
Roomy == Setting(3, 1, 1, 2, 0)
CallsOpen(p) == R3!Broadcast(p, R3!Data(p, "masked"))

\* The setup of the common generators, with the groups of each cdough_init;
\* for two parties the engine has two workers.
S2 == INSTANCE SeedSetup WITH NumParties <- 2, Spdz <- FALSE, Groups <- <<{0, 1}>>
S3 == INSTANCE SeedSetup WITH NumParties <- 3, Spdz <- FALSE,
        Groups <- <<{0, 1}, {0, 2}, {1, 2}, {0, 1, 2}>>
S4 == INSTANCE SeedSetup WITH NumParties <- 4, Spdz <- FALSE,
        Groups <- <<{0, 1, 2}, {1, 2, 3}, {2, 3, 0}, {3, 0, 1}>>
SN == INSTANCE SeedSetup WITH NumParties <- 3, Spdz <- TRUE, Groups <- <<>>
Alone == Setting(2, 1, 1, 1, 0)
CallsSetup2(p) == S2!SetupCalls(p, 2)
CallsSetup3(p) == S3!SetupCalls(p, 1)
CallsSetup4(p) == S4!SetupCalls(p, 1)
CallsSetupN(p) == SN!SetupCalls(p, 1)

-----------------------------------------------------------------------------
(* The scenarios of the runs.  Their programs are defined twice because    *)
(* TLC evaluates a definition it substitutes for a constant at every use.  *)
Ordinary == [two |-> Two, three |-> Three, death |-> ThreeAndADeath,
             jmp |-> Four, div |-> Four, input |-> Three,
             setup2 |-> Alone, setup3 |-> Three, setup4 |-> Four, setupN |-> Three]
OrdinaryTable ==
    [two |-> Everyone(Two, Calls2), three |-> Everyone(Three, Calls3),
     death |-> Everyone(Three, Calls3), jmp |-> Everyone(Four, CallsJmp),
     div |-> Everyone(Four, Calls4), input |-> Everyone(Three, CallsInput),
     setup2 |-> Everyone(Alone, CallsSetup2), setup3 |-> Everyone(Three, CallsSetup3),
     setup4 |-> Everyone(Four, CallsSetup4), setupN |-> Everyone(Three, CallsSetupN)]
OrdinaryPrograms == OrdinaryTable

ManyToMany == [cross |-> Four, spdz |-> Roomy]
ManyToManyTable ==
    [cross |-> Everyone(Four, R4!CrossTerms4), spdz |-> Everyone(Roomy, R3!OpenAndCheck)]
ManyToManyPrograms == ManyToManyTable

LongVector == [spdz |-> Three]
LongVectorTable == [spdz |-> Everyone(Three, CallsOpen)]
LongVectorPrograms == LongVectorTable

OneDeath == [death |-> ThreeAndADeath]
OneDeathTable == [death |-> Everyone(Three, Calls3)]
OneDeathPrograms == OneDeathTable

-----------------------------------------------------------------------------
(* The steps of the setups, and the generators of party p once its setup   *)
(* is over, for each worker.                                               *)
SetupSteps ==
    [setup2 |-> [p \in 0 .. 1 |-> S2!Setups(p, 2)], setup3 |-> [p \in 0 .. 2 |-> S3!Setups(p, 1)],
     setup4 |-> [p \in 0 .. 3 |-> S4!Setups(p, 1)], setupN |-> [p \in 0 .. 2 |-> SN!Setups(p, 1)]]
GeneratorsOf(p) == S2!Managers(SetupSteps[scenario][p], inbox[p][0])
HeldBy(p, key) ==
    CASE scenario = "setup2" -> S2!HeldBy(p, key) [] scenario = "setup3" -> S3!HeldBy(p, key)
      [] scenario = "setup4" -> S4!HeldBy(p, key) [] scenario = "setupN" -> SN!HeldBy(p, key)
KeyAt(p, key, q) ==
    CASE scenario = "setup2" -> S2!KeyAt(p, key, q) [] scenario = "setup3" -> S3!KeyAt(p, key, q)
      [] scenario = "setup4" -> S4!KeyAt(p, key, q) [] scenario = "setupN" -> SN!KeyAt(p, key, q)

(* rand_setup.h, "by now, all parties agree on a seed": many overlapping   *)
(* groups exchange seeds over the same connections, some of them twice,    *)
(* and still two parties whose setup is over hold equal seeds for every    *)
(* generator they are meant to share, under whichever keys they have it; a *)
(* party that is not meant to share it never received the seed, nobody     *)
(* seeds a generator with zeros, and no seed serves two workers.           *)
SeedsAgree ==
    scenario \in DOMAIN SetupSteps =>
        LET over == {p \in Parties : ~RunningWorker(p, 0)}
            prgs == [p \in over |-> GeneratorsOf(p)]
        IN \A p \in over : \A t \in DOMAIN prgs[p] : \A key \in DOMAIN prgs[p][t] :
             LET seed == prgs[p][t][key]
             IN /\ \A q \in over \cap HeldBy(p, key) :
                     /\ KeyAt(p, key, q) \in DOMAIN prgs[q][t]
                     /\ prgs[q][t][KeyAt(p, key, q)] = seed
                /\ \A q \in Parties \ HeldBy(p, key) : seed \notin Range(inbox[q][0])
                /\ seed # S2!Zeros
                /\ \A u \in DOMAIN prgs[p] \ {t} : seed \notin Range(prgs[p][u])
=============================================================================
