------------------------------ MODULE SeedSetup ------------------------------
(***************************************************************************)
(* How the parties come to hold common generators: setup_random_generation *)
(* as the sequence of its steps at a party, each the communicator calls it *)
(* makes, the key under which it adds a generator to the CommonPRGManager, *)
(* and where the seed of that generator comes from.  All of it runs over   *)
(* the connections of worker 0, once for every worker of the engine.       *)
(***************************************************************************)
EXTENDS CommCalls, SequencesExt, FiniteSetsExt

CONSTANTS
    Groups,   \* the groups that cdough_init passes, in order
    Spdz      \* built for SPDZ2k?

(* External: aesKeyGen.  Every call returns a key never seen before, named *)
(* by who drew it for what; a vector that was only sized holds zeros.  A   *)
(* key is one unit long.                                                   *)
aesKeyGen(p, purpose) == <<[by |-> p, for |-> purpose]>>
Zeros == <<[by |-> -1, for |-> <<>>]>>
KEYBYTES == 1

(* Where a seed comes from: drawn here, the last vector that the calls of  *)
(* the step receive, or the generator of a group that is already there.    *)
Drawn(seed) == [from |-> "drawn", seed |-> seed]
Remote == [from |-> "remote"]
Existing(group) == [from |-> "existing", group |-> group]

OfGroup(group) == [by |-> "group", of |-> group]
OfRank(rel) == [by |-> "rank", of |-> {(NumParties + rel) % NumParties}]
Step(calls, key, seed) == [calls |-> calls, key |-> key, seed |-> seed]

-----------------------------------------------------------------------------
(* Only members of the group take part; the lowest of them draws the seed  *)
(* and exchanges it with the others, one after another, for zeros.         *)
create_common_prg_among_group(rank, group, purpose) ==
    LET others == SetToSortSeq(group \ {rank}, <)
        seed == aesKeyGen(rank, purpose)
        Exchange(vec, other) == exchangeShares(rank, vec, other - rank, other - rank)
    IN CASE rank \notin group -> <<>>
         [] rank = Min(group) ->
              <<Step(FlattenSeq([i \in DOMAIN others |-> Exchange(seed, others[i])]),
                     OfGroup(group), Drawn(seed))>>
         [] OTHER -> <<Step(Exchange(Zeros, Min(group)), OfGroup(group), Remote)>>

(* Beaver 2PC: the generator of both is also that of the neighbour.        *)
setup_2pc_common_prgs(rank, purpose) ==
    <<Step(<<>>, OfRank(1), Existing({0, 1}))>>

(* Replicated 3PC: one exchange around the ring.                           *)
setup_3pc_common_prgs(rank, purpose) ==
    LET local_key == aesKeyGen(rank, purpose)
    IN <<Step(exchangeShares(rank, local_key, 1, -1), OfRank(2), Remote),
         Step(<<>>, OfRank(1), Drawn(local_key))>>

\* Mutant of setup_4pc_common_prgs: the receives from +1 and +2 are swapped.
Setup4Swapped(rank, purpose) ==
    LET local_key == aesKeyGen(rank, purpose)
        others == SetToSortSeq(Parties \ {rank}, <)
        Exclude(rel) ==
            CASE rel = 1 -> Step(sendShares(rank, local_key, -1) \o sendShares(rank, local_key, -2),
                                 OfRank(1), Drawn(local_key))
              [] rel = 2 -> Step(receiveShares(rank, KEYBYTES, 2), OfRank(2), Remote)
              [] rel = 3 -> Step(receiveShares(rank, KEYBYTES, 1), OfRank(3), Remote)
    IN [i \in DOMAIN others |-> Exclude((4 + others[i] - rank) % 4)]

(* Fantastic 4PC, a loop over the other parties: the generator at a        *)
(* relative rank is the one that party does not hold; the party before it  *)
(* draws its seed.                                                         *)
setup_4pc_common_prgs(rank, purpose) ==
    LET local_key == aesKeyGen(rank, purpose)
        others == SetToSortSeq(Parties \ {rank}, <)
        Exclude(rel) ==
            CASE rel = 1 -> Step(sendShares(rank, local_key, -1) \o sendShares(rank, local_key, -2),
                                 OfRank(1), Drawn(local_key))
              [] rel = 2 -> Step(receiveShares(rank, KEYBYTES, 1), OfRank(2), Remote)
              [] rel = 3 -> Step(receiveShares(rank, KEYBYTES, 2), OfRank(3), Remote)
    IN [i \in DOMAIN others |-> Exclude((4 + others[i] - rank) % 4)]

(* SPDZ2k: a generator for every two neighbours, and those of a party's    *)
(* own neighbours also by relative rank.                                   *)
setup_spdz_common_prgs(rank, thread) ==
    LET Pair(i) == {i, (i + 1) % NumParties}
    IN FlattenSeq([i \in 1 .. NumParties |->
                     create_common_prg_among_group(rank, Pair(i - 1), <<thread, "pair", i>>)])
         \o <<Step(<<>>, OfRank(1), Existing(Pair(rank))),
              Step(<<>>, OfRank(-1), Existing(Pair((NumParties + rank - 1) % NumParties)))>>

(* The groups, everyone, and the generators by relative rank.              *)
setup_random_generation(rank, thread) ==
    FlattenSeq([i \in DOMAIN Groups |->
                  create_common_prg_among_group(rank, Groups[i], <<thread, "group", i>>)])
      \o create_common_prg_among_group(rank, Parties, <<thread, "everyone", 0>>)
      \o (CASE Spdz -> setup_spdz_common_prgs(rank, thread)
            [] ~Spdz /\ NumParties = 2 -> setup_2pc_common_prgs(rank, <<thread, "rank", 0>>)
            [] ~Spdz /\ NumParties = 3 -> setup_3pc_common_prgs(rank, <<thread, "rank", 0>>)
            [] ~Spdz /\ NumParties = 4 -> setup_4pc_common_prgs(rank, <<thread, "rank", 0>>))

(* The setups of all workers, and what they ask worker 0's communicator    *)
(* to do.                                                                  *)
Setups(rank, workers) == [t \in 1 .. workers |-> setup_random_generation(rank, t)]
CallsOf(steps) == FlattenSeq([i \in DOMAIN steps |-> steps[i].calls])
SetupCalls(rank, workers) == CallsOf(FlattenSeq(Setups(rank, workers)))

-----------------------------------------------------------------------------
(* CommonPRGManager: seeds by key.  Under a group the first generator      *)
(* stays (std::map::insert), under a rank the last one.                    *)
add(manager, key, seed) ==
    IF key.by = "group" /\ key \in DOMAIN manager THEN manager
    ELSE [k \in DOMAIN manager \cup {key} |-> IF k = key THEN seed ELSE manager[k]]

(* The manager after the steps of a worker's setup whose receives          *)
(* delivered the vectors `got', in order.                                  *)
IsRecv(call) == call.do = "recv"
Manager(steps, got) ==
    LET Add(state, step) ==
            LET used == state.used + Len(SelectSeq(step.calls, IsRecv))
                seed == CASE step.seed.from = "drawn" -> step.seed.seed
                          [] step.seed.from = "remote" -> got[used]
                          [] step.seed.from = "existing" -> state.prgs[OfGroup(step.seed.group)]
            IN [used |-> used, prgs |-> add(state.prgs, step.key, seed)]
        none == [k \in {} |-> Zeros]
    IN FoldLeft(Add, [used |-> 0, prgs |-> none], steps).prgs

(* The managers of all workers of a party whose setups are over.           *)
Managers(setups, got) ==
    LET each == Len(SelectSeq(CallsOf(setups[1]), IsRecv))
    IN [t \in DOMAIN setups |-> Manager(setups[t], SubSeq(got, (t - 1) * each + 1, t * each))]

-----------------------------------------------------------------------------
(* Who is meant to hold the generator that a party has under a key, and    *)
(* under which key another party has it.                                   *)
Excluding == NumParties = 4 /\ ~Spdz
At(rank, key) == (rank + CHOOSE r \in key.of : TRUE) % NumParties
HeldBy(rank, key) ==
    CASE key.by = "group" -> key.of
      [] key.by = "rank" /\ Excluding -> Parties \ {At(rank, key)}
      [] key.by = "rank" /\ ~Excluding -> {rank, At(rank, key)}
KeyAt(rank, key, other) ==
    CASE key.by = "group" -> key
      [] key.by = "rank" /\ Excluding -> OfRank(At(rank, key) - other)
      [] key.by = "rank" /\ ~Excluding -> IF other = rank THEN key ELSE OfRank(rank - other)
=============================================================================
