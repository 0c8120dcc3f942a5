------------------------- MODULE PermutationManager -------------------------
(***************************************************************************)
(* The store of permutations made ahead of their use, on their numbers and *)
(* sizes.  All that are stored have the size of the last reservation.      *)
(*   perms, pairs  stored permutations, and pairs of them (two parties)    *)
(*   size          stored_size                                             *)
(*   late          permutations made when they were asked for              *)
(*   misfits       permutations handed out with a size not asked for       *)
(***************************************************************************)
EXTENDS Integers

EmptyManager == [perms |-> 0, pairs |-> 0, size |-> 0, late |-> 0, misfits |-> 0]

\* Only two parties need pairs of their own: others copy a permutation.
PermsAsked(parties, perms, pairs) == IF parties = 2 THEN perms ELSE perms + pairs
PairsAsked(parties, pairs) == IF parties = 2 THEN pairs ELSE 0

\* How many more are made: none if both are there; else what each lacks, and
\* of the kind of which there are enough as many as were asked for.
Missing(asked, stored) == IF asked > stored THEN asked - stored ELSE asked

\* Mutant of reserve: stored permutations of another size stay.
ReserveKeepingOthers(pm, n, parties, perms, pairs) ==
    LET p == PermsAsked(parties, perms, pairs)
        q == PairsAsked(parties, pairs)
    IN  IF p <= pm.perms /\ q <= pm.pairs THEN pm
        ELSE [pm EXCEPT !.perms = @ + Missing(p, pm.perms), !.pairs = @ + Missing(q, pm.pairs)]

reserve(pm, n, parties, perms, pairs) ==
    LET p == PermsAsked(parties, perms, pairs)
        q == PairsAsked(parties, pairs)
        kept == IF pm.size # n THEN [pm EXCEPT !.perms = 0, !.pairs = 0] ELSE pm
        sized == [kept EXCEPT !.size = n]
    IN  IF p <= sized.perms /\ q <= sized.pairs THEN sized
        ELSE [sized EXCEPT !.perms = @ + Missing(p, sized.perms),
                           !.pairs = @ + Missing(q, sized.pairs)]

Misfit(pm, n) == IF pm.size # n THEN [pm EXCEPT !.misfits = @ + 1] ELSE pm

getNext(pm, n, parties) ==
    LET ready == IF pm.size # n THEN reserve(pm, n, parties, 1, 0) ELSE pm
    IN  IF pm.perms = 0 THEN [pm EXCEPT !.late = @ + 1]
        ELSE [Misfit(ready, n) EXCEPT !.perms = @ - 1]

getNextPair(pm, n, parties) ==
    IF parties # 2
    THEN IF pm.perms = 0 THEN [pm EXCEPT !.late = @ + 1]
         ELSE [Misfit(pm, n) EXCEPT !.perms = @ - 1]
    ELSE IF pm.pairs = 0
         THEN [reserve(pm, n, parties, 0, 1) EXCEPT !.pairs = @ - 1, !.late = @ + 1]
         ELSE [Misfit(pm, n) EXCEPT !.pairs = @ - 1]

\* k calls of getNextPair, one after the other.
NextPairs(pm, n, parties, k) ==
    LET after[i \in 0 .. k] == IF i = 0 THEN pm ELSE getNextPair(after[i - 1], n, parties)
    IN  after[k]
=============================================================================
