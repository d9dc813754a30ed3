------------------------------ MODULE MergeLoop ------------------------------
(* The loop of mergelists: n sorted maps are walked in step, each with an     *)
(* iterator of its own, and the first map is updated and extended while its   *)
(* iterator is inside it.  GossipLists!mergelists says what the result should *)
(* be.  Keys are numbers, in the order CompareSig gives the signatures.       *)
EXTENDS GossipLists, FiniteSets, FiniteSetsExt

CONSTANT Inputs     \* the sequences of lists to merge

\* The placeholder, of which there is one at most, sorts before the dummy and the
\* dummy before the signatures.
OrderAssumption ==
    /\ IsFiniteSet(Key) /\ Key \subseteq Nat
    /\ \A g, h \in Holders : g = h /\ h < Dummy
    /\ \A s \in Sig : Dummy < s

\* Every list has a dummy, and the placeholder unless all are of VanillaXGossip.
Mergeable(in, H) ==
    \A i \in DOMAIN in :
        /\ Dummy \in DOMAIN in[i] /\ DOMAIN in[i] \subseteq Key
        /\ DOMAIN in[i] \cap Holders = H
        /\ in[i] \in [DOMAIN in[i] -> [f : Nat, w : Nat]]
InputAssumption ==
    \A in \in Inputs :
        in # <<>> /\ in \in Seq({in[i] : i \in DOMAIN in}) /\ \E H \in {{}, Holders} : Mergeable(in, H)

VARIABLES teamvecomap,
          citr,     \* citr[i]: the key iterator i points to
          stage, input

mergeVars == <<teamvecomap, citr, stage, input>>

nlists == Len(teamvecomap)
End == Max(Key) + 1     \* end() of every map

\* The iterator after key k of map m, and the first one.
following(m, k) == IF \E x \in DOMAIN m : x > k THEN Min({x \in DOMAIN m : x > k}) ELSE End
begin(m) == Min(DOMAIN m)

\* Behind the dummy of map m, and the placeholder: one entry to skip or two.
skipped(m) ==
    LET second == following(m, begin(m))
    IN  IF Holders \cap DOMAIN m = {} THEN second ELSE following(m, second)

MergeInit ==
    /\ input \in Inputs
    /\ teamvecomap = input
    /\ stage = "start"
    /\ citr = <<>>

\* A single list is halved; otherwise every iterator skips the dummies.
MergeStart ==
    /\ stage = "start"
    /\ IF nlists = 1
       THEN teamvecomap' = <<dividefreq(teamvecomap[1])>> /\ stage' = "done" /\ UNCHANGED citr
       ELSE /\ citr' = [i \in 1..nlists |-> skipped(teamvecomap[i])]
            /\ stage' = "loop"
            /\ UNCHANGED teamvecomap
    /\ UNCHANGED input

Live == {i \in 1..nlists : citr[i] # End}
minsig == Min({citr[i] : i \in Live})

\* What list i adds for minsig: its entry, or its dummy's.
addend(i) == IF citr[i] = minsig THEN teamvecomap[i][minsig] ELSE teamvecomap[i][Dummy]
total(c) == SumTo(nlists, [i \in 1..nlists |-> addend(i)[c]])
\* The first list with the sums for minsig, which it may have had or not.
updated(m) ==
    [k \in DOMAIN m \cup {minsig} |->
        IF k = minsig THEN [f |-> total("f") \div 2, w |-> total("w") \div 2] ELSE m[k]]

\* Mutant: every iterator is advanced.
MergeStep_all ==
    /\ stage = "loop" /\ Live # {}
    /\ teamvecomap' = [teamvecomap EXCEPT ![1] = updated(@)]
    /\ citr' = [i \in 1..nlists |-> IF citr[i] = End THEN End ELSE following(teamvecomap[i], citr[i])]
    /\ UNCHANGED <<stage, input>>

\* One round of the loop: sum up the smallest signature, update or insert it in
\* the first list, advance the iterators that pointed to it.
MergeStep ==
    /\ stage = "loop" /\ Live # {}
    /\ teamvecomap' = [teamvecomap EXCEPT ![1] = updated(@)]
    /\ citr' = [i \in 1..nlists |->
                   IF citr[i] = minsig THEN following(teamvecomap[i], minsig) ELSE citr[i]]
    /\ UNCHANGED <<stage, input>>

\* All lists are at their end: the weight of the dummy comes last, and the
\* other lists are popped.
MergeDummy ==
    /\ stage = "loop" /\ Live = {}
    /\ LET dummyw == SumTo(nlists, [i \in 1..nlists |-> teamvecomap[i][Dummy].w])
       IN  teamvecomap' = <<[teamvecomap[1] EXCEPT ![Dummy].w = dummyw \div 2]>>
    /\ stage' = "done"
    /\ UNCHANGED <<citr, input>>

MergeFinished == stage = "done" /\ UNCHANGED mergeVars

MergeNext == MergeStart \/ MergeStep \/ MergeDummy \/ MergeFinished

MergeSpec == MergeInit /\ [][MergeNext]_mergeVars

-------------------------------------------------------------------------------
(* Properties.                                                                *)

\* The signatures below every iterator are settled: they are in the first list
\* with the merged sums; those not reached yet are as they were.
SumsSettled ==
    \A s \in Sig :
        IF \A i \in 1..nlists : s < citr[i]
        THEN IF \E i \in 1..nlists : s \in DOMAIN input[i]
             THEN s \in DOMAIN teamvecomap[1] /\ teamvecomap[1][s] = merged(input, s)
             ELSE s \notin DOMAIN teamvecomap[1]
        ELSE \A i \in 1..nlists : /\ (s \in DOMAIN teamvecomap[i]) = (s \in DOMAIN input[i])
                                  /\ At(teamvecomap[i], s) = At(input[i], s)

\* The walk of mergelists computes the sum of every signature over all lists,
\* with the dummy's share for a list that lacks it, although the first list
\* grows under its iterator and the dummy's weight is read in each round and
\* overwritten only in the last.
MergeCorrect ==
    /\ stage = "loop" => SumsSettled
    /\ stage = "done" => teamvecomap = mergelists(input)
===============================================================================
