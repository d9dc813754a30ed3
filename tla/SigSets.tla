------------------------------- MODULE SigSets -------------------------------
(* Signatures are sorted sequences of polynomials, with repetitions.  gpsi    *)
(* orders them (CompareSig, sigcmp), and counts what two of them have in      *)
(* common or together by a walk with two iterators (set_inter_noskip,         *)
(* set_inter, set_uni).  The walks start from s1prev = s2prev = 0, so 0 must  *)
(* not be a polynomial, and set_uni reads before it looks for the end, so its *)
(* arguments must not be empty.                                               *)
EXTENDS Integers, Sequences, FiniteSets, FiniteSetsExt, SequencesExt

CONSTANTS Poly, MaxLen

\* Poly is a finite set of positive numbers.

Sorted(s) == \A i \in 1..(Len(s) - 1) : s[i] <= s[i + 1]
Signature == {s \in BoundedSeq(Poly, MaxLen) : s # <<>> /\ Sorted(s)}

\* CompareSig and sigcmp: shorter first, then by the first difference.
sigcmp(s1, s2) ==
    \/ Len(s1) < Len(s2)
    \/ /\ Len(s1) = Len(s2)
       /\ \E i \in DOMAIN s1 : s1[i] < s2[i] /\ \A j \in 1..(i - 1) : s1[j] = s2[j]

VARIABLES op,       \* the function that runs
          s1, s2, i1, i2, s1prev, s2prev, n,
          s2skip    \* duplicates met in s2: multi is set if there are any

vars == <<op, s1, s2, i1, i2, s1prev, s2prev, n, s2skip>>

end1 == i1 > Len(s1)
end2 == i2 > Len(s2)

Init ==
    /\ op \in {"set_inter_noskip", "set_inter", "set_uni"}
    /\ s1 \in Signature /\ s2 \in Signature
    /\ i1 = 1 /\ i2 = 1 /\ s1prev = 0 /\ s2prev = 0 /\ n = 0 /\ s2skip = 0

\* The steps of the walks.
Advance1 == s1prev' = s1[i1] /\ i1' = i1 + 1
Advance2 == s2prev' = s2[i2] /\ i2' = i2 + 1
Stay1 == UNCHANGED <<s1prev, i1>>
Stay2 == UNCHANGED <<s2prev, i2>>
Count(k) == n' = n + k

dup1 == ~end1 /\ s1prev = s1[i1]
dup2 == ~end2 /\ s2prev = s2[i2]
Skip2 == s2skip' = s2skip + 1

\* Compare the two elements; `one` is added for an element of one side only.
Compare(one) ==
    \/ s1[i1] < s2[i2] /\ Advance1 /\ Stay2 /\ Count(one)
    \/ s2[i2] < s1[i1] /\ Stay1 /\ Advance2 /\ Count(one)
    \/ s1[i1] = s2[i2] /\ Advance1 /\ Advance2 /\ Count(1)

set_inter_noskip ==
    /\ op = "set_inter_noskip" /\ ~end1 /\ ~end2
    /\ IF ~dup1 /\ dup2 THEN Skip2 ELSE UNCHANGED s2skip
    /\ Compare(0)
    /\ UNCHANGED <<op, s1, s2>>

\* Mutant: repetitions are not skipped.
set_inter_noskips ==
    /\ op = "set_inter" /\ ~end1 /\ ~end2
    /\ Compare(0)
    /\ UNCHANGED <<op, s1, s2, s2skip>>

set_inter ==
    /\ op = "set_inter" /\ ~end1 /\ ~end2
    /\ IF dup1 THEN Advance1 /\ Stay2 /\ Count(0) /\ UNCHANGED s2skip
       ELSE IF dup2 THEN Stay1 /\ Advance2 /\ Count(0) /\ Skip2
       ELSE Compare(0) /\ UNCHANGED s2skip
    /\ UNCHANGED <<op, s1, s2>>

\* The main loop of set_uni, and the loops that finish the longer side.
set_uni ==
    /\ op = "set_uni" /\ ~(end1 /\ end2)
    /\ IF dup1 THEN Advance1 /\ Stay2 /\ Count(0) /\ UNCHANGED s2skip
       ELSE IF dup2 THEN Stay1 /\ Advance2 /\ Count(0) /\ Skip2
       ELSE IF end1 THEN Stay1 /\ Advance2 /\ Count(1) /\ UNCHANGED s2skip
       ELSE IF end2 THEN Advance1 /\ Stay2 /\ Count(1) /\ UNCHANGED s2skip
       ELSE Compare(1) /\ UNCHANGED s2skip
    /\ UNCHANGED <<op, s1, s2>>

Done == IF op = "set_uni" THEN end1 /\ end2 ELSE end1 \/ end2
Finished == Done /\ UNCHANGED vars

Next == set_inter_noskip \/ set_inter \/ set_uni \/ Finished

Spec == Init /\ [][Next]_vars

-------------------------------------------------------------------------------
(* Properties.                                                                *)

count(s, x) == Cardinality({i \in DOMAIN s : s[i] = x})

\* What each walk should count: common elements with repetitions (the test for
\* "the query is a subset" in run_query), common elements, all elements.
Expected ==
    CASE op = "set_inter_noskip" -> MapThenSumSet(LAMBDA x : Min({count(s1, x), count(s2, x)}), Poly)
      [] op = "set_inter" -> Cardinality(Range(s1) \cap Range(s2))
      [] op = "set_uni" -> Cardinality(Range(s1) \cup Range(s2))

\* CompareSig is a strict total order, as std::map needs, and it agrees with
\* the subset test: a signature precedes its proper supersets.
SigOrder ==
    /\ ~sigcmp(s1, s1)
    /\ s1 # s2 => (sigcmp(s1, s2) # sigcmp(s2, s1))
    /\ \A s \in Signature : sigcmp(s1, s2) /\ sigcmp(s2, s) => sigcmp(s1, s)
    /\ (s1 # s2 /\ \A x \in Poly : count(s1, x) <= count(s2, x)) => sigcmp(s1, s2)

\* The walks count right for all sorted signatures with repetitions, on either
\* side, at the front or at the end; multi is reported only for an s2 that
\* repeats an element.
CountsRight ==
    /\ Done => n = Expected
    /\ s2skip > 0 => \E x \in Poly : count(s2, x) > 1
===============================================================================
