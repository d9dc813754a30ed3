----------------------------- MODULE GossipLists -----------------------------
(* The signature lists of gpsi (mapType) and what the exec phases do to them. *)
(* A list maps each signature it holds, and the dummy, to a frequency f and a *)
(* weight w.  Frequencies and weights are doubles in the code; here they are  *)
(* counted in units of 1/Unit, and a model takes Unit large enough for every  *)
(* halving it reaches to be exact.                                            *)
EXTENDS Sums, Sequences

CONSTANTS Sig,      \* signatures of documents
          Dummy,    \* dummysig, the signature that stands for all absent ones
          Holders,  \* placeholders the merge skips as well: {} in VanillaXGossip,
                    \* hldsig in XGossip
          Unit      \* units of mass in one document or one weight

ASSUME ListAssumption ==
    Dummy \notin Sig \cup Holders /\ Holders \cap Sig = {} /\ Unit \in Nat \ {0}

Key == Sig \cup Holders \cup {Dummy}

\* The (f, w) a list contributes for signature s: the dummy's if s is absent.
At(T, s) == IF s \in DOMAIN T THEN T[s] ELSE T[Dummy]

\* calcfreq: docs[s] documents have signature s at this peer.
calcfreq(docs) ==
    [s \in {Dummy} \cup {t \in Sig : docs[t] > 0} |->
        [f |-> IF s = Dummy THEN 0 ELSE docs[s] * Unit, w |-> Unit]]

\* dividefreq(..., 2, 2) and multiplyfreq(..., 2, 2): every entry, the dummy too.
dividefreq(T) == [s \in DOMAIN T |-> [f |-> T[s].f \div 2, w |-> T[s].w \div 2]]

\* Mutant: only the frequencies are doubled.
multiplyfreq_f(T) == [s \in DOMAIN T |-> [f |-> T[s].f * 2, w |-> T[s].w]]

multiplyfreq(T) == [s \in DOMAIN T |-> [f |-> T[s].f * 2, w |-> T[s].w * 2]]

\* The sums over all lists of T that the merge loop accumulates for s.
sumf(T, s) == SumTo(Len(T), [i \in 1..Len(T) |-> At(T[i], s).f])

sumw(T, s) == SumTo(Len(T), [i \in 1..Len(T) |-> At(T[i], s).w])

\* Mutant: the loop ends without bringing the weight of the dummy up to date.
merged_olddummy(T, s) ==
    IF s \in Holders \cup {Dummy} THEN T[1][s]
    ELSE [f |-> sumf(T, s) \div 2, w |-> sumw(T, s) \div 2]

\* The entry of s in the first list after the merge.  The loop starts behind
\* the placeholders and updates only the weight of the dummy.
merged(T, s) ==
    IF s \in Holders THEN T[1][s]
    ELSE [f |-> IF s = Dummy THEN T[1][s].f ELSE sumf(T, s) \div 2,
          w |-> sumw(T, s) \div 2]

\* Mutant: a single list is left as it is, although half of it is sent.
mergelists_single(T) ==
    IF Len(T) = 1 THEN T
    ELSE <<[s \in UNION {DOMAIN T[i] : i \in 1..Len(T)} |-> merged(T, s)]>>

\* mergelists: one list is just halved, placeholders included; several are
\* added up signature by signature and halved into the first.
mergelists(T) ==
    IF Len(T) = 1 THEN <<dividefreq(T[1])>>
    ELSE <<[s \in UNION {DOMAIN T[i] : i \in 1..Len(T)} |-> merged(T, s)]>>

\* mergelists_nogossip: the assignments of the sums are commented out, so the
\* received lists are popped and the first is left as it was.
mergelists_nogossip(T) == <<T[1]>>

-------------------------------------------------------------------------------
(* What the properties of the exec phases say of lists.                       *)

\* Well-formed: the dummy and the placeholders are there.
IsList(T) ==
    /\ {Dummy} \cup Holders \subseteq DOMAIN T /\ DOMAIN T \subseteq {Dummy} \cup Holders \cup Sig
    /\ \A s \in DOMAIN T : T[s] \in [f : Nat, w : Nat]

\* All weights equal the weight of the dummy, whose frequency is zero.
SameWeights(T) == T[Dummy].f = 0 /\ \A s \in DOMAIN T \ Holders : T[s].w = T[Dummy].w

\* The mass of component c of signature s in a sequence of lists.
SeqMass(Ts, s, c) == SumTo(Len(Ts), [i \in 1..Len(Ts) |-> At(Ts[i], s)[c]])

\* The mass in a set of messages, of which each of n peers sends at most one in
\* each of r rounds.
Sent(M, q, k) == {m \in M : m.src = q /\ m.seq = k}
SentMass(n, r, M, s, c) ==
    IF M = {} THEN 0
    ELSE SumTo(n, [q \in 1..n |-> SumTo(r, [k \in 1..r |->
            IF Sent(M, q, k - 1) = {} THEN 0
            ELSE At((CHOOSE m \in Sent(M, q, k - 1) : TRUE).list, s)[c]])])

\* Unit can be halved n times without a remainder.
Halves(half, n) == half[n] = Unit /\ \A k \in 1..n : half[k] = 2 * half[k - 1]
===============================================================================
