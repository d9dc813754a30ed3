------------------------------ MODULE ListLemmas ------------------------------
(* What the exec phases' operations on lists (GossipLists) preserve, for any  *)
(* signatures and any number of lists: the agreement of the weights, the      *)
(* bounds on the estimates f / w, the divisibility that makes halving exact,  *)
(* and the mass of each signature.                                            *)
EXTENDS GossipLists, DataLemmas

Multiples(h) == {h * k : k \in Nat}

\* The well-formed lists.
ListType == UNION {[D -> [f : Nat, w : Nat]] : D \in {X \in SUBSET Key : {Dummy} \cup Holders \subseteq X}}

\* The well-formed lists whose weights agree, whose masses are multiples of h
\* and whose estimates lie between lo and hi.
Good(h, lo, hi) ==
    {T \in ListType :
        /\ SameWeights(T)
        /\ T[Dummy].w \in Multiples(h)
        /\ \A s \in Sig : /\ At(T, s).f \in Multiples(h)
                          /\ lo[s] * At(T, s).w <= At(T, s).f
                          /\ At(T, s).f <= hi[s] * At(T, s).w}

-------------------------------------------------------------------------------
(* Sequences and functions.                                                  *)

\* Sequences over a set are sequences over a larger one.
LEMMA SeqLarger == ASSUME NEW G, NEW H, G \subseteq H PROVE Seq(G) \subseteq Seq(H)
OBVIOUS

\* A list behind the others is behind all but the first.
LEMMA AppendTail ==
    ASSUME NEW G, NEW Ts \in Seq(G), Ts # <<>>, NEW T \in G
    PROVE  Append(Ts, T)[1] = Ts[1] /\ Tail(Append(Ts, T)) = Append(Tail(Ts), T)
<1>1. Append(Ts, T)[1] = Ts[1] OBVIOUS
<1>2. PICK U, V : U = Tail(Append(Ts, T)) /\ V = Append(Tail(Ts), T) OBVIOUS
<1>3. /\ U \in Seq(G) /\ V \in Seq(G) /\ Len(U) = Len(Ts) /\ Len(V) = Len(Ts)
      /\ \A j \in 1..Len(U) : U[j] = V[j]
  BY <1>2
<1> QED BY <1>1, <1>2, <1>3, SeqEqual

\* A function that changes at one point.
LEMMA FunExcept ==
    ASSUME NEW S, NEW f \in [S -> Nat], NEW g, g = [x \in S |-> g[x]], NEW p \in S,
           \A x \in S : x # p => g[x] = f[x]
    PROVE  g = [f EXCEPT ![p] = g[p]]
<1>1. PICK e : e = [f EXCEPT ![p] = g[p]] OBVIOUS
<1>2. e = [x \in S |-> e[x]] /\ \A x \in S : e[x] = g[x] BY <1>1
<1>3. [x \in S |-> e[x]] = [x \in S |-> g[x]] BY <1>2
<1> QED BY <1>1, <1>2, <1>3

\* Or that changes nowhere.
LEMMA FunEqual ==
    ASSUME NEW S, NEW f \in [S -> Nat], NEW g, g = [x \in S |-> g[x]], \A x \in S : g[x] = f[x]
    PROVE  g = f
OBVIOUS

-------------------------------------------------------------------------------
(* Multiples.                                                                 *)

\* Half of a multiple of 2 h is a multiple of h, and exact.
LEMMA HalveMultiple ==
    ASSUME NEW h \in Nat, NEW x \in Multiples(2 * h)
    PROVE  x \in Nat /\ x \div 2 \in Multiples(h) /\ x = 2 * (x \div 2) /\ x \in Multiples(h)
<1>1. PICK k \in Nat : x = (2 * h) * k BY DEF Multiples
<1>2. PICK y : y = h * k OBVIOUS
<1>3. y \in Nat /\ x = 2 * y BY <1>1, <1>2
<1>4. x \div 2 = y BY <1>3
<1>5. 2 * k \in Nat /\ x = h * (2 * k) BY <1>1
<1> QED BY <1>2, <1>3, <1>4, <1>5 DEF Multiples

\* Twice a multiple of h is a multiple of h.
LEMMA DoubleMultiple ==
    ASSUME NEW h \in Nat, NEW x \in Multiples(h)
    PROVE  x \in Nat /\ x * 2 \in Multiples(h)
<1>1. PICK k \in Nat : x = h * k BY DEF Multiples
<1>2. 2 * k \in Nat /\ x * 2 = h * (2 * k) /\ x \in Nat BY <1>1
<1> QED BY <1>2 DEF Multiples

\* A sum of multiples of h is a multiple of h.
LEMMA SumMultiples ==
    ASSUME NEW n \in Nat, NEW f, NEW h \in Nat, \A i \in 1..n : f[i] \in Multiples(h)
    PROVE  SumTo(n, f) \in Multiples(h)
<1>1. \A i \in 1..n : \E k \in Nat : f[i] = h * k BY DEF Multiples
<1>2. PICK g : g = [i \in 1..n |-> CHOOSE k \in Nat : f[i] = h * k] OBVIOUS
<1>3. \A i \in 1..n : g[i] \in Nat /\ f[i] = h * g[i] BY <1>1, <1>2
<1>4. SumTo(n, f) = h * SumTo(n, g) BY <1>3, SumMultiple
<1>5. SumTo(n, g) \in Nat BY <1>3, SumNat
<1> QED BY <1>4, <1>5 DEF Multiples

\* Halving keeps a bound c on the quotient of two even numbers.
LEMMA HalfBounds ==
    ASSUME NEW c \in Nat, NEW x \in Nat, NEW y \in Nat
    PROVE  /\ c * (2 * y) <= 2 * x => c * y <= x
           /\ 2 * x <= c * (2 * y) => x <= c * y
           /\ c * y <= x => c * (y * 2) <= x * 2
           /\ x <= c * y => x * 2 <= c * (y * 2)
<1>1. c * (2 * y) = 2 * (c * y) /\ c * (y * 2) = 2 * (c * y) OBVIOUS
<1>2. PICK z : z = c * y OBVIOUS
<1>3. z \in Nat BY <1>2
<1> QED BY <1>1, <1>2, <1>3

-------------------------------------------------------------------------------
(* Lists.                                                                     *)

\* The entries a list contributes.
LEMMA ListEntries ==
    ASSUME NEW T \in ListType
    PROVE  /\ DOMAIN T \subseteq Key /\ {Dummy} \cup Holders \subseteq DOMAIN T
           /\ T \in [DOMAIN T -> [f : Nat, w : Nat]]
           /\ IsList(T)
           /\ \A s : At(T, s) \in [f : Nat, w : Nat] /\ At(T, s).f \in Nat /\ At(T, s).w \in Nat
<1>1. PICK D \in SUBSET Key : {Dummy} \cup Holders \subseteq D /\ T \in [D -> [f : Nat, w : Nat]]
  BY DEF ListType
<1>2. DOMAIN T = D BY <1>1
<1>3. \A s \in D : T[s] \in [f : Nat, w : Nat] BY <1>1
<1>4. IsList(T) BY <1>1, <1>2, <1>3 DEF IsList, Key
<1>5. Dummy \in D BY <1>1
<1>6. \A s : At(T, s) \in [f : Nat, w : Nat] BY <1>2, <1>3, <1>5 DEF At
<1>7. \A r \in [f : Nat, w : Nat] : r.f \in Nat /\ r.w \in Nat OBVIOUS
<1> QED BY <1>1, <1>2, <1>4, <1>6, <1>7

\* All signatures have the weight of the dummy.
LEMMA EqualWeights ==
    ASSUME NEW T \in ListType, SameWeights(T)
    PROVE  \A s \in Sig \cup {Dummy} : At(T, s).w = T[Dummy].w
<1>1. \A s \in Sig : s \notin Holders BY ListAssumption
<1>2. Dummy \notin Holders BY ListAssumption
<1>3. Dummy \in DOMAIN T BY ListEntries
<1> QED BY <1>1, <1>2, <1>3 DEF SameWeights, At

\* A finer unit is no stronger.
LEMMA GoodFiner ==
    ASSUME NEW h \in Nat, NEW lo, NEW hi
    PROVE  Good(2 * h, lo, hi) \subseteq Good(h, lo, hi)
<1>1. \A x \in Multiples(2 * h) : x \in Multiples(h) BY HalveMultiple
<1> QED BY <1>1 DEF Good

\* multiplyfreq keeps a list good.
LEMMA MultiplyGood ==
    ASSUME NEW h \in Nat, NEW lo \in [Sig -> Nat], NEW hi \in [Sig -> Nat], NEW T \in Good(h, lo, hi)
    PROVE  multiplyfreq(T) \in Good(h, lo, hi)
<1> DEFINE U == multiplyfreq(T)
<1>1. T \in ListType /\ SameWeights(T) BY DEF Good
<1>2. /\ DOMAIN U = DOMAIN T
      /\ \A s \in DOMAIN T : U[s] = [f |-> T[s].f * 2, w |-> T[s].w * 2]
  BY DEF multiplyfreq
<1>3. /\ DOMAIN T \subseteq Key /\ {Dummy} \cup Holders \subseteq DOMAIN T
      /\ \A s \in DOMAIN T : T[s].f \in Nat /\ T[s].w \in Nat
  <2>1. \A s \in DOMAIN T : T[s] = At(T, s) BY DEF At
  <2> QED BY <1>1, <2>1, ListEntries
<1>4. U \in [DOMAIN T -> [f : Nat, w : Nat]] BY <1>3 DEF multiplyfreq
<1> HIDE DEF U
<1>5. U \in ListType BY <1>3, <1>4 DEF ListType
<1>6. \A s : At(U, s).f = At(T, s).f * 2 /\ At(U, s).w = At(T, s).w * 2
  BY <1>2, <1>3 DEF At
<1>7. SameWeights(U)
  <2>1. Dummy \in DOMAIN T BY <1>3
  <2>2. U[Dummy].f = 0 BY <1>1, <1>2, <2>1 DEF SameWeights
  <2>3. \A s \in DOMAIN U \ Holders : U[s].w = U[Dummy].w BY <1>1, <1>2, <2>1 DEF SameWeights
  <2> QED BY <2>2, <2>3 DEF SameWeights
<1>8. U[Dummy].w \in Multiples(h)
  <2>1. U[Dummy].w = T[Dummy].w * 2 BY <1>2, <1>3
  <2>2. T[Dummy].w \in Multiples(h) BY DEF Good
  <2> QED BY <2>1, <2>2, DoubleMultiple
<1>9. ASSUME NEW s \in Sig
      PROVE  /\ At(U, s).f \in Multiples(h)
             /\ lo[s] * At(U, s).w <= At(U, s).f
             /\ At(U, s).f <= hi[s] * At(U, s).w
  <2>1. PICK x, y : x = At(T, s).f /\ y = At(T, s).w OBVIOUS
  <2>2. x \in Nat /\ y \in Nat BY <1>1, <2>1, ListEntries
  <2>3. x \in Multiples(h) /\ lo[s] * y <= x /\ x <= hi[s] * y BY <2>1 DEF Good
  <2>4. lo[s] \in Nat /\ hi[s] \in Nat OBVIOUS
  <2>5. lo[s] * (y * 2) <= x * 2 /\ x * 2 <= hi[s] * (y * 2) BY <2>2, <2>3, <2>4, HalfBounds
  <2>6. x * 2 \in Multiples(h) BY <2>3, DoubleMultiple
  <2> QED BY <1>6, <2>1, <2>5, <2>6
<1> QED BY <1>5, <1>7, <1>8, <1>9 DEF Good, U

\* The sum of one number.
LEMMA SumOne ==
    ASSUME NEW f, f[1] \in Int
    PROVE  SumTo(1, f) = f[1]
<1>1. PICK s : Partial(f, 1, s) /\ SumTo(1, f) = s[1] BY SumPartial
<1>2. 0 \in 0..1 /\ 1 \in 0..1 /\ 1 - 1 = 0 OBVIOUS
<1>3. s[0] = 0 /\ s[1] = s[0] + f[1] BY <1>1, <1>2 DEF Partial
<1> QED BY <1>1, <1>3

\* The sums the merge loop accumulates over good lists: multiples of their
\* unit, with the same weight for every signature, within the bounds.
LEMMA MergeSums ==
    ASSUME NEW h \in Nat, NEW lo \in [Sig -> Nat], NEW hi \in [Sig -> Nat],
           NEW Ts \in Seq(Good(h, lo, hi)), NEW s \in Sig
    PROVE  /\ sumf(Ts, s) \in Multiples(h) /\ sumw(Ts, s) \in Multiples(h)
           /\ sumw(Ts, s) = sumw(Ts, Dummy)
           /\ lo[s] * sumw(Ts, s) <= sumf(Ts, s)
           /\ sumf(Ts, s) <= hi[s] * sumw(Ts, s)
<1> DEFINE n == Len(Ts)
           f == [i \in 1..n |-> At(Ts[i], s).f]
           w == [i \in 1..n |-> At(Ts[i], s).w]
           d == [i \in 1..n |-> At(Ts[i], Dummy).w]
<1>1. n \in Nat /\ \A i \in 1..n : Ts[i] \in Good(h, lo, hi) OBVIOUS
<1>2. ASSUME NEW i \in 1..n
      PROVE  /\ f[i] \in Nat /\ w[i] \in Nat /\ w[i] = d[i]
             /\ f[i] \in Multiples(h) /\ w[i] \in Multiples(h)
             /\ lo[s] * w[i] <= f[i] /\ f[i] <= hi[s] * w[i]
  <2>1. PICK T \in Good(h, lo, hi) : T = Ts[i] BY <1>1
  <2>2. T \in ListType /\ SameWeights(T) /\ T[Dummy].w \in Multiples(h) BY DEF Good
  <2>3. At(T, s).w = T[Dummy].w /\ At(T, Dummy).w = T[Dummy].w BY <2>2, EqualWeights
  <2>4. At(T, s).f \in Nat /\ At(T, s).w \in Nat BY <2>2, ListEntries
  <2>5. /\ At(T, s).f \in Multiples(h)
        /\ lo[s] * At(T, s).w <= At(T, s).f /\ At(T, s).f <= hi[s] * At(T, s).w
    BY DEF Good
  <2> QED BY <2>1, <2>2, <2>3, <2>4, <2>5
<1>3. sumf(Ts, s) = SumTo(n, f) /\ sumw(Ts, s) = SumTo(n, w) /\ sumw(Ts, Dummy) = SumTo(n, d)
  BY DEF sumf, sumw
<1>4. lo[s] \in Int /\ hi[s] \in Int OBVIOUS
<1> HIDE DEF f, w, d, n
<1>5. SumTo(n, f) \in Multiples(h) /\ SumTo(n, w) \in Multiples(h) BY <1>1, <1>2, SumMultiples
<1>6. SumTo(n, w) = SumTo(n, d)
  <2>1. \A i \in 1..n : d[i] \in Int /\ w[i] = d[i] BY <1>2
  <2> QED BY <1>1, <2>1, SumEqual
<1>7. ASSUME NEW c \in Int, c = lo[s] PROVE c * SumTo(n, w) <= SumTo(n, f)
  <2>1. \A i \in 1..n : f[i] \in Int /\ w[i] \in Int /\ c * w[i] <= f[i] BY <1>2, <1>7
  <2> QED BY <1>1, <2>1, SumAbove
<1>8. ASSUME NEW c \in Int, c = hi[s] PROVE SumTo(n, f) <= c * SumTo(n, w)
  <2>1. \A i \in 1..n : f[i] \in Int /\ w[i] \in Int /\ f[i] <= c * w[i] BY <1>2, <1>8
  <2> QED BY <1>1, <2>1, SumBelow
<1> QED BY <1>3, <1>4, <1>5, <1>6, <1>7, <1>8

\* The shape of the merged list: it is well formed, its weights agree, and the
\* entry it contributes for a signature, held or not, is half of the sums.
LEMMA MergeShape ==
    ASSUME NEW h \in Nat, NEW lo \in [Sig -> Nat], NEW hi \in [Sig -> Nat],
           NEW Ts \in Seq(Good(h, lo, hi)), Ts # <<>>
    PROVE  \E L \in ListType :
              /\ mergelists(Ts) = <<L>>
              /\ SameWeights(L)
              /\ L[Dummy].w = sumw(Ts, Dummy) \div 2
              /\ \A s \in Sig : /\ At(L, s).f = sumf(Ts, s) \div 2
                                /\ At(L, s).w = sumw(Ts, s) \div 2
<1>1. Len(Ts) \in Nat \ {0} /\ \A i \in 1..Len(Ts) : Ts[i] \in Good(h, lo, hi) OBVIOUS
<1>2. \A i \in 1..Len(Ts) : Ts[i] \in ListType /\ SameWeights(Ts[i]) BY <1>1 DEF Good
<1>3. PICK T : T = Ts[1] OBVIOUS
<1>4. T \in ListType /\ SameWeights(T) BY <1>1, <1>2, <1>3
<1>5. /\ DOMAIN T \subseteq Key /\ {Dummy} \cup Holders \subseteq DOMAIN T
      /\ \A s \in DOMAIN T : T[s] \in [f : Nat, w : Nat] /\ T[s].f \in Nat /\ T[s].w \in Nat
  <2>1. \A s \in DOMAIN T : T[s] = At(T, s) BY DEF At
  <2> QED BY <1>4, <2>1, ListEntries
<1>6. \A x \in Nat : x \div 2 \in Nat OBVIOUS
<1>7. CASE Len(Ts) = 1
  <2> DEFINE L == dividefreq(T)
  <2>1. mergelists(Ts) = <<L>> BY <1>7, <1>3 DEF mergelists
  <2>2. /\ DOMAIN L = DOMAIN T
        /\ \A s \in DOMAIN T : L[s] = [f |-> T[s].f \div 2, w |-> T[s].w \div 2]
    BY DEF dividefreq
  <2>3. L \in [DOMAIN T -> [f : Nat, w : Nat]] BY <1>5, <1>6 DEF dividefreq
  <2> HIDE DEF L
  <2>4. L \in ListType BY <1>5, <2>3 DEF ListType
  <2>5. Dummy \in DOMAIN T BY <1>5
  <2>6. SameWeights(L)
    <3>1. L[Dummy].f = 0 BY <1>4, <2>2, <2>5 DEF SameWeights
    <3>2. \A s \in DOMAIN L \ Holders : L[s].w = L[Dummy].w BY <1>4, <2>2, <2>5 DEF SameWeights
    <3> QED BY <3>1, <3>2 DEF SameWeights
  <2>7. \A s : At(L, s).f = At(T, s).f \div 2 /\ At(L, s).w = At(T, s).w \div 2
    BY <2>2, <2>5 DEF At
  <2>8. ASSUME NEW s PROVE sumf(Ts, s) = At(T, s).f /\ sumw(Ts, s) = At(T, s).w
    <3>1. PICK f, w : /\ f = [i \in 1..Len(Ts) |-> At(Ts[i], s).f]
                      /\ w = [i \in 1..Len(Ts) |-> At(Ts[i], s).w]
      OBVIOUS
    <3>2. f[1] = At(T, s).f /\ w[1] = At(T, s).w BY <1>3, <1>7, <3>1
    <3>3. f[1] \in Int /\ w[1] \in Int BY <1>4, <3>2, ListEntries
    <3>4. sumf(Ts, s) = SumTo(1, f) /\ sumw(Ts, s) = SumTo(1, w) BY <1>7, <3>1 DEF sumf, sumw
    <3> QED BY <3>2, <3>3, <3>4, SumOne
  <2>9. L[Dummy].w = sumw(Ts, Dummy) \div 2
    <3>1. At(L, Dummy) = L[Dummy] BY DEF At
    <3> QED BY <2>7, <2>8, <3>1
  <2> QED BY <2>1, <2>4, <2>6, <2>7, <2>8, <2>9
<1>8. CASE Len(Ts) # 1
  <2> DEFINE D == UNION {DOMAIN Ts[i] : i \in 1..Len(Ts)}
             L == [s \in D |-> merged(Ts, s)]
  <2>1. mergelists(Ts) = <<L>> BY <1>8 DEF mergelists
  <2>2. \A i \in 1..Len(Ts) : DOMAIN Ts[i] \subseteq Key BY <1>2, ListEntries
  <2>3. D \subseteq Key BY <2>2
  <2>4. DOMAIN T \subseteq D
    <3>1. 1 \in 1..Len(Ts) BY <1>1
    <3> QED BY <1>3, <3>1
  <2>5. DOMAIN L = D /\ \A s \in D : L[s] = merged(Ts, s) OBVIOUS
  <2>6. \A s : sumf(Ts, s) \in Nat /\ sumw(Ts, s) \in Nat
    <3>0. SUFFICES ASSUME NEW s PROVE sumf(Ts, s) \in Nat /\ sumw(Ts, s) \in Nat OBVIOUS
    <3>1. PICK f, w : /\ f = [i \in 1..Len(Ts) |-> At(Ts[i], s).f]
                      /\ w = [i \in 1..Len(Ts) |-> At(Ts[i], s).w]
      OBVIOUS
    <3>2. \A i \in 1..Len(Ts) : At(Ts[i], s).f \in Nat /\ At(Ts[i], s).w \in Nat BY <1>2, ListEntries
    <3>3. \A i \in 1..Len(Ts) : f[i] \in Nat /\ w[i] \in Nat BY <3>1, <3>2
    <3>4. sumf(Ts, s) = SumTo(Len(Ts), f) /\ sumw(Ts, s) = SumTo(Len(Ts), w) BY <3>1 DEF sumf, sumw
    <3> QED BY <1>1, <3>3, <3>4, SumNat
  <2>7. Dummy \notin Holders /\ \A s \in Sig : s \notin Holders /\ s # Dummy BY ListAssumption
  <2>8. Dummy \in DOMAIN T /\ T[Dummy].f = 0 /\ Dummy \in D BY <1>4, <1>5, <2>4 DEF SameWeights
  <2> HIDE DEF D, L
  <2>9. /\ \A s \in D : s \in Holders => L[s] = T[s] /\ s \in DOMAIN T
        /\ L[Dummy] = [f |-> 0, w |-> sumw(Ts, Dummy) \div 2]
        /\ \A s \in D \cap Sig : L[s] = [f |-> sumf(Ts, s) \div 2, w |-> sumw(Ts, s) \div 2]
    BY <1>3, <1>5, <2>5, <2>7, <2>8 DEF merged
  <2>10. L \in [D -> [f : Nat, w : Nat]]
    <3>1. ASSUME NEW s \in D PROVE L[s] \in [f : Nat, w : Nat]
      <4>1. s \in Holders \/ s = Dummy \/ s \in D \cap Sig BY <2>3 DEF Key
      <4>2. sumf(Ts, s) \div 2 \in Nat /\ sumw(Ts, s) \div 2 \in Nat BY <2>6, <1>6
      <4>3. CASE s \in Holders BY <1>5, <2>9, <4>3
      <4>4. CASE s = Dummy BY <2>9, <4>2, <4>4
      <4>5. CASE s \in D \cap Sig
        <5>1. L[s] = [f |-> sumf(Ts, s) \div 2, w |-> sumw(Ts, s) \div 2] BY <2>9, <4>5
        <5> QED BY <4>2, <5>1
      <4> QED BY <4>1, <4>3, <4>4, <4>5
    <3>2. L = [s \in D |-> L[s]] BY <2>5 DEF L
    <3> QED BY <3>1, <3>2
  <2>11. L \in ListType BY <1>5, <2>3, <2>4, <2>10 DEF ListType
  <2>12. \A s \in Sig : sumw(Ts, s) = sumw(Ts, Dummy) BY MergeSums
  <2>13. SameWeights(L)
    <3>1. L[Dummy].f = 0 /\ L[Dummy].w = sumw(Ts, Dummy) \div 2 BY <2>9
    <3>2. ASSUME NEW s \in D, s \notin Holders PROVE L[s].w = L[Dummy].w
      <4>1. s = Dummy \/ s \in D \cap Sig BY <2>3, <3>2 DEF Key
      <4>2. CASE s \in D \cap Sig
        <5>0. L[s] = [f |-> sumf(Ts, s) \div 2, w |-> sumw(Ts, s) \div 2] BY <2>9, <4>2
        <5>1. L[s].w = sumw(Ts, s) \div 2 BY <5>0
        <5> QED BY <2>12, <3>1, <4>2, <5>1
      <4> QED BY <4>1, <4>2
    <3> QED BY <2>5, <3>1, <3>2 DEF SameWeights
  <2>14. ASSUME NEW s \in Sig
         PROVE  At(L, s).f = sumf(Ts, s) \div 2 /\ At(L, s).w = sumw(Ts, s) \div 2
    <3>1. CASE s \in D BY <2>5, <2>9, <3>1 DEF At
    <3>2. CASE s \notin D
      <4>1. \A i \in 1..Len(Ts) : s \notin DOMAIN Ts[i] BY <3>2 DEF D
      <4>2. \A i \in 1..Len(Ts) : At(Ts[i], s).f = 0 BY <1>2, <4>1 DEF At, SameWeights
      <4>3. PICK f : f = [i \in 1..Len(Ts) |-> At(Ts[i], s).f] OBVIOUS
      <4>4. sumf(Ts, s) = SumTo(Len(Ts), f) BY <4>3 DEF sumf
      <4>5. \A i \in 1..Len(Ts) : f[i] = 0 BY <4>2, <4>3
      <4>6. sumf(Ts, s) = 0 BY <1>1, <4>4, <4>5, SumZero
      <4>7. At(L, s) = L[Dummy] BY <2>5, <3>2 DEF At
      <4> QED BY <2>9, <2>12, <4>6, <4>7
    <3> QED BY <3>1, <3>2
  <2> QED BY <2>1, <2>9, <2>11, <2>13, <2>14
<1> QED BY <1>7, <1>8

\* mergelists turns good lists into one that is good for half the unit and has
\* exactly half of their mass, for every signature.
LEMMA MergeGood ==
    ASSUME NEW h \in Nat, NEW lo \in [Sig -> Nat], NEW hi \in [Sig -> Nat],
           NEW Ts \in Seq(Good(2 * h, lo, hi)), Ts # <<>>
    PROVE  \E L \in Good(h, lo, hi) :
              /\ mergelists(Ts) = <<L>>
              /\ \A s \in Sig : /\ sumf(Ts, s) = 2 * At(L, s).f
                                /\ sumw(Ts, s) = 2 * At(L, s).w
<1>1. 2 * h \in Nat OBVIOUS
<1>2. PICK L \in ListType :
              /\ mergelists(Ts) = <<L>>
              /\ SameWeights(L)
              /\ L[Dummy].w = sumw(Ts, Dummy) \div 2
              /\ \A s \in Sig : /\ At(L, s).f = sumf(Ts, s) \div 2
                                /\ At(L, s).w = sumw(Ts, s) \div 2
  BY <1>1, MergeShape
<1>3. ASSUME NEW s \in Sig
      PROVE  /\ At(L, s).f \in Multiples(h)
             /\ lo[s] * At(L, s).w <= At(L, s).f
             /\ At(L, s).f <= hi[s] * At(L, s).w
             /\ sumf(Ts, s) = 2 * At(L, s).f
             /\ sumw(Ts, s) = 2 * At(L, s).w
  <2>1. PICK x, y : x = At(L, s).f /\ y = At(L, s).w OBVIOUS
  <2>2. x = sumf(Ts, s) \div 2 /\ y = sumw(Ts, s) \div 2 BY <1>2, <2>1
  <2>3. x \in Nat /\ y \in Nat /\ lo[s] \in Nat /\ hi[s] \in Nat BY <2>1, ListEntries
  <2>4. /\ sumf(Ts, s) \in Multiples(2 * h) /\ sumw(Ts, s) \in Multiples(2 * h)
        /\ lo[s] * sumw(Ts, s) <= sumf(Ts, s)
        /\ sumf(Ts, s) <= hi[s] * sumw(Ts, s)
    BY <1>1, MergeSums
  <2>5. x \in Multiples(h) /\ sumf(Ts, s) = 2 * x /\ sumw(Ts, s) = 2 * y BY <2>2, <2>4, HalveMultiple
  <2>6. lo[s] * (2 * y) <= 2 * x /\ 2 * x <= hi[s] * (2 * y) BY <2>4, <2>5
  <2>7. lo[s] * y <= x /\ x <= hi[s] * y BY <2>3, <2>6, HalfBounds
  <2> QED BY <2>1, <2>5, <2>7
<1>4. L[Dummy].w \in Multiples(h)
  <2> DEFINE d == [i \in 1..Len(Ts) |-> At(Ts[i], Dummy).w]
  <2>1. ASSUME NEW i \in 1..Len(Ts) PROVE d[i] \in Multiples(2 * h)
    <3>1. PICK T \in Good(2 * h, lo, hi) : T = Ts[i] OBVIOUS
    <3>2. T \in ListType /\ SameWeights(T) /\ T[Dummy].w \in Multiples(2 * h) BY DEF Good
    <3> QED BY <3>1, <3>2, EqualWeights
  <2>2. sumw(Ts, Dummy) = SumTo(Len(Ts), d) BY DEF sumw
  <2> HIDE DEF d
  <2>3. sumw(Ts, Dummy) \in Multiples(2 * h) BY <1>1, <2>1, <2>2, SumMultiples
  <2> QED BY <1>2, <2>3, HalveMultiple
<1>5. L \in Good(h, lo, hi) BY <1>2, <1>3, <1>4 DEF Good
<1> QED BY <1>2, <1>3, <1>5

-------------------------------------------------------------------------------
(* Mass.                                                                      *)

\* The two components of an entry.
LEMMA EntryParts ==
    ASSUME NEW T \in ListType, NEW s, NEW c \in {"f", "w"}
    PROVE  /\ At(T, s)[c] \in Nat
           /\ At(T, s)[c] = IF c = "f" THEN At(T, s).f ELSE At(T, s).w
<1>1. At(T, s).f \in Nat /\ At(T, s).w \in Nat BY ListEntries
<1>2. At(T, s)["f"] = At(T, s).f /\ At(T, s)["w"] = At(T, s).w OBVIOUS
<1>3. CASE c = "f" BY <1>1, <1>2, <1>3
<1>4. CASE c = "w" BY <1>1, <1>2, <1>4
<1> QED BY <1>3, <1>4

\* The list a peer starts with, from its counts of documents: the dummy and the
\* placeholders have frequency zero, and all weights are one.
StartList(docs) ==
    [s \in {Dummy} \cup Holders \cup {x \in Sig : docs[x] > 0} |->
        [f |-> IF s \in Sig THEN docs[s] * Unit ELSE 0, w |-> Unit]]

\* It is a good list.
LEMMA StartGood ==
    ASSUME NEW h \in Nat, Unit \in Multiples(h),
           NEW lo \in [Sig -> Nat], NEW hi \in [Sig -> Nat], NEW docs \in [Sig -> Nat],
           \A s \in Sig : lo[s] <= docs[s] /\ docs[s] <= hi[s]
    PROVE  /\ StartList(docs) \in Good(h, lo, hi)
           /\ \A s \in Sig : At(StartList(docs), s) = [f |-> docs[s] * Unit, w |-> Unit]
<1> DEFINE D == {Dummy} \cup Holders \cup {x \in Sig : docs[x] > 0}
           T == StartList(docs)
<1>1. Dummy \notin Sig /\ Unit \in Nat /\ Holders \cap Sig = {} BY ListAssumption
<1>2. /\ DOMAIN T = D
      /\ \A s \in D : T[s].w = Unit
      /\ T[Dummy] = [f |-> 0, w |-> Unit]
      /\ \A s \in D \cap Sig : T[s] = [f |-> docs[s] * Unit, w |-> Unit]
  BY <1>1 DEF StartList
<1>3. T \in [D -> [f : Nat, w : Nat]]
  <2>1. \A s \in Sig : docs[s] * Unit \in Nat BY <1>1
  <2> QED BY <1>1, <2>1 DEF StartList
<1>4. D \subseteq Key /\ {Dummy} \cup Holders \subseteq D BY DEF Key
<1>5. Dummy \in D OBVIOUS
<1>6. \A s \in Sig : s \notin D => docs[s] = 0 OBVIOUS
<1> HIDE DEF D, T
<1>7. T \in ListType BY <1>3, <1>4 DEF ListType
<1>8. SameWeights(T) BY <1>2, <1>5 DEF SameWeights
<1>9. \A s \in Sig : At(T, s) = [f |-> docs[s] * Unit, w |-> Unit]
  <2>1. 0 * Unit = 0 BY <1>1
  <2> QED BY <1>2, <1>6, <2>1 DEF At
<1>10. ASSUME NEW s \in Sig
       PROVE  /\ docs[s] * Unit \in Multiples(h)
              /\ lo[s] * Unit <= docs[s] * Unit
              /\ docs[s] * Unit <= hi[s] * Unit
  <2>1. PICK k \in Nat : Unit = h * k BY DEF Multiples
  <2>2. PICK d, l, u \in Nat : d = docs[s] /\ l = lo[s] /\ u = hi[s] OBVIOUS
  <2>3. l <= d /\ d <= u BY <2>2
  <2>4. d * Unit = h * (d * k) /\ d * k \in Nat BY <2>1, <2>2
  <2>5. l * Unit <= d * Unit /\ d * Unit <= u * Unit BY <1>1, <2>2, <2>3
  <2> QED BY <2>2, <2>4, <2>5 DEF Multiples
<1>11. \A s \in Sig : /\ At(T, s).f \in Multiples(h)
                      /\ lo[s] * At(T, s).w <= At(T, s).f
                      /\ At(T, s).f <= hi[s] * At(T, s).w
  BY <1>9, <1>10
<1> QED BY <1>2, <1>7, <1>8, <1>9, <1>11 DEF Good, T

\* Its masses, and that it is well formed.
LEMMA StartMasses ==
    ASSUME NEW docs \in [Sig -> Nat], NEW s \in Sig, NEW c \in {"f", "w"}
    PROVE  /\ StartList(docs) \in ListType
           /\ At(StartList(docs), s)[c] = IF c = "w" THEN Unit ELSE docs[s] * Unit
           /\ At(StartList(docs), s)[c] \in Nat
<1>1. Unit \in Nat /\ Unit = 1 * Unit BY ListAssumption
<1>2. Unit \in Multiples(1) BY <1>1 DEF Multiples
<1>3. \A x \in Sig : docs[x] <= docs[x] OBVIOUS
<1>4. PICK T : T = StartList(docs) OBVIOUS
<1>5. T \in Good(1, docs, docs) /\ At(T, s) = [f |-> docs[s] * Unit, w |-> Unit]
  BY <1>2, <1>3, <1>4, StartGood
<1>6. T \in ListType BY <1>5 DEF Good
<1>7. At(T, s)[c] \in Nat /\ At(T, s)[c] = IF c = "f" THEN At(T, s).f ELSE At(T, s).w BY <1>6, EntryParts
<1> QED BY <1>4, <1>5, <1>6, <1>7

\* multiplyfreq doubles the mass of every signature.
LEMMA MultiplyMass ==
    ASSUME NEW T \in ListType, multiplyfreq(T) \in ListType, NEW s, NEW c \in {"f", "w"}
    PROVE  At(multiplyfreq(T), s)[c] = 2 * At(T, s)[c]
<1>1. PICK U \in ListType : U = multiplyfreq(T) OBVIOUS
<1>2. /\ DOMAIN U = DOMAIN T
      /\ \A x \in DOMAIN T : U[x] = [f |-> T[x].f * 2, w |-> T[x].w * 2]
  BY <1>1 DEF multiplyfreq
<1>3. Dummy \in DOMAIN T BY ListEntries
<1>4. At(U, s).f = At(T, s).f * 2 /\ At(U, s).w = At(T, s).w * 2 BY <1>2, <1>3 DEF At
<1>5. At(T, s).f \in Nat /\ At(T, s).w \in Nat BY ListEntries
<1>6. At(U, s)[c] = IF c = "f" THEN At(U, s).f ELSE At(U, s).w BY EntryParts
<1>7. At(T, s)[c] = IF c = "f" THEN At(T, s).f ELSE At(T, s).w BY EntryParts
<1> QED BY <1>1, <1>4, <1>5, <1>6, <1>7

\* The mass of a sequence of lists, and of the sequence with one more.
LEMMA SeqMassAppend ==
    ASSUME NEW Ts \in Seq(ListType), NEW T \in ListType, NEW s, NEW c \in {"f", "w"}
    PROVE  /\ SeqMass(Ts, s, c) \in Nat
           /\ SeqMass(Append(Ts, T), s, c) = SeqMass(Ts, s, c) + At(T, s)[c]
<1>1. PICK n \in Nat : n = Len(Ts) OBVIOUS
<1>2. PICK f : f = [i \in 1..n |-> At(Ts[i], s)[c]] OBVIOUS
<1>3. PICK Us : Us = Append(Ts, T) OBVIOUS
<1>4. Len(Us) = n + 1 /\ Us[n + 1] = T /\ \A i \in 1..n : Us[i] = Ts[i] /\ Ts[i] \in ListType BY <1>1, <1>3
<1>5. PICK g : g = [i \in 1..(n + 1) |-> At(Us[i], s)[c]] OBVIOUS
<1>6. \A i \in 1..n : f[i] \in Nat /\ f[i] \in Int /\ i \in 1..(n + 1) /\ g[i] = f[i]
  <2>1. \A i \in 1..n : At(Ts[i], s)[c] \in Nat BY <1>4, EntryParts
  <2> QED BY <1>2, <1>4, <1>5, <2>1
<1>7. g[n + 1] = At(T, s)[c] /\ At(T, s)[c] \in Int
  <2>1. n + 1 \in 1..(n + 1) OBVIOUS
  <2> QED BY <1>4, <1>5, <2>1, EntryParts
<1>8. SumTo(n + 1, g) = SumTo(n, f) + At(T, s)[c] BY <1>6, <1>7, SumLast
<1>9. SumTo(n, f) \in Nat BY <1>6, SumNat
<1>10. SeqMass(Ts, s, c) = SumTo(n, f) BY <1>1, <1>2 DEF SeqMass
<1>11. SeqMass(Us, s, c) = SumTo(n + 1, g) BY <1>4, <1>5 DEF SeqMass
<1> QED BY <1>3, <1>8, <1>9, <1>10, <1>11

\* The mass of a sequence is that of its first list and of the others.
LEMMA SeqMassFirst ==
    ASSUME NEW Ts \in Seq(ListType), Ts # <<>>, NEW s, NEW c \in {"f", "w"}
    PROVE  SeqMass(Ts, s, c) = At(Ts[1], s)[c] + SeqMass(Tail(Ts), s, c)
<1>1. PICK n : n = Len(Ts) - 1 OBVIOUS
<1>2. n \in Nat /\ Len(Ts) = n + 1 BY <1>1
<1>3. PICK Us : Us = Tail(Ts) OBVIOUS
<1>4. Len(Us) = n /\ \A i \in 1..n : Us[i] = Ts[i + 1] BY <1>2, <1>3
<1>5. \A i \in 1..(n + 1) : Ts[i] \in ListType BY <1>2
<1>6. PICK f : f = [i \in 1..(n + 1) |-> At(Ts[i], s)[c]] OBVIOUS
<1>7. PICK g : g = [i \in 1..n |-> At(Us[i], s)[c]] OBVIOUS
<1>8. \A i \in 1..(n + 1) : f[i] \in Int
  <2>1. \A i \in 1..(n + 1) : At(Ts[i], s)[c] \in Nat BY <1>5, EntryParts
  <2> QED BY <1>6, <2>1
<1>9. \A i \in 1..n : g[i] = f[i + 1]
  <2>1. \A i \in 1..n : i + 1 \in 1..(n + 1) BY <1>2
  <2> QED BY <1>4, <1>6, <1>7, <2>1
<1>10. SumTo(n + 1, f) = f[1] + SumTo(n, g) BY <1>2, <1>8, <1>9, SumFirst
<1>11. f[1] = At(Ts[1], s)[c]
  <2>1. 1 \in 1..(n + 1) BY <1>2
  <2> QED BY <1>6, <2>1
<1>12. SeqMass(Ts, s, c) = SumTo(n + 1, f) BY <1>2, <1>6 DEF SeqMass
<1>13. SeqMass(Us, s, c) = SumTo(n, g) BY <1>4, <1>7 DEF SeqMass
<1> QED BY <1>3, <1>10, <1>11, <1>12, <1>13

\* The empty sequence has no mass.
LEMMA SeqMassEmpty == ASSUME NEW s, NEW c PROVE SeqMass(<<>>, s, c) = 0
<1>1. PICK f : f = [i \in 1..Len(<<>>) |-> At(<<>>[i], s)[c]] OBVIOUS
<1>2. Len(<<>>) = 0 OBVIOUS
<1>3. SumTo(0, f) = 0
  <2>1. \A i \in 1..0 : f[i] = 0 OBVIOUS
  <2> QED BY <2>1, SumZero
<1> QED BY <1>1, <1>2, <1>3 DEF SeqMass

\* The merged list that is kept has half of the mass of all lists.
LEMMA MergeMass ==
    ASSUME NEW h \in Nat, NEW lo \in [Sig -> Nat], NEW hi \in [Sig -> Nat],
           NEW Ts \in Seq(Good(2 * h, lo, hi)), Ts # <<>>
    PROVE  \E L \in Good(h, lo, hi) :
              /\ mergelists(Ts) = <<L>>
              /\ \A s \in Sig : \A c \in {"f", "w"} : SeqMass(Ts, s, c) = 2 * At(L, s)[c]
<1>1. PICK L \in Good(h, lo, hi) :
              /\ mergelists(Ts) = <<L>>
              /\ \A s \in Sig : /\ sumf(Ts, s) = 2 * At(L, s).f
                                /\ sumw(Ts, s) = 2 * At(L, s).w
  BY MergeGood
<1>2. L \in ListType BY DEF Good
<1>3. \A i \in 1..Len(Ts) : Ts[i] \in ListType
  <2>1. \A i \in 1..Len(Ts) : Ts[i] \in Good(2 * h, lo, hi) OBVIOUS
  <2> QED BY <2>1 DEF Good
<1>4. ASSUME NEW s \in Sig, NEW c \in {"f", "w"} PROVE SeqMass(Ts, s, c) = 2 * At(L, s)[c]
  <2>0. Len(Ts) \in Nat OBVIOUS
  <2>1. PICK m, f, w : /\ m = [i \in 1..Len(Ts) |-> At(Ts[i], s)[c]]
                       /\ f = [i \in 1..Len(Ts) |-> At(Ts[i], s).f]
                       /\ w = [i \in 1..Len(Ts) |-> At(Ts[i], s).w]
    OBVIOUS
  <2>2. SeqMass(Ts, s, c) = SumTo(Len(Ts), m) BY <2>1 DEF SeqMass
  <2>3. sumf(Ts, s) = SumTo(Len(Ts), f) /\ sumw(Ts, s) = SumTo(Len(Ts), w) BY <2>1 DEF sumf, sumw
  <2>4. \A i \in 1..Len(Ts) : /\ At(Ts[i], s).f \in Nat /\ At(Ts[i], s).w \in Nat
                              /\ At(Ts[i], s)[c] = IF c = "f" THEN At(Ts[i], s).f ELSE At(Ts[i], s).w
    BY <1>3, ListEntries, EntryParts
  <2>5. At(L, s)[c] = IF c = "f" THEN At(L, s).f ELSE At(L, s).w BY <1>2, EntryParts
  <2>6. CASE c = "f"
    <3>1. \A i \in 1..Len(Ts) : f[i] \in Int /\ m[i] = f[i] BY <2>1, <2>4, <2>6
    <3>2. SumTo(Len(Ts), m) = SumTo(Len(Ts), f) BY <2>0, <3>1, SumEqual
    <3> QED BY <1>1, <2>2, <2>3, <2>5, <2>6, <3>2
  <2>7. CASE c = "w"
    <3>1. \A i \in 1..Len(Ts) : w[i] \in Int /\ m[i] = w[i] BY <2>1, <2>4, <2>7
    <3>2. SumTo(Len(Ts), m) = SumTo(Len(Ts), w) BY <2>0, <3>1, SumEqual
    <3> QED BY <1>1, <2>2, <2>3, <2>5, <2>7, <3>2
  <2> QED BY <2>6, <2>7
<1> QED BY <1>1, <1>4

-------------------------------------------------------------------------------
(* The mass of a set of messages.                                             *)

\* Messages of n peers in r rounds, with well-formed lists.
Sendable(n, r, M) == \A m \in M : m.src \in 1..n /\ m.seq \in 0..(r - 1) /\ m.list \in ListType

\* What the message of round k - 1 of peer q adds to the mass of M.
SetMass(S, s, c) == IF S = {} THEN 0 ELSE At((CHOOSE m \in S : TRUE).list, s)[c]
Part(M, s, c, q, k) == SetMass(Sent(M, q, k - 1), s, c)

\* Parts are natural numbers.
LEMMA PartNat ==
    ASSUME NEW n, NEW r, NEW M, Sendable(n, r, M), NEW s, NEW c \in {"f", "w"}, NEW q, NEW k
    PROVE  Part(M, s, c, q, k) \in Nat
<1>1. CASE Sent(M, q, k - 1) = {} BY <1>1 DEF Part, SetMass
<1>2. CASE Sent(M, q, k - 1) # {}
  <2>1. PICK m : m = CHOOSE x \in Sent(M, q, k - 1) : TRUE OBVIOUS
  <2>2. m \in Sent(M, q, k - 1) BY <1>2, <2>1
  <2>3. m \in M BY <2>2 DEF Sent
  <2>4. m.list \in ListType BY <2>3 DEF Sendable
  <2>5. Part(M, s, c, q, k) = At(m.list, s)[c] BY <1>2, <2>1 DEF Part, SetMass
  <2> QED BY <2>4, <2>5, EntryParts
<1> QED BY <1>1, <1>2

\* No messages, no mass.
LEMMA SentMassEmpty == ASSUME NEW n, NEW r, NEW s, NEW c PROVE SentMass(n, r, {}, s, c) = 0
BY DEF SentMass

\* The mass of messages is the sum of the parts.
LEMMA SentMassParts ==
    ASSUME NEW n \in Nat, NEW r \in Nat, NEW M, NEW s, NEW c, NEW F,
           F = [q \in 1..n |-> SumTo(r, [k \in 1..r |-> Part(M, s, c, q, k)])]
    PROVE  SentMass(n, r, M, s, c) = SumTo(n, F)
<1>1. CASE M # {} BY <1>1 DEF SentMass, Part, SetMass
<1>2. CASE M = {}
  <2>2. ASSUME NEW q \in 1..n PROVE F[q] = 0
    <3>1. PICK f : f = [k \in 1..r |-> Part(M, s, c, q, k)] OBVIOUS
    <3>2. \A k \in 1..r : f[k] = 0 BY <1>2, <3>1 DEF Part, SetMass, Sent
    <3>3. SumTo(r, f) = 0 BY <3>2, SumZero
    <3> QED BY <3>1, <3>3
  <2>3. SumTo(n, F) = 0 BY <2>2, SumZero
  <2> QED BY <1>2, <2>3, SentMassEmpty
<1> QED BY <1>1, <1>2

\* It is a natural number.
LEMMA SentMassNat ==
    ASSUME NEW n \in Nat, NEW r \in Nat, NEW M, Sendable(n, r, M), NEW s, NEW c \in {"f", "w"}
    PROVE  SentMass(n, r, M, s, c) \in Nat
<1>2. PICK F : F = [q \in 1..n |-> SumTo(r, [k \in 1..r |-> Part(M, s, c, q, k)])] OBVIOUS
<1>3. ASSUME NEW q \in 1..n PROVE F[q] \in Nat
  <2>1. PICK f : f = [k \in 1..r |-> Part(M, s, c, q, k)] OBVIOUS
  <2>2. \A k \in 1..r : f[k] \in Nat BY <2>1, PartNat
  <2>3. SumTo(r, f) \in Nat BY <2>2, SumNat
  <2> QED BY <1>2, <2>1, <2>3
<1>4. SumTo(n, F) \in Nat BY <1>3, SumNat
<1> QED BY <1>2, <1>4, SentMassParts

\* A is M and the message m, of another round or another peer than those of M.
Adds(A, M, m) == A = M \cup {m} /\ \A x \in M : x.src # m.src \/ x.seq # m.seq

\* The message adds its mass.
LEMMA SentMassAdd ==
    ASSUME NEW n \in Nat, NEW r \in Nat, NEW M, NEW m, NEW A, Adds(A, M, m), Sendable(n, r, A),
           NEW s, NEW c \in {"f", "w"}
    PROVE  SentMass(n, r, A, s, c) = SentMass(n, r, M, s, c) + At(m.list, s)[c]
<1>2. A = M \cup {m} BY DEF Adds
<1>1. Sendable(n, r, M) BY <1>2 DEF Sendable
<1>0. m \in A BY <1>2
<1>3. PICK q, k : q = m.src /\ k = m.seq + 1 OBVIOUS
<1>4. q \in 1..n /\ m.seq \in 0..(r - 1) BY <1>3, <1>0 DEF Sendable
<1>5. k \in 1..r /\ k - 1 = m.seq BY <1>3, <1>4
<1>6. PICK F : F = [x \in 1..n |-> SumTo(r, [y \in 1..r |-> Part(M, s, c, x, y)])] OBVIOUS
<1>16. PICK H : H = [x \in 1..n |-> SumTo(r, [y \in 1..r |-> Part(A, s, c, x, y)])] OBVIOUS
<1>7. \A x \in 1..n, y \in 1..r : x # q \/ y # k => Part(A, s, c, x, y) = Part(M, s, c, x, y)
  <2>0. SUFFICES ASSUME NEW x \in 1..n, NEW y \in 1..r, x # q \/ y # k
                 PROVE  Part(A, s, c, x, y) = Part(M, s, c, x, y)
    OBVIOUS
  <2>1. x # m.src \/ y - 1 # m.seq BY <1>3, <1>5, <2>0
  <2>2. Sent(A, x, y - 1) = Sent(M, x, y - 1) BY <1>2, <2>1 DEF Sent
  <2> QED BY <2>2 DEF Part
<1>8. Part(M, s, c, q, k) = 0 /\ Part(A, s, c, q, k) = At(m.list, s)[c]
  <2>1. Sent(M, q, k - 1) = {} BY <1>3, <1>5 DEF Sent, Adds
  <2>2. Sent(A, q, k - 1) = {m} BY <1>2, <1>3, <1>5, <2>1 DEF Sent
  <2>3. (CHOOSE x \in Sent(A, q, k - 1) : TRUE) = m BY <2>2
  <2> QED BY <2>1, <2>2, <2>3 DEF Part, SetMass
<1>17. \A x, y : Part(M, s, c, x, y) \in Nat BY <1>1, PartNat
<1>18. \A x, y : Part(A, s, c, x, y) \in Nat BY PartNat
<1>9. \A x \in 1..n : F[x] \in Int /\ H[x] \in Int
  <2>0. SUFFICES ASSUME NEW x \in 1..n PROVE F[x] \in Int /\ H[x] \in Int OBVIOUS
  <2>1. PICK f, g : /\ f = [y \in 1..r |-> Part(M, s, c, x, y)]
                    /\ g = [y \in 1..r |-> Part(A, s, c, x, y)]
    OBVIOUS
  <2>2. \A y \in 1..r : f[y] \in Int /\ g[y] \in Int BY <1>17, <1>18, <2>1
  <2>3. SumTo(r, f) \in Int /\ SumTo(r, g) \in Int BY <2>2, SumType
  <2> QED BY <1>6, <1>16, <2>1, <2>3
<1>10. \A x \in 1..n : x # q => H[x] = F[x]
  <2>0. SUFFICES ASSUME NEW x \in 1..n, x # q PROVE H[x] = F[x] OBVIOUS
  <2>1. [y \in 1..r |-> Part(M, s, c, x, y)] = [y \in 1..r |-> Part(A, s, c, x, y)]
    BY <1>7, <2>0
  <2> QED BY <1>6, <1>16, <2>1
<1>11. H[q] = F[q] + At(m.list, s)[c]
  <2>1. PICK f, g : /\ f = [y \in 1..r |-> Part(M, s, c, q, y)]
                    /\ g = [y \in 1..r |-> Part(A, s, c, q, y)]
    OBVIOUS
  <2>2. \A y \in 1..r : f[y] \in Int /\ g[y] \in Int BY <1>17, <1>18, <2>1
  <2>3. \A y \in 1..r : y # k => g[y] = f[y] BY <1>4, <1>7, <2>1
  <2>4. SumTo(r, g) = SumTo(r, f) + (g[k] - f[k]) BY <1>5, <2>2, <2>3, SumPoint
  <2>5. g[k] = At(m.list, s)[c] /\ f[k] = 0 BY <1>5, <1>8, <2>1
  <2>6. F[q] = SumTo(r, f) /\ H[q] = SumTo(r, g) BY <1>4, <1>6, <1>16, <2>1
  <2>7. g[k] \in Int BY <1>5, <2>2
  <2> QED BY <2>4, <2>5, <2>6, <2>7
<1>12. SumTo(n, H) = SumTo(n, F) + (H[q] - F[q]) BY <1>4, <1>9, <1>10, SumPoint
<1>13. H[q] - F[q] = At(m.list, s)[c]
  <2>1. m.list \in ListType BY <1>0 DEF Sendable
  <2>2. At(m.list, s)[c] \in Int BY <2>1, EntryParts
  <2> QED BY <1>4, <1>9, <1>11, <2>2
<1>14. SentMass(n, r, M, s, c) = SumTo(n, F) BY <1>6, SentMassParts
<1>15. SentMass(n, r, A, s, c) = SumTo(n, H) BY <1>16, SentMassParts
<1> QED BY <1>12, <1>13, <1>14, <1>15
===============================================================================
