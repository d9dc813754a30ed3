------------------------------ MODULE DataLemmas ------------------------------
(* Facts about the data the models are made of: sums of functions (Sums), for *)
(* every length, and sequences without repetitions.  The installed provers    *)
(* cannot instantiate the induction theorems of the library, which take the   *)
(* predicate as an operator; the proofs below argue by the least              *)
(* counterexample instead (WFMin on the natural numbers).                     *)
EXTENDS Sums, SequencesExt, SequenceTheorems, FiniteSetTheorems,
        NaturalsInduction, WellFoundedInduction, TLAPS

-------------------------------------------------------------------------------
(* Sums.                                                                      *)

\* Every nonempty set of naturals has a least element.
LEMMA LeastNat ==
    ASSUME NEW T \in SUBSET Nat, T # {}
    PROVE  \E x \in T : \A y \in T : x <= y
<1>1. IsWellFoundedOn(OpToRel(<, Nat), Nat)
  BY NatLessThanWellFounded
<1>2. PICK x \in T : \A y \in T : ~ (<<y, x>> \in OpToRel(<, Nat))
  BY <1>1, WFMin
<1>3. \A y \in T : ~ (y < x)
  BY <1>2 DEF OpToRel
<1> QED BY <1>3

\* s is the sequence of partial sums of f up to k.
Partial(f, k, s) ==
    /\ DOMAIN s = 0..k
    /\ \A i \in 0..k : s[i] = IF i = 0 THEN 0 ELSE s[i - 1] + f[i]

\* Partial sums exist for every length.
LEMMA PartialExists ==
    ASSUME NEW n \in Nat, NEW f
    PROVE  \E s : Partial(f, n, s)
<1> DEFINE T == {k \in Nat : ~ \E s : Partial(f, k, s)}
<1>1. SUFFICES ASSUME T # {} PROVE FALSE
  OBVIOUS
<1>2. PICK k \in T : \A y \in T : k <= y
  BY <1>1, LeastNat
<1>3. k # 0
  <2>1. Partial(f, 0, [i \in 0..0 |-> 0]) BY DEF Partial
  <2> QED BY <2>1
<1>4. PICK s : Partial(f, k - 1, s)
  BY <1>2, <1>3
<1> DEFINE t == [i \in 0..k |-> IF i = k THEN s[k - 1] + f[k] ELSE s[i]]
<1>5. Partial(f, k, t)
  <2>1. k \in Nat /\ k >= 1 BY <1>2, <1>3
  <2>2. DOMAIN t = 0..k OBVIOUS
  <2>3. ASSUME NEW i \in 0..k PROVE t[i] = IF i = 0 THEN 0 ELSE t[i - 1] + f[i]
    <3>1. CASE i = k BY <2>1, <3>1
    <3>2. CASE i # k
      <4>1. i \in 0..(k - 1) BY <2>1, <3>2
      <4>2. t[i] = s[i] BY <3>2
      <4>3. i # 0 => i - 1 \in 0..k /\ i - 1 # k BY <4>1
      <4>4. i # 0 => t[i - 1] = s[i - 1] BY <4>3
      <4>5. s[i] = IF i = 0 THEN 0 ELSE s[i - 1] + f[i] BY <1>4, <4>1 DEF Partial
      <4> QED BY <4>2, <4>4, <4>5
    <3> QED BY <3>1, <3>2
  <2> QED BY <2>2, <2>3 DEF Partial
<1> QED BY <1>5, <1>2

\* Sum is the last of the partial sums.
LEMMA SumPartial ==
    ASSUME NEW n \in Nat, NEW f
    PROVE  \E s : Partial(f, n, s) /\ SumTo(n, f) = s[n]
<1> DEFINE Eqn(s) == s = [i \in 0..n |-> IF i = 0 THEN 0 ELSE s[i - 1] + f[i]]
<1> DEFINE c == CHOOSE s : Eqn(s)
<1>1. PICK s0 : Partial(f, n, s0) BY PartialExists
<1>x. \E s : Eqn(s)
  <2>0. PICK s1 : s1 = [i \in 0..n |-> s0[i]] OBVIOUS
  <2>1. DOMAIN s1 = 0..n /\ \A i \in 0..n : s1[i] = s0[i] BY <2>0
  <2>2. \A i \in 0..n : i # 0 => i - 1 \in 0..n OBVIOUS
  <2>3. \A i \in 0..n : s1[i] = IF i = 0 THEN 0 ELSE s1[i - 1] + f[i]
    BY <1>1, <2>1, <2>2 DEF Partial
  <2>4. s1 = [i \in 0..n |-> s1[i]] BY <2>0, <2>1
  <2>5. Eqn(s1) BY <2>3, <2>4
  <2> QED BY <2>5
<1>2. Eqn(c) BY <1>x
<1>3. SumTo(n, f) = c[n] BY DEF SumTo
<1>4. Partial(f, n, c) BY <1>2 DEF Partial
<1> QED BY <1>3, <1>4

\* The sum of an integer function is an integer.
LEMMA SumType ==
    ASSUME NEW n \in Nat, NEW f, \A i \in 1..n : f[i] \in Int
    PROVE  SumTo(n, f) \in Int
<1>1. PICK s : Partial(f, n, s) /\ SumTo(n, f) = s[n] BY SumPartial
<1> DEFINE T == {k \in Nat : k <= n /\ s[k] \notin Int}
<1>2. ASSUME T # {} PROVE FALSE
  <2>1. PICK k \in T : \A y \in T : k <= y BY <1>2, LeastNat
  <2>2. k # 0 BY <1>1, <2>1 DEF Partial
  <2>3. k - 1 \in Nat /\ k - 1 <= n /\ k - 1 \notin T BY <2>1, <2>2
  <2>4. s[k - 1] \in Int /\ f[k] \in Int BY <2>1, <2>2, <2>3
  <2>5. s[k] = s[k - 1] + f[k] BY <1>1, <2>1, <2>2 DEF Partial
  <2> QED BY <2>1, <2>4, <2>5
<1>3. n \notin T BY <1>2
<1> QED BY <1>1, <1>3

\* Functions that agree except at one point p have sums that differ by the
\* difference at p.
LEMMA SumPoint ==
    ASSUME NEW n \in Nat, NEW f, NEW g, NEW p \in 1..n,
           \A i \in 1..n : f[i] \in Int /\ g[i] \in Int,
           \A i \in 1..n : i # p => g[i] = f[i]
    PROVE  SumTo(n, g) = SumTo(n, f) + (g[p] - f[p])
<1>1. PICK s : Partial(f, n, s) /\ SumTo(n, f) = s[n] BY SumPartial
<1>2. PICK t : Partial(g, n, t) /\ SumTo(n, g) = t[n] BY SumPartial
<1> DEFINE Off(k) == IF k < p THEN 0 ELSE g[p] - f[p]
<1> DEFINE T == {k \in Nat : k <= n /\ ~ (s[k] \in Int /\ t[k] = s[k] + Off(k))}
<1>3. ASSUME T # {} PROVE FALSE
  <2>1. PICK k \in T : \A y \in T : k <= y BY <1>3, LeastNat
  <2>2. k # 0
    <3>1. s[0] = 0 /\ t[0] = 0 BY <1>1, <1>2 DEF Partial
    <3>2. Off(0) = 0 OBVIOUS
    <3> QED BY <2>1, <3>1, <3>2
  <2>3. k - 1 \in Nat /\ k - 1 <= n /\ k - 1 \notin T BY <2>1, <2>2
  <2>4. s[k - 1] \in Int /\ t[k - 1] = s[k - 1] + Off(k - 1) BY <2>3
  <2>5. s[k] = s[k - 1] + f[k] BY <1>1, <2>1, <2>2 DEF Partial
  <2>6. t[k] = t[k - 1] + g[k] BY <1>2, <2>1, <2>2 DEF Partial
  <2>7. k \in 1..n /\ f[k] \in Int /\ g[k] \in Int BY <2>1, <2>2
  <2>8. Off(k) = Off(k - 1) + (g[k] - f[k]) /\ Off(k - 1) \in Int
    <3>1. CASE k = p BY <2>7, <3>1
    <3>2. CASE k # p BY <2>7, <3>2
    <3> QED BY <3>1, <3>2
  <2> HIDE DEF Off
  <2>9. s[k] \in Int /\ t[k] = s[k] + Off(k) BY <2>4, <2>5, <2>6, <2>7, <2>8
  <2> QED BY <2>1, <2>9
<1>4. n \notin T /\ Off(n) = g[p] - f[p] BY <1>3
<1> QED BY <1>1, <1>2, <1>4

\* A sum depends only on the values it adds.
LEMMA SumEqual ==
    ASSUME NEW n \in Nat, NEW f, NEW g,
           \A i \in 1..n : f[i] \in Int /\ g[i] = f[i]
    PROVE  SumTo(n, g) = SumTo(n, f)
<1>1. CASE n = 0
  <2>1. PICK s : Partial(f, n, s) /\ SumTo(n, f) = s[n] BY SumPartial
  <2>2. PICK t : Partial(g, n, t) /\ SumTo(n, g) = t[n] BY SumPartial
  <2> QED BY <1>1, <2>1, <2>2 DEF Partial
<1>2. CASE n # 0
  <2>1. 1 \in 1..n BY <1>2
  <2>2. \A i \in 1..n : f[i] \in Int /\ g[i] \in Int OBVIOUS
  <2>3. SumTo(n, g) = SumTo(n, f) + (g[1] - f[1]) BY <2>1, <2>2, SumPoint
  <2>4. SumTo(n, f) \in Int BY SumType
  <2>5. g[1] - f[1] = 0 BY <2>1, <2>2
  <2> QED BY <2>3, <2>4, <2>5
<1> QED BY <1>1, <1>2

\* A function that is zero on 1..n sums to zero.
LEMMA SumZero ==
    ASSUME NEW n \in Nat, NEW f, \A i \in 1..n : f[i] = 0
    PROVE  SumTo(n, f) = 0
<1>1. PICK s : Partial(f, n, s) /\ SumTo(n, f) = s[n] BY SumPartial
<1> DEFINE T == {k \in Nat : k <= n /\ s[k] # 0}
<1>2. ASSUME T # {} PROVE FALSE
  <2>1. PICK k \in T : \A y \in T : k <= y BY <1>2, LeastNat
  <2>2. k # 0 BY <1>1, <2>1 DEF Partial
  <2>3. k - 1 \in Nat /\ k - 1 <= n /\ k - 1 \notin T BY <2>1, <2>2
  <2>4. s[k] = s[k - 1] + f[k] BY <1>1, <2>1, <2>2 DEF Partial
  <2>5. f[k] = 0 BY <2>1, <2>2
  <2> QED BY <2>1, <2>3, <2>4, <2>5
<1>3. n \notin T BY <1>2
<1> QED BY <1>1, <1>3

\* c * (a + b), in integers.
LEMMA Distribute == \A c, a, b \in Int : c * (a + b) = c * a + c * b
OBVIOUS

\* A function that is bounded by c times another one has a sum that is.
LEMMA SumBelow ==
    ASSUME NEW n \in Nat, NEW f, NEW g, NEW c \in Int,
           \A i \in 1..n : f[i] \in Int /\ g[i] \in Int /\ f[i] <= c * g[i]
    PROVE  SumTo(n, f) <= c * SumTo(n, g)
<1>1. PICK s : Partial(f, n, s) /\ SumTo(n, f) = s[n] BY SumPartial
<1>2. PICK t : Partial(g, n, t) /\ SumTo(n, g) = t[n] BY SumPartial
<1> DEFINE T == {k \in Nat : k <= n /\ ~(s[k] \in Int /\ t[k] \in Int /\ s[k] <= c * t[k])}
<1>3. ASSUME T # {} PROVE FALSE
  <2>1. PICK k \in T : \A y \in T : k <= y BY <1>3, LeastNat
  <2>2. k # 0
    <3>1. s[0] = 0 /\ t[0] = 0 /\ c * 0 = 0 BY <1>1, <1>2 DEF Partial
    <3> QED BY <2>1, <3>1
  <2>3. k \in 1..n /\ k - 1 \in Nat /\ k - 1 <= n /\ k - 1 \notin T BY <2>1, <2>2
  <2>4. s[k - 1] \in Int /\ t[k - 1] \in Int /\ s[k - 1] <= c * t[k - 1] BY <2>3
  <2>5. s[k] = s[k - 1] + f[k] /\ t[k] = t[k - 1] + g[k] BY <1>1, <1>2, <2>3 DEF Partial
  <2>6. f[k] \in Int /\ g[k] \in Int /\ f[k] <= c * g[k] BY <2>3
  <2>7. c * t[k - 1] \in Int /\ c * g[k] \in Int /\ c * (t[k - 1] + g[k]) = c * t[k - 1] + c * g[k]
    BY <2>4, <2>6, Distribute
  <2>8. s[k] \in Int /\ t[k] \in Int /\ s[k] <= c * t[k] BY <2>4, <2>5, <2>6, <2>7
  <2> QED BY <2>1, <2>8
<1>4. n \notin T BY <1>3
<1> QED BY <1>1, <1>2, <1>4

\* The same from below.
LEMMA SumAbove ==
    ASSUME NEW n \in Nat, NEW f, NEW g, NEW c \in Int,
           \A i \in 1..n : f[i] \in Int /\ g[i] \in Int /\ c * g[i] <= f[i]
    PROVE  c * SumTo(n, g) <= SumTo(n, f)
<1>1. PICK s : Partial(f, n, s) /\ SumTo(n, f) = s[n] BY SumPartial
<1>2. PICK t : Partial(g, n, t) /\ SumTo(n, g) = t[n] BY SumPartial
<1> DEFINE T == {k \in Nat : k <= n /\ ~(s[k] \in Int /\ t[k] \in Int /\ c * t[k] <= s[k])}
<1>3. ASSUME T # {} PROVE FALSE
  <2>1. PICK k \in T : \A y \in T : k <= y BY <1>3, LeastNat
  <2>2. k # 0
    <3>1. s[0] = 0 /\ t[0] = 0 /\ c * 0 = 0 BY <1>1, <1>2 DEF Partial
    <3> QED BY <2>1, <3>1
  <2>3. k \in 1..n /\ k - 1 \in Nat /\ k - 1 <= n /\ k - 1 \notin T BY <2>1, <2>2
  <2>4. s[k - 1] \in Int /\ t[k - 1] \in Int /\ c * t[k - 1] <= s[k - 1] BY <2>3
  <2>5. s[k] = s[k - 1] + f[k] /\ t[k] = t[k - 1] + g[k] BY <1>1, <1>2, <2>3 DEF Partial
  <2>6. f[k] \in Int /\ g[k] \in Int /\ c * g[k] <= f[k] BY <2>3
  <2>7. c * t[k - 1] \in Int /\ c * g[k] \in Int /\ c * (t[k - 1] + g[k]) = c * t[k - 1] + c * g[k]
    BY <2>4, <2>6, Distribute
  <2>8. s[k] \in Int /\ t[k] \in Int /\ c * t[k] <= s[k] BY <2>4, <2>5, <2>6, <2>7
  <2> QED BY <2>1, <2>8
<1>4. n \notin T BY <1>3
<1> QED BY <1>1, <1>2, <1>4

\* The sum of natural numbers is one.
LEMMA SumNat ==
    ASSUME NEW n \in Nat, NEW f, \A i \in 1..n : f[i] \in Nat
    PROVE  SumTo(n, f) \in Nat
<1>1. SumTo(n, f) \in Int BY SumType
<1>2. 0 * SumTo(n, f) <= SumTo(n, f)
  <2>1. \A i \in 1..n : f[i] \in Int /\ 0 * f[i] <= f[i] OBVIOUS
  <2> QED BY <2>1, SumAbove
<1> QED BY <1>1, <1>2

\* The sum of multiples of c.
LEMMA SumMultiple ==
    ASSUME NEW n \in Nat, NEW f, NEW g, NEW c \in Int,
           \A i \in 1..n : g[i] \in Int /\ f[i] = c * g[i]
    PROVE  SumTo(n, f) = c * SumTo(n, g)
<1>1. \A i \in 1..n : f[i] \in Int /\ f[i] <= c * g[i] /\ c * g[i] <= f[i] OBVIOUS
<1>2. SumTo(n, f) <= c * SumTo(n, g) BY <1>1, SumBelow
<1>3. c * SumTo(n, g) <= SumTo(n, f) BY <1>1, SumAbove
<1>4. SumTo(n, f) \in Int /\ SumTo(n, g) \in Int BY <1>1, SumType
<1> QED BY <1>2, <1>3, <1>4

\* n times the same number.
LEMMA SumConstant ==
    ASSUME NEW n \in Nat, NEW f, NEW c \in Int, \A i \in 1..n : f[i] = c
    PROVE  SumTo(n, f) = n * c
<1>1. PICK s : Partial(f, n, s) /\ SumTo(n, f) = s[n] BY SumPartial
<1> DEFINE T == {k \in Nat : k <= n /\ s[k] # k * c}
<1>2. ASSUME T # {} PROVE FALSE
  <2>1. PICK k \in T : \A y \in T : k <= y BY <1>2, LeastNat
  <2>2. k # 0 BY <1>1, <2>1 DEF Partial
  <2>3. k \in 1..n /\ k - 1 \in Nat /\ k - 1 <= n /\ k - 1 \notin T BY <2>1, <2>2
  <2>4. s[k] = s[k - 1] + c BY <1>1, <2>3 DEF Partial
  <2>5. s[k - 1] = (k - 1) * c BY <2>3
  <2>6. (k - 1) * c + c = k * c BY <2>3
  <2> QED BY <2>1, <2>4, <2>5, <2>6
<1>3. n \notin T BY <1>2
<1> QED BY <1>1, <1>3

\* The last number is added last.
LEMMA SumLast ==
    ASSUME NEW n \in Nat, NEW f, NEW g, NEW c \in Int,
           \A i \in 1..n : f[i] \in Int /\ g[i] = f[i], g[n + 1] = c
    PROVE  SumTo(n + 1, g) = SumTo(n, f) + c
<1>1. PICK s : Partial(g, n + 1, s) /\ SumTo(n + 1, g) = s[n + 1] BY SumPartial
<1>2. PICK t : Partial(g, n, t) /\ SumTo(n, g) = t[n] BY SumPartial
<1> DEFINE T == {k \in Nat : k <= n /\ s[k] # t[k]}
<1>3. ASSUME T # {} PROVE FALSE
  <2>1. PICK k \in T : \A y \in T : k <= y BY <1>3, LeastNat
  <2>2. k # 0 BY <1>1, <1>2, <2>1 DEF Partial
  <2>3. k \in 0..n /\ k \in 0..(n + 1) /\ k - 1 \in Nat /\ k - 1 <= n /\ k - 1 \notin T BY <2>1, <2>2
  <2>4. s[k] = s[k - 1] + g[k] /\ t[k] = t[k - 1] + g[k] BY <1>1, <1>2, <2>2, <2>3 DEF Partial
  <2> QED BY <2>1, <2>3, <2>4
<1>4. n \notin T BY <1>3
<1>5. n + 1 \in 0..(n + 1) /\ n + 1 # 0 /\ (n + 1) - 1 = n OBVIOUS
<1>6. s[n + 1] = s[n] + c BY <1>1, <1>5 DEF Partial
<1>7. SumTo(n, g) = SumTo(n, f) BY SumEqual
<1>8. s[n] = t[n] BY <1>4
<1> QED BY <1>1, <1>2, <1>6, <1>7, <1>8

\* The first number is added first.
LEMMA SumFirst ==
    ASSUME NEW n \in Nat, NEW f, NEW g,
           \A i \in 1..(n + 1) : f[i] \in Int, \A i \in 1..n : g[i] = f[i + 1]
    PROVE  SumTo(n + 1, f) = f[1] + SumTo(n, g)
<1>1. PICK s : Partial(f, n + 1, s) /\ SumTo(n + 1, f) = s[n + 1] BY SumPartial
<1>2. PICK t : Partial(g, n, t) /\ SumTo(n, g) = t[n] BY SumPartial
<1> DEFINE T == {k \in Nat : k <= n /\ ~(t[k] \in Int /\ s[k + 1] = f[1] + t[k])}
<1>0. f[1] \in Int OBVIOUS
<1>3. ASSUME T # {} PROVE FALSE
  <2>1. PICK k \in T : \A y \in T : k <= y BY <1>3, LeastNat
  <2>2. k # 0
    <3>1. 0 \in 0..(n + 1) /\ 1 \in 0..(n + 1) /\ 1 - 1 = 0 /\ 0 \in 0..n /\ 0 + 1 = 1 OBVIOUS
    <3>2. s[0] = 0 /\ s[1] = s[0] + f[1] /\ t[0] = 0 BY <1>1, <1>2, <3>1 DEF Partial
    <3> QED BY <1>0, <2>1, <3>1, <3>2
  <2>3. k \in 1..n /\ k + 1 \in 1..(n + 1) /\ k - 1 \in Nat /\ k - 1 <= n /\ k - 1 \notin T /\ (k - 1) + 1 = k
    BY <2>1, <2>2
  <2>4. s[k + 1] = s[k] + f[k + 1]
    <3>1. k + 1 \in 0..(n + 1) /\ k + 1 # 0 /\ (k + 1) - 1 = k BY <2>3
    <3> QED BY <1>1, <3>1 DEF Partial
  <2>5. t[k] = t[k - 1] + g[k] BY <1>2, <2>3 DEF Partial
  <2>6. t[k - 1] \in Int /\ s[k] = f[1] + t[k - 1] BY <2>3
  <2>7. g[k] = f[k + 1] /\ f[k + 1] \in Int BY <2>3
  <2>8. t[k] \in Int /\ s[k + 1] = f[1] + t[k] BY <1>0, <2>4, <2>5, <2>6, <2>7
  <2> QED BY <2>1, <2>8
<1>4. n \notin T BY <1>3
<1> QED BY <1>1, <1>2, <1>4

\* One of n numbers is greatest.
LEMMA GreatestOf ==
    ASSUME NEW n \in Nat \ {0}, NEW f, \A i \in 1..n : f[i] \in Int
    PROVE  \E q \in 1..n : \A p \in 1..n : f[p] <= f[q]
<1> DEFINE Best(k) == \E q \in 1..k : \A p \in 1..k : f[p] <= f[q]
           T == {k \in Nat : 1 <= k /\ k <= n /\ ~Best(k)}
<1>1. ASSUME T # {} PROVE FALSE
  <2>1. PICK k \in T : \A y \in T : k <= y BY <1>1, LeastNat
  <2>2. k # 1 BY <2>1
  <2>0. k \in Nat /\ 1 <= k /\ k <= n BY <2>1
  <2>3. k - 1 \in Nat /\ 1 <= k - 1 /\ k - 1 <= n BY <2>0, <2>2
  <2>9. Best(k - 1)
    <3>1. ~(k <= k - 1) BY <2>0
    <3>2. k - 1 \notin T BY <2>1, <3>1
    <3> HIDE DEF Best
    <3> QED BY <2>3, <3>2
  <2>4. PICK q \in 1..(k - 1) : \A p \in 1..(k - 1) : f[p] <= f[q] BY <2>9
  <2>5. k \in 1..n /\ q \in 1..n /\ f[k] \in Int /\ f[q] \in Int /\ q \in 1..k /\ k \in 1..k BY <2>1, <2>3, <2>4
  <2>6. \A p \in 1..k : p = k \/ p \in 1..(k - 1) BY <2>5
  <2>7. CASE f[k] <= f[q]
    <3>1. \A p \in 1..k : f[p] <= f[q] BY <2>4, <2>6, <2>7
    <3> QED BY <2>1, <2>5, <3>1
  <2>8. CASE f[q] <= f[k]
    <3>1. \A p \in 1..(k - 1) : p \in 1..n /\ f[p] \in Int BY <2>5
    <3>2. \A p \in 1..k : f[p] <= f[k] BY <2>4, <2>5, <2>6, <2>8, <3>1
    <3> QED BY <2>1, <2>5, <3>2
  <2> QED BY <2>5, <2>7, <2>8
<1>2. n \notin T BY <1>1
<1> QED BY <1>2

\* The least element of a set of naturals, as Min chooses it.
LEMMA MinNat ==
    ASSUME NEW T \in SUBSET Nat, T # {}
    PROVE  Min(T) \in T /\ \A y \in T : Min(T) <= y
BY LeastNat DEF Min

\* The greatest element of a bounded set of naturals, as Max chooses it.
LEMMA MaxNat ==
    ASSUME NEW n \in Nat, NEW T \in SUBSET (0..n), T # {}
    PROVE  Max(T) \in T /\ \A y \in T : y <= Max(T)
<1> DEFINE U == {k \in 0..n : n - k \in T}
<1>1. U \in SUBSET Nat /\ U # {}
  <2>1. PICK y \in T : TRUE OBVIOUS
  <2>2. n - y \in 0..n /\ n - (n - y) = y OBVIOUS
  <2>3. n - y \in U BY <2>1, <2>2
  <2>4. \A k \in 0..n : k \in Nat OBVIOUS
  <2> QED BY <2>3, <2>4
<1>2. PICK k \in U : \A j \in U : k <= j BY <1>1, LeastNat
<1>3. \A y \in T : n - k >= y
  <2> TAKE y \in T
  <2>1. n - y \in 0..n /\ n - (n - y) = y OBVIOUS
  <2>2. k <= n - y BY <1>2, <2>1
  <2> QED BY <2>1, <2>2
<1>4. n - k \in T OBVIOUS
<1> HIDE DEF U
<1>5. \E x \in T : \A y \in T : x >= y BY <1>3, <1>4
<1>6. Max(T) \in T /\ \A y \in T : Max(T) >= y BY <1>5 DEF Max
<1>7. \A y \in 0..n : y \in Int OBVIOUS
<1> QED BY <1>6, <1>7

\* The greatest element of a finite set of naturals, as Max chooses it.
LEMMA MaxFinite ==
    ASSUME NEW T \in SUBSET Nat, T # {}, IsFiniteSet(T)
    PROVE  Max(T) \in T /\ \A y \in T : y <= Max(T)
<1> DEFINE n == Cardinality(T)
<1>1. n \in Nat /\ ExistsBijection(1..n, T) BY FS_CardinalityType
<1>2. PICK b \in [1..n -> T] : \A y \in T : \E i \in 1..n : b[i] = y
  BY <1>1 DEF ExistsBijection, Bijection, Injection, Surjection
<1>3. n # 0
  <2>1. PICK y \in T : TRUE OBVIOUS
  <2>2. PICK i \in 1..n : b[i] = y BY <1>2, <2>1
  <2> QED BY <1>1, <2>2
<1> HIDE DEF n
<1>9. \A y \in T : y \in Int OBVIOUS
<1>4. \A i \in 1..n : b[i] \in T /\ b[i] \in Int
  <2> TAKE i \in 1..n
  <2>1. b[i] \in T BY <1>2
  <2> QED BY <1>9, <2>1
<1>5. PICK q \in 1..n : \A p \in 1..n : b[p] <= b[q] BY <1>1, <1>3, <1>4, GreatestOf
<1>6. \A y \in T : b[q] >= y
  <2> TAKE y \in T
  <2>1. PICK i \in 1..n : b[i] = y BY <1>2
  <2>2. b[i] <= b[q] /\ b[i] \in Int /\ b[q] \in Int BY <1>4, <1>5
  <2> QED BY <2>1, <2>2
<1>7. b[q] \in T BY <1>4
<1>8. Max(T) \in T /\ \A y \in T : Max(T) >= y BY <1>6, <1>7 DEF Max
<1> QED BY <1>8

-------------------------------------------------------------------------------
(* Sequences.                                                                 *)

\* Appending adds one element to the range, and keeps a sequence without
\* repetitions one, if the element is new.
LEMMA RangeAppend ==
    ASSUME NEW S, NEW s \in Seq(S), NEW x \in S
    PROVE  /\ Append(s, x) \in Seq(S)
           /\ Range(Append(s, x)) = Range(s) \cup {x}
           /\ IsInjective(s) /\ x \notin Range(s) => IsInjective(Append(s, x))
<1> DEFINE t == Append(s, x)
<1>1. /\ t \in Seq(S) /\ Len(s) \in Nat /\ DOMAIN s = 1..Len(s) /\ DOMAIN t = 1..(Len(s) + 1)
      /\ \A i \in 1..Len(s) : t[i] = s[i]
      /\ t[Len(s) + 1] = x
  OBVIOUS
<1> HIDE DEF t
<1>2. Range(t) = Range(s) \cup {x}
  <2>1. \A i \in DOMAIN t : i \in DOMAIN s \/ i = Len(s) + 1 BY <1>1
  <2>2. \A i \in DOMAIN s : i \in DOMAIN t BY <1>1
  <2>3. Len(s) + 1 \in DOMAIN t BY <1>1
  <2> QED BY <1>1, <2>1, <2>2, <2>3 DEF Range
<1>3. ASSUME IsInjective(s), x \notin Range(s) PROVE IsInjective(t)
  <2>1. \A i \in DOMAIN t : i \in DOMAIN s \/ i = Len(s) + 1 BY <1>1
  <2>2. \A i \in DOMAIN s : s[i] # x BY <1>3 DEF Range
  <2> QED BY <1>1, <1>3, <2>1, <2>2 DEF IsInjective
<1> QED BY <1>1, <1>2, <1>3 DEF t

\* Without repetitions, the tail has all elements but the head.
LEMMA RangeTail ==
    ASSUME NEW S, NEW s \in Seq(S), s # <<>>
    PROVE  /\ Tail(s) \in Seq(S) /\ Head(s) \in S /\ Head(s) \in Range(s)
           /\ IsInjective(s) => /\ Range(Tail(s)) = Range(s) \ {Head(s)}
                                /\ IsInjective(Tail(s))
<1> DEFINE t == Tail(s)
<1>1. /\ t \in Seq(S) /\ Len(s) \in Nat \ {0} /\ DOMAIN s = 1..Len(s) /\ DOMAIN t = 1..(Len(s) - 1)
      /\ \A i \in DOMAIN t : t[i] = s[i + 1] /\ i + 1 \in DOMAIN s
      /\ Head(s) = s[1] /\ 1 \in DOMAIN s /\ s[1] \in S
  OBVIOUS
<1> HIDE DEF t
<1>2. Head(s) \in Range(s) BY <1>1 DEF Range
<1>3. ASSUME IsInjective(s) PROVE Range(t) = Range(s) \ {s[1]} /\ IsInjective(t)
  <2>1. \A i \in DOMAIN s : i # 1 => i - 1 \in DOMAIN t /\ t[i - 1] = s[i] BY <1>1
  <2>2. \A i \in DOMAIN t : i + 1 # 1 BY <1>1
  <2>3. \A i \in DOMAIN s : i # 1 => s[i] # s[1] BY <1>1, <1>3 DEF IsInjective
  <2>4. \A y : y \in Range(t) => y \in Range(s) /\ y # s[1] BY <1>1, <2>2, <2>3 DEF Range
  <2>5. \A y : y \in Range(s) /\ y # s[1] => y \in Range(t) BY <1>1, <2>1 DEF Range
  <2>6. \A i, j \in DOMAIN t : i + 1 = j + 1 => i = j BY <1>1
  <2>7. IsInjective(t) BY <1>1, <1>3, <2>6 DEF IsInjective
  <2> QED BY <2>4, <2>5, <2>7
<1> QED BY <1>1, <1>2, <1>3 DEF t

\* A sequence that is not empty is its front and its last element.
LEMMA FrontLast ==
    ASSUME NEW S, NEW s \in Seq(S), s # <<>>
    PROVE  /\ Len(s) \in Nat \ {0} /\ DOMAIN s = 1..Len(s)
           /\ Last(s) = s[Len(s)] /\ Last(s) \in S /\ Len(s) \in DOMAIN s
           /\ Front(s) \in Seq(S) /\ Len(Front(s)) = Len(s) - 1
           /\ DOMAIN Front(s) = 1..(Len(s) - 1)
           /\ \A i \in 1..(Len(s) - 1) : Front(s)[i] = s[i]
<1>1. Len(s) \in Nat \ {0} /\ DOMAIN s = 1..Len(s) /\ Len(s) \in DOMAIN s OBVIOUS
<1>2. Last(s) = s[Len(s)] /\ Last(s) \in S BY <1>1 DEF Last
<1>3. /\ Front(s) \in Seq(S) /\ Len(Front(s)) = Len(s) - 1
      /\ \A i \in 1..(Len(s) - 1) : Front(s)[i] = s[i]
  BY <1>1 DEF Front
<1>4. DOMAIN Front(s) = 1..(Len(s) - 1) BY <1>1, <1>3
<1> QED BY <1>1, <1>2, <1>3, <1>4

\* Without repetitions, the front has all elements but the last.
LEMMA RangeFront ==
    ASSUME NEW S, NEW s \in Seq(S), s # <<>>
    PROVE  /\ Front(s) \in Seq(S) /\ Last(s) \in S /\ Last(s) \in Range(s)
           /\ IsInjective(s) => /\ Range(Front(s)) = Range(s) \ {Last(s)}
                                /\ IsInjective(Front(s))
<1> DEFINE t == Front(s)
           n == Len(s)
<1>1. /\ t \in Seq(S) /\ n \in Nat \ {0} /\ DOMAIN s = 1..n /\ DOMAIN t = 1..(n - 1)
      /\ \A i \in DOMAIN t : t[i] = s[i] /\ i \in DOMAIN s /\ i # n
      /\ Last(s) = s[n] /\ n \in DOMAIN s /\ s[n] \in S
  BY DEF Front, Last
<1> HIDE DEF t, n
<1>2. Last(s) \in Range(s) BY <1>1 DEF Range
<1>3. ASSUME IsInjective(s) PROVE Range(t) = Range(s) \ {s[n]} /\ IsInjective(t)
  <2>1. \A i \in DOMAIN s : i # n => i \in DOMAIN t BY <1>1
  <2>3. \A i \in DOMAIN s : i # n => s[i] # s[n] BY <1>1, <1>3 DEF IsInjective
  <2>4. \A y : y \in Range(t) => y \in Range(s) /\ y # s[n] BY <1>1, <2>3 DEF Range
  <2>5. \A y : y \in Range(s) /\ y # s[n] => y \in Range(t) BY <1>1, <2>1 DEF Range
  <2>7. IsInjective(t) BY <1>1, <1>3 DEF IsInjective
  <2> QED BY <2>4, <2>5, <2>7
<1> QED BY <1>1, <1>2, <1>3 DEF t

\* Without repetitions, the sequence less its i-th element has all the others.
LEMMA RangeRemoveAt ==
    ASSUME NEW S, NEW s \in Seq(S), NEW i \in DOMAIN s
    PROVE  /\ RemoveAt(s, i) \in Seq(S) /\ s[i] \in S /\ s[i] \in Range(s)
           /\ IsInjective(s) => /\ Range(RemoveAt(s, i)) = Range(s) \ {s[i]}
                                /\ IsInjective(RemoveAt(s, i))
<1> DEFINE n == Len(s)
           a == SubSeq(s, 1, i - 1)
           b == SubSeq(s, i + 1, n)
           t == RemoveAt(s, i)
<1>0. n \in Nat /\ DOMAIN s = 1..n /\ i \in 1..n /\ s[i] \in S OBVIOUS
<1>1. a \in Seq(S) /\ Len(a) = i - 1 /\ \A j \in 1..(i - 1) : a[j] = s[j]
  BY <1>0
<1>2. b \in Seq(S) /\ Len(b) = n - i /\ \A j \in 1..(n - i) : b[j] = s[i + j]
  BY <1>0
<1>3. t = a \o b BY DEF RemoveAt
<1> HIDE DEF a, b, n, t
<1>4. /\ t \in Seq(S) /\ Len(t) = n - 1 /\ DOMAIN t = 1..(n - 1)
      /\ \A j \in 1..(i - 1) : t[j] = s[j]
      /\ \A j \in i..(n - 1) : t[j] = s[j + 1]
  <2>1. t \in Seq(S) /\ Len(t) = n - 1 /\ DOMAIN t = 1..(n - 1)
    <3>1. t \in Seq(S) /\ Len(t) = Len(a) + Len(b) BY <1>1, <1>2, <1>3, ConcatProperties
    <3>2. Len(t) = n - 1 BY <1>0, <1>1, <1>2, <3>1
    <3> QED BY <3>1, <3>2
  <2>2. \A j \in 1..(i - 1) : t[j] = s[j] BY <1>0, <1>1, <1>2, <1>3
  <2>3. ASSUME NEW j \in i..(n - 1) PROVE t[j] = s[j + 1]
    <3>1. t[j] = b[j - (i - 1)] BY <1>0, <1>1, <1>2, <1>3
    <3>2. j - (i - 1) \in 1..(n - i) /\ i + (j - (i - 1)) = j + 1 BY <1>0
    <3> QED BY <1>2, <3>1, <3>2
  <2> QED BY <2>1, <2>2, <2>3
<1>5. ASSUME NEW j \in DOMAIN t
      PROVE  \/ j < i /\ j \in DOMAIN s /\ t[j] = s[j]
             \/ j >= i /\ j + 1 \in DOMAIN s /\ t[j] = s[j + 1]
  BY <1>0, <1>4
<1>6. ASSUME NEW j \in DOMAIN s, j # i
      PROVE  \E k \in DOMAIN t : t[k] = s[j]
  <2>1. CASE j < i BY <1>0, <1>4, <2>1
  <2>2. CASE j > i
    <3>1. j - 1 \in i..(n - 1) /\ j - 1 + 1 = j /\ j - 1 \in DOMAIN t BY <1>0, <1>4, <2>2
    <3> QED BY <1>4, <3>1
  <2> QED BY <1>0, <1>6, <2>1, <2>2
<1>7. ASSUME IsInjective(s) PROVE Range(t) = Range(s) \ {s[i]} /\ IsInjective(t)
  <2>1. \A j \in DOMAIN s : j # i => s[j] # s[i] BY <1>0, <1>7 DEF IsInjective
  <2>2. \A y : y \in Range(t) => y \in Range(s) /\ y # s[i]
    BY <1>0, <1>4, <1>5, <2>1 DEF Range
  <2>3. \A y : y \in Range(s) /\ y # s[i] => y \in Range(t) BY <1>6 DEF Range
  <2>4. ASSUME NEW j \in DOMAIN t, NEW k \in DOMAIN t, t[j] = t[k] PROVE j = k
    BY <1>0, <1>4, <1>5, <1>7, <2>4 DEF IsInjective
  <2> QED BY <2>2, <2>3, <2>4 DEF IsInjective
<1>8. s[i] \in Range(s) BY DEF Range
<1> QED BY <1>0, <1>4, <1>7, <1>8 DEF t

-------------------------------------------------------------------------------
(* Functions made step by step.                                              *)

\* a starts at b and goes on as h says.
Steps(D, n, b, h, a) ==
    a \in [0..n -> D] /\ a[0] = b /\ \A i \in 1..n : a[i] = h[i][a[i - 1]]

\* There is such an a.
LEMMA StepsExist ==
    ASSUME NEW n \in Nat, NEW D, NEW b \in D, NEW h \in [1..n -> [D -> D]]
    PROVE  \E a : Steps(D, n, b, h, a)
<1> DEFINE Made(k, a) == a \in [0..k -> D] /\ a[0] = b /\ \A i \in 1..k : a[i] = h[i][a[i - 1]]
           T == {k \in Nat : k <= n /\ ~\E a : Made(k, a)}
<1>1. \E a : Made(0, a)
  <2>1. PICK a : a = [i \in 0..0 |-> b] OBVIOUS
  <2>2. Made(0, a) BY <2>1
  <2> QED BY <2>2
<1>2. ASSUME NEW k \in Nat, 1 <= k, k <= n, NEW a, Made(k - 1, a) PROVE \E u : Made(k, u)
  <2>1. PICK u : u = [i \in 0..k |-> IF i = k THEN h[k][a[k - 1]] ELSE a[i]] OBVIOUS
  <2>2. k \in 1..n /\ k - 1 \in 0..(k - 1) /\ a[k - 1] \in D BY <1>2
  <2>3. h[k][a[k - 1]] \in D BY <2>2
  <2>4. \A i \in 0..k : i = k \/ (i \in 0..(k - 1) /\ i # k) BY <1>2
  <2>5. DOMAIN u = 0..k /\ u[k] = h[k][a[k - 1]] /\ \A i \in 0..(k - 1) : u[i] = a[i] BY <1>2, <2>1
  <2>6. u \in [0..k -> D] BY <1>2, <2>1, <2>3, <2>4
  <2>7. u[0] = b BY <1>2, <2>5
  <2>8. ASSUME NEW i \in 1..k PROVE u[i] = h[i][u[i - 1]]
    <3>1. i - 1 \in 0..(k - 1) /\ (i = k \/ i \in 1..(k - 1)) BY <1>2
    <3>2. i \in 1..(k - 1) => i \in 0..(k - 1) /\ a[i] = h[i][a[i - 1]] BY <1>2
    <3> QED BY <2>5, <3>1, <3>2
  <2> QED BY <2>6, <2>7, <2>8
<1> HIDE DEF Made
<1>3. ASSUME T # {} PROVE FALSE
  <2>1. PICK k \in T : \A y \in T : k <= y BY <1>3, LeastNat
  <2>2. k # 0 BY <1>1, <2>1
  <2>3. k \in Nat /\ k <= n /\ 1 <= k /\ k - 1 \in Nat /\ k - 1 <= n /\ k - 1 \notin T BY <2>1, <2>2
  <2>4. PICK a : Made(k - 1, a) BY <2>3
  <2> QED BY <1>2, <2>1, <2>3, <2>4
<1>4. n \notin T BY <1>3
<1>5. PICK a : Made(n, a) BY <1>4
<1> QED BY <1>5 DEF Made, Steps
===============================================================================
