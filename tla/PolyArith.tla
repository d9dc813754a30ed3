------------------------------- MODULE PolyArith -------------------------------
(* Polynomials over GF(2), as utils.C computes with them.  A POLY is a word   *)
(* of W bits, here the set of the exponents in it; a long polynomial is a     *)
(* vector of words, the most significant word first.  Each function works on  *)
(* the words as the code does, carries and alignments included; Val gives the *)
(* polynomial that a vector stands for, as a set of exponents.                *)
EXTENDS Integers, Sequences, FiniteSets, FiniteSetsExt

CONSTANT W      \* bits in a word: 8 * sizeof(POLY)

Bits == 0..(W - 1)
POLY == SUBSET Bits
ZERO == << {} >>
ONE == << {0} >>

Xor(a, b) == (a \ b) \cup (b \ a)
Shl(a, n) == {i + n : i \in a}
Shr(a, n) == {i - n : i \in {j \in a : j >= n}}
Low(a) == a \cap Bits       \* & lowerBitsMask
High(a) == Shr(a, W)        \* >> (sizeof(POLY) * 8)

\* The product of two words in an unsigned long long.
Product(a, b) == {k \in 0..(2 * W - 2) : Cardinality({i \in a : k - i \in b}) % 2 = 1}

Val(v) == UNION {Shl(v[i], W * (Len(v) - i)) : i \in DOMAIN v}

-------------------------------------------------------------------------------
\* getDegree of a word; the mask runs out at -1 for the zero polynomial.
degree(z) == IF z = {} THEN -1 ELSE Max(z)

getDegree(v) == (Len(v) - 1) * W + degree(v[1])

\* Multiplication by a word, from the last word to the first, with a carry that
\* becomes a new first word.
multiplyWord(v, m) ==
    LET product[i \in 1..(Len(v) + 1)] ==
            IF i = Len(v) + 1 THEN {} ELSE Xor(High(product[i + 1]), Product(m, v[i]))
        words == [i \in 1..Len(v) |-> Low(product[i])]
    IN IF High(product[1]) = {} THEN words ELSE <<High(product[1])>> \o words

shiftLeft(v, n) ==
    LET moved == [i \in 1..Len(v) |-> Low(Shl(v[i], n))
                      \cup (IF i < Len(v) THEN High(Shl(v[i + 1], n)) ELSE {})]
    IN CASE n = 0 -> v
         [] n = W -> Append(v, {})
         [] OTHER -> IF v # <<>> /\ High(Shl(v[1], n)) # {}
                     THEN <<High(Shl(v[1], n))>> \o moved ELSE moved

\* The bits shifted out at the end go into a new last word; one empty leading
\* word is removed.
shiftRight(v, n) ==
    LET moved == [i \in 1..Len(v) |-> Shr(v[i], n)
                      \cup (IF i > 1 THEN Low(Shl(v[i - 1], W - n)) ELSE {})]
        out == IF v = <<>> THEN {} ELSE Low(Shl(v[Len(v)], W - n))
        long == IF out = {} THEN moved ELSE Append(moved, out)
    IN IF n \in {0, W} THEN v
       ELSE IF long # <<>> /\ long[1] = {} THEN Tail(long) ELSE long

\* x ^= y, aligned at the last words.
addPoly(x, y) ==
    LET n == Max({Len(x), Len(y)})
        at(v, i) == IF i > n - Len(v) THEN v[i - (n - Len(v))] ELSE {}
    IN [i \in 1..n |-> Xor(at(x, i), at(y, i))]

\* Mutant: the words of g are not shifted.
multiplyPoly_unshifted(f, g) ==
    LET res[i \in 0..Len(g)] == IF i = 0 THEN <<>> ELSE addPoly(res[i - 1], multiplyWord(f, g[i]))
    IN res[Len(g)]

multiplyPoly(f, g) ==
    LET res[i \in 0..Len(g)] ==
            IF i = 0 THEN <<>>
            ELSE LET r == addPoly(res[i - 1], multiplyWord(f, g[i]))
                 IN IF i < Len(g) THEN shiftLeft(r, W) ELSE r
    IN res[Len(g)]

-------------------------------------------------------------------------------
(* Long division: r is cleared from bit k = deg f down to deg g, and gtemp,   *)
(* aligned with the leading bit of f, moves right with k.                     *)

aligned(f, g) ==
    IF degree(f[1]) > degree(g[1]) THEN shiftLeft(g, degree(f[1]) - degree(g[1]))
                                   ELSE shiftRight(g, degree(g[1]) - degree(f[1]))

\* One pass of the loop at bit k; i is the word that holds the bit.
DivStep(d, k) ==
    LET set == k % W \in d.r[d.i]
        r == [w \in DOMAIN d.r |->
                 IF set /\ w >= d.i /\ w - d.i + 1 <= Len(d.gtemp)
                 THEN Xor(d.r[w], d.gtemp[w - d.i + 1]) ELSE d.r[w]]
        q == shiftLeft(d.q, 1)
    IN [r |-> r, gtemp |-> shiftRight(d.gtemp, 1),
        i |-> IF k % W = 0 THEN d.i + 1 ELSE d.i,
        q |-> IF set THEN [q EXCEPT ![Len(q)] = @ \cup {0}] ELSE q]

Divide(f, g) ==
    LET fd == getDegree(f)  gd == getDegree(g)
        loop[n \in 0..(fd - gd + 1)] ==
            IF n = 0 THEN [r |-> f, gtemp |-> aligned(f, g), i |-> 1, q |-> ZERO]
            ELSE DivStep(loop[n - 1], fd - n + 1)
    IN loop[fd - gd + 1]

\* Leading empty words are removed, the last word stays.
strip(r) ==
    LET first == Min({Len(r)} \cup {i \in DOMAIN r : r[i] # {}})
    IN SubSeq(r, first, Len(r))

remainder(f, g) == IF getDegree(f) < getDegree(g) THEN f ELSE strip(Divide(f, g).r)

quotient(f, g) == Divide(f, g).q

RECURSIVE gcd(_, _)
gcd(f, g) == IF g = ZERO THEN f ELSE gcd(g, remainder(f, g))

gcdSpecial(f, g) == IF getDegree(f) >= getDegree(g) THEN gcd(f, g) ELSE gcd(g, f)

\* lcm(t, s) with the gcd given: the new value of t.
lcmSpecial(t, s, g) ==
    IF t = ONE /\ s = ONE THEN t
    ELSE multiplyPoly(t, IF getDegree(s) >= getDegree(g) THEN quotient(s, g) ELSE quotient(g, s))

lcm(t, s) == IF t = ONE /\ s = ONE THEN t ELSE lcmSpecial(t, s, gcdSpecial(t, s))

-------------------------------------------------------------------------------
\* findMod: the bits of a text, the least significant bit of each byte first,
\* reduced modulo z while they are read.  bits is the set of the positions of
\* the bits that are set, n their number.
findMod(bits, n, z) ==
    LET d == degree(z)
        modMask == z \ {d}
        resMask[k \in d..(n + d)] ==
            IF k = d THEN modMask
            ELSE LET m == Shl(resMask[k - 1], 1)
                 IN IF d \in m THEN Xor(m \ {d}, modMask) ELSE m
        res[k \in 0..n] ==
            IF k = 0 THEN {}
            ELSE IF k - 1 \notin bits THEN res[k - 1]
            ELSE IF k - 1 < d THEN res[k - 1] \cup {k - 1}
            ELSE Xor(res[k - 1], resMask[k - 1])
    IN res[n]

\* modularMultPoly: x * y modulo a z of the highest degree a word can have
\* (testPoly = 1 << MAXMODDEGREE), by doubling x.
modularMultPoly(x, y, z) ==
    LET top == W - 1
        modMask == Xor(z, {top})
        x1[k \in 0..W] ==
            IF k = 0 THEN x
            ELSE LET m == Low(Shl(x1[k - 1], 1)) IN IF top \in m THEN Xor(m \ {top}, modMask) ELSE m
        res[k \in 0..W] ==
            IF k = 0 THEN {}
            ELSE IF k - 1 \in y THEN Xor(res[k - 1], x1[k - 1]) ELSE res[k - 1]
    IN res[W]

-------------------------------------------------------------------------------
(* What the index takes from them.                                            *)

\* The similarity of two signatures: the degree of their gcd, or its share of
\* the degree of their lcm, scaled.
Scale == 1000   \* stands for INT_MAX - 1

pSim(s1, s2, g, isMetric) ==
    IF isMetric THEN (Scale * getDegree(g)) \div getDegree(lcm(lcm(ONE, s1), s2)) ELSE getDegree(g)

\* The same from the gcd alone; s1 becomes the lcm.
pSimOpt(s1, s2, g, isMetric) ==
    IF isMetric THEN (Scale * getDegree(g)) \div getDegree(lcmSpecial(s1, s2, g)) ELSE getDegree(g)

\* The child for a signature: the first of the most similar entries, or one of
\* them with a smaller degree.  entries is a sequence of [key, sig]; the value
\* is an index, 0 for "NULL".
pickChild(entries, sig, isMetric) ==
    LET deg(i) == pSim(entries[i].sig, sig, gcdSpecial(entries[i].sig, sig), isMetric)
        best[i \in 0..Len(entries)] ==
            IF i = 0 THEN [child |-> 0, deg |-> -1, sigdeg |-> -1]
            ELSE LET b == best[i - 1]
                     me == [child |-> i, deg |-> deg(i), sigdeg |-> getDegree(entries[i].sig)]
                 IN IF me.deg > b.deg \/ (me.deg = b.deg /\ me.sigdeg < b.sigdeg) THEN me ELSE b
    IN best[Len(entries)].child

\* Intervals of values <<low, high>> as signatures of the value index.
updateMBR(src, e) == <<Min({src[1], e[1]}), Max({src[2], e[2]})>>

enlargement(entrySig, sig) ==
    LET m == updateMBR(entrySig, sig) IN (m[2] - m[1]) - (entrySig[2] - entrySig[1])

\* The child for a value: the entry that would grow most, and of those the
\* shortest.
pickChildV(entries, sig) ==
    LET size(i) == entries[i].sig[2] - entries[i].sig[1]
        best[i \in 0..Len(entries)] ==
            IF i = 0 THEN [child |-> 0, e |-> -1, size |-> 0]
            ELSE LET b == best[i - 1]
                     me == [child |-> i, e |-> enlargement(entries[i].sig, sig), size |-> size(i)]
                 IN IF me.e > b.e \/ (me.e = b.e /\ me.size < b.size) THEN me ELSE b
    IN best[Len(entries)].child
===============================================================================
