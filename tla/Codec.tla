--------------------------------- MODULE Codec ---------------------------------
(* The byte strings in which utils.C packs messages, index entries, blocks    *)
(* and filters.  A buffer is a sequence of bytes; the bytes of a number are   *)
(* <<type, value, i>>, so that a field read with another type, at a wrong     *)
(* offset or past the end gives Garbage.  An encoder yields the length it     *)
(* computes for the allocation and the bytes it then writes: the two are      *)
(* separate in the code.                                                      *)
EXTENDS Integers, Sequences, FiniteSets, FiniteSetsExt, SequencesExt

Size == [int |-> 4, poly |-> 4, double |-> 8, ldouble |-> 16, uchar |-> 1, chr |-> 1, bigint |-> 8]
SizeofInterval == 6 * Size.int
Garbage == -99
NONE == -5

Field(t, v) == [i \in 1..Size[t] |-> <<t, v, i>>]
INT(v) == Field("int", v)
Chars(s) == FlattenSeq([i \in DOMAIN s |-> Field("chr", s[i])])
Lstr(s) == INT(Len(s)) \o Chars(s)                              \* <size><key>
Polys(sig) == FlattenSeq([i \in DOMAIN sig |-> Field("poly", sig[i])])
Lsig(sig) == INT(Len(sig) * Size.poly) \o Polys(sig)            \* <size><sig>
INTs(v) == FlattenSeq([i \in DOMAIN v |-> INT(v[i])])           \* a struct Interval

At(b, t, p) ==
    IF /\ p >= 1 /\ p + Size[t] - 1 <= Len(b)
       /\ \A i \in 1..Size[t] : b[p + i - 1] = <<t, b[p][2], i>>
    THEN b[p][2] ELSE Garbage
IntAt(b, p) == At(b, "int", p)
VecAt(b, t, p, n) == [i \in 1..n |-> At(b, t, p + (i - 1) * Size[t])]
StrAt(b, p) == [v |-> VecAt(b, "chr", p + 4, IntAt(b, p)), next |-> p + 4 + IntAt(b, p)]
SigAt(b, p) == [v |-> VecAt(b, "poly", p + 4, IntAt(b, p) \div Size.poly), next |-> p + 4 + IntAt(b, p)]

-------------------------------------------------------------------------------
(* Index entries and headers (psi.C, dhblock_noauth_srv.C).                   *)

\* <size><key><size><value>; value is a string.
getKeyValue(b) == LET k == StrAt(b, 1) IN [key |-> k.v, val |-> StrAt(b, k.next).v]
\* The same from a const char *.
getKeyValuePtr(b) == LET k == StrAt(b, 1) IN [key |-> k.v, val |-> StrAt(b, k.next).v]
getKeyOnly(b) == StrAt(b, 1).v
getKeyValueSpecial(b) == StrAt(b, 1).v
getKeyValueSig(b) == LET k == StrAt(b, 1) IN [key |-> k.v, sig |-> SigAt(b, k.next).v]
getInterval(b, p) == VecAt(b, "int", p, 6)

head(type) == IF type = NONE THEN <<>> ELSE INT(type)
headLen(type) == IF type = NONE THEN 0 ELSE Size.int

makeKeyValueSig(key, sig, type) ==
    [len |-> headLen(type) + 4 + Len(key) + 4 + Len(sig) * Size.poly,
     buf |-> head(type) \o Lstr(key) \o Lsig(sig)]

makeKeyValueSigInt(key, sig, myInt, type) ==
    [len |-> headLen(type) + 4 + SizeofInterval + Len(key) + 4 + Len(sig) * Size.poly,
     buf |-> head(type) \o INTs(myInt) \o Lstr(key) \o Lsig(sig)]

\* The header of a node with a request type, and without.
makeKeyValueHdr(key, val, type) ==
    [len |-> 4 + 4 + Len(key) + 4 + SizeofInterval,
     buf |-> INT(type) \o Lstr(key) \o INT(SizeofInterval) \o INTs(val)]
makeKeyValueInt(key, val) ==
    [len |-> 4 + Len(key) + 4 + SizeofInterval,
     buf |-> Lstr(key) \o INT(SizeofInterval) \o INTs(val)]

\* A document: text hash, signature and number.  The length counts a type even
\* if none is written.
makeKeyValueText(textHash, sig, docId, type) ==
    [len |-> 4 + 4 + Len(textHash) * Size.poly + 4 + Len(sig) * Size.poly + 4,
     buf |-> head(type) \o INT(Len(textHash)) \o Polys(textHash)
             \o INT(Len(sig)) \o Polys(sig) \o INT(docId)]

\* Entries of a node, chosen by ids (1-based here); negative ids are skipped.
chosen(entries, ids) == LET ok == SelectSeq(ids, LAMBDA i : i >= 0) IN [i \in DOMAIN ok |-> entries[ok[i]]]

makeKeyValueEntries(entries, ids, type) ==
    LET e == chosen(entries, ids) IN
    [len |-> 4 + FoldSeq(LAMBDA x, n : n + Len(x) + 4, 0, e),
     buf |-> INT(type) \o FlattenSeq([i \in DOMAIN e |-> INT(Len(e[i])) \o e[i]])]

\* The same with the keys only.
makeKeyValueSpecial(entries, ids, type) ==
    LET e == chosen(entries, ids)
        k == [i \in DOMAIN e |-> getKeyValuePtr(e[i]).key]
    IN [len |-> 4 + FoldSeq(LAMBDA x, n : n + 4 + Len(x) + 4, 0, k),
        buf |-> INT(type) \o FlattenSeq([i \in DOMAIN k |-> INT(Len(k[i]) + 4) \o Lstr(k[i])])]

\* A block is a sequence of elements with their lengths.
marshal_block(elems) ==
    [len |-> FoldSeq(LAMBDA x, n : n + Len(x) + 4, 0, elems),
     buf |-> FlattenSeq([i \in DOMAIN elems |-> INT(Len(elems[i])) \o elems[i]])]

get_payload(b, p, end) ==
    LET scan[q \in p..(end + 1)] ==
            IF q > end \/ IntAt(b, q) < 0 \/ q + 3 + IntAt(b, q) > end THEN <<>>
            ELSE <<SubSeq(b, q + 4, q + 3 + IntAt(b, q))>> \o scan[q + 4 + IntAt(b, q)]
    IN scan[p]

makeDocid(sig, docid) ==
    [len |-> 4 + Len(sig) * Size.poly + 4 + Len(docid),
     buf |-> INT(Len(sig)) \o Polys(sig) \o Lstr(docid)]
getDocid(b) ==
    LET n == IntAt(b, 1) IN [sig |-> VecAt(b, "poly", 5, n), docid |-> StrAt(b, 5 + n * Size.poly).v]

\* The push-sum pair of push_sum.C.
makeKeyValuePush(key, v1, v2, type) ==
    [len |-> 4 + 4 + Len(key) + 4 + Size.double + 4 + Size.double,
     buf |-> INT(type) \o Lstr(key) \o INT(Size.double) \o Field("double", v1)
             \o INT(Size.double) \o Field("double", v2)]
getKeyValuePush(b) ==
    LET k == StrAt(b, 1) IN
    [key |-> k.v, v1 |-> At(b, "double", k.next + 4), v2 |-> At(b, "double", k.next + 4 + 8 + 4)]
getKeyValuePushPtr(b) ==
    LET k == StrAt(b, 1) IN
    [key |-> k.v, v1 |-> At(b, "double", k.next + 4), v2 |-> At(b, "double", k.next + 4 + 8 + 4)]

-------------------------------------------------------------------------------
(* Gossip messages (gpsi.C): <type><len><key><teamid>...; the receiver        *)
(* refuses a message whose length is not the number of bytes received.        *)

getKeyValueType(b) == IntAt(b, 1)
getKeyValueLen(b) == IntAt(b, 5)
Refused == [res |-> -1]
header(type, len, key, teamid) == INT(type) \o INT(len) \o Lstr(key) \o Lstr(teamid)
keyAt(b) == StrAt(b, 9)
teamidAt(b) == StrAt(b, keyAt(b).next)

\* A list of the exec phase.
makeKeyValueList(key, teamid, list, seq, type) ==
    LET len == 4 + 4 + 4 + Len(key) + 4 + Len(teamid) + 4 + 4
               + FoldSeq(LAMBDA x, n : n + 4 + Len(x.sig) * Size.poly + 8 + 8, 0, list)
    IN [len |-> len,
        buf |-> header(type, len, key, teamid) \o INT(seq) \o INT(Len(list))
                \o FlattenSeq([i \in DOMAIN list |->
                       Lsig(list[i].sig) \o Field("double", list[i].f) \o Field("double", list[i].w)])]

getKeyValueList(b, recvlen) ==
    LET t == teamidAt(b)
        n == IntAt(b, t.next + 4)
        \* The entries up to i and where the next one starts.
        read[i \in 0..n] ==
            IF i = 0 THEN [list |-> <<>>, next |-> t.next + 8]
            ELSE LET s == SigAt(b, read[i - 1].next) IN
                 [list |-> Append(read[i - 1].list,
                             [sig |-> s.v, f |-> At(b, "double", s.next), w |-> At(b, "double", s.next + 8)]),
                  next |-> s.next + 16]
    IN IF recvlen # getKeyValueLen(b) THEN Refused
       ELSE [res |-> 0, key |-> keyAt(b).v, teamid |-> t.v, seq |-> IntAt(b, t.next), list |-> read[n].list]

\* The list of the old gpsi, without team, that halves while it writes.
makeKeyValueOld(key, list, seq, type) ==
    LET len == 4 + 4 + 4 + Len(key) + 4 + 4
               + FoldSeq(LAMBDA x, n : n + 4 + Len(x.sig) * Size.poly + 8 + 8, 0, list)
    IN [len |-> len,
        buf |-> INT(type) \o INT(len) \o Lstr(key) \o INT(seq) \o INT(Len(list))
                \o FlattenSeq([i \in DOMAIN list |-> Lsig(list[i].sig)
                       \o Field("double", list[i].f \div 2) \o Field("double", list[i].w \div 2)])]

\* A compressed list: the distinct polynomials, each with a bitmap of the
\* signatures that hold it, then the frequencies and weights in type num.
bytesFor(n) == (n + 7) \div 8       \* ceil(n / 8.0)
compressed(num, key, teamid, clist, bitmap, fw, seq, type) ==
    LET len == 4 + 4 + 4 + Len(key) + 4 + Len(teamid) + 4
               + 4 + 4 + Len(clist) * (Size.poly + bytesFor(Len(fw))) + 2 * Len(fw) * Size[num]
    IN [len |-> len,
        buf |-> header(type, len, key, teamid) \o INT(seq) \o INT(Len(fw)) \o INT(Len(clist))
                \o FlattenSeq([i \in DOMAIN clist |-> Field("poly", clist[i])
                       \o FlattenSeq([j \in DOMAIN bitmap[i] |-> Field("uchar", bitmap[i][j])])])
                \o FlattenSeq([i \in DOMAIN fw |-> Field(num, fw[i].f) \o Field(num, fw[i].w)])]

uncompressed(num, b, recvlen) ==
    LET t == teamidAt(b)
        n == IntAt(b, t.next + 4)
        m == IntAt(b, t.next + 8)
        item == Size.poly + bytesFor(n)
        p(i) == t.next + 12 + (i - 1) * item
    IN IF recvlen # getKeyValueLen(b) THEN Refused
       ELSE [res |-> 0, key |-> keyAt(b).v, teamid |-> t.v, seq |-> IntAt(b, t.next), numSigs |-> n,
             clist |-> [i \in 1..m |-> At(b, "poly", p(i))],
             bitmap |-> [i \in 1..m |-> VecAt(b, "uchar", p(i) + Size.poly, bytesFor(n))],
             fw |-> [i \in 1..n |-> [f |-> At(b, num, p(m + 1) + (2 * i - 2) * Size[num]),
                                     w |-> At(b, num, p(m + 1) + (2 * i - 1) * Size[num])]]]

makeKeyValueC(key, teamid, clist, bitmap, fw, seq, type) ==
    compressed("double", key, teamid, clist, bitmap, fw, seq, type)
getKeyValueC(b, recvlen) == uncompressed("double", b, recvlen)
\* The variants with long doubles.
makeKeyValueCL(key, teamid, clist, bitmap, fw, seq, type) ==
    compressed("ldouble", key, teamid, clist, bitmap, fw, seq, type)
getKeyValueCL(b, recvlen) == uncompressed("ldouble", b, recvlen)

\* INFORMTEAM: the key and the object of the first minhash; only the key is read.
makeKeyValueTeam(key, type) ==
    LET len == 4 + 4 + 4 + Len(key) + Size.bigint
    IN [len |-> len, buf |-> INT(type) \o INT(len) \o Lstr(key) \o Field("bigint", 0)]
getKeyValueTeam(b, recvlen) ==
    IF recvlen # getKeyValueLen(b) THEN Refused ELSE [res |-> 0, key |-> keyAt(b).v]

\* INITGOSSIP: one signature with its frequency and weight.
makeKeyValueInit(key, teamid, sig, f, w, type) ==
    LET len == 4 + 4 + 4 + Len(key) + 4 + Len(teamid) + 4 + Len(sig) * Size.poly + 8 + 8
    IN [len |-> len,
        buf |-> header(type, len, key, teamid) \o Lsig(sig) \o Field("double", f) \o Field("double", w)]
getKeyValueInit(b, recvlen) ==
    LET t == teamidAt(b)  s == SigAt(b, t.next)
    IN IF recvlen # getKeyValueLen(b) THEN Refused
       ELSE [res |-> 0, key |-> keyAt(b).v, teamid |-> t.v, sig |-> s.v,
             f |-> At(b, "double", s.next), w |-> At(b, "double", s.next + 8)]

\* QUERYS, QUERYX and QUERYXP: a signature with the DTD and query it stands for.
makeKeyValueQuery(key, teamid, dtd, sig, qid, type) ==
    LET len == 4 + 4 + 4 + Len(key) + 4 + Len(teamid) + 4 + Len(dtd) + 4 + Len(sig) * Size.poly + 4
    IN [len |-> len,
        buf |-> header(type, len, key, teamid) \o Lstr(dtd) \o Lsig(sig) \o INT(qid)]
getKeyValueQuery(b, recvlen) ==
    LET t == teamidAt(b)  d == StrAt(b, t.next)  s == SigAt(b, d.next)
    IN IF recvlen # getKeyValueLen(b) THEN Refused
       ELSE [res |-> 0, key |-> keyAt(b).v, teamid |-> t.v, dtd |-> d.v, sig |-> s.v,
             qid |-> IntAt(b, s.next)]

-------------------------------------------------------------------------------
(* Compression of a list of signatures (no empty ones).  A bitmap is a        *)
(* sequence of bytes, a byte the set of its bits, bit 0 the first (0x80).     *)

\* Each round takes the least of the heads of the signatures and removes it
\* from all of them; index holds how far each signature was read.
compressSignatures(sigs) ==
    LET open(index) == {i \in DOMAIN sigs : index[i] < Len(sigs[i])}
        rounds == FoldSeq(LAMBDA s, n : n + Len(s), 0, sigs)
        run[r \in 0..rounds] ==
            IF r = 0 THEN [index |-> [i \in DOMAIN sigs |-> 0], clist |-> <<>>, bitmap |-> <<>>]
            ELSE LET c == run[r - 1]
                     minPoly == Min({sigs[i][c.index[i] + 1] : i \in open(c.index)})
                     hit == {i \in open(c.index) : sigs[i][c.index[i] + 1] = minPoly}
                 IN IF open(c.index) = {} THEN c
                    ELSE [index |-> [i \in DOMAIN sigs |-> c.index[i] + (IF i \in hit THEN 1 ELSE 0)],
                          clist |-> Append(c.clist, minPoly),
                          bitmap |-> Append(c.bitmap, [k \in 1..bytesFor(Len(sigs)) |->
                              {(i - 1) % 8 : i \in {j \in hit : (j - 1) \div 8 = k - 1}}])]
    IN [clist |-> run[rounds].clist, bitmap |-> run[rounds].bitmap]

\* Mutant: the bitmap is one byte too short for eight signatures.
uncompressSignatures_byte(clist, bitmap, numSigs) ==
    [j \in 1..numSigs |->
        LET mine == SelectSeq([i \in DOMAIN clist |-> i],
                              LAMBDA i : j % 8 \in bitmap[i][(j - 1) \div 8 + 1])
        IN [k \in DOMAIN mine |-> clist[mine[k]]]]

uncompressSignatures(clist, bitmap, numSigs) ==
    [j \in 1..numSigs |->
        LET mine == SelectSeq([i \in DOMAIN clist |-> i],
                              LAMBDA i : (j - 1) % 8 \in bitmap[i][(j - 1) \div 8 + 1])
        IN [k \in DOMAIN mine |-> clist[mine[k]]]]

\* The compressed list alone.
makeKeyValueBitmap(clist, bitmap, numSigs) ==
    [len |-> 4 + 4 + Len(clist) * (Size.poly + bytesFor(numSigs)),
     buf |-> INT(numSigs) \o INT(Len(clist))
             \o FlattenSeq([i \in DOMAIN clist |-> Field("poly", clist[i])
                    \o FlattenSeq([j \in DOMAIN bitmap[i] |-> Field("uchar", bitmap[i][j])])])]
getKeyValueBitmap(b) ==
    LET n == IntAt(b, 1)
        p(i) == 9 + (i - 1) * (Size.poly + bytesFor(n))
    IN [numSigs |-> n,
        clist |-> [i \in 1..IntAt(b, 5) |-> At(b, "poly", p(i))],
        bitmap |-> [i \in 1..IntAt(b, 5) |-> VecAt(b, "uchar", p(i) + Size.poly, bytesFor(n))]]

-------------------------------------------------------------------------------
(* Filters sent with a fetch: words of an unsigned int array.                 *)

sigWords(sig) == <<Len(sig)>> \o sig
makeSigDataV(sigs, valSig, type) ==        \* OP is written behind the end of the string
    <<type, Len(sigs)>> \o FlattenSeq([i \in DOMAIN sigs |-> sigWords(sigs[i])]) \o sigWords(valSig)
makeSigData(sigs, type) ==
    <<type, Len(sigs)>> \o FlattenSeq([i \in DOMAIN sigs |-> sigWords(sigs[i])])
makeSigData1(sig, type) == <<type, 1>> \o sigWords(sig)
DIVISIBLEV == 2

\* The first part of executeFilter: what it reads from a filter.  OP lies behind
\* the end.
readFilter(d) ==
    LET read[i \in 0..d[2]] ==
            IF i = 0 THEN [sigs |-> <<>>, next |-> 3]
            ELSE LET p == read[i - 1].next
                 IN [sigs |-> Append(read[i - 1].sigs, SubSeq(d, p + 1, p + d[p])), next |-> p + 1 + d[p]]
        all == read[d[2]]
    IN [type |-> d[1], sigs |-> all.sigs,
        valSig |-> IF d[1] = DIVISIBLEV THEN SubSeq(d, all.next + 1, all.next + d[all.next]) ELSE <<>>]
===============================================================================
