----------------------------- MODULE MCAlgorithms -----------------------------
(* The algorithms that one peer runs alone, each on every small input: the    *)
(* loops of MergeLoop and SigSets, the query path of Queries, the table of    *)
(* nodes of LocationTable, and, on inputs x, the functions of PolyArith,      *)
(* Codec, TeamLists, SigTree and Ida against references.                      *)
EXTENDS MergeLoop, LocationTable

VARIABLES op, s1, s2, i1, i2, s1prev, s2prev, cnt, s2skip,     \* SigSets
          opt, itr, sock, log, loaded, db, est,                \* Queries
          x                                                    \* the input of a function

setVars == <<op, s1, s2, i1, i2, s1prev, s2prev, cnt, s2skip>>
queryVars == <<opt, itr, sock, log, loaded, db, est>>
algVars == <<mergeVars, setVars, queryVars, lt, x>>

-------------------------------------------------------------------------------
(* Instances.                                                                 *)

\* List i with the signatures S and the placeholders H: every entry differs from
\* every other.
ListOf(i, S, H) == [k \in S \cup {Dummy} \cup H |->
    IF k \in Holders THEN [f |-> 0, w |-> 2]
    ELSE IF k = Dummy THEN [f |-> 0, w |-> 2 * i]
    ELSE [f |-> 2 * (k + 4 ^ i), w |-> 2 * i]]

\* One, two or three lists with any signatures each, of XGossip (with placeholder)
\* or of VanillaXGossip.
MCInputs == UNION {{[i \in 1..m |-> ListOf(i, S[i], H)] : S \in [1..m -> SUBSET Sig]}
                      : m \in 1..3, H \in {{}, Holders}}

ASSUME DataAssumption == OrderAssumption /\ InputAssumption /\ TableAssumption

SS == INSTANCE SigSets WITH Poly <- {1, 2, 3}, MaxLen <- 3, n <- cnt

\* Two peers, two teams; peer 1 does not know the second.
QLists == <<[t \in {10} |-> [s \in {{1, 2}, {1, 3}} |-> [f |-> 2 * Max(s), w |-> 1]]],
            [t \in {10, 20} |-> IF t = 10 THEN [s \in {{1, 2}, {1, 3}} |-> [f |-> Max(s), w |-> 13]]
                                ELSE [s \in {{1, 3}, {2, 3}} |-> [f |-> 5, w |-> 19 + Max(s)]]]>>
QList == <<[sig |-> {1}, dtd |-> "a"], [sig |-> {1, 3}, dtd |-> "b"]>>
QHash(s) == IF s = {1} \/ s = {1, 2} THEN <<10>> ELSE IF s = {2, 3} THEN <<20>> ELSE <<10, 20>>
QOptions ==
    {[msgtype |-> "QUERYX", vanilla |-> FALSE, queryid |-> q] : q \in {-1, 1}}
    \cup {[msgtype |-> "QUERYX", vanilla |-> TRUE, queryid |-> -1],
          [msgtype |-> "QUERYXP", vanilla |-> FALSE, queryid |-> 1],
          [msgtype |-> "QUERYS", vanilla |-> FALSE, queryid |-> 1]}
Q == INSTANCE Queries WITH Peer <- {1, 2}, Lists <- QLists, queryList <- QList,
        dtd2proxysigs <- [d \in {"a", "b"} |-> {1, 3}], MaxCopies <- 2, Options <- QOptions,
        minhash <- [s \in {{1}, {1, 2}, {1, 3}, {2, 3}} |-> QHash(s)]

W == 2
PA == INSTANCE PolyArith
C == INSTANCE Codec
TL == INSTANCE TeamLists
ST == INSTANCE SigTree WITH MAXENTRIES <- 3, metric <- TRUE
IDA == INSTANCE Ida WITH BYTE <- 4, magic <- 3

-------------------------------------------------------------------------------
(* Inputs of the functions.                                                   *)

Polynomials == SUBSET (0..4)
PolyInputs == [kind : {"poly"}, f : Polynomials, g : Polynomials \ {{}}]

Words == {<<>>, <<7>>, <<7, 8>>}
SigWords == {<<3>>, <<3, 3, 9>>}
Entries == [sig : SigWords, f : {4}, w : {2, 6}]
MsgInputs == [kind : {"msg"}, key : Words \ {<<>>}, teamid : Words, seq : {0, 5}, dtd : {<<1, 2>>},
              list : UNION {[1..k -> Entries] : k \in 0..2}]

Family == <<<<3>>, <<3, 5>>, <<5, 5, 9>>, <<9>>>>
CompInputs == {[kind |-> "comp", sigs |-> [i \in 1..k |-> Family[((i * a + b) % 4) + 1]]] :
                  k \in 1..9, a \in 0..3, b \in 0..3}

\* Team states with up to three lists; every index has a team.
SmallLists == {<<>>} \cup UNION {[D -> [f : {2}, w : {1}]] : D \in SUBSET {<<2>>, <<0, 2>>}}
TeamInputs == UNION {[kind : {"team"}, totalT : [1..k -> {<<L>> : L \in SmallLists}],
                      owner : [1..k -> {10, 20}]] : k \in 0..3}

LshInputs == [kind : {"lsh"}, sig : UNION {[1..k -> {2, 3, 5}] : k \in 1..3},
              col : {0, 1}, m : {2}, l : {2}, word : {16, 4096}, highest : {11, 13},
              randa : {<<3, 7, 1, 12>>}, randb : {<<0, 5, 11, 2>>}]

\* Documents inserted in any order, nodes of three entries.
IndexSigs == {{1}, {1, 2}, {2, 3}, {3}}
IndexInputs == UNION {[kind : {"index"}, sigs : [1..k -> IndexSigs],
                       q : {<<{1}>>, <<{2}, {1, 3}>>, <<{3}, {1}>>}] : k \in 0..6}

\* The entries of a node that is to be split, of signatures and of intervals.
SplitInputs == [kind : {"split"}, sigs : [1..3 -> IndexSigs \cup {{2}}],
                mbrs : [1..3 -> {<<1, 2>>, <<2, 2>>, <<1, 4>>, <<3, 5>>}]]

FilterInputs == [kind : {"filter"}, docs : [1..3 -> [sig : {{1}, {2}, {1, 2}}, val : 1..3]],
                 q : {<<{1}>>, <<{1, 2}, {2}>>}, v : 0..3,
                 OP : {"EQUAL", "GREATER", "GREATEREQUAL", "LESS", "LESSEQUAL"}]

\* Blocks of up to five bytes, in fragments one or two of which suffice; 16 is -1
\* in the field of 17 and 3 the magic byte.
Blocks == UNION {[1..k -> {0, 3}] : k \in 0..3} \cup {<<1, 2, 3, 1, 3>>}
IdaInputs == UNION {[kind : {"ida"}, in : Blocks, m : {m}, rows : [1..k -> [1..m -> {1, 2, 16}]]] :
                       m \in {1, 2}, k \in {1, 2}}

Inputs0 == PolyInputs \cup MsgInputs \cup CompInputs \cup TeamInputs \cup LshInputs
           \cup IndexInputs \cup SplitInputs \cup FilterInputs \cup IdaInputs

-------------------------------------------------------------------------------
(* Specification: one of the algorithms at a time.                            *)

NoMerge == teamvecomap = <<>> /\ citr = <<>> /\ stage = "off" /\ input = <<>>
NoSets == /\ op = "off" /\ s1 = <<1>> /\ s2 = <<1>> /\ i1 = 1 /\ i2 = 1
          /\ s1prev = 0 /\ s2prev = 0 /\ cnt = 0 /\ s2skip = 0
NoQuery == /\ opt = [msgtype |-> "off"] /\ itr = 0 /\ sock = {} /\ log = <<>> /\ loaded = {}
           /\ db = <<>> /\ est = {}
NoInput == x = [kind |-> "off"]

AlgInit ==
    /\ TableInit
    /\ \/ MergeInit /\ NoSets /\ NoQuery /\ NoInput
       \/ NoMerge /\ SS!Init /\ NoQuery /\ NoInput
       \/ NoMerge /\ NoSets /\ Q!Init /\ NoInput
       \/ NoMerge /\ NoSets /\ NoQuery /\ x \in Inputs0
       \/ NoMerge /\ NoSets /\ NoQuery /\ x = [kind |-> "table"]

AlgNext ==
    \/ stage # "off" /\ MergeNext /\ UNCHANGED <<setVars, queryVars, lt, x>>
    \/ op # "off" /\ SS!Next /\ UNCHANGED <<mergeVars, queryVars, lt, x>>
    \/ itr # 0 /\ Q!Next /\ UNCHANGED <<mergeVars, setVars, lt, x>>
    \/ x.kind = "table" /\ TableNext /\ UNCHANGED <<mergeVars, setVars, queryVars, x>>

AlgSpec == AlgInit /\ [][AlgNext]_algVars

-------------------------------------------------------------------------------
(* Properties.                                                                *)

\* The walks of gpsi over two sorted signatures count right, and CompareSig is
\* the order std::map needs.
SetsRight == op # "off" => SS!CountsRight /\ SS!SigOrder


\* Products and divisibility over GF(2), on sets of exponents.
RefProduct == [a \in Polynomials, b \in Polynomials |->
                  {k \in 0..8 : Cardinality({i \in a : k - i \in b}) % 2 = 1}]
Divisors == [p \in Polynomials |-> {d \in Polynomials \ {{}} : \E q \in Polynomials : RefProduct[d, q] = p}]
Deg(p) == IF p = {} THEN -1 ELSE Max(p)
Vec(p) == LET k == IF p = {} THEN 1 ELSE (Max(p) \div W) + 1
          IN [i \in 1..k |-> {b \in 0..(W - 1) : b + W * (k - i) \in p}]

\* The word by word arithmetic of utils.C is that of polynomials, across word
\* boundaries and for operands of any two lengths: products; remainders, of a
\* smaller degree than the divisor and congruent to the dividend; gcd, which
\* the index uses for "contains", is the common divisor of greatest degree; and
\* gcd times lcm is the product.
PolyRight ==
    x.kind = "poly" =>
        LET f == Vec(x.f)  g == Vec(x.g)
            r == PA!remainder(f, g)
            d == PA!gcdSpecial(f, g)
        IN /\ PA!Val(PA!multiplyPoly(f, g)) = RefProduct[x.f, x.g]
           /\ Deg(PA!Val(r)) < Deg(x.g)
           /\ x.g \in Divisors[PA!Xor(x.f, PA!Val(r))]
           /\ x.f # {} =>
                /\ PA!Val(d) \in Divisors[x.f] \cap Divisors[x.g]
                /\ \A c \in Divisors[x.f] \cap Divisors[x.g] : Deg(c) <= Deg(PA!Val(d))
                /\ PA!Val(PA!multiplyPoly(PA!lcm(f, g), d)) = RefProduct[x.f, x.g]
           /\ Deg(x.g) \in 1..(W - 1) => PA!findMod(x.f, 5, x.g) = PA!Val(r)

Written(e) == e.len = Len(e.buf)

\* Every encoder writes exactly the bytes it has allocated, and the decoder at
\* the other end reads back what was encoded, whatever the lengths of the keys
\* and lists; a message cut short is refused.
MessagesRight ==
    x.kind = "msg" =>
        LET L == C!makeKeyValueList(x.key, x.teamid, x.list, x.seq, 3)
            sig == IF x.list = <<>> THEN <<3>> ELSE x.list[1].sig
            I == C!makeKeyValueInit(x.key, x.teamid, sig, x.seq, 1, 1)
            Y == C!makeKeyValueQuery(x.key, x.teamid, x.dtd, sig, x.seq, 6)
            E == C!makeKeyValueTeam(x.key, 2)
            P == C!makeKeyValuePush(x.key, x.seq, 1, 0)
            D == C!makeDocid(sig, x.key)
            B == C!marshal_block([i \in DOMAIN x.list |-> C!Polys(x.list[i].sig)])
        IN /\ \A e \in {L, I, Y, E, P, D, B, C!makeKeyValueSig(x.key, sig, 4), C!makeKeyValueSig(x.key, sig, C!NONE),
                          C!makeKeyValueHdr(x.key, <<1, 2, 3, 4, 5, 6>>, 2), C!makeKeyValueOld(x.key, x.list, x.seq, 3)} : Written(e)
           /\ C!getKeyValueList(L.buf, Len(L.buf)) =
                [res |-> 0, key |-> x.key, teamid |-> x.teamid, seq |-> x.seq, list |-> x.list]
           /\ C!getKeyValueInit(I.buf, Len(I.buf)) =
                [res |-> 0, key |-> x.key, teamid |-> x.teamid, sig |-> sig, f |-> x.seq, w |-> 1]
           /\ C!getKeyValueQuery(Y.buf, Len(Y.buf)) =
                [res |-> 0, key |-> x.key, teamid |-> x.teamid, dtd |-> x.dtd, sig |-> sig, qid |-> x.seq]
           /\ C!getKeyValueTeam(E.buf, Len(E.buf)) = [res |-> 0, key |-> x.key]
           /\ \A e \in {L, I, Y, E}, cut \in 1..8 :
                C!Refused = IF e = L THEN C!getKeyValueList(e.buf, Len(e.buf) - cut)
                            ELSE IF e = I THEN C!getKeyValueInit(e.buf, Len(e.buf) - cut)
                            ELSE IF e = Y THEN C!getKeyValueQuery(e.buf, Len(e.buf) - cut)
                            ELSE C!getKeyValueTeam(e.buf, Len(e.buf) - cut)
           /\ C!getKeyValuePush(SubSeq(P.buf, 5, Len(P.buf))) = [key |-> x.key, v1 |-> x.seq, v2 |-> 1]
           /\ C!getKeyValueSig(C!makeKeyValueSig(x.key, sig, C!NONE).buf) = [key |-> x.key, sig |-> sig]
           /\ C!getDocid(D.buf) = [sig |-> sig, docid |-> x.key]
           /\ C!get_payload(B.buf, 1, Len(B.buf)) = [i \in DOMAIN x.list |-> C!Polys(x.list[i].sig)]
           /\ C!readFilter(C!makeSigData(<<sig, x.dtd>>, 1)) = [type |-> 1, sigs |-> <<sig, x.dtd>>, valSig |-> <<>>]
           /\ C!readFilter(C!makeSigDataV(<<sig>>, x.dtd, 2)) = [type |-> 2, sigs |-> <<sig>>, valSig |-> x.dtd]

\* A list compressed at one peer, sent and uncompressed at another has the same
\* signatures in the same order, with bitmaps of one byte and of two.
CompressRight ==
    x.kind = "comp" =>
        LET c == C!compressSignatures(x.sigs)
            fw == [i \in DOMAIN x.sigs |-> [f |-> i, w |-> 1]]
            e == C!makeKeyValueC(<<7>>, <<8>>, c.clist, c.bitmap, fw, 1, 4)
            el == C!makeKeyValueCL(<<7>>, <<8>>, c.clist, c.bitmap, fw, 1, 4)
            d == C!getKeyValueC(e.buf, Len(e.buf))
            b == C!makeKeyValueBitmap(c.clist, c.bitmap, Len(x.sigs))
        IN /\ Written(e) /\ Written(el) /\ Written(b)
           /\ d.fw = fw /\ C!uncompressSignatures(d.clist, d.bitmap, d.numSigs) = x.sigs
           /\ C!getKeyValueCL(el.buf, Len(el.buf)) = d
           /\ C!getKeyValueBitmap(b.buf) = [numSigs |-> Len(x.sigs), clist |-> c.clist, bitmap |-> c.bitmap]

\* The entries of index nodes survive being stored, taken out by number, and
\* sent as keys only.
EntriesRight ==
    x.kind = "msg" =>
        LET sig == IF x.list = <<>> THEN <<3>> ELSE x.list[1].sig
            iv == <<0, 1, 1, 2, x.seq, 7>>
            H == C!makeKeyValueInt(x.key, iv)
            node == <<H.buf>> \o [i \in DOMAIN x.list |-> C!makeKeyValueSig(x.key, x.list[i].sig, C!NONE).buf]
            ids == Reverse([i \in DOMAIN node |-> i]) \o <<-1>>
            A == C!makeKeyValueEntries(node, ids, 5)
            K == C!makeKeyValueSpecial(node, ids, 5)
            P == C!makeKeyValuePush(x.key, x.seq, 1, 0)
        IN /\ \A e \in {H, A, K, C!makeKeyValueSigInt(x.key, sig, iv, 4), C!makeKeyValueText(sig, x.dtd, x.seq, 4)} :
                Written(e)
           /\ C!getKeyValueType(A.buf) = 5
           /\ C!getKeyOnly(H.buf) = x.key
           /\ C!getInterval(H.buf, 4 + Len(x.key) + 4 + 1) = iv
           /\ C!get_payload(A.buf, 5, Len(A.buf)) = Reverse(node)
           /\ LET keys == C!get_payload(K.buf, 5, Len(K.buf))
              IN Len(keys) = Len(node) /\ \A i \in DOMAIN keys : C!getKeyValueSpecial(keys[i]) = x.key
           /\ C!getKeyValuePushPtr(SubSeq(P.buf, 5, Len(P.buf))) = [key |-> x.key, v1 |-> x.seq, v2 |-> 1]
           /\ C!makeSigData1(sig, 1) = C!makeSigData(<<sig>>, 1)

CodecRight == MessagesRight /\ EntriesRight /\ CompressRight

SigOrder == <<<<2>>, <<0, 2>>>>
TeamState == [totalT |-> x.totalT, teamindex |->
    [t \in {x.owner[i] : i \in DOMAIN x.owner} |->
        SetToSortSeq({i - 1 : i \in {j \in DOMAIN x.owner : x.owner[j] = t}}, <)]]
Before == [totalT |-> <<<<(<<5>> :> [f |-> 1, w |-> 1])>>>>, teamindex |-> 20 :> <<0>>]
FreqOf(Ts, s) == SumTo(Len(Ts), [i \in 1..Len(Ts) |-> IF s \in DOMAIN Ts[i][1] THEN Ts[i][1][s].f ELSE 0])

\* Signatures with the same factors go to the same teams, whatever their
\* order and repetitions and although the products wrap around; and a signature
\* written to a log is read back.
LshRight ==
    x.kind = "lsh" =>
        /\ \A s \in UNION {[1..k -> {2, 3, 5}] : k \in 1..3} :
              ToSet(s) = ToSet(x.sig) => TL!getHashCode(s, x) = TL!getHashCode(x.sig, x)
        /\ Len(TL!getHashCode(x.sig, x)) = IF x.col = 0 THEN x.m ELSE 1
        /\ LET u == TL!getUniqueSet(TL!readsig(x.sig), <<7, 11>>,
                                     [p \in ToSet(x.sig) \X {7, 11} |-> p[1] * p[2]])
           IN Cardinality(ToSet(u)) = Len(x.sig)
        /\ TL!string2sig(TL!sig2str(x.sig)) = x.sig
        /\ TL!netstring_decode(TL!netstring_encode(x.sig)) = x.sig
        /\ \A c \in 0..(Len(x.sig) + 2) : TL!netstring_decode(SubSeq(TL!netstring_encode(x.sig), 1, c)) = <<TL!NULL>>
        /\ \A id \in 0..15 : \A size \in 1..4 :
              LET t == TL!make_team(id, x.sig[1], size, 16)
              IN Cardinality(ToSet(t.team)) = size /\ (t.idindex # -1 <=> id \in ToSet(t.team))

\* Documents are counted once each, by calcfreq with proxies and by lcalcfreq
\* with and without dummy, and a received list is added without its dummy; teams
\* are counted, factors of 1 dropped, and special multisets told apart.
CountsRight ==
    x.kind = "lsh" =>
        LET sigs == [i \in DOMAIN x.sig |-> <<x.sig[i]>>]
            count(s) == Cardinality({i \in DOMAIN sigs : sigs[i] = s})
            counts == [s \in ToSet(sigs) |-> [f |-> count(s), w |-> 1]]
            dummy == <<1>>
            v == TL!lvecomap2vec(TL!lcalcfreq(<<>>, <<dummy>> \o sigs, TRUE)[1], <<<<1>>, <<2>>, <<3>>, <<5>>>>)
        IN /\ TL!calcfreqProxy(<<>>, sigs) = <<<<>>, counts>>
           /\ TL!lcalcfreq(<<>>, sigs, FALSE) = <<counts>>
           /\ v.sigs[1] = dummy /\ v.freqs[1] = 0
           /\ TL!calcfreqM(counts, v.sigs, v.freqs, v.weights) = TL!doublefreqgroup(counts, counts)
           /\ \A t \in ToSet(x.sig) : TL!calcteamids(<<>>, x.sig)[t] = count(<<t>>)
           /\ TL!readquery(<<1>> \o x.sig) = TL!readsig(x.sig)
           /\ TL!validsig(x.sig) /\ ~TL!validsig(TL!inverse(x.sig)) /\ TL!inverse(TL!inverse(x.sig)) = x.sig
           /\ Cardinality(ToSet(x.sig)) = Len(x.sig) =>
                 \A s \in {<<2>>, <<3, 5>>, <<5, 2, 3>>} :
                    TL!signcmp_bad(x.sig, s)[1] = TL!signcmp(x.sig, s)[1]
           /\ TL!getHashCodeFindMod(x.sig, x,
                    [s \in ToSet(TL!getHashCode(x.sig, [x EXCEPT !.col = 0])) |-> Len(s)])
                 = [g \in 1..x.m |-> Len(TL!getHashCode(x.sig, [x EXCEPT !.col = 0])[g])]

\* The state logged by one peer and loaded behind the lists of another keeps
\* every list with its team, empty lists included; mergeinit adds up each
\* signature over all lists; mergebyteamid does so within a team, if the team
\* does not own index 0, which the code takes for "none".  And LSH (LshRight)
\* and counting (CountsRight).
TeamsRight ==
    /\ LshRight /\ CountsRight
    /\ x.kind = "team" =>
        LET loaded2 == TL!loadinitstate(Before, TL!loginitstate(TeamState, 0, SigOrder))
            all == TL!mergeinit(x.totalT)
            byteam == TL!mergebyteamid(TeamState)
        IN /\ loaded2.totalT = Before.totalT \o x.totalT
           /\ \A i \in DOMAIN x.totalT : i \in {ix : ix \in ToSet(loaded2.teamindex[x.owner[i]])}
           /\ loaded2.teamindex[20][1] = 0
           /\ \A s \in {<<2>>, <<0, 2>>} :
                (IF s \in DOMAIN all THEN all[s].f ELSE 0) = FreqOf(x.totalT, s)
           /\ \A t \in DOMAIN TeamState.teamindex : 0 \notin ToSet(TeamState.teamindex[t]) =>
                LET own == TeamState.teamindex[t]
                IN \A s \in {<<2>>, <<0, 2>>} :
                     LET m == byteam.totalT[byteam.teamindex[t][1] + 1][1]
                     IN (IF s \in DOMAIN m THEN m[s].f ELSE 0) = FreqOf([i \in DOMAIN own |-> x.totalT[own[i] + 1]], s)
           /\ \A i \in DOMAIN x.totalT :
                LET v == TL!vecomap2vec(x.totalT[i][1], SigOrder)
                IN /\ TL!received(v.sigs, v.freqs, v.weights) = x.totalT[i][1]
                   /\ \A s \in DOMAIN TL!delspecial(x.totalT[i][1]) : s[1] = 0 => TL!inverse(s) \notin DOMAIN x.totalT[i][1]
                   /\ TL!add2vecomapx(TeamState, x.totalT[i][1], x.owner[i], FALSE).teamindex = TeamState.teamindex
                   /\ TL!add2vecomapv(TeamState, x.totalT[i][1]).totalT
                        = TL!add2vecomapx(TeamState, x.totalT[i][1], x.owner[1], FALSE).totalT

Divides(g, k) == ToSet(g.group1 \o g.group2) = 1..k /\ Len(g.group1 \o g.group2) = k

\* An index built by insertions in any order answers queries right (see
\* SigTree), and a split puts every entry into one of two groups, neither
\* of them empty, under a signature or an interval that covers the group.
\* Queries with predicates find the same at the storing nodes as at the client,
\* and what they should.
IndexRight ==
    /\ x.kind = "filter" => ST!FilterRight(x.docs, x.q, x.v, x.OP)
    /\ x.kind = "index" => ST!IndexRight(x.sigs, x.q)
    /\ x.kind = "split" =>
        LET es == [i \in DOMAIN x.sigs |-> [key |-> i, sig |-> x.sigs[i]]]
            vs == [i \in DOMAIN x.mbrs |-> [key |-> i, sig |-> x.mbrs[i]]]
        IN /\ \A g \in {ST!splitNode(es), ST!splitLocal(es)} :
                /\ Divides(g, Len(es)) /\ g.group1 # <<>> /\ g.group2 # <<>>
                /\ \A i \in DOMAIN g.group1 : es[g.group1[i]].sig \subseteq g.lcm1
                /\ \A i \in DOMAIN g.group2 : es[g.group2[i]].sig \subseteq g.lcm2
           /\ \E g \in {ST!splitNodeV(vs)} :
                /\ Divides(g, Len(vs))
                /\ \A i \in DOMAIN g.group1 : ST!enlargement(g.lcm1, vs[g.group1[i]].sig) = 0
                /\ \A i \in DOMAIN g.group2 : ST!enlargement(g.lcm2, vs[g.group2[i]].sig) = 0

\* Fragments give their block back (see Ida).
IdaRight ==
    x.kind = "ida" => /\ IDA!IdaRight(x.in, x.m, x.rows)
                      /\ Len(x.rows) = x.m => IDA!MatrixRight(x.m, x.rows)
===============================================================================
