------------------------------ MODULE TeamLists ------------------------------
(* The operations of gpsi on its lists outside the exec phases: totalT, the   *)
(* lists of all teams by index; teamindex, which maps a team ID to indices;   *)
(* the files they are logged to and loaded from; and the LSH that maps a      *)
(* signature to team IDs.  Indices count from 0, as in the code, and          *)
(* totalT[i + 1] is the vector of lists at index i.  A list maps signatures   *)
(* to [f, w].  A signature is a sequence of polynomials; 0 in front marks a   *)
(* special multiset.                                                          *)
EXTENDS Integers, Sequences, FiniteSets, FiniteSetsExt, SequencesExt, TLC

\* itr->second[0] += ... or a new entry: add e to entry s of map T.
AddTo(T, s, e, w) ==
    [x \in DOMAIN T \cup {s} |->
        IF x # s THEN T[x]
        ELSE IF s \in DOMAIN T THEN [f |-> T[s].f + e.f, w |-> T[s].w + w] ELSE e]

PushBack(m, k, v) == [x \in DOMAIN m \cup {k} |->
    IF x # k THEN m[x] ELSE IF k \in DOMAIN m THEN Append(m[k], v) ELSE <<v>>]

-------------------------------------------------------------------------------
(* Building lists.                                                            *)

\* calcfreq with proxysigs: the proxy signatures come second, after an empty
\* list if there is none yet.
calcfreqProxy(allT, sigs) ==
    LET T == FoldLeft(LAMBDA acc, s : AddTo(acc, s, [f |-> 1, w |-> 1], 0), <<>>, sigs)
    IN Append(IF allT = <<>> THEN <<<<>>>> ELSE allT, T)

\* lcalcfreq: the same with long doubles, with the dummy in front if asked for.
lcalcfreq(lallT, sigs, usedummy) ==
    LET first == IF usedummy THEN sigs[1] :> [f |-> 0, w |-> 1] ELSE <<>>
        rest == IF usedummy THEN Tail(sigs) ELSE sigs
    IN Append(lallT, FoldLeft(LAMBDA acc, s : AddTo(acc, s, [f |-> 1, w |-> 1], 0), first, rest))

\* calcfreqM: a received list is added to allT[0], the dummy (i = 0) left out.
calcfreqM(T, sigs, freqs, weights) ==
    FoldLeft(LAMBDA acc, i : AddTo(acc, sigs[i], [f |-> freqs[i], w |-> weights[i]], weights[i]),
             T, [i \in 1..(Len(sigs) - 1) |-> i + 1])

\* The list in a message.
received(sigs, freqs, weights) ==
    [s \in ToSet(sigs) |-> LET i == Min({j \in DOMAIN sigs : sigs[j] = s})
                           IN [f |-> freqs[i], w |-> weights[i]]]

\* add2vecomapx: behind the lists of its team; a team unknown gets a new index
\* in the broadcast phase, and its list is dropped otherwise.
add2vecomapx(st, L, teamID, bcast) ==
    IF teamID \in DOMAIN st.teamindex
    THEN [st EXCEPT !.totalT[st.teamindex[teamID][1] + 1] = Append(@, L)]
    ELSE IF ~bcast THEN st
    ELSE [totalT |-> Append(st.totalT, <<L>>),
          teamindex |-> PushBack(st.teamindex, teamID, Len(st.totalT))]

add2vecomapv(st, L) == [st EXCEPT !.totalT[1] = Append(@, L)]

\* vecomap2vec and lvecomap2vec: the entries in the order of the map, which is
\* that of its signatures in the sequence `order`.
vecomap2vec(T, order) ==
    LET s == SelectSeq(order, LAMBDA sig : sig \in DOMAIN T)
    IN [sigs |-> s, freqs |-> [i \in DOMAIN s |-> T[s[i]].f], weights |-> [i \in DOMAIN s |-> T[s[i]].w]]

lvecomap2vec(T, order) ==
    LET s == SelectSeq(order, LAMBDA sig : sig \in DOMAIN T)
    IN [sigs |-> s, freqs |-> [i \in DOMAIN s |-> T[s[i]].f], weights |-> [i \in DOMAIN s |-> T[s[i]].w]]

\* doublefreqgroup: the entries of a group are doubled in the list.
doublefreqgroup(T, group) ==
    [s \in DOMAIN T |-> IF s \in DOMAIN group THEN [f |-> group[s].f * 2, w |-> group[s].w * 2] ELSE T[s]]

inverse(sig) == IF sig[1] = 0 THEN Tail(sig) ELSE <<0>> \o sig

\* delspecial: special multisets whose regular signature is in the list too.
delspecial(T) ==
    LET gone == {s \in DOMAIN T : s[1] = 0 /\ inverse(s) \in DOMAIN T}
    IN [s \in DOMAIN T \ gone |-> T[s]]

validsig(sig) == sig # <<>> /\ \A i \in DOMAIN sig : sig[i] # 0

-------------------------------------------------------------------------------
(* Teams.                                                                     *)

findteamid(teamindex, tix, none) ==
    LET owners == {t \in DOMAIN teamindex : tix \in ToSet(teamindex[t])}
    IN IF owners = {} THEN none ELSE Min(owners)

\* make_team: IDs at equal arcs from the team's, modulo Ring; idindex is the
\* place of myID among them, or -1.
make_team(myID, teamID, teamsize, Ring) ==
    LET arclen == (Ring - 1) \div teamsize
        team == [j \in 1..teamsize |-> (teamID + (j - 1) * arclen) % Ring]
        mine == {j \in 1..teamsize : team[j] = myID}
    IN [team |-> team, idindex |-> IF mine = {} THEN -1 ELSE Max(mine) - 1]

calcteamids(freq, minhash) ==
    FoldLeft(LAMBDA acc, t : [x \in DOMAIN acc \cup {t} |->
                 IF x = t THEN (IF t \in DOMAIN acc THEN acc[t] ELSE 0) + 1 ELSE acc[x]], freq, minhash)

\* mergebyteamid, for one team: its lists are merged into the first.  mergeix = 0
\* means "none yet".
mergeteam(totalT, ixs) ==
    FoldLeft(LAMBDA acc, tix :
        IF acc.mergeix = 0 THEN [acc EXCEPT !.mergeix = tix]
        ELSE LET src == acc.totalT[tix + 1][1]
             IN [acc EXCEPT !.totalT[acc.mergeix + 1][1] =
                    FoldSet(LAMBDA s, T : AddTo(T, s, [f |-> src[s].f, w |-> 1], 0), @, DOMAIN src)],
        [mergeix |-> 0, totalT |-> totalT], ixs)

\* mergebyteamid goes through the teams in order and keeps one index of each.
mergebyteamid(st) ==
    LET order == SetToSortSeq(DOMAIN st.teamindex, <)
    IN FoldLeft(LAMBDA acc, t : LET m == mergeteam(acc.totalT, acc.teamindex[t])
                                IN [totalT |-> m.totalT, teamindex |-> [acc.teamindex EXCEPT ![t] = <<m.mergeix>>]],
                st, order)

\* mergeinit: everything into one list, with weight 1.
mergeinit(totalT) ==
    FoldLeft(LAMBDA acc, lists : FoldSet(LAMBDA s, T : AddTo(T, s, [f |-> lists[1][s].f, w |-> 1], 0),
                                         acc, DOMAIN lists[1]), <<>>, totalT)

-------------------------------------------------------------------------------
(* The init file: a header with index and team for each list, then its        *)
(* entries.                                                                   *)

\* Indices without a team are skipped.
loginitstate(st, none, order) ==
    FlattenSeq([i \in DOMAIN st.totalT |->
        IF findteamid(st.teamindex, i - 1, none) = none THEN <<>>
        ELSE LET v == vecomap2vec(st.totalT[i][1], order)
             IN <<[k |-> "index", ix |-> i - 1, team |-> findteamid(st.teamindex, i - 1, none)]>>
                \o [j \in DOMAIN v.sigs |-> [k |-> "entry", sig |-> v.sigs[j], f |-> v.freqs[j], w |-> v.weights[j]]]])

\* Mutant: the indices in the file are taken as they are.
loadinitstate_abs(st, file) ==
    LET run == FoldLeft(LAMBDA acc, l :
                 IF l.k = "index"
                 THEN [acc EXCEPT !.n = @ + 1, !.cur = <<>>, !.teamindex = PushBack(@, l.team, l.ix),
                                  !.totalT = IF acc.n = 0 THEN @ ELSE Append(@, <<acc.cur>>)]
                 ELSE [acc EXCEPT !.cur = AddTo(@, l.sig, [f |-> l.f, w |-> l.w], 0)],
                 [n |-> 0, cur |-> <<>>, totalT |-> st.totalT, teamindex |-> st.teamindex], file)
    IN [totalT |-> IF run.n = 0 THEN run.totalT ELSE Append(run.totalT, <<run.cur>>), teamindex |-> run.teamindex]

\* loadinitstate: a list is pushed when the next header comes or the file ends;
\* its index is that in the file behind the lists that were there before.
loadinitstate(st, file) ==
    LET tsize == Len(st.totalT)
        run == FoldLeft(LAMBDA acc, l :
                 IF l.k = "index"
                 THEN [acc EXCEPT !.n = @ + 1, !.cur = <<>>, !.teamindex = PushBack(@, l.team, tsize + l.ix),
                                  !.totalT = IF acc.n = 0 THEN @ ELSE Append(@, <<acc.cur>>)]
                 ELSE [acc EXCEPT !.cur = AddTo(@, l.sig, [f |-> l.f, w |-> l.w], 0)],
                 [n |-> 0, cur |-> <<>>, totalT |-> st.totalT, teamindex |-> st.teamindex], file)
    IN [totalT |-> IF run.n = 0 THEN run.totalT ELSE Append(run.totalT, <<run.cur>>), teamindex |-> run.teamindex]

-------------------------------------------------------------------------------
(* Text: a line is a sequence of symbols, a number being one symbol.          *)

Dash == -1
Colon == -2
Comma == -3
NULL == -4

\* tokenize: maximal runs of symbols that are not delimiters.
tokenize(line, delims) ==
    LET starts == {i \in DOMAIN line : line[i] \notin delims /\ (i = 1 \/ line[i - 1] \in delims)}
        s == SetToSortSeq(starts, <)
        end(i) == Min({Len(line) + 1} \cup {j \in DOMAIN line : j > i /\ line[j] \in delims})
    IN [k \in DOMAIN s |-> SubSeq(line, s[k], end(s[k]) - 1)]

\* sig2str: numbers (one symbol each) with a dash behind each; an empty
\* signature leaves the buffer as it was.
sig2str(sig) == FlattenSeq([i \in DOMAIN sig |-> <<sig[i], Dash>>])
string2sig(s) == LET t == tokenize(s, {Dash}) IN [i \in DOMAIN t |-> t[i][1]]

netstring_encode(buf) == <<Len(buf), Colon>> \o buf \o <<Comma>>
\* NULL for a bad format or a short read.
netstring_decode(f) ==
    IF Len(f) < 2 \/ f[2] # Colon \/ Len(f) < f[1] + 3 \/ f[f[1] + 3] # Comma THEN <<NULL>>
    ELSE SubSeq(f, 3, f[1] + 2)

\* readquery: factors equal to 1 are dropped; readsig keeps them.  Both sort.
readquery(buf) == SortSeq(SelectSeq(buf, LAMBDA x : x # 1), <)
readsig(buf) == SortSeq(buf, <)

-------------------------------------------------------------------------------
(* Similarity.  set_inter and set_uni are checked in SigSets.                 *)

signcmp(s1, s2) == <<Cardinality(ToSet(s1) \cap ToSet(s2)), Cardinality(ToSet(s1) \cup ToSet(s2))>>
signcmp_bad(s1, s2) ==
    <<Cardinality({p \in (DOMAIN s1) \X (DOMAIN s2) : s1[p[1]] = s2[p[2]]}), Max({Len(s1), Len(s2)})>>

-------------------------------------------------------------------------------
(* LSH (utils.C, class lsh).                                                  *)

\* unique: repetitions next to each other are dropped.
unique(s) == LET keep == SelectSeq([i \in DOMAIN s |-> i], LAMBDA i : i = 1 \/ s[i] # s[i - 1])
             IN [k \in DOMAIN keep |-> s[keep[k]]]

\* getUniqueSet: for each polynomial in turn, its second occurrence is
\* multiplied by the first irreducible polynomial, the third by the second...;
\* times is multiplyPoly on two polynomials.
getUniqueSet(sig, irrnums, times) ==
    FoldLeft(LAMBDA out, x :
        [j \in DOMAIN out |->
            LET count == Cardinality({i \in 1..(j - 1) : out[i] = x})
            IN IF out[j] = x /\ count > 0 THEN times[x, irrnums[count]] ELSE out[j]],
        sig, unique(sig))

isMinimum(h) == Min(ToSet(h))

\* The decimal digits of n.
decimal(n) ==
    LET d[x \in 0..n] == IF x < 10 THEN <<x>> ELSE Append(d[x \div 10], x % 10) IN d[n]

\* getHashCode: in each group, the minima of l hash functions, written one
\* behind the other without a separator, are the text whose SHA-1 is the ID; with
\* col # 0 there is one group only.  The arithmetic is that of unsigned ints.
getHashCode(S, o) ==
    [g \in 1..(IF o.col # 0 THEN 1 ELSE o.m) |->
        FlattenSeq([j \in 1..o.l |->
            LET f == (g - 1) * o.l + j
            IN decimal(isMinimum([i \in DOMAIN S |->
                   ((o.randa[f] * S[i] + o.randb[f]) % o.word) % o.highest]))])]

\* getHashCodeFindMod: the same with a residue for the ID, and never just one group.
getHashCodeFindMod(S, o, findMod) ==
    LET h == getHashCode(S, [o EXCEPT !.col = 0]) IN [g \in DOMAIN h |-> findMod[h[g]]]
===============================================================================
