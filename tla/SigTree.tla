------------------------------- MODULE SigTree -------------------------------
(* The decisions of the signature index: which child a document goes to, how  *)
(* the entries of a full node are divided, which entries a query follows.  A  *)
(* signature is a product of irreducible polynomials of one degree; here it   *)
(* is the set of its factors, so that gcd, lcm and "divides" are              *)
(* intersection, union and inclusion.  An entry is [key, sig].                *)
EXTENDS Integers, Sequences, FiniteSets, SequencesExt, TLC

CONSTANTS MAXENTRIES,   \* 500 in nodeparams.h
          metric        \* compare by gcd/lcm (TRUE) or by the gcd alone

getDegree(sig) == Cardinality(sig)
Scale == 1000           \* INT_MAX-1 in the code: makes the ratio an int

pSim(s1, s2) ==
    IF metric THEN (Scale * getDegree(s1 \cap s2)) \div getDegree(s1 \cup s2)
              ELSE getDegree(s1 \cap s2)

\* pSimOpt leaves the lcm in its first argument, but only under the metric.
pSimOpt(s1, s2) == [sim |-> pSim(s1, s2), lcm |-> IF metric THEN s1 \cup s2 ELSE s1]

\* The most similar child; of equal ones the one with the smaller signature,
\* then the first.
pickChild(entries, sig) ==
    LET better(i, j) ==
            LET di == pSim(entries[i].sig, sig)
                dj == pSim(entries[j].sig, sig)
                gi == getDegree(entries[i].sig)
                gj == getDegree(entries[j].sig)
            IN  di > dj \/ (di = dj /\ (gi < gj \/ (gi = gj /\ i < j)))
        best == CHOOSE i \in DOMAIN entries : \A j \in DOMAIN entries \ {i} : better(i, j)
    IN  entries[best].key

-------------------------------------------------------------------------------
\* F of x, where x is worked out once.
With(x, F(_)) == CHOOSE r \in {F(y) : y \in {x}} : TRUE

\* The positions idx of entries by degree, in the order of a multimap.
byDegree(entries, idx) ==
    SetToSortSeq(idx, LAMBDA i, j : LET di == getDegree(entries[i].sig)
                                        dj == getDegree(entries[j].sig)
                                    IN  di < dj \/ (di = dj /\ i < j))

\* The least similar pair, the first such pair in the given order.
Seeds(entries, order) ==
    LET Pair == {p \in (DOMAIN order) \X (DOMAIN order) : p[1] < p[2]}
        sim(p) == pSim(entries[order[p[1]]].sig, entries[order[p[2]]].sig)
        before(p, q) == p[1] < q[1] \/ (p[1] = q[1] /\ p[2] < q[2])
        best(p) == \A q \in Pair \ {p} : sim(p) < sim(q) \/ (sim(p) = sim(q) /\ before(p, q))
    IN  With(CHOOSE p \in Pair : best(p), LAMBDA p : <<order[p[1]], order[p[2]]>>)

\* Every other entry joins the more similar group, on a tie the smaller one.
assign(g, i, sig) ==
    LET t1 == pSimOpt(g.lcm1, sig)
        t2 == pSimOpt(g.lcm2, sig)
    IN  IF t1.sim > t2.sim \/ (t1.sim = t2.sim /\ Len(g.group1) <= Len(g.group2))
        THEN [g EXCEPT !.group1 = Append(@, i), !.lcm1 = t1.lcm]
        ELSE [g EXCEPT !.group2 = Append(@, i), !.lcm2 = t2.lcm]

\* The groups around two seeds; the others come in the given order.
Groups(entries, order, seeds) ==
    FoldLeft(LAMBDA g, i : assign(g, i, entries[i].sig),
             [group1 |-> <<seeds[1]>>, group2 |-> <<seeds[2]>>,
              lcm1 |-> entries[seeds[1]].sig, lcm2 |-> entries[seeds[2]].sig],
             SelectSeq(order, LAMBDA i : i \notin {seeds[1], seeds[2]}))

\* splitNode of psi.C.  Only the first of equal signatures takes part, the others
\* follow it; the seeds are looked for among the ten largest signatures.
Largest(order) == SubSeq(Reverse(order), 1, IF Len(order) < 10 THEN Len(order) ELSE 10)
Firsts(entries) == {i \in DOMAIN entries : \A j \in 1..(i - 1) : entries[j].sig # entries[i].sig}
Copies(entries, i) == SetToSortSeq({j \in DOMAIN entries : j > i /\ entries[j].sig = entries[i].sig}, <)
withCopies(entries, grp) == FoldLeft(LAMBDA acc, i : acc \o Copies(entries, i), grp, grp)

halves(entries) ==
    LET half == MAXENTRIES \div 2
    IN  [group1 |-> [i \in 1..half |-> i], group2 |-> [i \in 1..(MAXENTRIES - half) |-> half + i],
         lcm1 |-> entries[1].sig, lcm2 |-> entries[1].sig]

splitNode(entries) ==
    IF Cardinality(Firsts(entries)) = 1 THEN halves(entries)
    ELSE With(byDegree(entries, Firsts(entries)), LAMBDA order :
         With(Seeds(entries, Largest(order)), LAMBDA seeds :
         With(Groups(entries, order, seeds), LAMBDA g :
            [g EXCEPT !.group1 = withCopies(entries, @), !.group2 = withCopies(entries, @)])))

-------------------------------------------------------------------------------
(* Indexes of values: a signature is an interval <<low, high>>.               *)

updateMBR(m, s) == <<IF s[1] < m[1] THEN s[1] ELSE m[1], IF s[2] > m[2] THEN s[2] ELSE m[2]>>
Width(m) == m[2] - m[1]
enlargement(m, s) == Width(updateMBR(m, s)) - Width(m)

\* The child that grows most; of equal ones the narrower, then the first.
pickChildV(entries, s) ==
    LET e(i) == enlargement(entries[i].sig, s)
        w(i) == Width(entries[i].sig)
        better(i, j) == e(i) > e(j) \/ (e(i) = e(j) /\ (w(i) < w(j) \/ (w(i) = w(j) /\ i < j)))
        best == CHOOSE i \in DOMAIN entries : \A j \in DOMAIN entries \ {i} : better(i, j)
    IN  entries[best].key

\* The code looks for the widest pair but never keeps the width it found (max
\* stays -1): the last pair it looks at becomes the seeds.
splitNodeV(entries) ==
    LET n     == Len(entries)
        sig(i) == entries[i].sig
        start == [group1 |-> <<n - 1>>, group2 |-> <<n>>, lcm1 |-> sig(n - 1), lcm2 |-> sig(n)]
        put(g, i) ==
            LET d1 == enlargement(g.lcm1, sig(i))
                d2 == enlargement(g.lcm2, sig(i))
            IN  IF d1 > d2 \/ (d1 = d2 /\ Len(g.group1) <= Len(g.group2))
                THEN [g EXCEPT !.group1 = Append(@, i), !.lcm1 = updateMBR(@, sig(i))]
                ELSE [g EXCEPT !.group2 = Append(@, i), !.lcm2 = updateMBR(@, sig(i))]
    IN  FoldLeft(put, start, [i \in 1..(n - 2) |-> i])

-------------------------------------------------------------------------------
(* Queries.  A query is a list of signatures, a document matches if one of    *)
(* them divides its own.                                                      *)

\* The signatures that are still of use below an entry: those in front of the
\* first one that divides the entry are dropped; <<>> if none divides it.
Below(sigs, entrySig) ==
    LET hits == {q \in DOMAIN sigs : sigs[q] \subseteq entrySig}
    IN  IF hits = {} THEN <<>>
        ELSE SubSeq(sigs, CHOOSE q \in hits : \A r \in hits : q <= r, Len(sigs))

\* The walk over the nodes, with the list of those it has seen: tree maps the
\* keys of nodes to their entries, leaves are those that hold documents; a node that
\* cannot be retrieved is passed over.
RECURSIVE queryProcess(_, _, _, _, _)
queryProcess(acc, node, sigs, tree, leaves) ==
    IF node \in acc.visited \/ node \notin DOMAIN tree THEN acc
    ELSE LET step(a, e) ==
                 LET left == Below(sigs, e.sig)
                 IN  IF left = <<>> THEN a
                     ELSE IF node \in leaves THEN [a EXCEPT !.docs = Append(@, e.key)]
                     ELSE queryProcess(a, e.key, left, tree, leaves)
         IN  FoldLeft(step, [acc EXCEPT !.visited = @ \cup {node}], tree[node])

\* verifyProcess: the documents that match, found by reading them all.
verifyProcess(docs, sigs) == {d \in DOMAIN docs : \E q \in DOMAIN sigs : sigs[q] \subseteq docs[d]}

-------------------------------------------------------------------------------
(* Queries and insertions that leave the choice of entries to the node that   *)
(* stores the block (executeFilter of the DHash client code, run where the    *)
(* block is), beside the walks of psi.C that choose at the querying client.   *)
(* In an index of values an entry's sig is an interval, or for text the set   *)
(* of the hashes below it, and a document carries its own signature in its    *)
(* key: [doc, sig].  A query is [sigs, val, OP]; a node is [leaf, entries].   *)

\* The predicate of a query: a number becomes an interval of one point, a text
\* its hash.
getValArgs(value, isStrValue) ==
    IF isStrValue THEN [text |-> FALSE, sig |-> <<value, value>>] ELSE [text |-> TRUE, sig |-> {value}]

Divisible(sig, sigs) == \E q \in DOMAIN sigs : sigs[q] \subseteq sig

\* Whether an entry may lead to a value that the query asks for.
matchesV(e, val, OP) ==
    IF val.text THEN val.sig \subseteq e
    ELSE CASE OP = "EQUAL"        -> e[1] <= val.sig[1] /\ e[2] >= val.sig[2]
           [] OP = "GREATER"      -> e[2] > val.sig[1]
           [] OP = "GREATEREQUAL" -> e[2] >= val.sig[1]
           [] OP = "LESS"         -> e[1] < val.sig[2]
           [] OP = "LESSEQUAL"    -> e[1] <= val.sig[2]

\* Text can only be compared for equality; the node is given up otherwise.
Unsupported(q) == q.val.text /\ q.OP # "EQUAL"

-------------------------------------------------------------------------------
\* What the storing node sends back in place of the entries.
executeFilter(type, block, q) ==
    LET es == block.entries IN
    CASE type = "DIVISIBLE" ->
           LET hits == SelectSeq(es, LAMBDA e : Divisible(e.sig, q.sigs))
           IN  [i \in DOMAIN hits |-> hits[i].key]
      [] type = "DIVISIBLEV" /\ Unsupported(q) -> <<>>
      [] type = "DIVISIBLEV" /\ ~Unsupported(q) ->
           LET hits == SelectSeq(es, LAMBDA e : matchesV(e.sig, q.val, q.OP)
                                                /\ (block.leaf => Divisible(e.key.sig, q.sigs)))
           IN  [i \in DOMAIN hits |-> IF block.leaf THEN hits[i].key.doc ELSE hits[i].key]
      [] type \in {"PICKCHILD", "PICKCHILDV"} ->
           <<IF Len(es) >= MAXENTRIES THEN "FULLNODE" ELSE "NOTFULLNODE">>
           \o (IF block.leaf THEN <<>>
               ELSE <<IF type = "PICKCHILD" THEN pickChild(es, q.sigs[1]) ELSE pickChildV(es, q.sigs[1])>>)

\* queryProcessO and queryProcessVO: everything that comes back is a hit.
RECURSIVE queryProcessO(_, _, _, _)
queryProcessO(type, tree, node, q) ==
    IF node \notin DOMAIN tree THEN {}
    ELSE LET back == ToSet(executeFilter(type, tree[node], q))
         IN  IF tree[node].leaf THEN back ELSE UNION {queryProcessO(type, tree, k, q) : k \in back}

\* queryProcessV: the same at the client, with the list of nodes it has seen.
RECURSIVE queryProcessV(_, _, _, _)
queryProcessV(acc, tree, node, q) ==
    IF node \in acc.visited \/ node \notin DOMAIN tree THEN acc
    ELSE LET seen == [acc EXCEPT !.visited = @ \cup {node}]
             step(a, e) ==
                 IF ~matchesV(e.sig, q.val, q.OP) THEN a
                 ELSE IF ~tree[node].leaf THEN queryProcessV(a, tree, e.key, q)
                 ELSE IF Divisible(e.key.sig, q.sigs) THEN [a EXCEPT !.docs = @ \cup {e.key.doc}]
                 ELSE a
         IN  IF Unsupported(q) THEN seen ELSE FoldLeft(step, seen, tree[node].entries)

-------------------------------------------------------------------------------
\* The smallest index of values with an inner node: a root whose one leaf was
\* full and has been split by splitNodeV.  docs[i] is [sig, val].
ValueTree(docs) ==
    LET es == [i \in DOMAIN docs |-> [key |-> [doc |-> i, sig |-> docs[i].sig], sig |-> <<docs[i].val, docs[i].val>>]]
        part(grp) == [leaf |-> TRUE, entries |-> [i \in DOMAIN grp |-> es[grp[i]]]]
        inner(a, b) == [leaf |-> FALSE, entries |-> <<[key |-> "L", sig |-> a], [key |-> "R", sig |-> b]>>]
    IN  With(splitNodeV(es), LAMBDA g :
            [n \in {"root", "L", "R"} |-> IF n = "root" THEN inner(g.lcm1, g.lcm2)
                                          ELSE part(IF n = "L" THEN g.group1 ELSE g.group2)])

Holds(val, OP, v) ==
    CASE OP = "EQUAL" -> val = v [] OP = "GREATER" -> val > v [] OP = "GREATEREQUAL" -> val >= v
      [] OP = "LESS" -> val < v [] OP = "LESSEQUAL" -> val <= v

\* A query with a predicate on numbers finds the documents whose signature and
\* value match, neither more nor fewer, and the storing nodes find the same as
\* the client would; what a node answers to an insertion is the child that the
\* client would have picked.  Text compared other than for equality finds
\* nothing at either side.
FilterRight(docs, sigs, v, OP) ==
    With(ValueTree(docs), LAMBDA tree :
        LET q      == [sigs |-> sigs, val |-> getValArgs(v, TRUE), OP |-> OP]
            client == queryProcessV([visited |-> {}, docs |-> {}], tree, "root", q).docs
            leaf   == [leaf |-> TRUE, entries |-> [i \in DOMAIN docs |-> [key |-> [doc |-> i, sig |-> docs[i].sig], sig |-> docs[i].sig]]]
            text   == [q EXCEPT !.val = getValArgs(1, FALSE)]
            asText == executeFilter("DIVISIBLEV", leaf, text)
            point  == [q EXCEPT !.sigs = <<<<v, v>>>>]
        IN  /\ client = {i \in DOMAIN docs : Divisible(docs[i].sig, sigs) /\ Holds(docs[i].val, OP, v)}
            /\ queryProcessO("DIVISIBLEV", tree, "root", q) = client
            /\ ToSet(asText) = IF OP # "EQUAL" THEN {}
                               ELSE {i \in DOMAIN docs : 1 \in docs[i].sig /\ Divisible(docs[i].sig, sigs)}
            /\ executeFilter("PICKCHILDV", tree["root"], point)
                 = <<IF MAXENTRIES <= 2 THEN "FULLNODE" ELSE "NOTFULLNODE", pickChildV(tree["root"].entries, <<v, v>>)>>)

-------------------------------------------------------------------------------
(* The signature index of gis_chordID.C: the same tree in a local database    *)
(* and with one client, so that an insertion, with all its splits, is one     *)
(* operation on the database.  db is [hung, nodes]: hung when a split finds   *)
(* its sibling there already and waits for ever.                              *)

Denom == 60
Root == <<-1, 0>>
DocKey(d) == <<-2, d>>

Gcd(a, b) ==
    LET common == {g \in 1..Denom : a % g = 0 /\ b % g = 0}
    IN  CHOOSE g \in common : \A h \in common : h <= g
Mediant(l, r) ==
    LET n(x) == x \div Gcd(x, Denom)
        d(x) == Denom \div Gcd(x, Denom)
    IN  (Denom * (n(l) + n(r))) \div (d(l) + d(r))

Header(left, right, level, type) == [left |-> left, right |-> right, level |-> level, type |-> type]
Full(block) == Len(block) > MAXENTRIES

-------------------------------------------------------------------------------
\* adjust_data of this program: a node is never too full for an entry.
put(block, type, e) ==
    LET here == {i \in 2..Len(block) : block[i].key = e.key}
    IN  IF here # {}
        THEN [i \in DOMAIN block |-> IF i \notin here THEN block[i]
                                     ELSE [e EXCEPT !.sig = IF type = "REPLACESIG" THEN @ ELSE @ \cup block[i].sig]]
        ELSE IF type = "UPDATEIFPRESENT" THEN block ELSE Append(block, e)

sethdr(block, hdr) ==
    IF block = <<>> THEN <<hdr>>
    ELSE [block EXCEPT ![1].right = IF hdr.right < @ THEN hdr.right ELSE @,
                       ![1].level = IF block[1].type = "ROOT" /\ @ < hdr.level THEN hdr.level ELSE @]

splitBlock(block, es) ==
    IF Full(block)
    THEN <<block[1]>> \o SelectSeq(Tail(block), LAMBDA e : \A i \in DOMAIN es : es[i].key # e.key)
    ELSE IF Len(block) = 1 THEN block \o es ELSE block

insertBDB(nodes, key, block) == (key :> block) @@ nodes

\* The index that -d makes: a root over one leaf.
EmptyIndex ==
    [hung  |-> FALSE,
     nodes |-> Root :> <<Header(0, Denom, 1, "ROOT"), [key |-> <<0, 0>>, sig |-> {}]>>
               @@ <<0, 0>> :> <<Header(0, Denom, 0, "LEAF")>>]

-------------------------------------------------------------------------------
\* splitNode: the seeds are looked for among all entries, from the smallest on.
assignLocal(g, i, sig) ==
    LET d1 == pSim(g.lcm1, sig)
        d2 == pSim(g.lcm2, sig)
    IN  IF d1 > d2 \/ (d1 = d2 /\ Len(g.group1) <= Len(g.group2))
        THEN [g EXCEPT !.group1 = Append(@, i), !.lcm1 = @ \cup sig]
        ELSE [g EXCEPT !.group2 = Append(@, i), !.lcm2 = @ \cup sig]

splitLocal(entries) ==
    With(byDegree(entries, DOMAIN entries), LAMBDA order :
    With(Seeds(entries, order), LAMBDA seeds :
        FoldLeft(LAMBDA g, i : assignLocal(g, i, entries[i].sig),
                 [group1 |-> <<seeds[1]>>, group2 |-> <<seeds[2]>>,
                  lcm1 |-> entries[seeds[1]].sig, lcm2 |-> entries[seeds[2]].sig],
                 SelectSeq(order, LAMBDA i : i \notin {seeds[1], seeds[2]}))))

Pick(entries, grp) == [i \in DOMAIN grp |-> entries[grp[i]]]

\* The root hands all its entries to two new nodes and rises by one level.
performSplitRoot(db, hdr) ==
    LET block  == db.nodes[Root]
        first  == <<hdr.level, 0>>
        second == <<hdr.level, Denom \div 2>>
        New(l, r, es) == <<Header(l, r, hdr.level, "NONLEAF")>> \o es
        divided(g) ==
            LET empty == splitBlock(block, Pick(Tail(block), g.group1 \o g.group2))
                two   == put(put(empty, "UPDATE", [key |-> first, sig |-> g.lcm1]),
                             "UPDATE", [key |-> second, sig |-> g.lcm2])
            IN  (Root :> sethdr(two, [hdr EXCEPT !.level = @ + 1]))
                @@ (first :> New(0, Denom \div 2, Pick(Tail(block), g.group1)))
                @@ (second :> New(Denom \div 2, Denom, Pick(Tail(block), g.group2))) @@ db.nodes
    IN  IF first \in DOMAIN db.nodes THEN [db EXCEPT !.hung = TRUE]
        ELSE [db EXCEPT !.nodes = With(splitLocal(Tail(block)), divided)]

\* Mutant: the parent is not told of the sibling.
performSplit_noparent(db, t) ==
    LET block == db.nodes[t.id]
        mid   == Mediant(t.hdr.left, t.hdr.right)
        sib   == <<t.hdr.level, mid>>
        divided(g) ==
            LET moved == Pick(Tail(block), g.group2)
                par   == put(db.nodes[t.pid], "REPLACESIG", [key |-> t.id, sig |-> g.lcm1])
            IN  (sib :> (<<Header(mid, t.hdr.right, t.hdr.level, t.hdr.type)>> \o moved))
                @@ (t.id :> sethdr(splitBlock(block, moved), [t.hdr EXCEPT !.right = mid]))
                @@ (t.pid :> par) @@ db.nodes
    IN  IF ~Full(block) \/ block[1] # t.hdr THEN db
        ELSE IF sib \in DOMAIN db.nodes THEN [db EXCEPT !.hung = TRUE]
        ELSE [db EXCEPT !.nodes = With(splitLocal(Tail(block)), divided)]

\* A node hands its second group to a sibling; the node t.pid is told of both.
performSplit(db, t) ==
    LET block == db.nodes[t.id]
        mid   == Mediant(t.hdr.left, t.hdr.right)
        sib   == <<t.hdr.level, mid>>
        divided(g) ==
            LET moved == Pick(Tail(block), g.group2)
                par   == put(put(db.nodes[t.pid], "UPDATE", [key |-> sib, sig |-> g.lcm2]),
                             "REPLACESIG", [key |-> t.id, sig |-> g.lcm1])
            IN  (sib :> (<<Header(mid, t.hdr.right, t.hdr.level, t.hdr.type)>> \o moved))
                @@ (t.id :> sethdr(splitBlock(block, moved), [t.hdr EXCEPT !.right = mid]))
                @@ (t.pid :> par) @@ db.nodes
    IN  IF ~Full(block) \/ block[1] # t.hdr THEN db
        ELSE IF sib \in DOMAIN db.nodes THEN [db EXCEPT !.hung = TRUE]
        ELSE [db EXCEPT !.nodes = With(splitLocal(Tail(block)), divided)]

-------------------------------------------------------------------------------
\* The nodes from the root to the leaf that a signature leads to.
RECURSIVE descend(_, _, _)
descend(nodes, path, sig) ==
    IF nodes[Last(path)][1].type = "LEAF" THEN path
    ELSE descend(nodes, Append(path, pickChild(Tail(nodes[Last(path)]), sig)), sig)

\* The lowest node of a path, above its leaf, that has room or is the root.
Room(nodes, path) ==
    LET ok == {i \in 1..(Len(path) - 1) : i = 1 \/ ~Full(nodes[path[i]])}
    IN  CHOOSE i \in ok : \A j \in ok : j <= i

\* The full nodes below it in the order of fullNodeIDs: the leaf first, each with
\* the node before it in the list for its parent.
fullNodes(nodes, path) ==
    LET top == Room(nodes, path)
        ids == Reverse(SubSeq(path, top + 1, Len(path)))
    IN  [i \in DOMAIN ids |-> [id |-> ids[i], hdr |-> nodes[ids[i]][1],
                               pid |-> IF i = 1 THEN path[top] ELSE ids[i - 1]]]

RECURSIVE insertDocument(_, _, _)
insertDocument(db, key, sig) ==
    With(descend(db.nodes, <<Root>>, sig), LAMBDA path :
        LET leaf    == Last(path)
            covered(nodes, i) ==
                insertBDB(nodes, path[i], put(nodes[path[i]], "UPDATEIFPRESENT", [key |-> path[i + 1], sig |-> sig]))
            top     == Room(db.nodes, path)
            rooted  == IF top = 1 /\ Full(db.nodes[Root]) THEN performSplitRoot(db, db.nodes[Root][1]) ELSE db
        IN  IF db.hung THEN db
            ELSE IF Full(db.nodes[leaf])
            THEN With(FoldLeft(performSplit, rooted, fullNodes(db.nodes, path)),
                      LAMBDA split : insertDocument(split, key, sig))
            ELSE [db EXCEPT !.nodes =
                    FoldLeft(covered,
                             insertBDB(@, leaf, put(@[leaf], "UPDATE", [key |-> key, sig |-> sig])),
                             [i \in 1..(Len(path) - 1) |-> Len(path) - i])])

\* -i: the documents of a file, one after the other.
insertAll(sigs) ==
    FoldLeft(LAMBDA db, d : insertDocument(db, DocKey(d), sigs[d]), EmptyIndex, [d \in DOMAIN sigs |-> d])

\* -q: the documents that a query counts, one for each entry it meets; a node
\* with two parents is visited twice.
RECURSIVE queryLocal(_, _, _)
queryLocal(nodes, node, q) ==
    LET hits == SelectSeq(Tail(nodes[node]), LAMBDA e : Below(q, e.sig) # <<>>)
    IN  IF nodes[node][1].type = "LEAF" THEN {hits[i].key : i \in DOMAIN hits}
        ELSE UNION {queryLocal(nodes, hits[i].key, Below(q, hits[i].sig)) : i \in DOMAIN hits}

-------------------------------------------------------------------------------
(* Properties of the local index.                                             *)

\* "step 3: Now update parent entry" (gis_chordID.C:1629): the node that
\* performSplit tells of a split is the one that leads to the node it splits.
\* Then a node other than the root has one parent, and a leaf holds documents
\* and nothing else.
Parents(db, k) == {p \in DOMAIN db.nodes : \E i \in 2..Len(db.nodes[p]) : db.nodes[p][i].key = k}
ParentTold(db) ==
    \A k \in DOMAIN db.nodes \ {Root} :
        Cardinality(Parents(db, k)) = 1 /\ \A p \in Parents(db, k) : db.nodes[p][1].type # "LEAF"

\* As long as the root has not been split, whatever was inserted in whatever
\* order: a query finds the documents that verifyProcess finds by reading all of
\* them, the tree is a tree, and no split waits for ever.  (When the root is
\* split, a full leaf below it is then split as if it were still its child.)
IndexRight(sigs, q) ==
    With(insertAll(sigs), LAMBDA db :
        db.nodes[Root][1].level = 1 =>
            /\ ~db.hung /\ ParentTold(db)
            /\ queryLocal(db.nodes, Root, q) = {DocKey(d) : d \in verifyProcess(sigs, q)})
===============================================================================
