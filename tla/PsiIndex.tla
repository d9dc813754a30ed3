------------------------------- MODULE PsiIndex -------------------------------
(* The distributed signature index of psi.C.  Its nodes are blocks of the     *)
(* DHT; several clients insert documents into it at once, without locks: who  *)
(* first creates a node's sibling splits the node, the others wait until its  *)
(* header changes.  One request to a block is one step (see BlockStore).  A   *)
(* client may die between two of them, send one again because its answer was  *)
(* lost, or give it up; a request given up may still arrive, and its answer   *)
(* is then taken for that of the call the client waits in.                    *)
EXTENDS NodeBlock, TLC

CONSTANTS Client,
          Sig,          \* [document -> signature]
          Work,         \* [client -> sequence of documents to insert]
          Start,        \* trees to start from
          ATTEMPTS,     \* how often a client looks whether a split is over: 6
          FAULTS,       \* bound on faults in a behaviour
          metric

PsiAssumption ==
    /\ FAULTS \in Nat /\ ATTEMPTS \in Nat \ {0}
    /\ \A c \in Client : \A i \in DOMAIN Work[c] : Work[c][i] \in DOMAIN Sig

VARIABLES dht,          \* the nodes that exist, [key -> block]
          st,           \* the clients
          acked,        \* documents that insertDocument reported as inserted
          faults,
          stores,       \* requests given up that may still arrive, each with the
                        \* client whose store_cb waits for it, if one does
          stray,        \* answers a client has given up and still gets
          late          \* a request or an answer given up has arrived

vars == <<dht, st, acked, faults, stores, stray, late>>
net == <<faults, stores, stray, late>>

T == INSTANCE SigTree

-------------------------------------------------------------------------------
(* Keys.  A node is named by its level and the left end of its interval; the  *)
(* ends are fractions n/d, kept as multiples of 1/Denom.                       *)

Denom == 60
Root == <<-1, 0>>
DocKey(d) == <<-2, d>>

Gcd(a, b) ==
    LET common == {g \in 1..Denom : a % g = 0 /\ b % g = 0}
    IN  CHOOSE g \in common : \A h \in common : h <= g
Num(x) == x \div Gcd(x, Denom)
Den(x) == Denom \div Gcd(x, Denom)

\* Where a node is cut: (ln + rn) / (ld + rd).
Mediant(l, r) == (Denom * (Num(l) + Num(r))) \div (Den(l) + Den(r))

Header(left, right, level, root) ==
    [left |-> left, right |-> right, level |-> level, random |-> 0, root |-> root]

Block(key) == IF key \in DOMAIN dht THEN dht[key] ELSE <<>>
IsFull(block) == Len(block) > MAXENTRIES
IsLeaf(hdr) == hdr.level = 0

-------------------------------------------------------------------------------
(* Requests: a key and what its block is asked for.                           *)

Ask(key, op) == [key |-> key, op |-> op]
Lock(key, hdr) == Ask(key, [type |-> "UPDATEHDRLOCK", hdr |-> hdr])
SetHdr(key, hdr) == Ask(key, [type |-> "UPDATEHDR", hdr |-> hdr])
Put(key, type, k, sig, doc) == Ask(key, [type |-> type, key |-> k, sig |-> sig, doc |-> doc])
Fill(key, entries, grp) == Ask(key, [type |-> "SPLIT", entries |-> [i \in DOMAIN grp |-> entries[grp[i]]]])

\* makeKeyValueSpecial: only the keys, to take the entries out of a node.
TakeOut(key, entries, grp) ==
    Ask(key, [type |-> "SPLIT",
              entries |-> [i \in DOMAIN grp |-> [key |-> entries[grp[i]].key, sig |-> {}]]])

\* performSplitRoot: the entries of the root go to two new nodes of its level,
\* and the root rises by one.  A root that was a leaf first announces it.
rootOps(key, hdr, entries, g) ==
    LET first  == <<hdr.level, 0>>
        second == <<hdr.level, Denom \div 2>>
    IN  [lock |-> Lock(first, Header(0, Denom \div 2, hdr.level, FALSE)),
         ops  |-> <<Fill(first, entries, g.group1),
                    Lock(second, Header(Denom \div 2, Denom, hdr.level, FALSE)),
                    Fill(second, entries, g.group2)>>
               \o (IF IsLeaf(hdr) THEN <<SetHdr(key, [hdr EXCEPT !.random = -1])>> ELSE <<>>)
               \o <<TakeOut(key, entries, g.group1 \o g.group2),
                    Put(key, "UPDATE", first, g.lcm1, FALSE),
                    Put(key, "UPDATE", second, g.lcm2, FALSE),
                    SetHdr(key, [hdr EXCEPT !.level = @ + 1])>>]

\* Mutant: the entries leave the node before they are in its sibling.
splitOps_removefirst(key, pkey, hdr, entries, g) ==
    LET mid  == Mediant(hdr.left, hdr.right)
        sib  == <<hdr.level, mid>>
    IN  [lock |-> Lock(sib, Header(mid, hdr.right, hdr.level, FALSE)),
         ops  |-> <<TakeOut(key, entries, g.group2),
                    Fill(sib, entries, g.group2),
                    Put(pkey, "UPDATE", sib, g.lcm2, FALSE),
                    Put(pkey, "REPLACESIG", key, g.lcm1, FALSE),
                    SetHdr(key, [hdr EXCEPT !.right = mid])>>]

\* Mutant: the parent keeps the two signatures the wrong way round.
splitOps_swapped(key, pkey, hdr, entries, g) ==
    LET mid  == Mediant(hdr.left, hdr.right)
        sib  == <<hdr.level, mid>>
    IN  [lock |-> Lock(sib, Header(mid, hdr.right, hdr.level, FALSE)),
         ops  |-> <<Fill(sib, entries, g.group2),
                    Put(pkey, "UPDATE", sib, g.lcm1, FALSE),
                    Put(pkey, "REPLACESIG", key, g.lcm2, FALSE),
                    TakeOut(key, entries, g.group2),
                    SetHdr(key, [hdr EXCEPT !.right = mid])>>]

\* performSplit: the second group goes to a sibling on the right, which the
\* parent learns of before the entries leave the node.
splitOps(key, pkey, hdr, entries, g) ==
    LET mid  == Mediant(hdr.left, hdr.right)
        sib  == <<hdr.level, mid>>
    IN  [lock |-> Lock(sib, Header(mid, hdr.right, hdr.level, FALSE)),
         ops  |-> <<Fill(sib, entries, g.group2),
                    Put(pkey, "UPDATE", sib, g.lcm2, FALSE),
                    Put(pkey, "REPLACESIG", key, g.lcm1, FALSE),
                    TakeOut(key, entries, g.group2),
                    SetHdr(key, [hdr EXCEPT !.right = mid])>>]

-------------------------------------------------------------------------------
(* Clients.  path: the nodes between the root and node, each as it was seen;  *)
(* fulls: fullNodeIDs and fullNodeInts; ops: what is left of a split.         *)

Idle(docs) == [pc |-> IF docs = <<>> THEN "done" ELSE "insert", docs |-> docs, node |-> Root,
               path |-> <<>>, splits |-> <<>>, lock |-> <<>>, ops |-> <<>>, tries |-> 0]

Init ==
    /\ dht \in Start
    /\ st = [c \in Client |-> Idle(Work[c])]
    /\ acked = UNION {{d \in DOMAIN Sig : \E i \in DOMAIN dht[k] : i > 1 /\ dht[k][i].key = DocKey(d)}
                          : k \in DOMAIN dht}
    /\ faults = 0
    /\ stores = {} /\ stray = [c \in Client |-> {}] /\ late = FALSE

doc(c) == Head(st[c].docs)
Become(c, s) == st' = [st EXCEPT ![c] = s]

\* The document is done with, or is inserted again from the root.
NextDoc(c) == Become(c, Idle(Tail(st[c].docs)))
Reinsert(c) == Become(c, Idle(st[c].docs))

\* A leaf is full.  Full nodes on the way up are split too, the highest first,
\* each under the one above it; the root is split if it is full as well.
room(path) == {i \in DOMAIN path : path[i].hdr.root \/ ~path[i].full}
fullAbove(path) == CHOOSE i \in room(path) : \A j \in room(path) : j <= i

\* fullNodeIDs is filled from the leaf upwards and worked off in that order: the
\* leaf is split under the first node with room, the next one under the leaf.
splitTasks(path, leaf, hdr) ==
    LET top   == fullAbove(path)
        up    == <<[id |-> leaf, hdr |-> hdr]>>
                 \o Reverse([i \in 1..(Len(path) - top) |-> [id |-> path[top + i].id, hdr |-> path[top + i].hdr]])
        tasks == [i \in DOMAIN up |-> [id |-> up[i].id, hdr |-> up[i].hdr,
                                       pid |-> IF i = 1 THEN path[top].id ELSE up[i - 1].id]]
    IN  IF path[top].hdr.root /\ path[top].full
        THEN <<[id |-> path[top].id, hdr |-> path[top].hdr, pid |-> Root]>> \o tasks
        ELSE tasks

Fault == faults < FAULTS /\ faults' = faults + 1

\* retrieveDHT of a key ends with the entries b: those of the block; after 20
\* turns with none, so that fetch_cb is still to come; or through a callback of
\* a call given up before, with what that one fetched, and then it is this
\* fetch_cb that is still to come.
Fetch(key) == [key |-> key, stat |-> "FETCH"]
Swap(c, x, y) == stray' = [stray EXCEPT ![c] = (@ \ x) \cup y]
retrieveDHT(c, key, b) ==
    /\ \/ b = Block(key) /\ UNCHANGED <<faults, stray, late>>
       \/ b = <<>> /\ Fault /\ Swap(c, {}, {Fetch(key)}) /\ UNCHANGED late
       \/ \E x \in stray[c] :
            /\ b = IF x.stat = "FETCH" THEN Block(x.key) ELSE <<>>
            /\ Swap(c, {x}, {Fetch(key)}) /\ late' = TRUE
            /\ UNCHANGED faults
    /\ UNCHANGED stores
Fetched(c, key) == {Block(key), <<>>} \cup {Block(x.key) : x \in stray[c]}

\* insertDocument and insertDocumentO on one node.  A root that is not there is
\* created; main looks at the status of the last fetch_cb for that.
insertDocument(c) ==
    LET s == st[c] IN
    /\ s.pc = "insert"
    /\ \E b \in Fetched(c, s.node) : LET entries == Tail(b) IN
        /\ retrieveDHT(c, s.node, b)
        /\ \/ b = <<>> /\ s.node = Root /\ b = Block(Root) /\ Become(c, [s EXCEPT !.pc = "create"])
           \/ b = <<>> /\ s.node = Root /\ b # Block(Root) /\ (NextDoc(c) \/ Reinsert(c))
           \/ b = <<>> /\ s.node # Root /\ NextDoc(c)
           \/ /\ b # <<>> /\ IsLeaf(b[1]) /\ IsFull(b)
              /\ IF ~b[1].root /\ room(s.path) = {} THEN NextDoc(c)
                 ELSE LET tasks == IF b[1].root THEN <<[id |-> s.node, hdr |-> b[1], pid |-> Root]>>
                                   ELSE splitTasks(s.path, s.node, b[1])
                      IN  Become(c, [s EXCEPT !.pc = "split", !.splits = tasks])
           \/ b # <<>> /\ IsLeaf(b[1]) /\ ~IsFull(b) /\ Become(c, [s EXCEPT !.pc = "update"])
           \/ b # <<>> /\ ~IsLeaf(b[1]) /\ entries = <<>> /\ NextDoc(c)
           \/ /\ b # <<>> /\ ~IsLeaf(b[1]) /\ entries # <<>>
              /\ Become(c, [s EXCEPT !.node = T!pickChild(entries, Sig[doc(c)]),
                                     !.path = Append(@, [id |-> s.node, hdr |-> b[1], full |-> IsFull(b)])])
    /\ UNCHANGED <<dht, acked>>

\* The next node to split: it must still be as it was seen, and full.
performSplit(c) ==
    LET s == st[c]
        t == Head(s.splits)
    IN  /\ s.pc = "split" /\ s.splits # <<>>
        /\ \E b \in Fetched(c, t.id) :
           /\ retrieveDHT(c, t.id, b)
           /\ IF IsFull(b) /\ SameInterval(b[1], t.hdr)
              THEN \E entries \in {Tail(b)} : \E g \in {T!splitNode(entries)} :
                   \E plan \in {IF b[1].root THEN rootOps(t.id, b[1], entries, g)
                                           ELSE splitOps(t.id, t.pid, b[1], entries, g)} :
                      Become(c, [s EXCEPT !.pc = "lock", !.lock = plan.lock, !.ops = plan.ops])
              ELSE NextDoc(c)
        /\ UNCHANGED <<dht, acked>>

\* All are split: the document is inserted again.
AllSplit(c) ==
    /\ st[c].pc = "split" /\ st[c].splits = <<>>
    /\ Reinsert(c)
    /\ UNCHANGED <<dht, acked, net>>

SplitDone(c) == Become(c, [st[c] EXCEPT !.pc = "split", !.splits = Tail(@), !.ops = <<>>, !.lock = <<>>])

\* What client c asks for next.
request(c) ==
    LET s == st[c] IN
    CASE s.pc = "create" -> Lock(Root, Header(0, Denom, 0, TRUE))
      [] s.pc = "update" -> Put(s.node, "UPDATE", DocKey(doc(c)), Sig[doc(c)], TRUE)
      [] s.pc = "climb"  -> Put(Last(s.path).id, "UPDATEIFPRESENT", s.node, Sig[doc(c)], FALSE)
      [] s.pc = "lock"   -> s.lock
      [] s.pc = "split2" -> Head(s.ops)

Asking(c) == st[c].pc \in {"create", "update", "climb", "lock", "split2"}
answer(c) == adjust_data(Block(request(c).key), request(c).op)
Store(key, block) == dht' = IF block = <<>> THEN dht ELSE (key :> block) @@ dht

\* One level up, where the entry of the child is to cover the document.
Up(c, path, node) ==
    IF path = <<>> THEN NextDoc(c) /\ acked' = acked \cup {doc(c)}
    ELSE Become(c, [st[c] EXCEPT !.pc = "climb", !.path = path, !.node = node]) /\ UNCHANGED acked

\* What the client makes of the status that insertDHT returns.
Returned(c, stat) ==
    LET s == st[c]
        NF == stat = "NOTFIRST"
        ok == stat = "OK" \/ (NF /\ s.pc # "update")
    IN  \/ s.pc = "create" /\ ok /\ Reinsert(c) /\ UNCHANGED acked
        \/ s.pc = "update" /\ ok /\ Up(c, s.path, s.node)
        \/ s.pc = "climb" /\ ok /\ Up(c, Front(s.path), Last(s.path).id)
        \/ s.pc = "lock" /\ ok /\ ~NF /\ Become(c, [s EXCEPT !.pc = "split2", !.lock = <<>>]) /\ UNCHANGED acked
        \/ s.pc = "lock" /\ NF /\ Become(c, [s EXCEPT !.pc = "poll", !.tries = ATTEMPTS]) /\ UNCHANGED acked
        \/ /\ s.pc = "split2" /\ ok /\ UNCHANGED acked
           /\ IF NF /\ Head(s.ops).op.type = "UPDATEHDRLOCK" THEN SplitDone(c)
              ELSE IF Len(s.ops) = 1 THEN Become(c, [s EXCEPT !.pc = "check"])
              ELSE Become(c, [s EXCEPT !.ops = Tail(@)])
        \/ ~ok /\ NextDoc(c) /\ UNCHANGED acked

\* insertDHT: a request is answered, ...
insertDHT(c) ==
    /\ Asking(c)
    /\ \E a \in {answer(c)} : Store(request(c).key, a.block) /\ Returned(c, a.stat)
    /\ UNCHANGED net

\* ... or the wait for it ends through the callback of a call given up before:
\* fetch_cb leaves the status at SUCC.  The request is still under way.
Given(c, by) == stores' = stores \cup {[key |-> request(c).key, op |-> request(c).op, by |-> by]}
StrayAnswer(c) ==
    /\ Asking(c)
    /\ \E x \in stray[c] :
         /\ Returned(c, IF x.stat = "FETCH" THEN "OK" ELSE x.stat)
         /\ Swap(c, {x}, {})
    /\ Given(c, {c}) /\ late' = TRUE
    /\ UNCHANGED <<dht, faults>>

\* Who has split a node looks at its header: it goes on whatever it is, and sends
\* it again when it gets none.
checkHeader(c) ==
    LET s == st[c]
        key == Head(s.ops).key
    IN  /\ s.pc = "check"
        /\ \E b \in Fetched(c, key) :
             /\ retrieveDHT(c, key, b)
             /\ IF b = <<>> THEN Become(c, [s EXCEPT !.pc = "split2"]) ELSE SplitDone(c)
        /\ UNCHANGED <<dht, acked>>

\* Mutant: the wait has no end.
awaitHeader_forever(c) ==
    LET s == st[c]
        t == Head(s.splits)
    IN  /\ s.pc = "poll"
        /\ \E b \in Fetched(c, t.id) :
             /\ retrieveDHT(c, t.id, b)
             /\ IF b = <<>> THEN NextDoc(c)
                ELSE IF ~SameInterval(b[1], t.hdr) THEN SplitDone(c)
                ELSE Become(c, [s EXCEPT !.tries = IF @ = 0 THEN ATTEMPTS ELSE @ - 1])
        /\ UNCHANGED <<dht, acked>>

\* The header of the node that another client splits.
awaitHeader(c) ==
    LET s == st[c]
        t == Head(s.splits)
    IN  /\ s.pc = "poll"
        /\ \E b \in Fetched(c, t.id) :
             /\ retrieveDHT(c, t.id, b)
             /\ IF b = <<>> THEN NextDoc(c)
                ELSE IF ~SameInterval(b[1], t.hdr) THEN SplitDone(c)
                ELSE IF s.tries > 1 THEN Become(c, [s EXCEPT !.tries = @ - 1])
                ELSE NextDoc(c)
        /\ UNCHANGED <<dht, acked>>

-------------------------------------------------------------------------------
(* Faults.                                                                    *)

\* A request is carried out, or is still under way, when insertDHT is told an
\* error, and it sends it again.
LostAnswer(c) ==
    /\ Asking(c) /\ Fault
    /\ \/ Store(request(c).key, answer(c).block) /\ UNCHANGED stores
       \/ Given(c, {}) /\ UNCHANGED dht
    /\ UNCHANGED <<st, acked, stray, late>>

\* insertDHT was told errors STOPCOUNT times, and fails; the request was carried
\* out, or may yet be.
GiveUp(c) ==
    /\ Asking(c) /\ Fault
    /\ \/ Store(request(c).key, answer(c).block) /\ UNCHANGED stores
       \/ Given(c, {}) /\ UNCHANGED dht
    /\ Returned(c, "FAIL")
    /\ UNCHANGED <<stray, late>>

\* A request that was given up is carried out.
LateStore(x) ==
    /\ \E a \in {adjust_data(Block(x.key), x.op)} :
         /\ Store(x.key, a.block)
         /\ stray' = [c \in Client |-> stray[c] \cup
                         {[key |-> x.key, stat |-> a.stat] : y \in x.by \cap {c}}]
    /\ stores' = stores \ {x} /\ late' = TRUE
    /\ UNCHANGED <<st, acked, faults>>

\* The client stops for good.
Crash(c) ==
    /\ st[c].pc # "done" /\ Fault
    /\ Become(c, [Idle(<<>>) EXCEPT !.pc = "dead"])
    /\ UNCHANGED <<dht, acked, stores, stray, late>>

Finished == (\A c \in Client : st[c].pc \in {"done", "dead"}) /\ UNCHANGED vars

\* Nothing is said of what follows once something has arrived after it was given
\* up, and the behaviour ends there.
Step(c) ==
    /\ ~late
    /\ \/ insertDocument(c) \/ performSplit(c) \/ AllSplit(c) \/ insertDHT(c) \/ StrayAnswer(c)
       \/ checkHeader(c) \/ awaitHeader(c)
Next ==
    \/ \E c \in Client : Step(c) \/ (~late /\ (LostAnswer(c) \/ GiveUp(c) \/ Crash(c)))
    \/ \E x \in stores : ~late /\ LateStore(x)
    \/ Finished

Spec == Init /\ [][Next]_vars

-------------------------------------------------------------------------------
(* Properties.                                                                *)

Nodes == DOMAIN dht
tree == [k \in Nodes |-> Tail(dht[k])]
leaves == {k \in Nodes : IsLeaf(dht[k][1])}

\* What a query for the given signatures finds.
Found(sigs) == T!queryProcess([visited |-> {}, docs |-> <<>>], Root, sigs, tree, leaves).docs

\* A document that was inserted is never lost: a leaf (or the root, while it is
\* one) holds it at every moment of every split, whoever dies, whatever request
\* is sent twice and whatever is given up, as long as no request or answer
\* arrives after it was given up.  (One that does can end the call of another
\* request, and a late SPLIT takes entries out that are nowhere else.)
NothingLost ==
    ~late => \A d \in acked : \E k \in leaves : \E i \in DOMAIN tree[k] : tree[k][i].key = DocKey(d)

Quiet == \A c \in Client : st[c].pc # "split2"
Finds(sigs, D) == {DocKey(d) : d \in D} \subseteq ToSet(Found(sigs))

\* No inner node below the root has been split: the code tells the wrong node of
\* such a split (see ParentTold of SigTree).
InnerWhole == \A k \in Nodes : k[1] >= 1 => k[2] \in {0, Denom \div 2}

\* Without faults, when no client is in the middle of a split, every inserted
\* document can be reached from the root, and no entry leads to a node that does
\* not exist.  As long as only leaves have been split, a query for a document's
\* signature finds it: the signatures above a leaf cover what was inserted into
\* it while others split it.  (Above that, an UPDATEIFPRESENT that races with the
\* split of the root is lost.)
Findable ==
    faults = 0 /\ Quiet /\ InnerWhole =>
        /\ Finds(<<{}>>, acked)
        /\ \A k \in Nodes \ leaves : \A i \in DOMAIN tree[k] : tree[k][i].key \in Nodes
        /\ Root \in Nodes /\ dht[Root][1].level <= 1 => \A d \in acked : Finds(<<Sig[d]>>, {d})

\* Every client has come to an end of every document, also when the one that won a
\* split died in it.  (A client whose fetch was given up may get each answer one
\* call late from then on, and look for the header it has written for ever.)
InsertsEnded == late \/ \A c \in Client : st[c].pc \in {"done", "dead"}
===============================================================================
