------------------------------ MODULE DhashProofs ------------------------------
(* DHash, for every set of requests and every size.  The stores of one block at *)
(* a node are atomic, and what the index relies on holds whatever the order     *)
(* they come in (BlockStore).  The chunks of a block are put together right,    *)
(* whatever is lost, late or mixed up on the way (ChunkStore).  The database of *)
(* a node and the tree of its keys agree wherever the daemon stops (Adbd).  No  *)
(* block is repaired twice at a time (Repair).                                  *)
EXTENDS BlockStore, ChunkStore, Adbd, Repair, DataLemmas

---------------------------------------------------------------------------------
(* What adjust_data makes of a block.                                           *)

Elem == HeaderType \cup EntryType
Stats == {"OK", "NOTFIRST", "FULL", "RETRYINSERT", "CORRUPTHDR", "ABORT"}

\* The header of a node after a request: another level only if it is higher, and
\* then any interval, else one that is no larger.
Monotone(b, n) ==
    n[1].level > b[1].level \/ (n[1].level = b[1].level /\ n[1].right <= b[1].right)

\* What every request for a node gives.
NodeRight(b, res) ==
    /\ res.stat \in Stats
    /\ res.stat # "OK" => res.block = b
    /\ res.block \in NodeType \cup {<<>>}
    /\ b # <<>> => res.block # <<>> /\ Monotone(b, res.block)

\* Headers and entries are told apart by their fields.
LEMMA Fields ==
    /\ \A h \in HeaderType : "level" \in DOMAIN h
    /\ \A e \in EntryType : "level" \notin DOMAIN e
BY DEF HeaderType, EntryType

\* A node is a sequence.
LEMMA NodeSeq ==
    ASSUME NEW b \in NodeType
    PROVE  /\ b \in Seq(Elem) /\ Len(b) \in Nat \ {0} /\ DOMAIN b = 1..Len(b) /\ 1 \in DOMAIN b
           /\ b[1] \in HeaderType /\ \A i \in 2..Len(b) : b[i] \in EntryType
           /\ b[1].level \in Nat /\ b[1].right \in Int /\ b[1].left \in Int /\ b[1].random \in Int
BY DEF NodeType, HeaderType, Elem

\* A sequence with a header first and then entries is a node.
LEMMA IsNode ==
    ASSUME NEW n \in Nat \ {0}, NEW b \in [1..n -> Elem], b[1] \in HeaderType,
           \A i \in 2..n : b[i] \in EntryType
    PROVE  b \in NodeType /\ Len(b) = n
<1>1. b \in Seq(HeaderType \cup EntryType) /\ Len(b) = n BY DEF Elem
<1> QED BY <1>1 DEF NodeType

\* Appending an entry to a node gives a node with the same header.
LEMMA AppendNode ==
    ASSUME NEW b \in NodeType, NEW e \in EntryType
    PROVE  Append(b, e) \in NodeType /\ Append(b, e)[1] = b[1]
<1>1. b \in Seq(Elem) /\ e \in Elem BY NodeSeq DEF Elem
<1>2. /\ Append(b, e) \in Seq(Elem) /\ Len(Append(b, e)) = Len(b) + 1
      /\ \A i \in 1..Len(b) : Append(b, e)[i] = b[i] /\ Append(b, e)[Len(b) + 1] = e
  BY <1>1
<1>3. \A i \in 2..(Len(b) + 1) : Append(b, e)[i] \in EntryType BY <1>1, <1>2, NodeSeq
<1>4. Append(b, e)[1] = b[1] /\ Append(b, e) # <<>> BY <1>1, <1>2, NodeSeq
<1> QED BY <1>1, <1>2, <1>3, <1>4, NodeSeq DEF NodeType, Elem

\* Changing signatures gives a node with the same header.
LEMMA SetSigNode ==
    ASSUME NEW b \in NodeType, NEW type, NEW e \in EntryType
    PROVE  SetSig(b, type, e) \in NodeType /\ SetSig(b, type, e)[1] = b[1]
<1> DEFINE t == SetSig(b, type, e)
<1>1. Len(b) \in Nat \ {0} /\ DOMAIN b = 1..Len(b) BY NodeSeq
<1>2. t = [i \in 1..Len(b) |-> t[i]] /\ t[1] = b[1] /\ b[1] \in HeaderType BY <1>1, NodeSeq DEF SetSig
<1>3. ASSUME NEW i \in 2..Len(b) PROVE t[i] \in EntryType
  <2>1. b[i] \in EntryType BY NodeSeq
  <2>2. NewSig(type, b[i].sig, e.sig) \in SUBSET Poly BY <2>1 DEF NewSig, EntryType
  <2>3. t[i] = b[i] \/ t[i] = [b[i] EXCEPT !.sig = NewSig(type, b[i].sig, e.sig)]
    BY <1>1 DEF SetSig
  <2> QED BY <2>1, <2>2, <2>3 DEF EntryType
<1> HIDE DEF t
<1>4. t \in [1..Len(b) -> Elem]
  <2>1. \A i \in 1..Len(b) : i = 1 \/ i \in 2..Len(b) BY <1>1
  <2>2. \A i \in 1..Len(b) : t[i] \in Elem BY <1>2, <1>3, <2>1 DEF Elem
  <2> QED BY <1>2, <2>2
<1>5. t \in NodeType BY <1>1, <1>2, <1>3, <1>4, IsNode
<1> QED BY <1>2, <1>5 DEF t

\* An entry of a replica is merged into a node: a node with the same header.
LEMMA MergeEntryNode ==
    ASSUME NEW b \in NodeType, NEW e \in EntryType
    PROVE  MergeEntry(b, e) \in NodeType /\ MergeEntry(b, e)[1] = b[1]
<1>1. CASE HasKey(b, e.key)
  <2> DEFINE P(i) == b[i].key = e.key /\ \A j \in 2..(i - 1) : b[j].key # e.key
           t == [b EXCEPT ![FirstEntry(b, e.key)].sig = @ \cup e.sig]
  <2>0. b \in Seq(Elem) /\ Len(b) \in Nat \ {0} /\ DOMAIN b = 1..Len(b) BY NodeSeq
  <2>1. \E i \in 2..Len(b) : P(i)
    <3> DEFINE T == {i \in Nat : i \in 2..Len(b) /\ b[i].key = e.key}
    <3>1. T # {} BY <1>1, <2>0 DEF HasKey
    <3>2. PICK i \in T : \A y \in T : i <= y BY <3>1, LeastNat
    <3>3. \A j \in 2..(i - 1) : j \notin T BY <3>2
    <3> QED BY <2>0, <3>2, <3>3
  <2>2. PICK i : i = FirstEntry(b, e.key) OBVIOUS
  <2>3. i \in 2..Len(b) BY <2>1, <2>2 DEF FirstEntry
  <2>4. MergeEntry(b, e) = t BY <1>1 DEF MergeEntry
  <2>5. b[i] \in EntryType BY <2>3, NodeSeq
  <2>6. [b[i] EXCEPT !.sig = @ \cup e.sig] \in EntryType BY <2>5 DEF EntryType
  <2>7. t \in [1..Len(b) -> Elem] /\ t[1] = b[1] /\ b[1] \in HeaderType
    <3>1. b \in [1..Len(b) -> Elem] BY <2>0
    <3>2. t = [b EXCEPT ![i] = [b[i] EXCEPT !.sig = @ \cup e.sig]] BY <2>2
    <3>3. [b[i] EXCEPT !.sig = @ \cup e.sig] \in Elem BY <2>6 DEF Elem
    <3>4. PICK x : x = [b[i] EXCEPT !.sig = @ \cup e.sig] OBVIOUS
    <3> HIDE DEF t
    <3>5. t = [b EXCEPT ![i] = x] /\ x \in Elem BY <3>2, <3>3, <3>4
    <3>6. t \in [1..Len(b) -> Elem] BY <3>1, <3>5
    <3>7. t[1] = b[1] BY <2>0, <2>3, <3>5
    <3> QED BY <3>6, <3>7, NodeSeq
  <2>8. \A j \in 2..Len(b) : t[j] \in EntryType BY <2>0, <2>2, <2>3, <2>6, NodeSeq
  <2> HIDE DEF t
  <2>9. t \in NodeType BY <2>0, <2>7, <2>8, NodeSeq, IsNode
  <2> QED BY <2>4, <2>7, <2>9 DEF t
<1>2. CASE ~HasKey(b, e.key) BY <1>2, AppendNode DEF MergeEntry
<1> QED BY <1>1, <1>2

\* m is what the first entries of es, up to the k-th, make of old.
Merging(old, es, k, m) ==
    /\ DOMAIN m = 0..k
    /\ \A i \in 0..k : m[i] = IF i = 0 THEN old ELSE MergeEntry(m[i - 1], es[i])

\* There is such an m for every length.
LEMMA MergingExists ==
    ASSUME NEW n \in Nat, NEW old, NEW es
    PROVE  \E m : Merging(old, es, n, m)
<1> DEFINE T == {k \in Nat : ~ \E m : Merging(old, es, k, m)}
<1>1. SUFFICES ASSUME T # {} PROVE FALSE
  OBVIOUS
<1>2. PICK k \in T : \A y \in T : k <= y
  BY <1>1, LeastNat
<1>3. k # 0
  <2>1. Merging(old, es, 0, [i \in 0..0 |-> old]) BY DEF Merging
  <2> QED BY <2>1
<1>4. PICK m : Merging(old, es, k - 1, m)
  BY <1>2, <1>3
<1> DEFINE t == [i \in 0..k |-> IF i = k THEN MergeEntry(m[k - 1], es[k]) ELSE m[i]]
<1>5. Merging(old, es, k, t)
  <2>1. k \in Nat /\ k >= 1 BY <1>2, <1>3
  <2>2. DOMAIN t = 0..k OBVIOUS
  <2>3. ASSUME NEW i \in 0..k PROVE t[i] = IF i = 0 THEN old ELSE MergeEntry(t[i - 1], es[i])
    <3>1. CASE i = k
      <4>1. k - 1 \in 0..k /\ k - 1 # k BY <2>1
      <4>2. t[k - 1] = m[k - 1] BY <4>1
      <4> QED BY <2>1, <3>1, <4>2
    <3>2. CASE i # k
      <4>1. i \in 0..(k - 1) BY <2>1, <3>2
      <4>2. t[i] = m[i] BY <3>2
      <4>3. i # 0 => i - 1 \in 0..k /\ i - 1 # k BY <4>1
      <4>4. i # 0 => t[i - 1] = m[i - 1] BY <4>3
      <4>5. m[i] = IF i = 0 THEN old ELSE MergeEntry(m[i - 1], es[i]) BY <1>4, <4>1 DEF Merging
      <4> QED BY <4>2, <4>4, <4>5
    <3> QED BY <3>1, <3>2
  <2> QED BY <2>2, <2>3 DEF Merging
<1> QED BY <1>5, <1>2

\* A replica is merged into a node: a node with the same header.
LEMMA MergeEntriesNode ==
    ASSUME NEW b \in NodeType, NEW es \in Seq(EntryType)
    PROVE  MergeEntries(b, es) \in NodeType /\ MergeEntries(b, es)[1] = b[1]
<1> DEFINE n == Len(es)
           Eqn(m) == m = [i \in 0..n |-> IF i = 0 THEN b ELSE MergeEntry(m[i - 1], es[i])]
           c == CHOOSE m : Eqn(m)
<1>0. n \in Nat /\ \A i \in 1..n : es[i] \in EntryType OBVIOUS
<1>1. PICK m0 : Merging(b, es, n, m0) BY <1>0, MergingExists
<1>2. \E m : Eqn(m)
  <2>0. PICK m1 : m1 = [i \in 0..n |-> m0[i]] OBVIOUS
  <2>1. DOMAIN m1 = 0..n /\ \A i \in 0..n : m1[i] = m0[i] BY <2>0
  <2>2. \A i \in 0..n : i # 0 => i - 1 \in 0..n BY <1>0
  <2>3. \A i \in 0..n : m1[i] = IF i = 0 THEN b ELSE MergeEntry(m1[i - 1], es[i])
    BY <1>1, <2>1, <2>2 DEF Merging
  <2>4. m1 = [i \in 0..n |-> m1[i]] BY <2>0, <2>1
  <2>5. Eqn(m1) BY <2>3, <2>4
  <2> QED BY <2>5
<1>3. Eqn(c) BY <1>2
<1>4. MergeEntries(b, es) = c[n] BY DEF MergeEntries
<1>5. Merging(b, es, n, c) BY <1>3 DEF Merging
<1> HIDE DEF c, n
<1> DEFINE T == {k \in Nat : k <= n /\ ~(c[k] \in NodeType /\ c[k][1] = b[1])}
<1>6. ASSUME T # {} PROVE FALSE
  <2>1. PICK k \in T : \A y \in T : k <= y BY <1>6, LeastNat
  <2>2. k # 0 BY <1>0, <1>5, <2>1 DEF Merging
  <2>3. k - 1 \in Nat /\ k - 1 <= n /\ k - 1 \notin T BY <1>0, <2>1, <2>2
  <2>4. c[k - 1] \in NodeType /\ c[k - 1][1] = b[1] /\ es[k] \in EntryType BY <1>0, <2>1, <2>2, <2>3
  <2>5. c[k] = MergeEntry(c[k - 1], es[k]) BY <1>0, <1>5, <2>1, <2>2 DEF Merging
  <2>6. c[k] \in NodeType /\ c[k][1] = c[k - 1][1] BY <2>4, <2>5, MergeEntryNode
  <2> QED BY <2>1, <2>4, <2>6
<1>7. n \notin T BY <1>6
<1> QED BY <1>0, <1>4, <1>7

\* What is kept of the element x of a node when the entries es are deleted.
Keep(b, es, k, x) ==
    IF \E j \in DOMAIN es : es[j].key = b[k].key THEN x ELSE Append(x, b[k])

\* m is what is kept of the first elements of b, up to the k-th.
Keeping(b, es, k, m) ==
    /\ DOMAIN m = 1..k
    /\ \A i \in 1..k : m[i] = IF i = 1 THEN <<b[1]>> ELSE Keep(b, es, i, m[i - 1])

\* There is such an m for every length.
LEMMA KeepingExists ==
    ASSUME NEW n \in Nat \ {0}, NEW b, NEW es
    PROVE  \E m : Keeping(b, es, n, m)
<1> DEFINE T == {k \in Nat : k # 0 /\ ~ \E m : Keeping(b, es, k, m)}
<1>1. SUFFICES ASSUME T # {} PROVE FALSE
  OBVIOUS
<1>2. PICK k \in T : \A y \in T : k <= y
  BY <1>1, LeastNat
<1>3. k # 1
  <2>1. Keeping(b, es, 1, [i \in 1..1 |-> <<b[1]>>]) BY DEF Keeping
  <2> QED BY <2>1
<1>4. PICK m : Keeping(b, es, k - 1, m)
  BY <1>2, <1>3
<1> DEFINE t == [i \in 1..k |-> IF i = k THEN Keep(b, es, k, m[k - 1]) ELSE m[i]]
<1>5. Keeping(b, es, k, t)
  <2>1. k \in Nat /\ k >= 2 BY <1>2, <1>3
  <2>2. DOMAIN t = 1..k OBVIOUS
  <2>3. ASSUME NEW i \in 1..k PROVE t[i] = IF i = 1 THEN <<b[1]>> ELSE Keep(b, es, i, t[i - 1])
    <3>1. CASE i = k
      <4>1. k - 1 \in 1..k /\ k - 1 # k BY <2>1
      <4>2. t[k - 1] = m[k - 1] BY <4>1
      <4> QED BY <2>1, <3>1, <4>2
    <3>2. CASE i # k
      <4>1. i \in 1..(k - 1) BY <2>1, <3>2
      <4>2. t[i] = m[i] BY <3>2
      <4>3. i # 1 => i - 1 \in 1..k /\ i - 1 # k BY <4>1
      <4>4. i # 1 => t[i - 1] = m[i - 1] BY <4>3
      <4>5. m[i] = IF i = 1 THEN <<b[1]>> ELSE Keep(b, es, i, m[i - 1]) BY <1>4, <4>1 DEF Keeping
      <4> QED BY <4>2, <4>4, <4>5
    <3> QED BY <3>1, <3>2
  <2> QED BY <2>2, <2>3 DEF Keeping
<1> QED BY <1>5, <1>2

\* Deleting entries from a node gives a node with the same header.
LEMMA WithoutNode ==
    ASSUME NEW b \in NodeType, NEW es
    PROVE  Without(b, es) \in NodeType /\ Without(b, es)[1] = b[1]
<1> DEFINE n == Len(b)
           Eqn(m) == m = [i \in 1..n |->
                            IF i = 1 THEN <<b[1]>>
                            ELSE IF \E j \in DOMAIN es : es[j].key = b[i].key THEN m[i - 1]
                            ELSE Append(m[i - 1], b[i])]
           c == CHOOSE m : Eqn(m)
<1>0. n \in Nat \ {0} /\ \A i \in 2..n : b[i] \in EntryType BY NodeSeq
<1>1. PICK m0 : Keeping(b, es, n, m0) BY <1>0, KeepingExists
<1>2. \E m : Eqn(m)
  <2>0. PICK m1 : m1 = [i \in 1..n |-> m0[i]] OBVIOUS
  <2>1. DOMAIN m1 = 1..n /\ \A i \in 1..n : m1[i] = m0[i] BY <2>0
  <2>2. \A i \in 1..n : i # 1 => i - 1 \in 1..n BY <1>0
  <2>3. \A i \in 1..n : m1[i] = IF i = 1 THEN <<b[1]>> ELSE Keep(b, es, i, m1[i - 1])
    BY <1>1, <2>1, <2>2 DEF Keeping
  <2>4. m1 = [i \in 1..n |-> m1[i]] BY <2>0, <2>1
  <2>5. \A i \in 1..n : m1[i] = IF i = 1 THEN <<b[1]>>
                                ELSE IF \E j \in DOMAIN es : es[j].key = b[i].key THEN m1[i - 1]
                                ELSE Append(m1[i - 1], b[i])
    BY <2>3 DEF Keep
  <2>6. Eqn(m1) BY ZenonT(60), <2>4, <2>5
  <2> QED BY <2>6
<1>3. Eqn(c) BY <1>2
<1>4. Without(b, es) = c[n] BY ZenonT(60) DEF Without
<1>5. Keeping(b, es, n, c) BY <1>3 DEF Keeping, Keep
<1> HIDE DEF c, n
<1> DEFINE T == {k \in Nat : k # 0 /\ k <= n /\ ~(c[k] \in NodeType /\ c[k][1] = b[1])}
<1>6. ASSUME T # {} PROVE FALSE
  <2>1. PICK k \in T : \A y \in T : k <= y BY <1>6, LeastNat
  <2>2. k # 1
    <3>1. c[1] = <<b[1]>> BY <1>0, <1>5 DEF Keeping
    <3>2. b[1] \in Elem /\ b[1] \in HeaderType BY NodeSeq DEF Elem
    <3>3. c[1] \in Seq(Elem) /\ Len(c[1]) = 1 /\ c[1][1] = b[1] /\ c[1] # <<>> BY <3>1, <3>2
    <3>4. c[1] \in NodeType BY <3>2, <3>3 DEF NodeType, Elem
    <3> QED BY <2>1, <3>3, <3>4
  <2>3. k - 1 \in Nat /\ k - 1 # 0 /\ k - 1 <= n /\ k - 1 \notin T BY <1>0, <2>1, <2>2
  <2>4. c[k - 1] \in NodeType /\ c[k - 1][1] = b[1] /\ b[k] \in EntryType BY <1>0, <2>1, <2>2, <2>3
  <2>5. c[k] = Keep(b, es, k, c[k - 1]) BY <1>0, <1>5, <2>1, <2>2 DEF Keeping
  <2>6. c[k] \in NodeType /\ c[k][1] = c[k - 1][1] BY <2>4, <2>5, AppendNode DEF Keep
  <2> QED BY <2>1, <2>4, <2>6
<1>7. n \notin T BY <1>6
<1> QED BY <1>0, <1>4, <1>7

\* A result with the header of the node it was made of.
LEMMA SameHeader ==
    ASSUME NEW b \in NodeType, NEW n \in NodeType, n[1] = b[1]
    PROVE  NodeRight(b, Result("OK", n))
<1>1. n # <<>> BY DEF NodeType
<1> QED BY <1>1, NodeSeq DEF NodeRight, Result, Monotone, Stats

\* A request that is refused, and one that changes nothing.
LEMMA NoChange ==
    ASSUME NEW b \in NodeType \cup {<<>>}, NEW stat \in Stats
    PROVE  NodeRight(b, Result(stat, b))
BY NodeSeq DEF NodeRight, Result, Monotone

\* The two parts of a result.
LEMMA Parts == \A stat, b : Result(stat, b).stat = stat /\ Result(stat, b).block = b
BY DEF Result

\* The status of every answer is one.
LEMMA StatOf == /\ "OK" \in Stats /\ "NOTFIRST" \in Stats /\ "FULL" \in Stats
                /\ "RETRYINSERT" \in Stats /\ "CORRUPTHDR" \in Stats /\ "ABORT" \in Stats
BY DEF Stats

\* update, for every kind of it.
LEMMA UpdateRight ==
    ASSUME NEW b \in NodeType \cup {<<>>},
           NEW r \in [type : UpdateTypes, key : Key, doc : BOOLEAN, sig : SUBSET Poly]
    PROVE  /\ NodeRight(b, update(b, r))
           /\ update(b, r).stat = "OK" /\ r.doc => b[1].level = 0 /\ b[1].random # -1
           /\ r.type = "UPDATEIFPRESENT" /\ HasKey(update(b, r).block, r.key) => HasKey(b, r.key)
<1>1. Entry(r) \in EntryType BY DEF Entry, EntryType
<1>2. CASE b = <<>>
  <2>1. update(b, r) = Result("CORRUPTHDR", b) BY <1>2 DEF update
  <2>2. NodeRight(b, update(b, r)) BY <2>1, NoChange, StatOf
  <2>3. update(b, r).stat # "OK" /\ update(b, r).block = b BY <2>1, Parts
  <2> QED BY <2>2, <2>3
<1>3. CASE b \in NodeType /\ r.doc /\ (b[1].level > 0 \/ b[1].random = -1)
  <2>1. b # <<>> BY <1>3 DEF NodeType
  <2>2. update(b, r) = Result("RETRYINSERT", b) BY <1>3, <2>1 DEF update
  <2>3. NodeRight(b, update(b, r)) BY <2>2, NoChange, StatOf
  <2>4. update(b, r).stat # "OK" /\ update(b, r).block = b BY <2>2, Parts
  <2> QED BY <2>3, <2>4
<1>4. CASE b \in NodeType /\ ~(r.doc /\ (b[1].level > 0 \/ b[1].random = -1))
  <2>0. b # <<>> /\ b[1].level \in Nat BY <1>4, NodeSeq DEF NodeType
  <2>1. r.doc => b[1].level = 0 /\ b[1].random # -1 BY <1>4, <2>0
  <2>2. CASE HasKey(b, r.key)
    <3>1. update(b, r) = Result("OK", SetSig(b, r.type, Entry(r))) BY <1>4, <2>0, <2>2 DEF update
    <3> QED BY <1>1, <1>4, <2>1, <2>2, <3>1, SetSigNode, SameHeader
  <2>3. CASE ~HasKey(b, r.key) /\ r.type = "UPDATEIFPRESENT"
    <3>1. update(b, r) = Result("OK", b) BY <1>4, <2>0, <2>3 DEF update
    <3> QED BY <2>1, <2>3, <3>1, NoChange, Parts, StatOf
  <2>4. CASE ~HasKey(b, r.key) /\ r.type # "UPDATEIFPRESENT" /\ Len(b) > MAXENTRIES
    <3>1. update(b, r) = Result("FULL", b) BY <1>4, <2>0, <2>4 DEF update
    <3>2. NodeRight(b, update(b, r)) BY <3>1, NoChange, StatOf
    <3>3. update(b, r).stat # "OK" BY <3>1, Parts
    <3> QED BY <2>4, <3>2, <3>3
  <2>5. CASE ~HasKey(b, r.key) /\ r.type # "UPDATEIFPRESENT" /\ ~(Len(b) > MAXENTRIES)
    <3>1. update(b, r) = Result("OK", Append(b, Entry(r))) BY <1>4, <2>0, <2>5 DEF update
    <3> QED BY <1>1, <1>4, <2>1, <2>5, <3>1, AppendNode, SameHeader
  <2> QED BY <2>2, <2>3, <2>4, <2>5
<1> QED BY <1>2, <1>3, <1>4

\* A new header has the interval or a smaller one, unless the level has risen.
LEMMA NewHeader ==
    ASSUME NEW h \in HeaderType, NEW g \in HeaderType
    PROVE  LET n == newheader(h, g) IN
           n \in HeaderType /\ (n.level > h.level \/ (n.level = h.level /\ n.right <= h.right))
<1> DEFINE right == IF g.right < h.right THEN g.right ELSE h.right
           rnd == IF h.level = 0 /\ g.level = 1 /\ h.random = -1 THEN g.random ELSE h.random
           level == IF h.level < g.level THEN g.level ELSE h.level
           random == IF level = 0 /\ g.level = 0 /\ g.random = -1 THEN -1 ELSE rnd
<1>1. /\ h.left \in Int /\ h.right \in Int /\ h.level \in Nat /\ h.random \in Int /\ h.root \in BOOLEAN
      /\ g.left \in Int /\ g.right \in Int /\ g.level \in Nat /\ g.random \in Int
  BY DEF HeaderType
<1>2. right \in Int /\ level \in Nat /\ random \in Int /\ right <= h.right /\ level >= h.level
  BY <1>1
<1>3. newheader(h, g) = IF ~h.root THEN [h EXCEPT !.right = right]
                        ELSE [h EXCEPT !.right = right, !.level = level, !.random = random]
  BY DEF newheader
<1> HIDE DEF right, level, random
<1>4. CASE ~h.root
  <2>1. newheader(h, g) = [h EXCEPT !.right = right] BY <1>3, <1>4
  <2> QED BY <1>1, <1>2, <2>1 DEF HeaderType
<1>5. CASE h.root
  <2>1. newheader(h, g) = [h EXCEPT !.right = right, !.level = level, !.random = random] BY <1>3, <1>5
  <2>2. newheader(h, g) = [left |-> h.left, right |-> right, level |-> level, random |-> random, root |-> h.root]
    BY <2>1 DEF HeaderType
  <2>3. newheader(h, g) \in HeaderType BY <1>1, <1>2, <2>2 DEF HeaderType
  <2>4. newheader(h, g).level = level /\ newheader(h, g).right = right BY <2>2
  <2>5. level > h.level \/ (level = h.level /\ right <= h.right) BY <1>1, <1>2
  <2> QED BY <2>3, <2>4, <2>5
<1> QED BY <1>4, <1>5

\* updatehdr: the lock goes to the first, and a header only shrinks or rises.
LEMMA UpdateHdrRight ==
    ASSUME NEW b \in NodeType \cup {<<>>},
           NEW r \in [type : {"UPDATEHDRLOCK", "UPDATEHDR"}, hdr : HeaderType]
    PROVE  /\ NodeRight(b, updatehdr(b, r))
           /\ r.type = "UPDATEHDRLOCK" /\ updatehdr(b, r).stat = "OK" =>
                 b = <<>> /\ updatehdr(b, r).block # <<>>
<1>1. CASE r.type = "UPDATEHDRLOCK" /\ b = <<>>
  <2>1. updatehdr(b, r) = Result("OK", <<r.hdr>>) BY <1>1 DEF updatehdr
  <2>2. r.hdr \in HeaderType /\ r.hdr \in Elem BY DEF Elem
  <2>3. <<r.hdr>> \in Seq(Elem) /\ Len(<<r.hdr>>) = 1 /\ <<r.hdr>>[1] = r.hdr /\ <<r.hdr>> # <<>> BY <2>2
  <2>4. <<r.hdr>> \in NodeType BY <2>2, <2>3 DEF NodeType, Elem
  <2> QED BY <1>1, <2>1, <2>3, <2>4 DEF NodeRight, Result, Stats
<1>2. CASE r.type = "UPDATEHDRLOCK" /\ b # <<>>
  <2>1. updatehdr(b, r) = Result("NOTFIRST", b) BY <1>2 DEF updatehdr
  <2> QED BY <2>1, NoChange, Parts, StatOf
<1>3. CASE r.type = "UPDATEHDR" /\ b = <<>>
  <2>1. updatehdr(b, r) = Result("RETRYINSERT", b) BY <1>3 DEF updatehdr
  <2> QED BY <1>3, <2>1, NoChange, Parts, StatOf
<1>4. CASE r.type = "UPDATEHDR" /\ b # <<>> /\ r.hdr.left # b[1].left
  <2>1. updatehdr(b, r) = Result("CORRUPTHDR", b) BY <1>4 DEF updatehdr
  <2> QED BY <1>4, <2>1, NoChange, Parts, StatOf
<1>5. CASE r.type = "UPDATEHDR" /\ b # <<>> /\ r.hdr.left = b[1].left
  <2> DEFINE h == newheader(b[1], r.hdr)
             n == [b EXCEPT ![1] = h]
  <2>0. /\ b \in NodeType /\ b \in [1..Len(b) -> Elem] /\ Len(b) \in Nat \ {0}
        /\ b[1] \in HeaderType /\ r.hdr \in HeaderType
    BY <1>5, NodeSeq
  <2>1. updatehdr(b, r) = Result("OK", n) BY <1>5 DEF updatehdr
  <2>2. /\ h \in HeaderType
        /\ h.level > b[1].level \/ (h.level = b[1].level /\ h.right <= b[1].right)
    BY <2>0, NewHeader
  <2> HIDE DEF h
  <2>3. n \in [1..Len(b) -> Elem] /\ n[1] = h /\ \A i \in 2..Len(b) : n[i] = b[i]
    BY <2>0, <2>2 DEF Elem
  <2>4. n \in NodeType /\ n # <<>>
    <3>1. \A i \in 2..Len(b) : n[i] \in EntryType BY <2>0, <2>3, NodeSeq
    <3>2. n \in NodeType BY <2>0, <2>2, <2>3, <3>1, IsNode
    <3> QED BY <3>2 DEF NodeType
  <2>5. Monotone(b, n) BY <2>2, <2>3 DEF Monotone
  <2> QED BY <1>5, <2>1, <2>4, <2>5 DEF NodeRight, Result, Stats
<1> QED BY <1>1, <1>2, <1>3, <1>4, <1>5

\* A sequence put behind a single element.
LEMMA HeadAndRest ==
    ASSUME NEW S, NEW s \in Seq(S), NEW t \in Seq(S), Len(s) = 1
    PROVE  /\ s \o t \in Seq(S) /\ Len(s \o t) = 1 + Len(t) /\ (s \o t)[1] = s[1]
           /\ \A i \in 2..(1 + Len(t)) : (s \o t)[i] = t[i - 1]
<1>1. Len(t) \in Nat OBVIOUS
<1>2. /\ s \o t \in Seq(S) /\ Len(s \o t) = 1 + Len(t)
      /\ \A i \in 1..(1 + Len(t)) : (s \o t)[i] = IF i <= 1 THEN s[i] ELSE t[i - 1]
  <2>1. /\ s \o t \in Seq(S) /\ Len(s \o t) = Len(s) + Len(t)
        /\ \A i \in 1..(Len(s) + Len(t)) : (s \o t)[i] = IF i <= Len(s) THEN s[i] ELSE t[i - Len(s)]
    BY ConcatProperties, Zenon
  <2> QED BY <2>1
<1>3. 1 \in 1..(1 + Len(t)) /\ \A i \in 2..(1 + Len(t)) : i \in 1..(1 + Len(t)) /\ ~(i <= 1) BY <1>1
<1> QED BY <1>2, <1>3

\* split leaves the header alone.
LEMMA SplitRight ==
    ASSUME MaxAssumption, NEW b \in NodeType \cup {<<>>},
           NEW r \in [type : {"SPLIT"}, entries : Seq(EntryType)]
    PROVE  NodeRight(b, split(b, r))
<1>1. CASE b = <<>>
  <2>1. split(b, r) = Result("OK", b) BY <1>1 DEF split, MaxAssumption
  <2> QED BY <2>1, NoChange, StatOf
<1>2. CASE b \in NodeType /\ Len(b) > MAXENTRIES
  <2>1. split(b, r) = Result("OK", Without(b, r.entries)) BY <1>2 DEF split
  <2> QED BY <1>2, <2>1, WithoutNode, SameHeader
<1>3. CASE b \in NodeType /\ ~(Len(b) > MAXENTRIES) /\ Len(b) = 1
  <2> DEFINE n == b \o r.entries
             k == Len(r.entries)
  <2>0. split(b, r) = Result("OK", n) BY <1>3 DEF split
  <2>1. r.entries \in Seq(EntryType) OBVIOUS
  <2>2. k \in Nat /\ r.entries \in Seq(Elem) /\ b \in Seq(Elem) /\ b[1] \in HeaderType
    <3>1. EntryType \subseteq Elem BY DEF Elem
    <3>2. r.entries \in Seq(Elem) /\ k \in Nat BY <2>1, <3>1
    <3> QED BY <1>3, <3>2, NodeSeq
  <2>3. n \in Seq(Elem) /\ Len(n) = 1 + k /\ n[1] = b[1] /\ \A i \in 2..(1 + k) : n[i] = r.entries[i - 1]
    <3>1. PICK x \in Seq(Elem) : x = r.entries BY <2>2
    <3> QED BY <1>3, <2>2, <3>1, HeadAndRest
  <2>4. \A i \in 2..(1 + k) : i - 1 \in 1..k /\ r.entries[i - 1] \in EntryType BY <2>1, <2>2
  <2>5. \A i \in 2..Len(n) : n[i] \in EntryType BY <2>3, <2>4
  <2>6. n # <<>> BY <2>2, <2>3
  <2> HIDE DEF n
  <2>7. n \in NodeType /\ n[1] = b[1] BY <2>2, <2>3, <2>5, <2>6 DEF NodeType, Elem
  <2> QED BY <1>3, <2>0, <2>7, SameHeader
<1>4. CASE b \in NodeType /\ ~(Len(b) > MAXENTRIES) /\ Len(b) # 1
  <2>1. split(b, r) = Result("OK", b) BY <1>4 DEF split
  <2> QED BY <2>1, NoChange, StatOf
<1> QED BY <1>1, <1>2, <1>3, <1>4

\* justappend leaves the header alone.
LEMMA JustAppendRight ==
    ASSUME NEW b \in NodeType \cup {<<>>}, NEW r, r.key \in Key, r.sig \in SUBSET Poly
    PROVE  NodeRight(b, justappend(b, r))
<1>1. Entry(r) \in EntryType BY DEF Entry, EntryType
<1>2. CASE b = <<>>
  <2>1. justappend(b, r) = Result("CORRUPTHDR", b) BY <1>2 DEF justappend
  <2> QED BY <2>1, NoChange, StatOf
<1>3. CASE b \in NodeType
  <2>1. b # <<>> BY <1>3 DEF NodeType
  <2>2. justappend(b, r) = Result("OK", Append(b, Entry(r))) BY <2>1 DEF justappend
  <2> QED BY <1>1, <1>3, <2>2, AppendNode, SameHeader
<1> QED BY <1>2, <1>3

\* merge takes a whole block over only if it has a smaller interval or a higher
\* level.
LEMMA MergeRight ==
    ASSUME NEW b \in NodeType \cup {<<>>}, NEW new \in NodeType
    PROVE  NodeRight(b, merge(b, new))
<1>0. new # <<>> /\ new[1].level \in Nat /\ new[1].right \in Int BY NodeSeq DEF NodeType
<1>1. CASE b = <<>>
  <2>1. merge(b, new) = Result("OK", new) BY <1>1 DEF merge
  <2> QED BY <1>1, <2>1, StatOf, Parts DEF NodeRight
<1>2. CASE b \in NodeType /\ SameInterval(new[1], b[1])
  <2>1. b # <<>> BY <1>2 DEF NodeType
  <2>2. merge(b, new) = Result("OK", MergeEntries(b, Tail(new))) BY <1>2, <2>1 DEF merge
  <2>3. Tail(new) \in Seq(EntryType)
    <3>1. new \in Seq(Elem) /\ Len(new) \in Nat \ {0} /\ \A i \in 2..Len(new) : new[i] \in EntryType
      BY NodeSeq
    <3>2. /\ Tail(new) \in Seq(Elem) /\ Len(Tail(new)) = Len(new) - 1
          /\ \A i \in 1..(Len(new) - 1) : Tail(new)[i] = new[i + 1]
      BY <1>0, <3>1
    <3>3. \A i \in 1..Len(Tail(new)) : Tail(new)[i] \in EntryType BY <3>1, <3>2
    <3>4. PICK t : t = Tail(new) OBVIOUS
    <3>5. t \in Seq(Elem) /\ Len(t) \in Nat /\ \A i \in 1..Len(t) : t[i] \in EntryType BY <3>1, <3>2, <3>3, <3>4
    <3>6. t \in [1..Len(t) -> EntryType] BY <3>5
    <3>7. t \in Seq(EntryType) BY <3>5, <3>6
    <3> QED BY <3>4, <3>7
  <2> QED BY <1>2, <2>2, <2>3, MergeEntriesNode, SameHeader
<1>3. CASE b \in NodeType /\ ~SameInterval(new[1], b[1])
  <2>1. b # <<>> /\ b[1].level \in Nat /\ b[1].right \in Int BY <1>3, NodeSeq DEF NodeType
  <2>2. CASE \/ new[1].right < b[1].right /\ new[1].level = b[1].level
             \/ new[1].level > b[1].level
    <3>1. merge(b, new) = Result("OK", new) BY <1>3, <2>1, <2>2 DEF merge
    <3>2. Monotone(b, new) BY <1>0, <2>1, <2>2 DEF Monotone
    <3> QED BY <1>0, <3>1, <3>2, StatOf, Parts DEF NodeRight
  <2>3. CASE ~(\/ new[1].right < b[1].right /\ new[1].level = b[1].level
               \/ new[1].level > b[1].level)
    <3>1. merge(b, new) = Result("ABORT", b) BY <1>3, <2>1, <2>3 DEF merge
    <3> QED BY <3>1, NoChange, StatOf
  <2> QED BY <2>2, <2>3
<1> QED BY <1>1, <1>2, <1>3

\* What a request r gives at the node b, or where there is none yet.
NodeResult(b, r) ==
    LET res == adjust_data(b, r) IN
    /\ NodeRight(b, res)
    /\ r.type = "UPDATEHDRLOCK" /\ res.stat = "OK" => b = <<>> /\ res.block # <<>>
    /\ "doc" \in DOMAIN r /\ r.doc /\ res.stat = "OK" => b[1].level = 0 /\ b[1].random # -1
    /\ r.type = "UPDATEIFPRESENT" /\ HasKey(res.block, r.key) => HasKey(b, r.key)

\* Every request for a node gives that.
LEMMA AdjustNode ==
    ASSUME MaxAssumption, NEW b \in NodeType \cup {<<>>}, NEW r \in OpType, r.type # "APPEND"
    PROVE  NodeResult(b, r)
<1>1. CASE r \in [type : UpdateTypes, key : Key, doc : BOOLEAN, sig : SUBSET Poly]
  <2>1. r.type \in UpdateTypes BY <1>1
  <2>2. adjust_data(b, r) = update(b, r) BY <2>1 DEF adjust_data, UpdateTypes
  <2>3. r.type # "UPDATEHDRLOCK" BY <2>1 DEF UpdateTypes
  <2> QED BY <1>1, <2>2, <2>3, UpdateRight DEF NodeResult
<1>2. CASE r \in [type : {"UPDATEHDRLOCK", "UPDATEHDR"}, hdr : HeaderType]
  <2>1. r.type \in {"UPDATEHDRLOCK", "UPDATEHDR"} /\ "doc" \notin DOMAIN r BY <1>2
  <2>2. adjust_data(b, r) = updatehdr(b, r) BY <2>1 DEF adjust_data
  <2>3. r.type # "UPDATEIFPRESENT" BY <2>1
  <2> QED BY <1>2, <2>1, <2>2, <2>3, UpdateHdrRight DEF NodeResult
<1>3. CASE r \in [type : {"SPLIT"}, entries : Seq(EntryType)]
  <2>1. r.type = "SPLIT" /\ "doc" \notin DOMAIN r BY <1>3
  <2>2. adjust_data(b, r) = split(b, r) BY <2>1 DEF adjust_data
  <2>3. NodeRight(b, adjust_data(b, r)) BY <1>3, <2>2, SplitRight
  <2> QED BY <2>1, <2>3 DEF NodeResult
<1>4. CASE r \in [type : {"JUSTAPPEND", "APPEND"}, key : Key, sig : SUBSET Poly]
  <2>1. r.type = "JUSTAPPEND" /\ "doc" \notin DOMAIN r BY <1>4
  <2>2. adjust_data(b, r) = justappend(b, r) BY <2>1 DEF adjust_data
  <2>3. NodeRight(b, adjust_data(b, r)) BY <1>4, <2>2, JustAppendRight
  <2> QED BY <2>1, <2>3 DEF NodeResult
<1>5. CASE r \in [type : {"BLOCK"}, block : NodeType]
  <2>1. r.type = "BLOCK" /\ "doc" \notin DOMAIN r BY <1>5
  <2>2. adjust_data(b, r) = merge(b, r.block) BY <2>1 DEF adjust_data
  <2>3. NodeRight(b, adjust_data(b, r)) BY <1>5, <2>2, MergeRight
  <2> QED BY <2>1, <2>3 DEF NodeResult
<1> QED BY <1>1, <1>2, <1>3, <1>4, <1>5 DEF OpType

\* What an append gives at a block of the inverted index.
AppendResult(b, r) ==
    LET res == adjust_data(b, r) IN
    /\ res.stat \in Stats
    /\ res.stat # "OK" => res.block = b
    /\ res.block \in Seq(EntryType)
    /\ \A i \in DOMAIN b : i \in DOMAIN res.block /\ res.block[i] = b[i]
    /\ res.stat = "OK" => \E i \in DOMAIN res.block : res.block[i].key = r.key

\* Every append gives that.
LEMMA AdjustAppend ==
    ASSUME NEW b \in Seq(EntryType), NEW r \in OpType, r.type = "APPEND"
    PROVE  AppendResult(b, r)
<1>0. Len(b) \in Nat /\ DOMAIN b = 1..Len(b) OBVIOUS
<1>1. r \in [type : {"JUSTAPPEND", "APPEND"}, key : Key, sig : SUBSET Poly]
  BY DEF OpType, UpdateTypes
<1>2. PICK e \in EntryType : e = Entry(r) /\ e.key = r.key
  <2>1. Entry(r) \in EntryType /\ Entry(r).key = r.key BY <1>1 DEF Entry, EntryType
  <2> QED BY <2>1
<1>3. adjust_data(b, r) = append(b, r) BY DEF adjust_data
<1>4. CASE Len(b) > MAXENTRIES
  <2>1. adjust_data(b, r) = Result("FULL", b) BY <1>3, <1>4 DEF append
  <2>2. adjust_data(b, r).stat = "FULL" /\ adjust_data(b, r).block = b BY <2>1, Parts
  <2> QED BY <2>2, StatOf DEF AppendResult
<1>5. CASE ~(Len(b) > MAXENTRIES)
  <2>1. adjust_data(b, r) = Result("OK", Append(b, e)) BY <1>2, <1>3, <1>5 DEF append
  <2>2. adjust_data(b, r).stat = "OK" /\ adjust_data(b, r).block = Append(b, e)
    <3>1. PICK n : n = Append(b, e) OBVIOUS
    <3>2. adjust_data(b, r) = Result("OK", n) BY <2>1, <3>1
    <3>3. Result("OK", n).stat = "OK" /\ Result("OK", n).block = n BY Parts
    <3>4. adjust_data(b, r).stat = "OK" /\ adjust_data(b, r).block = n BY <3>2, <3>3
    <3> QED BY <3>1, <3>4
  <2>3. /\ Append(b, e) \in Seq(EntryType) /\ Len(b) \in Nat /\ DOMAIN b = 1..Len(b)
        /\ DOMAIN Append(b, e) = 1..(Len(b) + 1)
        /\ Append(b, e)[Len(b) + 1] = e /\ \A i \in 1..Len(b) : Append(b, e)[i] = b[i]
    OBVIOUS
  <2>4. Len(b) + 1 \in DOMAIN Append(b, e) /\ Append(b, e)[Len(b) + 1].key = r.key BY <1>2, <2>3
  <2>5. \A i \in DOMAIN b : i \in DOMAIN Append(b, e) /\ Append(b, e)[i] = b[i] BY <2>3
  <2> QED BY <2>2, <2>3, <2>4, <2>5, StatOf DEF AppendResult
<1> QED BY <1>4, <1>5

---------------------------------------------------------------------------------
(* The queue of a block.                                                        *)

Answers == {"OK", "NOTFIRST", "FULL", "RETRYINSERT", "CORRUPTHDR", "DBERR"}

\* Nothing is asked of the block.
Idle == active = {} /\ paused = {} /\ stage = "fetch"

\* r is served and those in q wait, each once and none answered yet.
Serving(r, q) ==
    /\ active = {r} /\ paused = {q} /\ r \in work.asked /\ q \in Seq(work.asked)
    /\ IsInjective(q) /\ r \notin Range(q)
    /\ reply[r] = "none" /\ \A x \in Range(q) : reply[x] = "none"

\* Once r has been fetched, dprep is what it makes of the old block, which is
\* in the database until it is removed and in old_data from then on.
Prepared(r) ==
    \/ stage = "fetch"
    \/ /\ \/ stage = "remove" /\ db = old_data
          \/ stage = "store" /\ db = <<>>
       /\ adjust_data(old_data, Op[r]).stat = "OK"
       /\ adjust_data(old_data, Op[r]).block = dprep

QueueInv ==
    /\ work \in Workloads /\ reply \in [Req -> Answers \cup {"none"}]
    /\ Idle \/ \E r, q : Serving(r, q) /\ Prepared(r)

\* r leaves the queue only with an answer.
Kept == \A r \in work.asked : Known(r) /\ ~Known(r)' => reply'[r] # "none"

\* The requests that are known while r is served.
LEMMA KnownServing ==
    ASSUME NEW r, NEW q, Serving(r, q)
    PROVE  waiters = q /\ \A x : Known(x) <=> x = r \/ x \in Range(q)
<1>1. waiters = q BY DEF Serving, waiters
<1> QED BY <1>1 DEF Known, Serving, Range

\* Nothing is known when nothing is asked.
LEMMA KnownIdle == ASSUME Idle PROVE \A x : ~Known(x)
BY DEF Idle, Known

\* Requests are records of a workload.
LEMMA Asked == ASSUME BlockAssumption, NEW w \in Workloads PROVE w.asked \subseteq Req
BY DEF BlockAssumption

\* Init starts with an empty queue.
LEMMA QueueInit == ASSUME Init PROVE QueueInv
BY DEF Init, QueueInv, Idle

\* A request arrives.
LEMMA QueueStore ==
    ASSUME BlockAssumption, QueueInv, NEW r \in Req, store(r)
    PROVE  QueueInv' /\ Kept
<1>1. /\ r \in work.asked /\ reply[r] = "none" /\ ~Known(r)
      /\ db' = db /\ old_data' = old_data /\ dprep' = dprep /\ reply' = reply /\ work' = work
  BY DEF store
<1>2. CASE Idle
  <2>1. paused' = {<<>>} /\ active' = {r} /\ stage' = "fetch" BY <1>2 DEF Idle, store
  <2>2. <<>> \in Seq(work.asked) /\ IsInjective(<<>>) /\ Range(<<>>) = {} BY DEF IsInjective, Range
  <2>3. Serving(r, <<>>)' BY <1>1, <2>1, <2>2 DEF Serving
  <2>4. Prepared(r)' BY <2>1 DEF Prepared
  <2>5. Kept BY <1>2, KnownIdle DEF Kept
  <2> QED BY <1>1, <2>3, <2>4, <2>5 DEF QueueInv
<1>3. ASSUME NEW a, NEW q, Serving(a, q), Prepared(a) PROVE QueueInv' /\ Kept
  <2>1. waiters = q /\ \A x : Known(x) <=> x = a \/ x \in Range(q) BY <1>3, KnownServing
  <2>2. paused' = {Append(q, r)} /\ active' = active /\ stage' = stage
    BY <1>3, <2>1 DEF Serving, store
  <2>3. PICK t : t = Append(q, r) OBVIOUS
  <2>4. q \in Seq(work.asked) /\ IsInjective(q) /\ r # a /\ r \notin Range(q)
    BY <1>1, <1>3, <2>1 DEF Serving
  <2>5. t \in Seq(work.asked) /\ IsInjective(t) /\ Range(t) = Range(q) \cup {r}
    BY <1>1, <2>3, <2>4, RangeAppend
  <2>6. Serving(a, t)' BY <1>1, <1>3, <2>2, <2>3, <2>4, <2>5 DEF Serving
  <2>7. Prepared(a)' BY <1>1, <1>3, <2>2 DEF Prepared
  <2>9. (\A x : Known(x) <=> x = a \/ x \in Range(t))'
    <3>1. waiters' = t BY <2>6 DEF Serving, waiters
    <3> QED BY <2>6, <3>1 DEF Serving, Known, Range
  <2>10. Kept BY <2>1, <2>5, <2>9 DEF Kept
  <2> QED BY <1>1, <2>6, <2>7, <2>10 DEF QueueInv
<1> QED BY <1>2, <1>3 DEF QueueInv

\* The request r that was served is answered, and the next one is fetched.
LEMMA QueueDone ==
    ASSUME BlockAssumption, QueueInv, NEW r, NEW q, Serving(r, q),
           NEW stat \in Answers, Done(r, stat), work' = work
    PROVE  QueueInv' /\ Kept
<1>1. waiters = q /\ \A x : Known(x) <=> x = r \/ x \in Range(q) BY KnownServing
<1>2. /\ r \in work.asked /\ r \in Req /\ q \in Seq(work.asked) /\ IsInjective(q) /\ r \notin Range(q)
      /\ \A x \in Range(q) : reply[x] = "none"
  BY Asked DEF Serving, QueueInv
<1>3. reply' = [reply EXCEPT ![r] = stat] /\ stage' = "fetch" BY DEF Done
<1>4. /\ reply' \in [Req -> Answers \cup {"none"}] /\ reply'[r] = stat /\ stat # "none"
      /\ \A x \in Req : x # r => reply'[x] = reply[x]
  BY <1>2, <1>3 DEF QueueInv, Answers
<1>5. Range(q) \subseteq Req BY <1>2, Asked DEF Range, QueueInv
<1>6. CASE q = <<>>
  <2>1. Idle' BY <1>1, <1>3, <1>6 DEF Done, Idle
  <2>2. Range(q) = {} BY <1>6 DEF Range
  <2>3. Kept BY <1>1, <1>4, <2>2 DEF Kept
  <2> QED BY <1>4, <2>1, <2>3 DEF QueueInv
<1>7. CASE q # <<>>
  <2>1. PICK h, t : h = Head(q) /\ t = Tail(q) OBVIOUS
  <2>2. paused' = {t} /\ active' = {h} BY <1>1, <1>7, <2>1 DEF Done
  <2>3. /\ t \in Seq(work.asked) /\ h \in work.asked /\ h \in Range(q)
        /\ Range(t) = Range(q) \ {h} /\ IsInjective(t)
    BY <1>2, <1>7, <2>1, RangeTail
  <2>4. \A x \in Range(q) : reply'[x] = "none" BY <1>2, <1>4, <1>5
  <2>5. Serving(h, t)' BY <2>2, <2>3, <2>4 DEF Serving
  <2>6. Prepared(h)' BY <1>3 DEF Prepared
  <2>7. (\A x : Known(x) <=> x = h \/ x \in Range(t))'
    <3>1. waiters' = t BY <2>5 DEF Serving, waiters
    <3> QED BY <2>5, <3>1 DEF Serving, Known, Range
  <2>8. Kept BY <1>1, <1>4, <2>3, <2>7 DEF Kept
  <2> QED BY <1>4, <2>5, <2>6, <2>8 DEF QueueInv
<1> QED BY <1>6, <1>7

---------------------------------------------------------------------------------
(* What a step does to the block.                                               *)

\* A block of the inverted index, or a node that may not have been created yet.
BlockInv ==
    IF \A r \in work.asked : Op[r].type = "APPEND"
    THEN block \in Seq(EntryType) ELSE block \in NodeType \cup {<<>>}

\* Nothing, a whole request, or a database error.
Stutter == block' = block /\ reply' = reply
Whole(r) ==
    /\ reply' = [reply EXCEPT ![r] = adjust_data(block, Op[r]).stat]
    /\ adjust_data(block, Op[r]).stat \in Answers
    /\ block' = adjust_data(block, Op[r]).block
Error(r) ==
    /\ work.errors
    /\ reply' = [reply EXCEPT ![r] = "DBERR"] /\ block' \in {block, <<>>}
Effect == Stutter \/ \E r \in work.asked : reply[r] = "none" /\ (Whole(r) \/ Error(r))

\* What adjust_data gives for a request of the workload.
LEMMA Adjusted ==
    ASSUME BlockAssumption, MaxAssumption, work \in Workloads, BlockInv, NEW r \in work.asked
    PROVE  /\ adjust_data(block, Op[r]).stat \in Stats
           /\ adjust_data(block, Op[r]).stat # "OK" => adjust_data(block, Op[r]).block = block
           /\ IF Op[r].type = "APPEND" THEN AppendResult(block, Op[r]) ELSE NodeResult(block, Op[r])
           /\ Op[r].type = "APPEND" <=> \A x \in work.asked : Op[x].type = "APPEND"
<1>1. Op[r] \in OpType BY Asked DEF BlockAssumption
<1>2. Op[r].type = "APPEND" <=> \A x \in work.asked : Op[x].type = "APPEND" BY DEF BlockAssumption
<1>3. CASE Op[r].type = "APPEND"
  <2>1. block \in Seq(EntryType) BY <1>2, <1>3 DEF BlockInv
  <2>2. AppendResult(block, Op[r]) BY <1>1, <1>3, <2>1, AdjustAppend
  <2> QED BY <1>2, <1>3, <2>2 DEF AppendResult
<1>4. CASE Op[r].type # "APPEND"
  <2>1. block \in NodeType \cup {<<>>} BY <1>2, <1>4 DEF BlockInv
  <2>2. NodeResult(block, Op[r]) BY <1>1, <1>4, <2>1, AdjustNode
  <2> QED BY <1>2, <1>4, <2>2 DEF NodeResult, NodeRight
<1> QED BY <1>3, <1>4

\* The fetch of the request that is served has come back.
LEMMA FetchedEffect ==
    ASSUME BlockAssumption, MaxAssumption, QueueInv, BlockInv, Fetched
    PROVE  QueueInv' /\ Kept /\ Effect /\ work' = work
<1>1. stage = "fetch" /\ db' = db /\ work' = work /\ block = db BY DEF Fetched, block
<1>2. PICK r, q : Serving(r, q) /\ Prepared(r)
  BY DEF QueueInv, Idle, Fetched
<1>3. active = {r} /\ r \in work.asked /\ reply[r] = "none" BY <1>2 DEF Serving
<1> DEFINE res == adjust_data(db, Op[r])
<1>4. /\ res.stat \in Stats /\ (res.stat # "OK" => res.block = db) /\ work \in Workloads
  BY <1>1, <1>3, Adjusted DEF QueueInv
<1>5. CASE work.errors /\ Done(r, "DBERR")
  <2>1. QueueInv' /\ Kept BY <1>1, <1>2, <1>5, QueueDone DEF Answers
  <2>2. reply' = [reply EXCEPT ![r] = "DBERR"] /\ block' = block
    BY <1>1, <1>5 DEF Done, block
  <2>3. Error(r) BY <1>5, <2>2 DEF Error
  <2> QED BY <1>1, <1>3, <2>1, <2>3 DEF Effect
<1>6. CASE res.stat # "ABORT" /\ (res.stat # "OK" \/ res.block = db) /\ Done(r, res.stat)
  <2>1. PICK stat : stat = res.stat OBVIOUS
  <2>2. stat \in Answers /\ Done(r, stat) BY <1>4, <1>6, <2>1 DEF Stats, Answers
  <2>3. QueueInv' /\ Kept BY <1>1, <1>2, <2>2, QueueDone
  <2>4. reply' = [reply EXCEPT ![r] = res.stat] /\ block' = db /\ res.block = db
    BY <1>1, <1>4, <1>6 DEF Done, block
  <2>5. Whole(r) BY <1>1, <2>1, <2>2, <2>4 DEF Whole
  <2> QED BY <1>1, <1>3, <2>3, <2>5 DEF Effect
<1>7. CASE UNCHANGED <<paused, active, stage, old_data, dprep, reply>>
  <2>1. block' = block BY <1>1, <1>7 DEF block
  <2>2. QueueInv' BY <1>1, <1>7 DEF QueueInv, Idle, Serving, Prepared
  <2>3. Kept BY <1>7 DEF Kept, Known, waiters
  <2> QED BY <1>1, <1>7, <2>1, <2>2, <2>3 DEF Effect, Stutter
<1>8. CASE /\ res.stat = "OK" /\ old_data' = db /\ dprep' = res.block
           /\ stage' = IF db # <<>> THEN "remove" ELSE "store"
           /\ UNCHANGED <<paused, active, reply>>
  <2>1. block' = block BY <1>1, <1>8 DEF block
  <2>2. Serving(r, q)' BY <1>1, <1>2, <1>8 DEF Serving
  <2>3. Prepared(r)' BY <1>1, <1>8 DEF Prepared
  <2>4. QueueInv' BY <1>1, <1>8, <2>2, <2>3 DEF QueueInv
  <2>5. Kept BY <1>8 DEF Kept, Known, waiters
  <2> QED BY <1>1, <1>8, <2>1, <2>4, <2>5 DEF Effect, Stutter
<1> QED BY <1>3, <1>5, <1>6, <1>7, <1>8 DEF Fetched

\* The old block is gone from the database.
LEMMA DeletedEffect ==
    ASSUME QueueInv, after_delete
    PROVE  QueueInv' /\ Kept /\ Effect /\ work' = work
<1>1. /\ stage = "remove" /\ work' = work
      /\ UNCHANGED <<paused, active, old_data, dprep, reply>>
  BY DEF after_delete
<1>2. PICK r, q : Serving(r, q) /\ Prepared(r) BY <1>1 DEF QueueInv, Idle
<1>3. db = old_data BY <1>1, <1>2 DEF Prepared
<1>4. Kept BY <1>1 DEF Kept, Known, waiters
<1>5. Serving(r, q)' BY <1>1, <1>2 DEF Serving
<1>6. Prepared(r)' BY <1>1, <1>2 DEF Prepared, after_delete
<1>7. block' = block BY <1>1, <1>3 DEF block, after_delete
<1> QED BY <1>1, <1>4, <1>5, <1>6, <1>7 DEF QueueInv, Effect, Stutter

\* The new block is in the database, or is not.
LEMMA StoredEffect ==
    ASSUME BlockAssumption, QueueInv, adbcb
    PROVE  QueueInv' /\ Kept /\ Effect /\ work' = work
<1>1. stage = "store" /\ work' = work /\ block = old_data BY DEF adbcb, block
<1>2. PICK r, q : Serving(r, q) /\ Prepared(r) BY <1>1 DEF QueueInv, Idle
<1>3. active = {r} /\ r \in work.asked /\ reply[r] = "none" BY <1>2 DEF Serving
<1>4. /\ db = <<>> /\ adjust_data(block, Op[r]).stat = "OK" /\ adjust_data(block, Op[r]).block = dprep
  BY <1>1, <1>2 DEF Prepared
<1>5. CASE db' = dprep /\ Done(r, "OK")
  <2>1. QueueInv' /\ Kept BY <1>1, <1>2, <1>5, QueueDone DEF Answers
  <2>2. reply' = [reply EXCEPT ![r] = "OK"] /\ block' = dprep BY <1>5 DEF Done, block
  <2>3. Whole(r) BY <1>4, <2>2 DEF Whole, Answers
  <2> QED BY <1>1, <1>3, <2>1, <2>3 DEF Effect
<1>6. CASE work.errors /\ Done(r, "DBERR") /\ UNCHANGED db
  <2>1. QueueInv' /\ Kept BY <1>1, <1>2, <1>6, QueueDone DEF Answers
  <2>2. reply' = [reply EXCEPT ![r] = "DBERR"] /\ block' = <<>> BY <1>4, <1>6 DEF Done, block
  <2>3. Error(r) BY <1>6, <2>2 DEF Error
  <2> QED BY <1>1, <1>3, <2>1, <2>3 DEF Effect
<1> QED BY <1>3, <1>5, <1>6 DEF adbcb

\* Every step keeps the queue right and does nothing, a whole request or an
\* error to the block.
LEMMA NextEffect ==
    ASSUME BlockAssumption, MaxAssumption, QueueInv, BlockInv, [Next]_vars
    PROVE  QueueInv' /\ Kept /\ Effect /\ work' = work
<1>1. ASSUME NEW r \in Req, store(r) PROVE QueueInv' /\ Kept /\ Effect /\ work' = work
  <2>1. QueueInv' /\ Kept BY <1>1, QueueStore
  <2>2. /\ db' = db /\ old_data' = old_data /\ reply' = reply /\ work' = work
        /\ stage' = IF paused # {} THEN stage ELSE "fetch"
    BY <1>1 DEF store
  <2>3. paused = {} => stage = "fetch" BY DEF QueueInv, Idle, Serving
  <2>4. block' = block BY <2>2, <2>3 DEF block
  <2> QED BY <2>1, <2>2, <2>4 DEF Effect, Stutter
<1>2. CASE UNCHANGED vars
  <2>1. QueueInv' BY <1>2 DEF vars, QueueInv, Idle, Serving, Prepared
  <2>2. Kept BY <1>2 DEF vars, Kept, Known, waiters
  <2>3. block' = block BY <1>2 DEF vars, block
  <2> QED BY <1>2, <2>1, <2>2, <2>3 DEF vars, Effect, Stutter
<1> QED BY <1>1, <1>2, FetchedEffect, DeletedEffect, StoredEffect DEF Next, Finished

---------------------------------------------------------------------------------
(* What the replies say of the block.                                           *)

\* Without database errors: the lock is granted to one peer, and from then on
\* there is a block; an append that was acknowledged is in it.
RepliesInv ==
    /\ \A r \in Req : reply[r] # "none" => r \in work.asked
    /\ ~work.errors =>
          /\ \A r, x \in Locks : reply[r] = "OK" /\ reply[x] = "OK" => r = x
          /\ \A r \in Locks : reply[r] = "OK" => block # <<>>
    /\ AckedStored

Inv == QueueInv /\ BlockInv /\ RepliesInv

\* The invariant holds in the beginning.
LEMMA InitInv == ASSUME BlockAssumption, Init PROVE Inv
<1>1. QueueInv BY QueueInit
<1>2. block = <<>> /\ reply = [r \in Req |-> "none"] BY DEF Init, block
<1>3. BlockInv BY <1>2 DEF BlockInv
<1>4. RepliesInv BY <1>2 DEF RepliesInv, Locks, Appends, AckedStored
<1> QED BY <1>1, <1>3, <1>4 DEF Inv

\* The type of the block is kept.
LEMMA EffectBlock ==
    ASSUME BlockAssumption, MaxAssumption, QueueInv, BlockInv, Effect, work' = work
    PROVE  BlockInv'
<1>0. work \in Workloads BY DEF QueueInv
<1>1. CASE Stutter BY <1>1 DEF Stutter, BlockInv
<1>2. ASSUME NEW r \in work.asked, Whole(r) PROVE BlockInv'
  <2>1. /\ IF Op[r].type = "APPEND" THEN AppendResult(block, Op[r]) ELSE NodeResult(block, Op[r])
        /\ Op[r].type = "APPEND" <=> \A x \in work.asked : Op[x].type = "APPEND"
    BY <1>0, Adjusted
  <2>2. block' = adjust_data(block, Op[r]).block BY <1>2 DEF Whole
  <2>3. Op[r].type = "APPEND" => block' \in Seq(EntryType) BY <2>1, <2>2 DEF AppendResult
  <2>4. Op[r].type # "APPEND" => block' \in NodeType \cup {<<>>} BY <2>1, <2>2 DEF NodeResult, NodeRight
  <2> QED BY <2>1, <2>3, <2>4 DEF BlockInv
<1>3. ASSUME NEW r \in work.asked, Error(r) PROVE BlockInv'
  <2>1. CASE block' = block BY <2>1 DEF BlockInv
  <2>2. CASE block' = <<>>
    <3>1. block' \in Seq(EntryType) /\ block' \in NodeType \cup {<<>>} BY <2>2
    <3> QED BY <3>1 DEF BlockInv
  <2> QED BY <1>3, <2>1, <2>2 DEF Error
<1> QED BY <1>1, <1>2, <1>3 DEF Effect

\* What the replies say stays true.
LEMMA EffectReplies ==
    ASSUME BlockAssumption, MaxAssumption, Inv, Effect, work' = work
    PROVE  RepliesInv'
<1>0. /\ work \in Workloads /\ reply \in [Req -> Answers \cup {"none"}] /\ work.asked \subseteq Req
      /\ BlockInv /\ RepliesInv
  BY Asked DEF Inv, QueueInv
<1>1. CASE Stutter BY <1>0, <1>1 DEF Stutter, RepliesInv, AckedStored
<1>2. ASSUME NEW r \in work.asked, Error(r) PROVE RepliesInv'
  <2>1. work.errors /\ reply' = [reply EXCEPT ![r] = "DBERR"] BY <1>2 DEF Error
  <2> QED BY <1>0, <2>1 DEF RepliesInv, AckedStored
<1>3. ASSUME NEW r \in work.asked, reply[r] = "none", Whole(r) PROVE RepliesInv'
  <2> DEFINE res == adjust_data(block, Op[r])
  <2>1. /\ block' = res.block /\ reply' = [reply EXCEPT ![r] = res.stat] /\ r \in Req
    BY <1>0, <1>3 DEF Whole
  <2>2. /\ reply'[r] = res.stat /\ \A x \in Req : x # r => reply'[x] = reply[x]
    BY <1>0, <2>1
  <2>3. /\ IF Op[r].type = "APPEND" THEN AppendResult(block, Op[r]) ELSE NodeResult(block, Op[r])
        /\ Op[r].type = "APPEND" <=> \A x \in work.asked : Op[x].type = "APPEND"
    BY <1>0, Adjusted
  <2>4. \A x \in Req : reply'[x] # "none" => x \in work'.asked
    BY <1>0, <2>2 DEF RepliesInv
  <2>5. CASE Op[r].type = "APPEND"
    <3>1. \A x \in Locks : x \in Req /\ reply'[x] # "OK"
      <4>1. \A x \in Locks : x \in Req /\ x \notin work.asked BY <2>3, <2>5 DEF Locks
      <4> QED BY <2>4, <4>1
    <3>2. AppendResult(block, Op[r]) BY <2>3, <2>5
    <3>3. \A i \in DOMAIN block : i \in DOMAIN block' /\ block'[i] = block[i]
      BY <2>1, <3>2 DEF AppendResult
    <3>4. res.stat = "OK" => \E i \in DOMAIN block' : block'[i].key = Op[r].key
      BY <2>1, <3>2 DEF AppendResult
    <3>5. ASSUME ~work.errors, NEW x \in Appends, reply'[x] = "OK"
          PROVE  \E i \in DOMAIN block' : block'[i].key = Op[x].key
      <4>1. CASE x = r BY <2>2, <3>4, <3>5, <4>1
      <4>2. CASE x # r
        <5>1. reply[x] = "OK" BY <2>2, <3>5, <4>2 DEF Appends
        <5>2. PICK i \in DOMAIN block : block[i].key = Op[x].key
          BY <1>0, <3>5, <5>1 DEF RepliesInv, AckedStored
        <5> QED BY <3>3, <5>2
      <4> QED BY <4>1, <4>2
    <3>6. AckedStored' BY <3>5 DEF AckedStored, Appends
    <3> QED BY <2>4, <3>1, <3>6 DEF RepliesInv, Locks
  <2>6. CASE Op[r].type # "APPEND"
    <3>1. AckedStored'
      <4>1. \A x \in Appends : x \in Req /\ x \notin work.asked
        BY <1>0, <2>6 DEF Appends, BlockAssumption
      <4>2. \A x \in Appends : reply'[x] # "OK" BY <2>4, <4>1
      <4> QED BY <4>2 DEF AckedStored, Appends
    <3>2. NodeResult(block, Op[r]) BY <2>3, <2>6
    <3>3. /\ block # <<>> => block' # <<>>
          /\ Op[r].type = "UPDATEHDRLOCK" /\ res.stat = "OK" => block = <<>> /\ block' # <<>>
      BY <2>1, <3>2 DEF NodeResult, NodeRight
    <3>4. ASSUME ~work.errors
          PROVE  /\ \A u, v \in Locks : reply'[u] = "OK" /\ reply'[v] = "OK" => u = v
                 /\ \A u \in Locks : reply'[u] = "OK" => block' # <<>>
      <4>1. \A u \in Locks : u \in Req /\ Op[u].type = "UPDATEHDRLOCK" BY DEF Locks
      <4>2. /\ \A u, v \in Locks : reply[u] = "OK" /\ reply[v] = "OK" => u = v
            /\ \A u \in Locks : reply[u] = "OK" => block # <<>>
        BY <1>0, <3>4 DEF RepliesInv
      <4>3. \A u \in Locks : reply'[u] = "OK" => block' # <<>> BY <2>2, <3>3, <4>1, <4>2
      <4>4. \A u, v \in Locks : reply'[u] = "OK" /\ reply'[v] = "OK" => u = v
        BY <2>2, <3>3, <4>1, <4>2
      <4> QED BY <4>3, <4>4
    <3> QED BY <2>4, <3>1, <3>4 DEF RepliesInv, Locks
  <2> QED BY <2>5, <2>6
<1> QED BY <1>1, <1>2, <1>3 DEF Effect

\* Every step keeps the invariant.
LEMMA NextInv ==
    ASSUME BlockAssumption, MaxAssumption, Inv, [Next]_vars
    PROVE  Inv'
<1>1. QueueInv' /\ Effect /\ work' = work BY NextEffect DEF Inv
<1>2. BlockInv' BY <1>1, EffectBlock DEF Inv
<1>3. RepliesInv' BY <1>1, EffectReplies
<1> QED BY <1>1, <1>2, <1>3 DEF Inv

\* At most one element, at most cardinality one.
LEMMA AtMostOne ==
    ASSUME NEW S, \A x, y \in S : x = y
    PROVE  Cardinality(S) <= 1
<1>1. CASE S = {} BY <1>1, FS_EmptySet
<1>2. CASE S # {}
  <2>1. PICK x : S = {x} BY <1>2
  <2> QED BY <2>1, FS_Singleton
<1> QED BY <1>1, <1>2

\* The invariant implies what the runs check.
LEMMA InvRight == ASSUME BlockAssumption, Inv PROVE BlocksRight
<1>1. TypeOK
  <2>1. /\ \A x, y \in active : x = y /\ \A u, v \in paused : u = v
        /\ active \subseteq Req /\ (active # {}) = (paused # {})
    BY Asked DEF Inv, QueueInv, Idle, Serving
  <2>2. stage \in {"fetch", "remove", "store"} BY DEF Inv, QueueInv, Idle, Prepared
  <2>3. reply \in [Req -> {"none", "OK", "NOTFIRST", "FULL", "RETRYINSERT", "CORRUPTHDR", "DBERR"}]
    BY DEF Inv, QueueInv, Answers
  <2>4. Cardinality(active) <= 1 /\ Cardinality(paused) <= 1 BY <2>1, AtMostOne
  <2> QED BY <2>1, <2>2, <2>3, <2>4 DEF TypeOK
<1>2. ASSUME ~work.errors PROVE Cardinality({r \in Locks : reply[r] = "OK"}) <= 1
  BY <1>2, AtMostOne DEF Inv, RepliesInv
<1>3. AckedStored BY DEF Inv, RepliesInv
<1> QED BY <1>1, <1>2, <1>3 DEF BlocksRight, OneCreator

\* One peer creates a node, and an append that was acknowledged is in the block,
\* for every set of requests, every order in which they come and are served, and
\* blocks of any size (dhblock_replicated_srv, dhblock_noauth_srv::adjust_data).
THEOREM BlocksSafe == ASSUME BlockAssumption, MaxAssumption PROVE Spec => []BlocksRight
<1>1. Init => Inv BY InitInv
<1>2. Inv /\ [Next]_vars => Inv' BY NextInv
<1>3. Inv => BlocksRight BY InvRight
<1> QED BY <1>1, <1>2, <1>3, PTL DEF Spec

\* The stores of a block implement AtomicBlock: each takes three calls to the
\* database, but takes effect at once and completely on what the one before it
\* left, or fails with a database error.
THEOREM StoresRefine == ASSUME BlockAssumption, MaxAssumption PROVE Spec => StoresAtomic
<1>1. Init => Inv BY InitInv
<1>2. Inv /\ [Next]_vars => Inv' BY NextInv
<1>3. Init => Atomic!Init
  BY Asked DEF Init, Atomic!Init, block
<1>4. Inv /\ [Next]_vars => [Atomic!Next]_<<block, reply, work.asked>>
  <2> SUFFICES ASSUME Inv, [Next]_vars PROVE [Atomic!Next]_<<block, reply, work.asked>>
    OBVIOUS
  <2>1. Effect /\ work' = work BY NextEffect DEF Inv
  <2>2. ASSUME NEW r \in work.asked, reply[r] = "none", Whole(r) PROVE Atomic!Next
    BY <2>1, <2>2 DEF Whole, Atomic!Next, Atomic!Apply, Atomic!Answer
  <2>3. ASSUME NEW r \in work.asked, reply[r] = "none", Error(r) PROVE Atomic!Next
    BY <2>1, <2>3 DEF Error, Atomic!Next, Atomic!Fail, Atomic!Answer
  <2>4. CASE Stutter BY <2>1, <2>4 DEF Stutter
  <2> QED BY <2>1, <2>2, <2>3, <2>4 DEF Effect
<1> QED BY <1>1, <1>2, <1>3, <1>4, PTL DEF Spec, StoresAtomic, Atomic!Spec

\* No step makes the interval of a node grow, puts a document into a node that is
\* not a leaf or is being split, adds an entry with UPDATEIFPRESENT, or takes a
\* request out of the queue without an answer.
THEOREM StepsSafe == ASSUME BlockAssumption, MaxAssumption PROVE Spec => StepsRight
<1>1. Init => Inv BY InitInv
<1>2. Inv /\ [Next]_vars => Inv' BY NextInv
<1>3. Inv /\ [Next]_vars => StepRight
  <2> SUFFICES ASSUME Inv, [Next]_vars PROVE StepRight
    OBVIOUS
  <2>1. /\ Effect /\ work' = work /\ Kept /\ work \in Workloads /\ BlockInv
        /\ reply \in [Req -> Answers \cup {"none"}] /\ work.asked \subseteq Req
    BY NextEffect, Asked DEF Inv, QueueInv
  <2>2. (\A r \in work.asked : Op[r].type = "APPEND") => ~HasHeader(block)
    <3> SUFFICES ASSUME block \in Seq(EntryType), block # <<>> PROVE "level" \notin DOMAIN block[1]
      BY <2>1 DEF BlockInv, HasHeader
    <3>1. block[1] \in EntryType OBVIOUS
    <3> QED BY <3>1, Fields
  <2>3. HasHeader(block) => block \in NodeType BY <2>1, <2>2 DEF BlockInv, HasHeader
  <2>4. CASE Stutter
    <3>1. HeaderMonotone BY <2>3, <2>4, NodeSeq DEF Stutter, HeaderMonotone
    <3> QED BY <2>1, <2>4, <3>1 DEF Stutter, StepRight, Kept
  <2>5. ASSUME NEW r \in work.asked, reply[r] = "none", Error(r) PROVE StepRight
    <3>1. reply' = [reply EXCEPT ![r] = "DBERR"] /\ block' \in {block, <<>>} BY <2>5 DEF Error
    <3>2. HeaderMonotone BY <2>3, <3>1, NodeSeq DEF HeaderMonotone, HasHeader
    <3>3. \A x \in Req : reply[x] = "none" => reply'[x] # "OK" BY <2>1, <3>1
    <3> QED BY <2>1, <3>2, <3>3 DEF StepRight, Kept, Documents, IfPresent
  <2>6. ASSUME NEW r \in work.asked, reply[r] = "none", Whole(r) PROVE StepRight
    <3> DEFINE res == adjust_data(block, Op[r])
    <3>1. reply' = [reply EXCEPT ![r] = res.stat] /\ block' = res.block /\ r \in Req /\ Op[r] \in OpType
      BY <2>1, <2>6 DEF Whole, BlockAssumption
    <3>2. /\ reply'[r] = res.stat
          /\ \A x \in Req : reply[x] = "none" /\ reply'[x] = "OK" => x = r
      BY <2>1, <3>1
    <3>3. /\ Op[r].type = "APPEND" => \A x \in work.asked : Op[x].type = "APPEND"
          /\ Op[r].type # "APPEND" => NodeResult(block, Op[r])
      BY <2>1, Adjusted
    <3>4. CASE Op[r].type = "APPEND"
      <4>1. r \notin Documents /\ r \notin IfPresent
        BY <3>1, <3>4 DEF Documents, IfPresent, OpType, UpdateTypes
      <4>2. HeaderMonotone BY <2>2, <3>3, <3>4 DEF HeaderMonotone
      <4> QED BY <2>1, <3>2, <4>1, <4>2 DEF StepRight, Kept, Documents, IfPresent
    <3>5. CASE Op[r].type # "APPEND"
      <4>1. NodeResult(block, Op[r]) BY <3>3, <3>5
      <4>2. HeaderMonotone
        BY <3>1, <4>1 DEF HeaderMonotone, HasHeader, NodeResult, NodeRight, Monotone
      <4>3. r \in Documents /\ res.stat = "OK" => block[1].level = 0 /\ block[1].random # -1
        BY <4>1 DEF NodeResult, Documents
      <4>4. r \in IfPresent /\ HasKey(block', Op[r].key) => HasKey(block, Op[r].key)
        BY <3>1, <4>1 DEF NodeResult, IfPresent
      <4>5. \A x \in Documents : reply[x] = "none" /\ reply'[x] = "OK" =>
                block[1].level = 0 /\ block[1].random # -1
        BY <3>2, <4>3 DEF Documents
      <4>6. \A x \in IfPresent : reply[x] = "none" /\ reply'[x] = "OK" /\ HasKey(block', Op[x].key) =>
                HasKey(block, Op[x].key)
        BY <3>2, <4>4 DEF IfPresent
      <4> QED BY <2>1, <4>2, <4>5, <4>6 DEF StepRight, Kept
    <3> QED BY <3>4, <3>5
  <2> QED BY <2>1, <2>4, <2>5, <2>6 DEF Effect
<1> QED BY <1>1, <1>2, <1>3, PTL DEF Spec, StepsRight

---------------------------------------------------------------------------------
(* The chunks of a block.                                                       *)

Interval == [start : Nat, end : Nat]
Fit(h, n) == \A c \in h : c.start < c.end /\ c.end <= n
Apart(h) == \A c, d \in h : c # d => c.end < d.start \/ d.end < c.start
Covers(h, i) == \E c \in h : c.start < i /\ i <= c.end

\* join: what is near a new chunk becomes one interval with it, and nothing else
\* changes.
LEMMA JoinRight ==
    ASSUME NEW n \in Nat, NEW h \in SUBSET Interval, Fit(h, n), Apart(h),
           NEW s \in Nat, NEW e \in Nat, s < e, e <= n
    PROVE  /\ MergeChunk(h, s, e) \in SUBSET Interval
           /\ Fit(MergeChunk(h, s, e), n) /\ Apart(MergeChunk(h, s, e))
           /\ \A i \in 1..n : Covers(MergeChunk(h, s, e), i)
                              <=> Covers(h, i) \/ (s < i /\ i <= e)
<1> DEFINE near == {c \in h : s <= c.end /\ c.start <= e}
           L == {s} \cup {c.start : c \in near}
           H == {e} \cup {c.end : c \in near}
           lo == Min(L)
           hi == Max(H)
           new == [start |-> lo, end |-> hi]
           m == (h \ near) \cup {new}
<1>0. MergeChunk(h, s, e) = m BY DEF MergeChunk
<1>1. \A c \in h : c.start \in Nat /\ c.end \in Nat /\ c.start < c.end /\ c.end <= n
  BY DEF Interval, Fit
<1>2. lo \in L /\ \A y \in L : lo <= y
  <2>1. L \in SUBSET Nat /\ L # {} BY <1>1
  <2> QED BY <2>1, MinNat
<1>3. hi \in H /\ \A y \in H : y <= hi
  <2>1. H \in SUBSET (0..n) /\ H # {}
    <3>1. \A c \in near : c.end \in 0..n BY <1>1
    <3>2. e \in 0..n OBVIOUS
    <3> QED BY <3>1, <3>2
  <2> QED BY <2>1, MaxNat
<1>4. lo = s \/ \E c \in near : lo = c.start BY <1>2
<1>5. hi = e \/ \E c \in near : hi = c.end BY <1>3
<1>6. lo \in Nat /\ hi \in Nat /\ lo <= s /\ e <= hi /\ hi <= n
  <2>1. lo \in Nat BY <1>1, <1>4
  <2>2. hi \in Nat /\ hi <= n BY <1>1, <1>5
  <2> QED BY <1>2, <1>3, <2>1, <2>2
<1>7. \A c \in near : lo <= c.start /\ c.end <= hi BY <1>2, <1>3
<1> HIDE DEF lo, hi
<1>8. new \in Interval /\ new.start = lo /\ new.end = hi BY <1>6 DEF Interval
<1>9. \A c \in h \ near : c.end < lo \/ hi < c.start
  <2> TAKE c \in h \ near
  <2>1. c.end < s \/ e < c.start BY <1>1
  <2>2. CASE c.end < s
    <3>1. SUFFICES ASSUME NEW d \in near, lo = d.start PROVE c.end < lo BY <1>4, <2>2
    <3>2. c # d OBVIOUS
    <3>3. c.end < d.start \/ d.end < c.start BY <3>2 DEF Apart
    <3> QED BY <1>1, <2>2, <3>1, <3>3
  <2>3. CASE e < c.start
    <3>1. SUFFICES ASSUME NEW d \in near, hi = d.end PROVE hi < c.start BY <1>5, <2>3
    <3>2. c # d OBVIOUS
    <3>3. c.end < d.start \/ d.end < c.start BY <3>2 DEF Apart
    <3> QED BY <1>1, <2>3, <3>1, <3>3
  <2> QED BY <2>1, <2>2, <2>3
<1> HIDE DEF new
<1>10. m \in SUBSET Interval BY <1>8
<1>11. Fit(m, n)
  <2>1. new.start < new.end /\ new.end <= n BY <1>6, <1>8
  <2> QED BY <1>1, <2>1 DEF Fit
<1>12. Apart(m)
  <2>1. \A c \in h \ near : c.end < new.start \/ new.end < c.start BY <1>8, <1>9
  <2> QED BY <2>1 DEF Apart
<1>13. ASSUME NEW i \in 1..n PROVE Covers(m, i) <=> Covers(h, i) \/ (s < i /\ i <= e)
  <2>1. ASSUME Covers(m, i) PROVE Covers(h, i) \/ (s < i /\ i <= e)
    <3>1. SUFFICES ASSUME lo < i, i <= hi, ~(s < i /\ i <= e) PROVE Covers(h, i)
      BY <1>8, <2>1 DEF Covers
    <3>2. CASE i <= s
      <4>1. PICK c \in near : lo = c.start BY <1>4, <1>6, <3>1, <3>2
      <4>2. c \in h /\ c.start < i /\ i <= c.end BY <1>1, <3>1, <3>2, <4>1
      <4> QED BY <4>2 DEF Covers
    <3>3. CASE e < i
      <4>1. PICK c \in near : hi = c.end BY <1>5, <1>6, <3>1, <3>3
      <4>2. c \in h /\ c.start < i /\ i <= c.end BY <1>1, <3>1, <3>3, <4>1
      <4> QED BY <4>2 DEF Covers
    <3> QED BY <3>1, <3>2, <3>3
  <2>2. ASSUME Covers(h, i) PROVE Covers(m, i)
    <3>1. PICK c \in h : c.start < i /\ i <= c.end BY <2>2 DEF Covers
    <3>2. CASE c \in near
      <4>1. new.start < i /\ i <= new.end BY <1>1, <1>6, <1>7, <1>8, <3>1, <3>2
      <4> QED BY <4>1 DEF Covers
    <3>3. CASE c \notin near BY <3>1, <3>3 DEF Covers
    <3> QED BY <3>2, <3>3
  <2>3. ASSUME s < i, i <= e PROVE Covers(m, i)
    <3>1. new.start < i /\ i <= new.end BY <1>6, <1>8, <2>3
    <3> QED BY <3>1 DEF Covers
  <2> QED BY <2>1, <2>2, <2>3
<1> QED BY <1>0, <1>10, <1>11, <1>12, <1>13

\* iscomplete: chunks that are apart and cover every byte are one chunk, the block.
LEMMA AllCovered ==
    ASSUME NEW n \in Nat \ {0}, NEW h \in SUBSET Interval, Fit(h, n), Apart(h),
           \A i \in 1..n : Covers(h, i)
    PROVE  h = {[start |-> 0, end |-> n]}
<1>1. \A c \in h : c.start \in Nat /\ c.end \in Nat /\ c.start < c.end /\ c.end <= n
  BY DEF Interval, Fit
<1>2. PICK c \in h : c.start < 1 /\ 1 <= c.end BY DEF Covers
<1>3. c.start = 0 BY <1>1, <1>2
<1>4. c.end = n
  <2>1. SUFFICES ASSUME c.end < n PROVE FALSE BY <1>1
  <2>2. c.end + 1 \in 1..n BY <1>1, <2>1
  <2>3. PICK d \in h : d.start < c.end + 1 /\ c.end + 1 <= d.end BY <2>2 DEF Covers
  <2>4. c # d BY <1>1, <2>3
  <2>5. c.end < d.start \/ d.end < c.start BY <2>4 DEF Apart
  <2> QED BY <1>1, <1>3, <2>3, <2>5
<1>5. \A d \in h : d = c
  <2>1. SUFFICES ASSUME NEW d \in h, d # c PROVE FALSE OBVIOUS
  <2>2. c.end < d.start \/ d.end < c.start BY <2>1 DEF Apart
  <2> QED BY <1>1, <1>3, <1>4, <2>2
<1>6. c = [start |-> 0, end |-> n] BY <1>3, <1>4 DEF Interval
<1> QED BY <1>5, <1>6

---------------------------------------------------------------------------------
(* The state of a key while its chunks come in.                                 *)

Byte == {<<>>} \cup (Writer \X Nat)

\* The chunks fit and are apart, and the bytes they cover are the ones written.
StateOK(ss) ==
    /\ ss.size \in Nat \ {0}
    /\ ss \in [size : Nat, have : SUBSET Interval, buf : [1..ss.size -> Byte]]
    /\ Fit(ss.have, ss.size) /\ Apart(ss.have)
    /\ \A i \in 1..ss.size : /\ ss.buf[i] # <<>> <=> Covers(ss.have, i)
                             /\ ss.buf[i] # <<>> => \E w \in Writer : ss.buf[i] = <<w, i>>
Wrote(ss, w) == \E i \in 1..ss.size : ss.buf[i] = <<w, i>>

LEMMA Pairs == \A w, i : <<w, i>> # <<>> /\ <<w, i>>[1] = w
OBVIOUS

\* dhash_store::start: the chunks of a block lie within it and have bytes.
LEMMA ChunkFits ==
    ASSUME ChunkAssumption, NEW w \in Writer, NEW off \in Offsets(w)
    PROVE  /\ off \in Nat /\ chunklen(w, off) \in Nat \ {0}
           /\ off + chunklen(w, off) <= Length[w]
           /\ chunklen(w, off) = mtu \/ off + chunklen(w, off) = Length[w]
<1> DEFINE T == {mtu, Length[w] - off}
<1>1. Length[w] \in Nat \ {0} /\ mtu \in Nat \ {0} BY DEF ChunkAssumption
<1>2. off \in Nat /\ off < Length[w] BY <1>1 DEF Offsets
<1>3. T \in SUBSET Nat /\ T # {} BY <1>1, <1>2
<1>4. Min(T) \in T /\ \A y \in T : Min(T) <= y BY <1>3, MinNat
<1>5. chunklen(w, off) = Min(T) BY DEF chunklen
<1> QED BY <1>1, <1>2, <1>4, <1>5

\* Between them they have every byte.
LEMMA EveryByte ==
    ASSUME ChunkAssumption, NEW w \in Writer, NEW i \in 1..Length[w]
    PROVE  \E off \in Offsets(w) : off < i /\ i <= off + chunklen(w, off)
<1> DEFINE q == (i - 1) \div mtu
           off == mtu * q
<1>1. Length[w] \in Nat \ {0} /\ mtu \in Nat \ {0} BY DEF ChunkAssumption
<1>2. i - 1 \in Nat /\ i - 1 < Length[w] BY <1>1
<1>3. i - 1 = mtu * ((i - 1) \div mtu) + ((i - 1) % mtu) BY <1>1, <1>2
<1>4. (i - 1) % mtu \in 0..(mtu - 1) BY <1>1, <1>2
<1>5. q \in Nat BY <1>1, <1>2
<1>6. off \in Nat /\ off % mtu = 0 BY <1>1, <1>5
<1>7. off <= i - 1 /\ i - 1 < off + mtu
  <2>1. i - 1 = off + ((i - 1) % mtu) BY <1>3
  <2> HIDE DEF off
  <2> QED BY <1>1, <1>2, <1>4, <1>6, <2>1
<1> HIDE DEF off, q
<1>8. off \in Offsets(w) BY <1>1, <1>2, <1>6, <1>7 DEF Offsets
<1>9. off < i /\ i <= off + chunklen(w, off)
  BY <1>1, <1>2, <1>6, <1>7, <1>8, ChunkFits
<1> QED BY <1>8, <1>9

\* store_state::addchunk keeps the state, writes the bytes of the chunk, and no
\* byte of another place.
LEMMA AddRight ==
    ASSUME NEW ss, StateOK(ss), NEW w \in Writer, NEW s \in Nat, NEW e \in Nat,
           s < e, e <= ss.size
    PROVE  /\ StateOK(addchunk(ss, w, s, e)) /\ addchunk(ss, w, s, e).size = ss.size
           /\ \A i \in 1..ss.size :
                 /\ addchunk(ss, w, s, e).buf[i] \in {ss.buf[i], <<w, i>>}
                 /\ ss.buf[i] # <<>> => addchunk(ss, w, s, e).buf[i] # <<>>
                 /\ s < i /\ i <= e => addchunk(ss, w, s, e).buf[i] # <<>>
<1> DEFINE t == addchunk(ss, w, s, e)
           m == MergeChunk(ss.have, s, e)
           b == [i \in 1..ss.size |-> IF s < i /\ i <= e THEN <<w, i>> ELSE ss.buf[i]]
<1>0. /\ ss.size \in Nat \ {0} /\ ss.have \in SUBSET Interval
      /\ ss.buf \in [1..ss.size -> Byte] /\ DOMAIN ss.buf = 1..ss.size
  BY DEF StateOK
<1>1. CASE Contained(ss.have, s, e)
  <2>1. t = ss BY <1>1 DEF addchunk
  <2>2. PICK c \in ss.have : c.start <= s /\ s <= c.end /\ e <= c.end
    BY <1>1 DEF Contained, touches
  <2>3. c.start \in Nat /\ c.end \in Nat BY <1>0 DEF Interval
  <2>4. ASSUME NEW i \in 1..ss.size, s < i, i <= e PROVE ss.buf[i] # <<>>
    <3>1. c.start < i /\ i <= c.end BY <1>0, <2>2, <2>3, <2>4
    <3> QED BY <3>1 DEF StateOK, Covers
  <2> QED BY <2>1, <2>4
<1>2. CASE ~Contained(ss.have, s, e)
  <2>1. t = [ss EXCEPT !.have = m, !.buf = b] BY <1>0, <1>2 DEF addchunk
  <2>2. /\ m \in SUBSET Interval /\ Fit(m, ss.size) /\ Apart(m)
        /\ \A i \in 1..ss.size : Covers(m, i) <=> Covers(ss.have, i) \/ (s < i /\ i <= e)
    BY <1>0, JoinRight DEF StateOK
  <2>3. \A i \in 1..ss.size : <<w, i>> \in Byte BY <1>0 DEF Byte
  <2>4. b \in [1..ss.size -> Byte] BY <1>0, <2>3
  <2>5. \A i \in 1..ss.size : /\ b[i] \in {ss.buf[i], <<w, i>>}
                              /\ s < i /\ i <= e => b[i] = <<w, i>>
                              /\ ~(s < i /\ i <= e) => b[i] = ss.buf[i]
    OBVIOUS
  <2> HIDE DEF m, b
  <2>6. /\ t \in [size : Nat, have : SUBSET Interval, buf : [1..ss.size -> Byte]]
        /\ t.size = ss.size /\ t.have = m /\ t.buf = b
    BY <2>1, <2>2, <2>4 DEF StateOK
  <2> HIDE DEF t
  <2>7. ASSUME NEW i \in 1..ss.size
        PROVE  /\ t.buf[i] # <<>> <=> Covers(t.have, i)
               /\ t.buf[i] # <<>> => \E v \in Writer : t.buf[i] = <<v, i>>
               /\ ss.buf[i] # <<>> => t.buf[i] # <<>>
               /\ s < i /\ i <= e => t.buf[i] # <<>>
    <3>1. CASE s < i /\ i <= e BY <2>2, <2>5, <2>6, <3>1, Pairs
    <3>2. CASE ~(s < i /\ i <= e) BY <2>2, <2>5, <2>6, <3>2 DEF StateOK
    <3> QED BY <3>1, <3>2
  <2>8. StateOK(t) BY <1>0, <2>2, <2>6, <2>7 DEF StateOK
  <2> QED BY <2>5, <2>6, <2>7, <2>8 DEF t
<1> QED BY <1>1, <1>2

\* The state of a new key.
LEMMA NewRight ==
    ASSUME ChunkAssumption, NEW w \in Writer
    PROVE  /\ StateOK(New(w)) /\ New(w).size = Length[w]
           /\ \A i \in 1..Length[w] : New(w).buf[i] = <<>>
<1>1. Length[w] \in Nat \ {0} BY DEF ChunkAssumption
<1>2. New(w) \in [size : Nat, have : SUBSET Interval, buf : [1..Length[w] -> Byte]]
  BY <1>1 DEF New, Byte
<1>3. New(w).size = Length[w] /\ New(w).have = {} BY DEF New
<1>4. \A i \in 1..Length[w] : New(w).buf[i] = <<>> BY DEF New
<1>5. Fit({}, Length[w]) /\ Apart({}) /\ \A i : ~Covers({}, i) BY DEF Fit, Apart, Covers
<1> QED BY <1>1, <1>2, <1>3, <1>4, <1>5 DEF StateOK

\* A state all of whose bytes are written is complete, and the other way round.
LEMMA CompleteIs ==
    ASSUME NEW ss, StateOK(ss)
    PROVE  iscomplete(ss) <=> \A i \in 1..ss.size : ss.buf[i] # <<>>
<1>0. ss.size \in Nat \ {0} /\ ss.have \in SUBSET Interval BY DEF StateOK
<1>1. ASSUME iscomplete(ss), NEW i \in 1..ss.size PROVE ss.buf[i] # <<>>
  <2>1. Covers(ss.have, i) BY <1>0, <1>1 DEF iscomplete, Covers
  <2> QED BY <2>1 DEF StateOK
<1>2. ASSUME \A i \in 1..ss.size : ss.buf[i] # <<>> PROVE iscomplete(ss)
  BY <1>0, <1>2, AllCovered DEF StateOK, iscomplete
<1> QED BY <1>1, <1>2

---------------------------------------------------------------------------------
(* The invariant of the stores.                                                 *)

Request == [w : Writer, off : Nat]
Answer == [w : Writer, off : Nat, err : BOOLEAN, status : {"OK", "ERR", "none"}]

\* What is on its way: a chunk of a store that has begun, or the answer to one,
\* but not both.
OnTheWay ==
    /\ requests \in SUBSET Request /\ IsFiniteSet(requests)
    /\ replies \in SUBSET Answer /\ IsFiniteSet(replies)
    /\ \A r \in requests \cup replies : r.off \in Offsets(r.w) /\ result[r.w] # "none"
    /\ \A r \in requests, a \in replies : ~(r.w = a.w /\ r.off = a.off)
    /\ \A a \in replies : a.err \/ a.status \in {"OK", "ERR"}

Clients ==
    /\ npending \in [Writer -> Nat] /\ \A w \in Writer : npending[w] <= Cardinality(Offsets(w))
    /\ error \in [Writer -> BOOLEAN]
    /\ status \in [Writer -> {"OK", "ERR", "RPCERR", "TIMEDOUT"}]
    /\ result \in [Writer -> {"none", "running", "OK", "ERR", "RPCERR", "TIMEDOUT"}]
    /\ \A w \in Writer : error[w] => status[w] # "OK"

\* A state that is kept has some bytes and not all, and is as long as the block
\* of any store that met no other and wrote to it.
PstRight ==
    /\ mixed \in SUBSET Writer
    /\ \A ss, tt \in pst : ss = tt
    /\ \A ss \in pst : /\ StateOK(ss) /\ ~iscomplete(ss)
                       /\ \E i \in 1..ss.size : ss.buf[i] # <<>>
                       /\ \A w \in Writer \ mixed : Wrote(ss, w) => ss.size = Length[w]

\* Stores that have anything under way or in the state at once have met.
Met == \A u, v \in Unfinished : u # v => u \in mixed

\* As long as nothing of a store went wrong and it met no other, its chunks are
\* on the way or in the state, until its block is stored.
Held(w) == \E i \in DOMAIN stored : stored[i] = Block(w)
InPlace(w, off) ==
    \E ss \in pst : /\ ss.size = Length[w]
                    /\ \A i \in 1..Length[w] : off < i /\ i <= off + chunklen(w, off)
                                               => ss.buf[i] = <<w, i>>
Good(w) == ~error[w] /\ \A a \in replies : a.w = w => ~a.err /\ a.status = "OK"
Delivered ==
    \A w \in Writer \ mixed :
        result[w] = "running" /\ Good(w) =>
            Held(w) \/ \A off \in Offsets(w) : [w |-> w, off |-> off] \in requests \/ InPlace(w, off)

\* A store that runs waits for an answer and has not timed out.
Waits ==
    \A w \in Writer : /\ result[w] = "running" => npending[w] > 0
                      /\ ~Ended(w) => status[w] # "TIMEDOUT"

ChunkInv ==
    /\ OnTheWay /\ Clients /\ PstRight /\ Met /\ Delivered /\ Waits
    /\ stored \in Seq(Seq(Byte)) /\ Untorn /\ OKMeansStored /\ AnsweredOnce

\* The stores that have chunks among rq or bytes in the states of ps.
Bears(rq, ps, w) == (\E r \in rq : r.w = w) \/ \E ss \in ps : Wrote(ss, w)
LEMMA UnfinishedIs ==
    ASSUME NEW rq \in SUBSET Request, NEW ps, \A ss \in ps : StateOK(ss)
    PROVE  {r.w : r \in rq} \cup
              UNION {{ss.buf[i][1] : i \in {j \in DOMAIN ss.buf : ss.buf[j] # <<>>}} : ss \in ps}
           = {w \in Writer : Bears(rq, ps, w)}
<1> DEFINE U == {r.w : r \in rq} \cup
              UNION {{ss.buf[i][1] : i \in {j \in DOMAIN ss.buf : ss.buf[j] # <<>>}} : ss \in ps}
<1>1. ASSUME NEW w \in U PROVE w \in Writer /\ Bears(rq, ps, w)
  <2>1. CASE w \in {r.w : r \in rq} BY <2>1 DEF Request, Bears
  <2>2. CASE w \notin {r.w : r \in rq}
    <3>1. PICK ss \in ps : w \in {ss.buf[i][1] : i \in {j \in DOMAIN ss.buf : ss.buf[j] # <<>>}}
      BY <1>1, <2>2
    <3>2. PICK i \in DOMAIN ss.buf : ss.buf[i] # <<>> /\ w = ss.buf[i][1] BY <3>1
    <3>3. i \in 1..ss.size BY <3>2 DEF StateOK
    <3>4. PICK v \in Writer : ss.buf[i] = <<v, i>> BY <3>2, <3>3 DEF StateOK
    <3>5. v = w BY <3>2, <3>4
    <3> QED BY <3>3, <3>4, <3>5 DEF Bears, Wrote
  <2> QED BY <2>1, <2>2
<1>2. ASSUME NEW w \in Writer, Bears(rq, ps, w) PROVE w \in U
  <2>1. CASE \E r \in rq : r.w = w BY <2>1
  <2>2. CASE \E ss \in ps : Wrote(ss, w)
    <3>1. PICK ss \in ps : Wrote(ss, w) BY <2>2
    <3>2. PICK i \in 1..ss.size : ss.buf[i] = <<w, i>> BY <3>1 DEF Wrote
    <3>3. i \in DOMAIN ss.buf BY <3>2 DEF StateOK
    <3>4. ss.buf[i] # <<>> /\ ss.buf[i][1] = w BY <3>2, Pairs
    <3> QED BY <3>3, <3>4
  <2> QED BY <1>2, <2>1, <2>2 DEF Bears
<1> QED BY <1>1, <1>2

\* Requests and answers are told apart by their fields.
LEMMA ChunkFields ==
    /\ \A r \in Request : "err" \notin DOMAIN r
    /\ \A a \in Answer : "err" \in DOMAIN a
BY DEF Request, Answer

\* A request that becomes an answer keeps the books right (storesvc_cb, or an RPC
\* that fails).
LEMMA Moved ==
    ASSUME OnTheWay, NEW r \in requests, NEW e \in BOOLEAN, NEW s \in {"OK", "ERR", "none"},
           e \/ s \in {"OK", "ERR"}, requests' = requests \ {r},
           replies' = replies \cup {Reply(r, e, s)}, UNCHANGED result
    PROVE  /\ OnTheWay'
           /\ \A w \in Writer : Cardinality(UnderWay(w)') = Cardinality(UnderWay(w))
<1> DEFINE a == Reply(r, e, s)
<1>1. r \in Request /\ r.w \in Writer /\ r.off \in Nat BY DEF OnTheWay, Request
<1>2. a \in Answer /\ a.w = r.w /\ a.off = r.off /\ a.err = e /\ a.status = s
  BY <1>1 DEF Reply, Answer
<1> HIDE DEF a
<1>3. IsFiniteSet(requests') /\ IsFiniteSet(replies')
  <2>1. IsFiniteSet(requests \ {r}) /\ IsFiniteSet(replies \cup {a})
    BY FS_RemoveElement, FS_AddElement DEF OnTheWay
  <2> QED BY <2>1 DEF a
<1>4. requests' \in SUBSET Request /\ replies' \in SUBSET Answer BY <1>2 DEF OnTheWay, a
<1>5. \A x \in requests' \cup replies' : x.off \in Offsets(x.w) /\ result'[x.w] # "none"
  BY <1>2 DEF OnTheWay, a
<1>6. \A x \in requests', y \in replies' : ~(x.w = y.w /\ x.off = y.off)
  <2> SUFFICES ASSUME NEW x \in requests', NEW y \in replies', x.w = y.w, x.off = y.off
               PROVE  FALSE
    OBVIOUS
  <2>1. y = a BY DEF OnTheWay, a
  <2>2. x \in Request /\ x # r BY DEF OnTheWay
  <2>3. x.w = r.w /\ x.off = r.off BY <1>2, <2>1
  <2> QED BY <1>1, <2>2, <2>3 DEF Request
<1>7. \A y \in replies' : y.err \/ y.status \in {"OK", "ERR"} BY <1>2 DEF OnTheWay, a
<1>8. OnTheWay' BY <1>3, <1>4, <1>5, <1>6, <1>7 DEF OnTheWay
<1>9. ASSUME NEW w \in Writer PROVE Cardinality(UnderWay(w)') = Cardinality(UnderWay(w))
  <2> DEFINE A == UnderWay(w)
  <2>0. a \notin requests /\ r \notin replies /\ r # a BY <1>1, <1>2, ChunkFields DEF OnTheWay
  <2>1. a \notin replies BY <1>2 DEF OnTheWay
  <2>2. CASE r.w # w BY <1>2, <2>2 DEF UnderWay, a
  <2>3. CASE r.w = w
    <3>1. UnderWay(w)' = (A \ {r}) \cup {a} BY <1>2, <2>0, <2>3 DEF UnderWay, a
    <3>2. IsFiniteSet(A)
      <4>1. IsFiniteSet(requests \cup replies) BY FS_Union DEF OnTheWay
      <4>2. A \in SUBSET (requests \cup replies) BY DEF UnderWay
      <4> QED BY <4>1, <4>2, FS_Subset
    <3>3. r \in A /\ a \notin A BY <2>0, <2>1, <2>3 DEF UnderWay
    <3> HIDE DEF A
    <3>4. Cardinality(A) \in Nat BY <3>2, FS_CardinalityType
    <3>5. IsFiniteSet(A \ {r}) /\ Cardinality(A \ {r}) = Cardinality(A) - 1
      BY <3>2, <3>3, FS_RemoveElement
    <3>6. Cardinality((A \ {r}) \cup {a}) = Cardinality(A \ {r}) + 1
      BY <3>3, <3>5, FS_AddElement
    <3>7. Cardinality((A \ {r}) \cup {a}) = Cardinality(A) BY <3>4, <3>5, <3>6
    <3> QED BY <3>1, <3>7 DEF A
  <2> QED BY <2>2, <2>3
<1> QED BY <1>8, <1>9

\* What Unfinished is in a state the invariant holds in.
LEMMA BearersMet ==
    ASSUME OnTheWay, PstRight, Met, NEW u \in Writer, NEW v \in Writer,
           Bears(requests, pst, u), Bears(requests, pst, v), u # v
    PROVE  u \in mixed /\ v \in mixed
<1>1. Unfinished = {w \in Writer : Bears(requests, pst, w)}
  BY UnfinishedIs DEF OnTheWay, PstRight, Unfinished
<1> QED BY <1>1 DEF Met

\* The state a chunk of w is added to, the one with the chunk, and who wrote to it.
oldOf(w) == IF pst = {} THEN New(w) ELSE CHOOSE ss \in pst : TRUE
withChunk(w, off) == addchunk(oldOf(w), w, off, off + chunklen(w, off))
LEMMA ServeRight ==
    ASSUME ChunkAssumption, OnTheWay, PstRight, Met, NEW r \in requests,
           NEW ss, ss = withChunk(r.w, r.off), NEW old, old = oldOf(r.w),
           NEW end, end = r.off + chunklen(r.w, r.off)
    PROVE  /\ StateOK(old)
           /\ pst # {} => pst = {old}
           /\ r.w \notin mixed => end <= old.size
           /\ pst = {} => end <= old.size
           /\ end <= old.size =>
                /\ StateOK(ss) /\ \E i \in 1..ss.size : ss.buf[i] # <<>>
                /\ \A u \in Writer : Wrote(ss, u) => Bears(requests, pst, u)
                /\ \A u \in Writer \ mixed : Wrote(ss, u) => u = r.w
                /\ r.w \notin mixed => ss.size = Length[r.w]
                /\ \A i \in 1..ss.size : r.off < i /\ i <= end => ss.buf[i] # <<>>
                /\ \A tt \in pst : /\ tt.size = ss.size
                                   /\ \A i \in 1..ss.size : tt.buf[i] # <<>> => ss.buf[i] # <<>>
<1> DEFINE w == r.w
           off == r.off
<1>1. w \in Writer /\ off \in Offsets(w) BY DEF OnTheWay, Request
<1>2. /\ off \in Nat /\ chunklen(w, off) \in Nat \ {0}
      /\ off + chunklen(w, off) <= Length[w] /\ Length[w] \in Nat \ {0}
  BY <1>1, ChunkFits DEF ChunkAssumption
<1>3. end \in Nat /\ off < end /\ end <= Length[w] BY <1>2
<1>4. Bears(requests, pst, w) BY DEF Bears
<1>5. pst # {} => old \in pst /\ pst = {old} BY DEF oldOf, PstRight
<1>6. pst = {} => old = New(w) BY DEF oldOf
<1>7. /\ StateOK(old)
      /\ \A u \in Writer : Wrote(old, u) => pst # {} /\ Bears(requests, pst, u)
      /\ pst = {} => old.size = Length[w]
      /\ w \notin mixed => old.size = Length[w]
  <2>1. CASE pst = {}
    <3>1. old = New(w) BY <1>6, <2>1
    <3>2. StateOK(old) /\ old.size = Length[w] /\ \A i \in 1..Length[w] : old.buf[i] = <<>>
      BY <1>1, <3>1, NewRight
    <3>3. \A u \in Writer : ~Wrote(old, u) BY <3>2, Pairs DEF Wrote
    <3> QED BY <2>1, <3>2, <3>3
  <2>2. CASE pst # {}
    <3>1. old \in pst BY <1>5, <2>2
    <3>2. StateOK(old) BY <3>1 DEF PstRight
    <3>3. \A u \in Writer : Wrote(old, u) => Bears(requests, pst, u) BY <3>1 DEF Bears
    <3>4. ASSUME w \notin mixed PROVE old.size = Length[w]
      <4>1. PICK i \in 1..old.size : old.buf[i] # <<>> BY <3>1 DEF PstRight
      <4>2. PICK v \in Writer : old.buf[i] = <<v, i>> BY <3>2, <4>1 DEF StateOK
      <4>3. Wrote(old, v) BY <4>2 DEF Wrote
      <4>4. v = w BY <1>1, <1>4, <3>3, <3>4, <4>3, BearersMet
      <4> QED BY <1>1, <3>1, <3>4, <4>3, <4>4 DEF PstRight
    <3> QED BY <2>2, <3>2, <3>3, <3>4
  <2> QED BY <2>1, <2>2
<1>8. (w \notin mixed => end <= old.size) /\ (pst = {} => end <= old.size) BY <1>3, <1>7
<1>9. ASSUME end <= old.size
      PROVE  /\ StateOK(ss) /\ \E i \in 1..ss.size : ss.buf[i] # <<>>
             /\ \A u \in Writer : Wrote(ss, u) => Bears(requests, pst, u)
             /\ \A u \in Writer \ mixed : Wrote(ss, u) => u = w
             /\ w \notin mixed => ss.size = Length[w]
             /\ \A i \in 1..ss.size : off < i /\ i <= end => ss.buf[i] # <<>>
             /\ \A tt \in pst : /\ tt.size = ss.size
                                /\ \A i \in 1..ss.size : tt.buf[i] # <<>> => ss.buf[i] # <<>>
  <2>1. ss = addchunk(old, w, off, end) BY DEF withChunk
  <2>2. /\ StateOK(ss) /\ ss.size = old.size
        /\ \A i \in 1..old.size : /\ ss.buf[i] \in {old.buf[i], <<w, i>>}
                                  /\ old.buf[i] # <<>> => ss.buf[i] # <<>>
                                  /\ off < i /\ i <= end => ss.buf[i] # <<>>
    <3> HIDE DEF w, off
    <3> QED BY <1>1, <1>2, <1>3, <1>7, <1>9, <2>1, AddRight
  <2>3. \E i \in 1..ss.size : ss.buf[i] # <<>>
    <3>1. end \in 1..ss.size BY <1>2, <1>3, <1>9, <2>2 DEF StateOK
    <3> QED BY <1>2, <1>3, <2>2, <3>1
  <2>4. ASSUME NEW u \in Writer, Wrote(ss, u) PROVE u = w \/ Wrote(old, u)
    <3>1. PICK i \in 1..ss.size : ss.buf[i] = <<u, i>> BY <2>4 DEF Wrote
    <3>2. CASE ss.buf[i] = old.buf[i] BY <2>2, <3>1, <3>2 DEF Wrote
    <3>3. CASE ss.buf[i] = <<w, i>> BY <3>1, <3>3, Pairs
    <3> QED BY <2>2, <3>1, <3>2, <3>3
  <2>5. \A u \in Writer : Wrote(ss, u) => Bears(requests, pst, u) BY <1>4, <1>7, <2>4
  <2>6. \A u \in Writer \ mixed : Wrote(ss, u) => u = w
    BY <1>1, <1>4, <2>5, BearersMet
  <2>7. \A tt \in pst : tt = old BY <1>5
  <2> QED BY <1>7, <2>2, <2>3, <2>5, <2>6, <2>7
<1> QED BY <1>5, <1>7, <1>8, <1>9

\* What impl_store answers, and what it keeps and stores.
LEMMA ServeCases ==
    ASSUME NEW r, NEW res, res = impl_store(r.w, r.off)
    PROVE  \/ /\ r.off + chunklen(r.w, r.off) > oldOf(r.w).size
              /\ res.status = "ERR" /\ res.pst = {oldOf(r.w)} /\ res.stored = stored
           \/ /\ ~(r.off + chunklen(r.w, r.off) > oldOf(r.w).size)
              /\ iscomplete(withChunk(r.w, r.off)) /\ res.status = "OK" /\ res.pst = {}
              /\ res.stored = Append(stored, withChunk(r.w, r.off).buf)
           \/ /\ ~(r.off + chunklen(r.w, r.off) > oldOf(r.w).size)
              /\ ~iscomplete(withChunk(r.w, r.off)) /\ res.status = "OK"
              /\ res.pst = {withChunk(r.w, r.off)} /\ res.stored = stored
<1> DEFINE old == oldOf(r.w)
           end == r.off + chunklen(r.w, r.off)
           ss == withChunk(r.w, r.off)
<1>1. impl_store(r.w, r.off) =
        IF end > old.size
        THEN [status |-> "ERR", pst |-> {old}, stored |-> stored]
        ELSE IF iscomplete(ss) THEN [status |-> "OK", pst |-> {}, stored |-> Append(stored, ss.buf)]
        ELSE [status |-> "OK", pst |-> {ss}, stored |-> stored]
  BY DEF impl_store, oldOf, withChunk
<1> HIDE DEF old, end, ss
<1>2. CASE end > old.size BY <1>1, <1>2 DEF old, end
<1>3. CASE ~(end > old.size) /\ iscomplete(ss) BY <1>1, <1>3 DEF old, end, ss
<1>4. CASE ~(end > old.size) /\ ~iscomplete(ss) BY <1>1, <1>4 DEF old, end, ss
<1> QED BY <1>2, <1>3, <1>4

\* dhash_impl::store keeps the invariant.
LEMMA ServeKeeps ==
    ASSUME ChunkAssumption, ChunkInv, Serve
    PROVE  ChunkInv'
<1> USE DEF ChunkInv
<1>1. PICK r \in requests :
        LET res == impl_store(r.w, r.off) IN
        /\ requests' = requests \ {r}
        /\ pst' = res.pst /\ stored' = res.stored
        /\ \/ replies' = replies \cup {Reply(r, FALSE, res.status)}
           \/ stored' # stored /\ replies' = replies \cup {Reply(r, FALSE, "ERR")}
           \/ replies' = replies \cup {Reply(r, TRUE, "none")}
        /\ UNCHANGED <<npending, error, status, result, mixed>>
  BY DEF Serve
<1> DEFINE res == impl_store(r.w, r.off)
           w == r.w
           off == r.off
           old == oldOf(w)
           ss == withChunk(w, off)
           end == off + chunklen(w, off)
<1>2. /\ requests' = requests \ {r} /\ pst' = res.pst /\ stored' = res.stored
      /\ UNCHANGED <<npending, error, status, result, mixed>>
  BY <1>1
<1>w. w \in Writer /\ off \in Offsets(w) BY DEF OnTheWay, Request
<1>3. /\ off \in Nat /\ chunklen(w, off) \in Nat \ {0} /\ Length[w] \in Nat \ {0}
      /\ off + chunklen(w, off) <= Length[w]
  BY <1>w, ChunkFits DEF ChunkAssumption
<1>4. /\ StateOK(old)
      /\ pst # {} => pst = {old}
      /\ w \notin mixed => end <= old.size
      /\ pst = {} => end <= old.size
      /\ end <= old.size =>
           /\ StateOK(ss) /\ \E i \in 1..ss.size : ss.buf[i] # <<>>
           /\ \A u \in Writer : Wrote(ss, u) => Bears(requests, pst, u)
           /\ \A u \in Writer \ mixed : Wrote(ss, u) => u = w
           /\ w \notin mixed => ss.size = Length[w]
           /\ \A i \in 1..ss.size : off < i /\ i <= end => ss.buf[i] # <<>>
           /\ \A tt \in pst : /\ tt.size = ss.size
                              /\ \A i \in 1..ss.size : tt.buf[i] # <<>> => ss.buf[i] # <<>>
  BY ServeRight
<1>5. old.size \in Nat /\ end \in Nat BY <1>3, <1>4 DEF StateOK
<1>6. \/ pst # {} /\ res.status = "ERR" /\ pst' = pst /\ stored' = stored /\ ~(end <= old.size)
      \/ /\ end <= old.size /\ iscomplete(ss) /\ pst' = {}
         /\ res.status = "OK" /\ stored' = Append(stored, ss.buf)
      \/ /\ end <= old.size /\ ~iscomplete(ss) /\ pst' = {ss}
         /\ res.status = "OK" /\ stored' = stored
  <2> HIDE DEF res, old, ss, end
  <2>1. \/ end > old.size /\ res.status = "ERR" /\ res.pst = {old} /\ res.stored = stored
        \/ /\ ~(end > old.size) /\ iscomplete(ss) /\ res.status = "OK" /\ res.pst = {}
           /\ res.stored = Append(stored, ss.buf)
        \/ /\ ~(end > old.size) /\ ~iscomplete(ss) /\ res.status = "OK"
           /\ res.pst = {ss} /\ res.stored = stored
    BY ServeCases DEF res, old, ss, end
  <2>2. end > old.size <=> ~(end <= old.size) BY <1>5
  <2> QED BY <1>2, <1>4, <2>1, <2>2
<1>7. PICK e \in BOOLEAN, s \in {"OK", "ERR", "none"} :
        /\ replies' = replies \cup {Reply(r, e, s)} /\ (e \/ s \in {"OK", "ERR"})
        /\ ~e /\ s = "OK" => res.status = "OK"
  <2>1. CASE replies' = replies \cup {Reply(r, FALSE, res.status)} BY <1>6, <2>1
  <2>2. CASE replies' = replies \cup {Reply(r, FALSE, "ERR")} BY <2>2
  <2>3. CASE replies' = replies \cup {Reply(r, TRUE, "none")} BY <2>3
  <2> QED BY <1>1, <2>1, <2>2, <2>3
<1> HIDE DEF res, old, ss, end
<1>8. /\ OnTheWay'
      /\ \A u \in Writer : Cardinality(UnderWay(u)') = Cardinality(UnderWay(u))
  BY <1>2, <1>7, Moved
<1>9. Clients' BY <1>2 DEF Clients
<1>10. PstRight'
  <2>1. CASE pst' = pst BY <1>2, <2>1 DEF PstRight
  <2>2. CASE pst' = {} BY <1>2, <2>2 DEF PstRight
  <2>3. CASE end <= old.size /\ ~iscomplete(ss) /\ pst' = {ss} BY <1>2, <1>4, <2>3 DEF PstRight
  <2> QED BY <1>6, <2>1, <2>2, <2>3
<1>11. ASSUME NEW u \in Writer, Bears(requests', pst', u) PROVE Bears(requests, pst, u)
  <2>1. CASE \E x \in requests' : x.w = u BY <1>2, <2>1 DEF Bears
  <2>2. CASE \E x \in pst' : Wrote(x, u) BY <1>4, <1>6, <2>2 DEF Bears
  <2> QED BY <1>11, <2>1, <2>2 DEF Bears
<1>12. Met'
  <2>1. Unfinished' = {u \in Writer : Bears(requests', pst', u)}
    BY <1>8, <1>10, UnfinishedIs DEF OnTheWay, PstRight, Unfinished
  <2> SUFFICES ASSUME NEW u \in Unfinished', NEW v \in Unfinished', u # v PROVE u \in mixed'
    BY DEF Met
  <2> QED BY <1>2, <1>11, <2>1, BearersMet
<1>13. ASSUME iscomplete(ss), end <= old.size
       PROVE  /\ ss.buf \in Seq(Byte) /\ DOMAIN ss.buf = 1..ss.size
              /\ \A i \in 1..ss.size : \E u \in Writer : ss.buf[i] = <<u, i>>
              /\ w \notin mixed => ss.buf = Block(w)
              /\ \/ w \notin mixed \/ \A i \in DOMAIN ss.buf : \E u \in mixed : ss.buf[i] = <<u, i>>
  <2>1. StateOK(ss) BY <1>4, <1>13
  <2>2. ss.size \in Nat /\ ss.buf \in [1..ss.size -> Byte] BY <2>1 DEF StateOK
  <2>3. ss.buf \in Seq(Byte) BY <2>2, SeqDef
  <2>4. \A i \in 1..ss.size : ss.buf[i] # <<>> BY <1>13, <2>1, CompleteIs
  <2>5. \A i \in 1..ss.size : \E u \in Writer : ss.buf[i] = <<u, i>> BY <2>1, <2>4 DEF StateOK
  <2>6. \A i \in 1..ss.size, u \in Writer : ss.buf[i] = <<u, i>> => Wrote(ss, u) BY DEF Wrote
  <2>7. ASSUME w \notin mixed PROVE ss.buf = Block(w)
    <3>1. ss.size = Length[w] BY <1>4, <1>13, <2>7
    <3>2. ASSUME NEW i \in 1..ss.size PROVE ss.buf[i] = <<w, i>>
      <4>1. PICK u \in Writer : ss.buf[i] = <<u, i>> BY <2>5
      <4>2. u \in mixed \/ u = w BY <1>4, <1>13, <2>6, <4>1
      <4>3. u = w
        BY <1>w, <1>4, <1>13, <2>6, <2>7, <4>1, <4>2, BearersMet DEF Bears
      <4> QED BY <4>1, <4>3
    <3> QED BY <2>2, <3>1, <3>2 DEF Block
  <2>8. ASSUME w \in mixed PROVE \A i \in DOMAIN ss.buf : \E u \in mixed : ss.buf[i] = <<u, i>>
    BY <1>4, <1>13, <2>2, <2>5, <2>6, <2>8
  <2> QED BY <2>2, <2>3, <2>5, <2>7, <2>8
<1>14. /\ stored' \in Seq(Seq(Byte))
       /\ \A i \in DOMAIN stored : i \in DOMAIN stored' /\ stored'[i] = stored[i]
       /\ \A i \in DOMAIN stored' : i \in DOMAIN stored
            \/ (iscomplete(ss) /\ end <= old.size /\ stored'[i] = ss.buf)
  <2>1. CASE stored' = stored BY <2>1
  <2>2. CASE stored' = Append(stored, ss.buf) /\ end <= old.size /\ iscomplete(ss)
    <3>1. ss.buf \in Seq(Byte) BY <1>13, <2>2
    <3>2. /\ stored' \in Seq(Seq(Byte)) /\ DOMAIN stored' = 1..(Len(stored) + 1)
          /\ DOMAIN stored = 1..Len(stored) /\ Len(stored) \in Nat
          /\ \A i \in 1..Len(stored) : stored'[i] = stored[i]
          /\ stored'[Len(stored) + 1] = ss.buf
      BY <2>2, <3>1
    <3>3. \A i \in 1..(Len(stored) + 1) : i \in 1..Len(stored) \/ i = Len(stored) + 1 BY <3>2
    <3>4. \A i \in 1..Len(stored) : i \in 1..(Len(stored) + 1) BY <3>2
    <3> QED BY <2>2, <3>2, <3>3, <3>4
  <2> QED BY <1>6, <2>1, <2>2
<1>15. Untorn'
  <2> SUFFICES ASSUME NEW i \in DOMAIN stored'
               PROVE  \/ \E u \in Writer : stored'[i] = Block(u)
                      \/ \A j \in DOMAIN stored'[i] : \E u \in mixed : stored'[i][j] = <<u, j>>
    BY <1>2 DEF Untorn, Block
  <2>1. CASE i \in DOMAIN stored BY <1>14, <2>1 DEF Untorn
  <2>2. CASE iscomplete(ss) /\ end <= old.size /\ stored'[i] = ss.buf BY <1>w, <1>13, <2>2
  <2> QED BY <1>14, <2>1, <2>2
<1>16. \A u \in Writer : Held(u) => Held(u)' BY <1>14 DEF Held, Block
<1>17. OKMeansStored'
  <2>1. \A u \in Writer \ mixed : result[u] = "OK" => Held(u) BY DEF OKMeansStored, Held
  <2> QED BY <1>2, <1>16, <2>1 DEF OKMeansStored, Held
<1>18. AnsweredOnce' /\ Waits'
  BY <1>2, <1>8 DEF AnsweredOnce, Waits, Ended
<1>19. Delivered'
  <2> SUFFICES ASSUME NEW u \in Writer \ mixed, result[u] = "running", Good(u)', ~Held(u)',
                      NEW o \in Offsets(u), [w |-> u, off |-> o] \notin requests'
               PROVE  InPlace(u, o)'
    BY <1>2 DEF Delivered, Offsets
  <2>1. Good(u) BY <1>2, <1>7 DEF Good
  <2>2. ~Held(u) BY <1>16
  <2>3. \A x \in Offsets(u) : [w |-> u, off |-> x] \in requests \/ InPlace(u, x)
    BY <2>1, <2>2 DEF Delivered
  <2>4. ASSUME NEW x, InPlace(u, x), x \in Offsets(u) PROVE \E tt \in pst : Wrote(tt, u)
    <3>1. PICK tt \in pst : /\ tt.size = Length[u]
                            /\ \A i \in 1..Length[u] : x < i /\ i <= x + chunklen(u, x)
                                                       => tt.buf[i] = <<u, i>>
      BY <2>4 DEF InPlace
    <3>2. /\ x \in Nat /\ chunklen(u, x) \in Nat \ {0} /\ Length[u] \in Nat
          /\ x + chunklen(u, x) <= Length[u]
      BY <2>4, ChunkFits DEF ChunkAssumption
    <3>3. x + 1 \in 1..Length[u] /\ x < x + 1 /\ x + 1 <= x + chunklen(u, x) BY <3>2
    <3> QED BY <3>1, <3>3 DEF Wrote
  <2>5. Bears(requests, pst, u) BY <2>3, <2>4 DEF Bears
  <2>6. u = w BY <1>w, <2>5, BearersMet DEF Bears
  <2>7. ~e /\ s = "OK"
    <3>1. Reply(r, e, s) \in replies' BY <1>7
    <3>2. Reply(r, e, s).w = w /\ Reply(r, e, s).err = e /\ Reply(r, e, s).status = s BY DEF Reply
    <3> QED BY <2>6, <3>1, <3>2 DEF Good
  <2>8. res.status = "OK" BY <1>7, <2>7
  <2>9. end <= old.size /\ ~iscomplete(ss) /\ pst' = {ss}
    <3>1. ASSUME iscomplete(ss), end <= old.size, stored' = Append(stored, ss.buf) PROVE FALSE
      <4>1. ss.buf = Block(w) /\ ss.buf \in Seq(Byte) BY <1>13, <2>6, <3>1
      <4>2. Len(stored) + 1 \in DOMAIN stored' /\ stored'[Len(stored) + 1] = ss.buf
        BY <3>1, <4>1
      <4> QED BY <2>6, <4>1, <4>2 DEF Held, Block
    <3> QED BY <1>6, <2>8, <3>1
  <2>10. /\ StateOK(ss) /\ ss.size = Length[w]
         /\ \A v \in Writer : Wrote(ss, v) => v = w
    BY <1>w, <1>4, <2>6, <2>9, BearersMet DEF Bears
  <2>11. ASSUME NEW i \in 1..Length[w], ss.buf[i] # <<>> PROVE ss.buf[i] = <<w, i>>
    <3>1. PICK v \in Writer : ss.buf[i] = <<v, i>> BY <2>10, <2>11 DEF StateOK
    <3> QED BY <2>10, <3>1 DEF Wrote
  <2>12. ASSUME NEW i \in 1..Length[w], o < i, i <= o + chunklen(w, o) PROVE ss.buf[i] # <<>>
    <3>1. CASE [w |-> u, off |-> o] \in requests
      <4>1. [w |-> u, off |-> o] = r BY <1>2, <3>1
      <4>2. o = off BY <4>1
      <4> QED BY <1>4, <2>9, <2>10, <2>12, <4>2 DEF end
    <3>2. CASE InPlace(u, o)
      <4>1. PICK tt \in pst : \A j \in 1..Length[u] : o < j /\ j <= o + chunklen(u, o)
                                                     => tt.buf[j] = <<u, j>>
        BY <3>2 DEF InPlace
      <4>1a. o < i /\ i <= o + chunklen(w, o) BY <2>12
      <4>1b. tt.buf[i] = <<u, i>> BY ONLY <2>6, <4>1, <4>1a
      <4>2. tt.buf[i] # <<>> BY ONLY <4>1b, Pairs
      <4> QED BY <1>4, <2>9, <2>10, <4>2
    <3> QED BY <2>3, <3>1, <3>2
  <2> QED BY <2>6, <2>9, <2>10, <2>11, <2>12 DEF InPlace, chunklen
<1> QED BY <1>8, <1>9, <1>10, <1>12, <1>14, <1>15, <1>17, <1>18, <1>19

\* An RPC that fails on the way keeps the invariant.
LEMMA LoseKeeps ==
    ASSUME ChunkInv, LoseRequest
    PROVE  ChunkInv'
<1> USE DEF ChunkInv
<1>1. PICK r \in requests : /\ requests' = requests \ {r}
                            /\ replies' = replies \cup {Reply(r, TRUE, "none")}
  BY DEF LoseRequest
<1>2. UNCHANGED <<npending, error, status, result, pst, stored, mixed>> BY DEF LoseRequest
<1>3. /\ OnTheWay'
      /\ \A u \in Writer : Cardinality(UnderWay(u)') = Cardinality(UnderWay(u))
  BY <1>1, <1>2, Moved
<1>4. Clients' BY <1>2 DEF Clients
<1>5. PstRight' BY <1>2 DEF PstRight
<1>6. Met'
  <2>1. Unfinished' \subseteq Unfinished BY <1>1, <1>2 DEF Unfinished
  <2> QED BY <1>2, <2>1 DEF Met
<1>7. Delivered'
  <2> SUFFICES ASSUME NEW u \in Writer \ mixed, result[u] = "running", Good(u)', ~Held(u)',
                      NEW o \in Offsets(u), [w |-> u, off |-> o] \notin requests'
               PROVE  InPlace(u, o)'
    BY <1>2 DEF Delivered, Offsets
  <2>1. Good(u) BY <1>1, <1>2 DEF Good
  <2>2. ~Held(u) BY <1>2 DEF Held, Block
  <2>3. u # r.w
    <3>1. Reply(r, TRUE, "none") \in replies' BY <1>1
    <3>2. Reply(r, TRUE, "none").w = r.w /\ Reply(r, TRUE, "none").err BY DEF Reply
    <3> QED BY <3>1, <3>2 DEF Good
  <2>4. [w |-> u, off |-> o] \notin requests BY <1>1, <2>3
  <2>5. InPlace(u, o) BY <2>1, <2>2, <2>4 DEF Delivered
  <2> QED BY <1>2, <2>5 DEF InPlace, chunklen
<1>8. AnsweredOnce' /\ Waits' BY <1>2, <1>3 DEF AnsweredOnce, Waits, Ended
<1>9. Untorn' BY <1>2 DEF Untorn, Block
<1>10. OKMeansStored' BY <1>2 DEF OKMeansStored, Block
<1> QED BY <1>2, <1>3, <1>4, <1>5, <1>6, <1>7, <1>8, <1>9, <1>10

\* STORE_TIMEOUT keeps the invariant.
LEMMA TimeoutKeeps ==
    ASSUME ChunkInv, NEW w \in Writer, timed_out(w)
    PROVE  ChunkInv'
<1> USE DEF ChunkInv
<1>1. /\ result[w] = "running"
      /\ error' = [error EXCEPT ![w] = TRUE]
      /\ status' = [status EXCEPT ![w] = "TIMEDOUT"]
      /\ result' = [result EXCEPT ![w] = "TIMEDOUT"]
      /\ UNCHANGED <<requests, replies, npending, pst, stored, mixed>>
  BY DEF timed_out
<1>2. /\ result'[w] = "TIMEDOUT" /\ status'[w] = "TIMEDOUT" /\ error'[w]
      /\ \A u \in Writer \ {w} : /\ result'[u] = result[u] /\ status'[u] = status[u]
                                 /\ error'[u] = error[u]
  BY <1>1 DEF Clients
<1>3. Clients' BY <1>1 DEF Clients
<1>4. OnTheWay'
  <2>1. \A u \in Writer : result[u] # "none" => result'[u] # "none" BY <1>2
  <2>2. \A r \in requests \cup replies : r.w \in Writer BY DEF OnTheWay, Request, Answer
  <2> QED BY <1>1, <2>1, <2>2 DEF OnTheWay, Offsets
<1>5. PstRight' BY <1>1 DEF PstRight
<1>6. Met' BY <1>1 DEF Met, Unfinished
<1>7. Delivered'
  <2> SUFFICES ASSUME NEW u \in Writer \ mixed, result'[u] = "running", Good(u)', ~Held(u)',
                      NEW o \in Offsets(u), [w |-> u, off |-> o] \notin requests'
               PROVE  InPlace(u, o)'
    BY <1>1 DEF Delivered, Offsets
  <2>1. u # w /\ result[u] = "running" BY <1>2
  <2>2. Good(u) BY <1>1, <1>2, <2>1 DEF Good
  <2>3. ~Held(u) BY <1>1 DEF Held, Block
  <2>4. [w |-> u, off |-> o] \notin requests BY <1>1
  <2>5. InPlace(u, o) BY <2>1, <2>2, <2>3, <2>4 DEF Delivered
  <2> QED BY <1>1, <2>5 DEF InPlace, chunklen
<1>8. Waits' BY <1>1, <1>2 DEF Waits, Ended
<1>9. AnsweredOnce'
  <2> SUFFICES ASSUME NEW u \in Writer
               PROVE  /\ result'[u] = "running" => npending'[u] = Cardinality(UnderWay(u)')
                      /\ Ended(u)' => /\ result'[u] = status'[u]
                                      /\ (npending'[u] = 0) = (result'[u] # "TIMEDOUT")
    BY DEF AnsweredOnce
  <2>1. UnderWay(u)' = UnderWay(u) BY <1>1 DEF UnderWay
  <2>2. CASE u = w
    <3>1. npending[w] > 0 /\ npending[w] \in Nat BY <1>1 DEF Waits, Clients
    <3>2. npending'[w] # 0 BY <1>1, <3>1
    <3> QED BY <1>2, <2>2, <3>2
  <2>3. CASE u # w BY <1>1, <1>2, <2>1, <2>3 DEF AnsweredOnce, Ended
  <2> QED BY <2>2, <2>3
<1>10. Untorn' BY <1>1 DEF Untorn, Block
<1>11. OKMeansStored' BY <1>1, <1>2 DEF OKMeansStored, Block
<1> QED BY <1>1, <1>3, <1>4, <1>5, <1>6, <1>7, <1>8, <1>9, <1>10, <1>11

\* The chunks of a block are as many as their offsets, and there is one at least.
LEMMA OffsetsCount ==
    ASSUME ChunkAssumption, NEW w \in Writer
    PROVE  /\ IsFiniteSet(Offsets(w)) /\ Cardinality(Offsets(w)) \in Nat \ {0}
           /\ IsFiniteSet({[w |-> w, off |-> o] : o \in Offsets(w)})
           /\ Cardinality({[w |-> w, off |-> o] : o \in Offsets(w)}) = Cardinality(Offsets(w))
<1> DEFINE S == Offsets(w)
           T == {[w |-> w, off |-> o] : o \in S}
           f == [o \in S |-> [w |-> w, off |-> o]]
<1>1. Length[w] \in Nat \ {0} /\ mtu \in Nat \ {0} BY DEF ChunkAssumption
<1>2. S \in SUBSET (0..(Length[w] - 1)) BY DEF Offsets
<1>3. IsFiniteSet(0..(Length[w] - 1)) BY <1>1, FS_Interval
<1>4. IsFiniteSet(S) BY <1>2, <1>3, FS_Subset
<1>5. S # {}
  <2>1. 1 \in 1..Length[w] BY <1>1
  <2> QED BY <2>1, EveryByte
<1> HIDE DEF S
<1>6. Cardinality(S) \in Nat /\ Cardinality(S) # 0 BY <1>4, <1>5, FS_CardinalityType, FS_EmptySet
<1>7. f \in Surjection(S, T) BY DEF Surjection
<1>8. f \in Injection(S, T)
  <2>1. \A o, p \in S : f[o] = f[p] => o = p
    <3>1. \A o \in S : f[o].off = o OBVIOUS
    <3> QED BY <3>1
  <2> QED BY <2>1 DEF Injection, IsInjective
<1>9. IsFiniteSet(T) /\ Cardinality(T) = Cardinality(S) BY <1>4, <1>7, <1>8, FS_Surjection
<1> QED BY <1>4, <1>6, <1>9 DEF S

\* dhash_store::start keeps the invariant.
LEMMA StartKeeps ==
    ASSUME ChunkAssumption, ChunkInv, NEW w \in Writer, start(w)
    PROVE  ChunkInv'
<1> USE DEF ChunkInv
<1> DEFINE N == {[w |-> w, off |-> o] : o \in Offsets(w)}
<1>1. /\ result[w] = "none" /\ Meet(w)
      /\ result' = [result EXCEPT ![w] = "running"]
      /\ npending' = [npending EXCEPT ![w] = Cardinality(Offsets(w))]
      /\ requests' = requests \cup N
      /\ UNCHANGED <<replies, error, status, pst, stored>>
  BY DEF start
<1>2. /\ result'[w] = "running" /\ npending'[w] = Cardinality(Offsets(w))
      /\ \A u \in Writer \ {w} : result'[u] = result[u] /\ npending'[u] = npending[u]
  BY <1>1 DEF Clients
<1>3. /\ Cardinality(Offsets(w)) \in Nat \ {0} /\ IsFiniteSet(N)
      /\ Cardinality(N) = Cardinality(Offsets(w))
  BY OffsetsCount
<1>4. N \in SUBSET Request /\ \A r \in N : r.w = w /\ r.off \in Offsets(w)
  <2>1. \A o \in Offsets(w) : o \in Nat BY ChunkFits
  <2> QED BY <2>1 DEF Request
<1>5. \A r \in requests \cup replies : r.w \in Writer \ {w}
  BY <1>1 DEF OnTheWay, Request, Answer
<1>6. mixed \subseteq mixed' /\ mixed' \in SUBSET Writer
  <2>1. Unfinished = {u \in Writer : Bears(requests, pst, u)}
    BY UnfinishedIs DEF OnTheWay, PstRight, Unfinished
  <2> QED BY <1>1, <2>1 DEF Meet, PstRight
<1>7. OnTheWay'
  <2>1. IsFiniteSet(requests')
    <3>1. IsFiniteSet(requests) BY DEF OnTheWay
    <3> HIDE DEF N
    <3>2. IsFiniteSet(requests \cup N) BY <1>3, <3>1, FS_Union
    <3> QED BY <1>1, <3>2
  <2>2. \A r \in requests' \cup replies' : r.off \in Offsets(r.w) /\ result'[r.w] # "none"
    BY <1>1, <1>2, <1>4, <1>5 DEF OnTheWay
  <2>3. \A r \in requests', a \in replies' : ~(r.w = a.w /\ r.off = a.off)
    BY <1>1, <1>4, <1>5 DEF OnTheWay
  <2> HIDE DEF N
  <2> QED BY <1>1, <1>4, <2>1, <2>2, <2>3 DEF OnTheWay, Offsets
<1>8. Clients'
  <2>1. npending' \in [Writer -> Nat] BY <1>1, <1>3 DEF Clients
  <2>2. \A u \in Writer : npending'[u] <= Cardinality(Offsets(u)) BY <1>2, <1>3 DEF Clients
  <2>3. result' \in [Writer -> {"none", "running", "OK", "ERR", "RPCERR", "TIMEDOUT"}]
    BY <1>1 DEF Clients
  <2> QED BY <1>1, <2>1, <2>2, <2>3 DEF Clients, Offsets
<1>9. PstRight' BY <1>1, <1>6 DEF PstRight
<1>10. Met'
  <2>1. Unfinished' \subseteq Unfinished \cup {w}
    <3>1. {r.w : r \in requests'} \subseteq {r.w : r \in requests} \cup {w} BY <1>1, <1>4
    <3> QED BY <1>1, <3>1 DEF Unfinished
  <2>2. CASE Unfinished = {} BY <2>1, <2>2 DEF Met
  <2>3. CASE Unfinished # {}
    <3>1. Unfinished' \subseteq mixed' BY <1>1, <2>1, <2>3 DEF Meet
    <3> QED BY <3>1 DEF Met
  <2> QED BY <2>2, <2>3
<1>11. Delivered'
  <2> SUFFICES ASSUME NEW u \in Writer \ mixed', result'[u] = "running", Good(u)', ~Held(u)',
                      NEW o \in Offsets(u), [w |-> u, off |-> o] \notin requests'
               PROVE  InPlace(u, o)'
    BY DEF Delivered, Offsets
  <2>1. u # w BY <1>1
  <2>2. result[u] = "running" /\ u \notin mixed BY <1>2, <1>6, <2>1
  <2>3. Good(u) BY <1>1 DEF Good
  <2>4. ~Held(u) BY <1>1 DEF Held, Block
  <2>5. [w |-> u, off |-> o] \notin requests BY <1>1
  <2>6. InPlace(u, o) BY <2>2, <2>3, <2>4, <2>5 DEF Delivered
  <2> QED BY <1>1, <2>6 DEF InPlace, chunklen
<1>12. Waits'
  <2>1. status[w] # "TIMEDOUT" BY <1>1 DEF Waits, Ended
  <2> QED BY <1>1, <1>2, <1>3, <2>1 DEF Waits, Ended
<1>13. AnsweredOnce'
  <2> SUFFICES ASSUME NEW u \in Writer
               PROVE  /\ result'[u] = "running" => npending'[u] = Cardinality(UnderWay(u)')
                      /\ Ended(u)' => /\ result'[u] = status'[u]
                                      /\ (npending'[u] = 0) = (result'[u] # "TIMEDOUT")
    BY DEF AnsweredOnce
  <2>1. CASE u = w
    <3>1. UnderWay(w)' = N BY <1>1, <1>4, <1>5 DEF UnderWay
    <3> QED BY <1>2, <1>3, <2>1, <3>1 DEF Ended
  <2>2. CASE u # w
    <3>1. UnderWay(u)' = UnderWay(u) BY <1>1, <1>4, <2>2 DEF UnderWay
    <3> QED BY ZenonT(60), <1>1, <1>2, <2>2, <3>1 DEF AnsweredOnce, Ended
  <2> QED BY <2>1, <2>2
<1>14. Untorn' BY <1>1, <1>6 DEF Untorn, Block
<1>15. OKMeansStored' BY ZenonT(60), <1>1, <1>2, <1>6 DEF OKMeansStored, Block
<1> QED BY <1>1, <1>7, <1>8, <1>9, <1>10, <1>11, <1>12, <1>13, <1>14, <1>15

\* A block all of whose chunks are in the state would be complete.
LEMMA NotAllKept ==
    ASSUME ChunkAssumption, PstRight, NEW w \in Writer
    PROVE  ~ \A off \in Offsets(w) : InPlace(w, off)
<1> SUFFICES ASSUME \A off \in Offsets(w) : InPlace(w, off) PROVE FALSE OBVIOUS
<1>1. Length[w] \in Nat \ {0} BY DEF ChunkAssumption
<1>2. 1 \in 1..Length[w] BY <1>1
<1>3. PICK o \in Offsets(w) : TRUE BY <1>2, EveryByte
<1>4. PICK ss \in pst : ss.size = Length[w] BY <1>3 DEF InPlace
<1>5. \A tt \in pst : tt = ss BY DEF PstRight
<1>6. ASSUME NEW i \in 1..Length[w] PROVE ss.buf[i] # <<>>
  <2>1. PICK off \in Offsets(w) : off < i /\ i <= off + chunklen(w, off) BY EveryByte
  <2>2. InPlace(w, off) OBVIOUS
  <2>3. ss.buf[i] = <<w, i>> BY <1>5, <2>1, <2>2 DEF InPlace
  <2> QED BY <2>3, Pairs
<1>7. StateOK(ss) /\ ~iscomplete(ss) BY DEF PstRight
<1> QED BY <1>4, <1>6, <1>7, CompleteIs

\* dhash_store::finish keeps the invariant.
LEMMA FinishKeeps ==
    ASSUME ChunkAssumption, ChunkInv, finish
    PROVE  ChunkInv'
<1> USE DEF ChunkInv
<1>1. PICK a \in replies :
        /\ replies' = replies \ {a}
        /\ IF Ended(a.w) THEN UNCHANGED <<npending, error, status, result>>
           ELSE LET stat == IF a.err THEN "RPCERR"
                            ELSE IF a.status # "OK" /\ ~error[a.w] THEN a.status
                            ELSE status[a.w]
                IN  /\ npending' = [npending EXCEPT ![a.w] = @ - 1]
                    /\ status' = [status EXCEPT ![a.w] = stat]
                    /\ error' = [error EXCEPT ![a.w] = @ \/ a.err \/ a.status # "OK"]
                    /\ result' = IF npending[a.w] = 1 THEN [result EXCEPT ![a.w] = stat] ELSE result
        /\ UNCHANGED <<requests, pst, stored, mixed>>
  BY DEF finish
<1> DEFINE v == a.w
           stat == IF a.err THEN "RPCERR"
                   ELSE IF a.status # "OK" /\ ~error[v] THEN a.status ELSE status[v]
<1>2. replies' = replies \ {a} /\ UNCHANGED <<requests, pst, stored, mixed>> BY <1>1
<1>3. a \in Answer /\ v \in Writer /\ a.err \in BOOLEAN /\ result[v] # "none"
  BY DEF OnTheWay, Answer
<1>4. /\ \A u \in Writer : UnderWay(u)' = UnderWay(u) \ {a}
      /\ \A u \in Writer \ {v} : UnderWay(u)' = UnderWay(u)
      /\ a \in UnderWay(v)
      /\ \A u \in Writer : IsFiniteSet(UnderWay(u))
  <2>1. a \notin requests BY <1>3, ChunkFields DEF OnTheWay
  <2>2. \A u \in Writer : IsFiniteSet(UnderWay(u))
    <3> TAKE u \in Writer
    <3>1. IsFiniteSet(requests \cup replies) BY FS_Union DEF OnTheWay
    <3>2. UnderWay(u) \in SUBSET (requests \cup replies) BY DEF UnderWay
    <3> QED BY <3>1, <3>2, FS_Subset
  <2> QED BY <1>2, <2>1, <2>2 DEF UnderWay
<1>5. PstRight' BY <1>2 DEF PstRight
<1>6. Met' BY <1>2 DEF Met, Unfinished
<1>7. Untorn' BY <1>2 DEF Untorn, Block
<1>8. CASE Ended(v)
  <2>1. UNCHANGED <<npending, error, status, result>> BY <1>1, <1>8
  <2>2. Clients' BY <2>1 DEF Clients
  <2>3. OnTheWay'
    <3>1. IsFiniteSet(replies \ {a}) BY FS_RemoveElement DEF OnTheWay
    <3> QED BY <1>2, <2>1, <3>1 DEF OnTheWay, Offsets
  <2>4. Waits' BY <2>1 DEF Waits, Ended
  <2>5. AnsweredOnce'
    <3> SUFFICES ASSUME NEW u \in Writer
                 PROVE  /\ result'[u] = "running" => npending'[u] = Cardinality(UnderWay(u)')
                        /\ Ended(u)' => /\ result'[u] = status'[u]
                                        /\ (npending'[u] = 0) = (result'[u] # "TIMEDOUT")
      BY DEF AnsweredOnce
    <3>1. result[u] = "running" => u # v BY <1>8 DEF Ended
    <3> QED BY <1>4, <2>1, <3>1 DEF AnsweredOnce, Ended
  <2>6. Delivered'
    <3> SUFFICES ASSUME NEW u \in Writer \ mixed, result[u] = "running", Good(u)', ~Held(u)',
                        NEW o \in Offsets(u), [w |-> u, off |-> o] \notin requests'
                 PROVE  InPlace(u, o)'
      BY <1>2, <2>1 DEF Delivered, Offsets
    <3>1. u # v BY <1>8 DEF Ended
    <3>2. Good(u) BY <1>2, <2>1, <3>1 DEF Good
    <3>3. ~Held(u) BY <1>2 DEF Held, Block
    <3>4. InPlace(u, o) BY <1>2, <3>2, <3>3 DEF Delivered
    <3> QED BY <1>2, <3>4 DEF InPlace, chunklen
  <2>7. OKMeansStored' BY <1>2, <2>1 DEF OKMeansStored, Block
  <2> QED BY <1>2, <1>5, <1>6, <1>7, <2>2, <2>3, <2>4, <2>5, <2>6, <2>7
<1>9. CASE ~Ended(v)
  <2>1. result[v] = "running" BY <1>3, <1>9 DEF Ended
  <2>2. /\ npending' = [npending EXCEPT ![v] = @ - 1]
        /\ status' = [status EXCEPT ![v] = stat]
        /\ error' = [error EXCEPT ![v] = @ \/ a.err \/ a.status # "OK"]
        /\ result' = IF npending[v] = 1 THEN [result EXCEPT ![v] = stat] ELSE result
    BY <1>1, <1>9
  <2>3. status[v] # "TIMEDOUT" /\ status[v] \in {"OK", "ERR", "RPCERR", "TIMEDOUT"}
    BY <1>3, <1>9 DEF Waits, Clients
  <2>4. a.err \/ a.status \in {"OK", "ERR"} BY DEF OnTheWay
  <2>5. stat \in {"OK", "ERR", "RPCERR"} BY <2>3, <2>4
  <2>6. stat = "OK" => ~a.err /\ a.status = "OK" /\ ~error[v]
    BY <1>3, <2>4 DEF Clients
  <2>7. a.err \/ a.status # "OK" \/ error[v] => stat # "OK" BY <2>6
  <2> HIDE DEF stat
  <2>8. /\ npending'[v] = npending[v] - 1 /\ status'[v] = stat
        /\ \A u \in Writer \ {v} : /\ npending'[u] = npending[u] /\ status'[u] = status[u]
                                   /\ error'[u] = error[u] /\ result'[u] = result[u]
        /\ npending[v] = 1 => result'[v] = stat
        /\ npending[v] # 1 => result'[v] = "running" /\ result' = result
    BY <1>3, <2>1, <2>2 DEF Clients
  <2>e. error'[v] <=> error[v] \/ a.err \/ a.status # "OK" BY <1>3, <2>2 DEF Clients
  <2>9. /\ npending[v] \in Nat /\ npending[v] > 0 /\ npending[v] = Cardinality(UnderWay(v))
        /\ Cardinality(UnderWay(v)') = npending[v] - 1
    <3>1. npending[v] \in Nat /\ npending[v] > 0 BY <1>3, <2>1 DEF Clients, Waits
    <3>2. npending[v] = Cardinality(UnderWay(v)) BY <1>3, <2>1 DEF AnsweredOnce
    <3>3. IsFiniteSet(UnderWay(v)) /\ UnderWay(v)' = UnderWay(v) \ {a} /\ a \in UnderWay(v)
      BY <1>3, <1>4
    <3>4. Cardinality(UnderWay(v) \ {a}) = Cardinality(UnderWay(v)) - 1
      BY <3>3, FS_RemoveElement
    <3> QED BY <3>1, <3>2, <3>3, <3>4
  <2>10. ASSUME npending[v] = 1 PROVE UnderWay(v) = {a}
    <3>1. PICK x : UnderWay(v) = {x} BY <1>3, <1>4, <2>9, <2>10, FS_Singleton
    <3> QED BY <1>4, <3>1
  <2>11. Clients'
    <3>1. npending' \in [Writer -> Nat]
      <4>1. npending[v] - 1 \in Nat BY <2>9
      <4> QED BY <1>3, <2>2, <4>1 DEF Clients
    <3>2. \A u \in Writer : npending'[u] <= Cardinality(Offsets(u))
      <4> TAKE u \in Writer
      <4>1. npending[u] <= Cardinality(Offsets(u)) /\ Cardinality(Offsets(u)) \in Nat
        BY OffsetsCount DEF Clients
      <4> QED BY <2>8, <2>9, <4>1
    <3>3. error' \in [Writer -> BOOLEAN] BY <1>3, <2>2 DEF Clients
    <3>4. status' \in [Writer -> {"OK", "ERR", "RPCERR", "TIMEDOUT"}]
      BY <1>3, <2>2, <2>5 DEF Clients
    <3>5. result' \in [Writer -> {"none", "running", "OK", "ERR", "RPCERR", "TIMEDOUT"}]
      BY <1>3, <2>2, <2>5 DEF Clients
    <3>6. \A u \in Writer : error'[u] => status'[u] # "OK"
      <4> TAKE u \in Writer
      <4>1. CASE u = v BY <2>7, <2>8, <2>e, <4>1
      <4>2. CASE u # v BY <2>8, <4>2 DEF Clients
      <4> QED BY <4>1, <4>2
    <3> QED BY <3>1, <3>2, <3>3, <3>4, <3>5, <3>6 DEF Clients, Offsets
  <2>12. OnTheWay'
    <3>1. IsFiniteSet(replies \ {a}) BY FS_RemoveElement DEF OnTheWay
    <3>2. \A u \in Writer : result[u] # "none" => result'[u] # "none"
      <4> TAKE u \in Writer
      <4>1. CASE u = v BY <2>5, <2>8, <4>1
      <4>2. CASE u # v BY <2>8, <4>2
      <4> QED BY <4>1, <4>2
    <3>3. \A r \in requests \cup replies : r.w \in Writer BY DEF OnTheWay, Request, Answer
    <3> QED BY <1>2, <3>1, <3>2, <3>3 DEF OnTheWay, Offsets
  <2>13. Waits'
    <3> SUFFICES ASSUME NEW u \in Writer
                 PROVE  /\ result'[u] = "running" => npending'[u] > 0
                        /\ ~Ended(u)' => status'[u] # "TIMEDOUT"
      BY DEF Waits
    <3>1. CASE u = v
      <4>1. result'[v] = "running" => npending[v] # 1 BY <2>5, <2>8
      <4>2. npending[v] # 1 => npending'[v] > 0 BY <2>8, <2>9
      <4> QED BY <2>5, <2>8, <3>1, <4>1, <4>2
    <3>2. CASE u # v BY <2>8, <3>2 DEF Waits, Ended
    <3> QED BY <3>1, <3>2
  <2>14. AnsweredOnce'
    <3> SUFFICES ASSUME NEW u \in Writer
                 PROVE  /\ result'[u] = "running" => npending'[u] = Cardinality(UnderWay(u)')
                        /\ Ended(u)' => /\ result'[u] = status'[u]
                                        /\ (npending'[u] = 0) = (result'[u] # "TIMEDOUT")
      BY DEF AnsweredOnce
    <3>1. CASE u = v
      <4>1. npending'[v] = Cardinality(UnderWay(v)') BY <2>8, <2>9
      <4>2. CASE npending[v] = 1
        <5>1. npending'[v] = 0 BY <2>8, <4>2
        <5>2. result'[v] = stat /\ status'[v] = stat /\ stat # "TIMEDOUT" BY <2>5, <2>8, <4>2
        <5> QED BY <3>1, <4>1, <5>1, <5>2
      <4>3. CASE npending[v] # 1
        <5>1. ~Ended(v)' BY <2>8, <4>3 DEF Ended
        <5> QED BY <3>1, <4>1, <5>1
      <4> QED BY <4>2, <4>3
    <3>2. CASE u # v
      <4>1. UnderWay(u)' = UnderWay(u) BY <1>4, <3>2
      <4> QED BY <2>8, <3>2, <4>1 DEF AnsweredOnce, Ended
    <3> QED BY <3>1, <3>2
  <2>15. \A u \in Writer : Good(u)' => Good(u)
    <3> SUFFICES ASSUME NEW u \in Writer, Good(u)' PROVE Good(u) OBVIOUS
    <3>1. CASE u = v BY <1>2, <2>e, <3>1 DEF Good
    <3>2. CASE u # v BY <1>2, <2>8, <3>2 DEF Good
    <3> QED BY <3>1, <3>2
  <2>16. Delivered'
    <3> SUFFICES ASSUME NEW u \in Writer \ mixed, result'[u] = "running", Good(u)', ~Held(u)',
                        NEW o \in Offsets(u), [w |-> u, off |-> o] \notin requests'
                 PROVE  InPlace(u, o)'
      BY <1>2 DEF Delivered, Offsets
    <3>1. result[u] = "running" BY <2>1, <2>8
    <3>2. Good(u) BY <2>15
    <3>3. ~Held(u) BY <1>2 DEF Held, Block
    <3>4. InPlace(u, o) BY <1>2, <3>1, <3>2, <3>3 DEF Delivered
    <3> QED BY <1>2, <3>4 DEF InPlace, chunklen
  <2>17. OKMeansStored'
    <3> SUFFICES ASSUME NEW u \in Writer \ mixed, result'[u] = "OK" PROVE Held(u)
      BY <1>2 DEF OKMeansStored, Held, Block
    <3>1. CASE u = v
      <4>1. npending[v] = 1 /\ stat = "OK" BY <2>8, <3>1
      <4>2. UnderWay(v) = {a} BY <2>10, <4>1
      <4>3. \A x \in replies : x.w = v => x = a BY <4>2 DEF UnderWay
      <4>4. Good(v) BY <2>6, <4>1, <4>3 DEF Good
      <4>5. a \notin requests BY <1>3, ChunkFields DEF OnTheWay
      <4>6. \A o : [w |-> v, off |-> o] \notin requests
        <5> TAKE o
        <5>1. [w |-> v, off |-> o].w = v OBVIOUS
        <5> QED BY <4>2, <4>5, <5>1 DEF UnderWay
      <4> HIDE DEF v
      <4>7. Held(v) \/ \A o \in Offsets(v) : InPlace(v, o)
        BY <2>1, <3>1, <4>4, <4>6 DEF Delivered
      <4> QED BY <1>3, <3>1, <4>7, NotAllKept
    <3>2. CASE u # v BY <2>8, <3>2 DEF OKMeansStored, Held
    <3> QED BY <3>1, <3>2
  <2> QED BY <1>2, <1>5, <1>6, <1>7, <2>11, <2>12, <2>13, <2>14, <2>16, <2>17
<1> QED BY <1>8, <1>9

\* What the invariant gives.
LEMMA ChunkInvRight ==
    ASSUME ChunkAssumption, ChunkInv
    PROVE  ChunksRight
<1> USE DEF ChunkInv
<1>1. ChunkTypeOK
  <2>1. \A r \in requests \cup replies : r.w \in Writer /\ r.off \in Offsets(r.w)
    BY DEF OnTheWay, Request, Answer
  <2>2. \A w \in Writer : npending[w] \in 0..Cardinality(Offsets(w))
    <3> TAKE w \in Writer
    <3>1. npending[w] \in Nat /\ npending[w] <= Cardinality(Offsets(w)) BY DEF Clients
    <3>2. Cardinality(Offsets(w)) \in Nat BY OffsetsCount
    <3> QED BY <3>1, <3>2
  <2>3. Cardinality(pst) <= 1
    <3>1. CASE pst = {} BY <3>1, FS_EmptySet
    <3>2. CASE pst # {}
      <4>1. PICK ss : pst = {ss} BY <3>2 DEF PstRight
      <4>2. Cardinality({ss}) = 1 BY FS_Singleton
      <4> QED BY <4>1, <4>2
    <3> QED BY <3>1, <3>2
  <2> QED BY <2>1, <2>2, <2>3 DEF ChunkTypeOK, Clients, PstRight
<1>2. ASSUME NEW ss \in pst
      PROVE  /\ \A c \in ss.have : 0 <= c.start /\ c.start < c.end /\ c.end <= ss.size
             /\ \A c, d \in ss.have : c # d => c.end < d.start \/ d.end < c.start
             /\ \A i \in 1..ss.size :
                   (ss.buf[i] # <<>>) = (\E c \in ss.have : c.start < i /\ i <= c.end)
             /\ ~iscomplete(ss)
  <2>1. StateOK(ss) /\ ~iscomplete(ss) BY DEF PstRight
  <2>2. \A c \in ss.have : c.start \in Nat BY <2>1 DEF StateOK, Interval
  <2>3. \A c \in ss.have : 0 <= c.start /\ c.start < c.end /\ c.end <= ss.size
    BY <2>1, <2>2 DEF StateOK, Fit
  <2>4. \A c, d \in ss.have : c # d => c.end < d.start \/ d.end < c.start
    BY <2>1 DEF StateOK, Apart
  <2>5. \A i \in 1..ss.size :
           (ss.buf[i] # <<>>) = (\E c \in ss.have : c.start < i /\ i <= c.end)
    BY <2>1 DEF StateOK, Covers
  <2> QED BY <2>1, <2>3, <2>4, <2>5
<1>3. NoneStuck
  <2> SUFFICES ASSUME NEW w \in Writer, result[w] = "running", UnderWay(w) = {} PROVE FALSE
    BY DEF NoneStuck
  <2>1. npending[w] > 0 /\ npending[w] \in Nat BY DEF Waits, Clients
  <2>2. npending[w] = Cardinality(UnderWay(w)) BY DEF AnsweredOnce
  <2>3. Cardinality({}) = 0 BY FS_EmptySet
  <2> QED BY <2>1, <2>2, <2>3
<1> QED BY <1>1, <1>2, <1>3 DEF ChunksRight, ChunksSound

\* Chunks are put together right; what is stored is one block or a mixture of
\* blocks whose stores met; a store told OK that met no other was stored; late
\* answers do not change what a store was told, and no store waits for nothing,
\* for any blocks, any MTU and any number of stores (dhash_store, store_state, dhash_impl::store).
THEOREM ChunksSafe == ASSUME ChunkAssumption PROVE ChunkSpec => []ChunksRight
<1>1. ChunkInit => ChunkInv
  <2> SUFFICES ASSUME ChunkInit PROVE ChunkInv OBVIOUS
  <2> USE DEF ChunkInit
  <2>1. OnTheWay BY FS_EmptySet DEF OnTheWay
  <2>2. Clients
    <3>1. \A w \in Writer : Cardinality(Offsets(w)) \in Nat BY OffsetsCount
    <3> QED BY <3>1 DEF Clients
  <2>3. PstRight BY DEF PstRight
  <2>4. Met BY DEF Met, Unfinished
  <2>5. Delivered BY DEF Delivered
  <2>6. Waits BY DEF Waits, Ended
  <2>7. Untorn /\ stored \in Seq(Seq(Byte)) BY DEF Untorn
  <2>8. OKMeansStored BY DEF OKMeansStored
  <2>9. AnsweredOnce BY DEF AnsweredOnce, Ended
  <2> QED BY <2>1, <2>2, <2>3, <2>4, <2>5, <2>6, <2>7, <2>8, <2>9 DEF ChunkInv
<1>2. ChunkInv /\ [ChunkNext]_chunkVars => ChunkInv'
  <2> SUFFICES ASSUME ChunkInv, [ChunkNext]_chunkVars PROVE ChunkInv' OBVIOUS
  <2>1. CASE Serve BY <2>1, ServeKeeps
  <2>2. CASE LoseRequest BY <2>2, LoseKeeps
  <2>3. CASE finish BY <2>3, FinishKeeps
  <2>4. ASSUME NEW w \in Writer, start(w) PROVE ChunkInv' BY <2>4, StartKeeps
  <2>5. ASSUME NEW w \in Writer, timed_out(w) PROVE ChunkInv' BY <2>5, TimeoutKeeps
  <2>6. CASE UNCHANGED chunkVars
    <3> USE <2>6 DEF chunkVars, ChunkInv
    <3>1. OnTheWay' /\ Clients' BY DEF OnTheWay, Clients
    <3>2. PstRight' /\ Met' BY DEF PstRight, Met, Unfinished
    <3>3. Delivered' BY DEF Delivered, Good, Held, InPlace, Block
    <3>4. Waits' /\ AnsweredOnce' BY DEF Waits, AnsweredOnce, UnderWay, Ended
    <3>5. Untorn' /\ OKMeansStored' /\ stored' \in Seq(Seq(Byte))
      BY DEF Untorn, OKMeansStored
    <3> QED BY <3>1, <3>2, <3>3, <3>4, <3>5
  <2> QED BY <2>1, <2>2, <2>3, <2>4, <2>5, <2>6 DEF ChunkNext, ChunksFinished
<1>3. ChunkInv => ChunksRight BY ChunkInvRight
<1> QED BY <1>1, <1>2, <1>3, PTL DEF ChunkSpec

---------------------------------------------------------------------------------
(* The database daemon.  Files of an older version are being taken over (Old),  *)
(* or tree and blocks are kept in step, key by key (AdbKept): what they are     *)
(* while a call is under way says how far it has got (Exact).                   *)

Mark == DbKeys \X ({0} \cup Versions)
Call == [pc : {"delete", "deltree", "tree", "kdb", "data"}, k : DbKeys, v : Versions,
         old : {0} \cup Versions]

AdbTypes ==
    /\ hasaux \in BOOLEAN /\ treefile \in BOOLEAN
    /\ data \in [DbKeys -> {0} \cup Versions] /\ tree \in [Mark -> Nat]
    /\ kdb \in Seq(Mark) /\ at \in Nat
    /\ up \in {"kdb", "tree", "fill", "up"}
    /\ op = NoCall \/ (op \in Call /\ up = "up")
    /\ acked \subseteq DbKeys /\ torn \subseteq DbKeys /\ left \subseteq DbKeys
    /\ treefile \/ up \in {"kdb", "tree"}

\* What the tree has of key k if its block has version w: one mark, or none.
Marked(k, w) == \A v \in {0} \cup Versions :
    tree[<<k, v>>] = IF w # 0 /\ mkey(k, w) = <<k, v>> THEN 1 ELSE 0
None(k) == \A v \in {0} \cup Versions : tree[<<k, v>>] = 0

\* Files of an older version, being taken over: the tree is not there or not full.
\* Key lists have each block once; the list is being written, or has all but
\* what was left out; the tree has the first of its keys.
Listing == up = "kdb" /\ (at > 0 \/ kdb = <<>>)
Listed(k, n) == \E i \in 1..n : kdb[i][1] = k
Old ==
    /\ op = NoCall /\ acked = {} /\ torn = {}
    /\ \A i \in 1..Len(kdb) : kdb[i][1] \in Stored
                              /\ mkey(kdb[i][1], kdb[i][2]) = mkey(kdb[i][1], data[kdb[i][1]])
    /\ \A i, j \in 1..Len(kdb) : kdb[i][1] = kdb[j][1] => i = j
    /\ Listing => /\ at = Len(kdb) /\ at <= Cardinality(Stored)
                  /\ \A i \in 1..at : kdb[i][1] = sorted(Stored)[i]
    /\ ~Listing => /\ \A k \in Stored \ left : Listed(k, Len(kdb))
                   /\ kdb # <<>> \/ Stored = {}
    /\ up \in {"tree", "up"} => at = 0
    /\ IF up = "fill"
       THEN at <= Len(kdb) /\ \A k \in DbKeys : IF Listed(k, at) THEN Marked(k, data[k]) ELSE None(k)
       ELSE \A k \in DbKeys : None(k)

\* From then on: what tree and block of k are, as far as the call has got.
Busy(k) == op # NoCall /\ op.k = k
Exact(k) ==
    IF ~Busy(k) THEN Marked(k, data[k])
    ELSE CASE op.pc = "delete" -> op.old # 0 /\ op.old = data[k] /\ Marked(k, data[k])
           [] op.pc = "deltree" -> op.old # 0 /\ data[k] = 0 /\ Marked(k, op.old)
           [] op.pc = "tree" -> (hasaux => data[k] = 0) /\ Marked(k, data[k])
           [] OTHER -> data[k] = 0 /\ Marked(k, op.v)
KeyKept(k) ==
    /\ k \notin left => TreeHas(k)
    /\ k \in acked => (data[k] # 0 \/ k \in torn) /\ ~Busy(k)
    /\ (~hasaux /\ k \notin torn /\ tree[<<k, 0>>] > 0) =>
          data[k] # 0 \/ (Busy(k) /\ op.pc \in {"kdb", "data"})
    /\ k \notin torn \cup left => Exact(k)
CallKept == op # NoCall =>
    /\ op.pc = "deltree" => data[op.k] = 0
    /\ op.pc \in {"delete", "deltree"} => hasaux
    /\ op.pc = "data" => kdb # <<>>
    /\ op.pc \in {"kdb", "data"} => tree[mkey(op.k, op.v)] > 0
AdbKept ==
    /\ at = 0 /\ (kdb # <<>> \/ Stored = {})
    /\ CallKept
    /\ \A k \in DbKeys : KeyKept(k)

AdbInv == AdbTypes /\ IF treefile /\ up # "fill" THEN AdbKept ELSE Old

\* sorted lists every key of K once.
LEMMA SortedIs ==
    ASSUME NEW K \in SUBSET Nat, IsFiniteSet(K)
    PROVE  /\ Cardinality(K) \in Nat /\ DOMAIN sorted(K) = 1..Cardinality(K)
           /\ \A i \in 1..Cardinality(K) : sorted(K)[i] \in K
           /\ \A i, j \in 1..Cardinality(K) : sorted(K)[i] = sorted(K)[j] => i = j
           /\ \A k \in K : \E i \in 1..Cardinality(K) : sorted(K)[i] = k
<1> DEFINE n == Cardinality(K)
           Below(k) == {j \in K : j < k}
           r == [k \in K |-> Cardinality(Below(k))]
<1>1. n \in Nat BY FS_CardinalityType
<1>2. ASSUME NEW k \in K PROVE IsFiniteSet(Below(k)) /\ r[k] \in 0..(n - 1)
  <2>0. k \in Nat /\ ~(k < k) BY <1>2
  <2>1. Below(k) \subseteq K /\ k \in K \ Below(k) BY <1>2, <2>0
  <2>2. IsFiniteSet(Below(k)) /\ Cardinality(Below(k)) <= n /\ (Cardinality(Below(k)) = n => Below(k) = K)
    <3> HIDE DEF Below
    <3> QED BY <2>1, FS_Subset
  <2>3. Cardinality(Below(k)) \in Nat BY <2>2, FS_CardinalityType
  <2>4. Below(k) # K BY <2>1
  <2> HIDE DEF Below, n
  <2> QED BY <1>1, <1>2, <2>2, <2>3, <2>4
<1>3. ASSUME NEW k \in K, NEW l \in K, k < l PROVE r[k] < r[l]
  <2>0. k \in Nat /\ l \in Nat /\ ~(k < k) /\ \A j \in K : j < k => j < l BY <1>3
  <2>1. Below(k) \subseteq Below(l) /\ k \in Below(l) /\ k \notin Below(k) BY <1>3, <2>0
  <2>2. IsFiniteSet(Below(l)) /\ r[k] \in 0..(n - 1) /\ r[l] \in 0..(n - 1) BY <1>2
  <2>3. /\ Cardinality(Below(k)) <= Cardinality(Below(l))
        /\ Cardinality(Below(k)) = Cardinality(Below(l)) => Below(k) = Below(l)
    <3> HIDE DEF Below
    <3> QED BY <2>1, <2>2, FS_Subset
  <2>4. Below(k) # Below(l) BY <2>1
  <2>5. r[k] = Cardinality(Below(k)) /\ r[l] = Cardinality(Below(l)) OBVIOUS
  <2> HIDE DEF Below, n, r
  <2> QED BY <1>1, <2>2, <2>3, <2>4, <2>5
<1>4. ASSUME NEW k \in K, NEW l \in K, r[k] = r[l] PROVE k = l
  <2>1. k \in Nat /\ l \in Nat /\ r[k] \in 0..(n - 1) BY <1>2
  <2>2. k < l \/ l < k \/ k = l BY <2>1
  <2>3. ~(r[k] < r[k]) BY <1>1, <2>1
  <2> HIDE DEF r
  <2> QED BY <1>3, <1>4, <2>2, <2>3
<1>5. r \in Injection(K, 0..(n - 1))
  <2>1. r \in [K -> 0..(n - 1)]
    <3>1. r = [k \in K |-> r[k]] OBVIOUS
    <3> HIDE DEF r
    <3> QED BY <1>2, <3>1
  <2> HIDE DEF r
  <2> QED BY <1>4, <2>1 DEF Injection, IsInjective
<1>6. IsFiniteSet(0..(n - 1)) /\ Cardinality(0..(n - 1)) = n
  <2>1. 0 \in Int /\ n - 1 \in Int BY <1>1
  <2>2. IsFiniteSet(0..(n - 1)) /\ Cardinality(0..(n - 1)) = IF 0 > n - 1 THEN 0 ELSE n - 1 - 0 + 1
    <3> HIDE DEF n
    <3> QED BY <2>1, FS_Interval
  <2> HIDE DEF n
  <2> QED BY <1>1, <2>2
<1> HIDE DEF r
<1>7. r \in Surjection(K, 0..(n - 1))
  <2>1. Cardinality(K) = Cardinality(0..(n - 1)) BY <1>6
  <2> QED BY <1>5, <1>6, <2>1, FS_Injection
<1>8. \A x \in 0..(n - 1) : \E k \in K : r[k] = x BY <1>7 DEF Surjection
<1>9. \A k \in K : r[k] = Cardinality({j \in K : j < k}) BY DEF r
<1>10. ASSUME NEW i \in 1..n PROVE sorted(K)[i] \in K /\ r[sorted(K)[i]] = i - 1
  <2>1. i - 1 \in 0..(n - 1) BY <1>1
  <2>2. \E k \in K : Cardinality({j \in K : j < k}) = i - 1 BY <1>8, <1>9, <2>1
  <2>3. sorted(K)[i] = CHOOSE k \in K : Cardinality({j \in K : j < k}) = i - 1 BY DEF sorted
  <2>4. sorted(K)[i] \in K /\ Cardinality({j \in K : j < sorted(K)[i]}) = i - 1 BY <2>2, <2>3
  <2> QED BY <1>9, <2>4
<1>11. ASSUME NEW i \in 1..n, NEW j \in 1..n, sorted(K)[i] = sorted(K)[j] PROVE i = j
  <2>1. i - 1 = j - 1 BY <1>10, <1>11
  <2> QED BY <1>1, <2>1
<1>12. ASSUME NEW k \in K PROVE \E i \in 1..n : sorted(K)[i] = k
  <2>1. r[k] \in 0..(n - 1) BY <1>2
  <2>2. PICK x : x = r[k] OBVIOUS
  <2>3. x + 1 \in 1..n /\ (x + 1) - 1 = x BY <1>1, <2>1, <2>2
  <2>4. sorted(K)[x + 1] \in K /\ r[sorted(K)[x + 1]] = x BY <1>10, <2>3
  <2>5. sorted(K)[x + 1] = k BY <1>4, <2>2, <2>4
  <2> QED BY <2>3, <2>5
<1>13. DOMAIN sorted(K) = 1..n BY DEF sorted
<1> QED BY <1>1, <1>10, <1>11, <1>12, <1>13

\* The version part of a key in the tree.
Slot(w) == IF hasaux THEN w ELSE 0

LEMMA MkeyIs ==
    ASSUME AdbTypes, NEW k \in DbKeys, NEW w \in {0} \cup Versions
    PROVE  /\ mkey(k, w) = <<k, Slot(w)>> /\ Slot(w) \in {0} \cup Versions
           /\ <<k, Slot(w)>> \in Mark
           /\ Marked(k, w) <=> \A v \in {0} \cup Versions :
                                  tree[<<k, v>>] = IF w # 0 /\ Slot(w) = v THEN 1 ELSE 0
<1>1. mkey(k, w) = <<k, Slot(w)>> BY DEF mkey, Slot
<1>2. Slot(w) \in {0} \cup Versions BY DEF Slot, AdbTypes
<1>3. \A v : <<k, Slot(w)>> = <<k, v>> <=> Slot(w) = v OBVIOUS
<1> QED BY <1>1, <1>2, <1>3 DEF Mark, Marked

\* What a key's own marks and block say stays as long as they do.
LEMMA SameExact ==
    ASSUME AdbTypes, NEW k \in DbKeys, hasaux' = hasaux, data'[k] = data[k],
           \A v \in {0} \cup Versions : tree'[<<k, v>>] = tree[<<k, v>>]
    PROVE  /\ \A w \in {0} \cup Versions : Marked(k, w)' <=> Marked(k, w)
           /\ TreeHas(k)' <=> TreeHas(k)
           /\ Marked(k, data[k])' <=> Marked(k, data[k])
           /\ ~Busy(k) /\ ~Busy(k)' => (Exact(k)' <=> Exact(k))
<1>1. \A w : mkey(k, w)' = mkey(k, w) BY DEF mkey
<1>2. ASSUME NEW w \in {0} \cup Versions PROVE Marked(k, w)' <=> Marked(k, w) BY <1>1 DEF Marked
<1>3. data[k] \in {0} \cup Versions BY DEF AdbTypes
<1>4. TreeHas(k)' <=> TreeHas(k)
  <2>1. tree'[mkey(k, data[k])] = tree[mkey(k, data[k])] BY <1>3, MkeyIs
  <2>2. mkey(k, data[k])' = mkey(k, data[k]) BY DEF mkey
  <2> QED BY <2>1, <2>2 DEF TreeHas
<1>5. Marked(k, data[k])' <=> Marked(k, data[k])
  <2>1. PICK w \in {0} \cup Versions : w = data[k] BY <1>3
  <2>2. Marked(k, w)' <=> Marked(k, w) BY <1>2
  <2> QED BY <2>1, <2>2 DEF Marked, mkey
<1> QED BY <1>2, <1>4, <1>5 DEF Exact

LEMMA StoredFinite ==
    ASSUME AdbAssumption
    PROVE  /\ Stored \in SUBSET Nat /\ IsFiniteSet(Stored) /\ Cardinality(Stored) \in Nat
           /\ Cardinality(Stored) = 0 <=> Stored = {}
<1>1. Stored \subseteq DbKeys /\ Stored \in SUBSET Nat BY DEF Stored, AdbAssumption
<1>2. IsFiniteSet(Stored) BY <1>1, FS_Subset DEF AdbAssumption
<1>3. Cardinality(Stored) \in Nat /\ (Cardinality(Stored) = 0 <=> Stored = {})
  BY <1>2, FS_CardinalityType, FS_EmptySet
<1> QED BY <1>1, <1>2, <1>3

\* A key no call is about, or whose call is cut short, keeps what it has.
LEMMA SameKey ==
    ASSUME AdbTypes, NEW k \in DbKeys, KeyKept(k), ~Busy(k) \/ k \in torn', ~Busy(k)',
           hasaux' = hasaux, data'[k] = data[k],
           \A v \in {0} \cup Versions : tree'[<<k, v>>] = tree[<<k, v>>],
           k \in acked' => k \in acked \/ k \in torn', k \in torn => k \in torn', k \in left => k \in left'
    PROVE  KeyKept(k)'
<1>1. TreeHas(k)' <=> TreeHas(k) BY SameExact
<1>2. (k \notin left => TreeHas(k))' BY <1>1 DEF KeyKept
<1>3. (k \in acked => (data[k] # 0 \/ k \in torn) /\ ~Busy(k))' BY DEF KeyKept
<1>4. ((~hasaux /\ k \notin torn /\ tree[<<k, 0>>] > 0) =>
          data[k] # 0 \/ (Busy(k) /\ op.pc \in {"kdb", "data"}))' BY DEF KeyKept
<1>5. (k \notin torn \cup left => Exact(k))'
  <2>1. SUFFICES ASSUME k \notin torn', k \notin left' PROVE Exact(k)' OBVIOUS
  <2>2. ~Busy(k) /\ Exact(k) BY <2>1 DEF KeyKept
  <2> QED BY <2>2, SameExact
<1> QED BY <1>2, <1>3, <1>4, <1>5 DEF KeyKept

\* A tree filled as far as the migration got, with the rest left out.
LEMMA FillKept ==
    ASSUME AdbTypes, Old, up = "fill", hasaux' = hasaux,
           UNCHANGED <<data, kdb, tree>>, op' = NoCall, at' = 0,
           acked' = {}, torn' = {}, left \subseteq left',
           \A i \in 1..Len(kdb) : i <= at \/ kdb[i][1] \in left'
    PROVE  AdbKept'
<1>1. (kdb # <<>> \/ Stored = {})' BY DEF Old, Listing, Stored
<1>2. ASSUME NEW k \in DbKeys PROVE KeyKept(k)'
  <2>1. data[k] \in {0} \cup Versions /\ Len(kdb) \in Nat /\ at \in Nat BY DEF AdbTypes
  <2>2. ~Busy(k)' BY DEF Busy
  <2>3. Listed(k, at) => k \in Stored BY <2>1 DEF Old, Listed
  <2>4. Listed(k, at) => data[k] # 0 /\ Marked(k, data[k]) BY <2>3 DEF Old, Stored
  <2>5. ~Listed(k, at) => None(k) BY DEF Old
  <2>6. k \notin left' /\ data[k] # 0 => Listed(k, at)
    <3>1. SUFFICES ASSUME k \notin left', data[k] # 0 PROVE Listed(k, at) OBVIOUS
    <3>2. PICK i \in 1..Len(kdb) : kdb[i][1] = k BY <3>1 DEF Old, Listed, Listing, Stored
    <3> QED BY <2>1, <3>1, <3>2 DEF Listed
  <2>7. Marked(k, data[k]) /\ data[k] # 0 => tree[mkey(k, data[k])] = 1 BY <2>1, MkeyIs
  <2>8. TreeHas(k)' <=> TreeHas(k) BY SameExact
  <2>9. (k \notin left => TreeHas(k))' BY <2>4, <2>6, <2>7, <2>8 DEF TreeHas
  <2>10. tree[<<k, 0>>] > 0 => data[k] # 0 BY <2>4, <2>5 DEF None
  <2>11. k \notin left' => Marked(k, data[k])
    <3>1. None(k) /\ data[k] = 0 => Marked(k, data[k]) BY DEF None, Marked
    <3> QED BY <2>4, <2>5, <2>6, <3>1
  <2>12. (k \notin torn \cup left => Exact(k))'
    <3>1. Marked(k, data[k])' <=> Marked(k, data[k]) BY DEF Marked, mkey
    <3> QED BY <2>2, <2>11, <3>1 DEF Exact
  <2> QED BY <2>2, <2>9, <2>10, <2>12 DEF KeyKept
<1> QED BY <1>1, <1>2 DEF AdbKept, CallKept

LEMMA StartAdb == ASSUME AdbAssumption, AdbInit PROVE AdbInv
<1> DEFINE s == sorted(Stored)
           n == Cardinality(Stored)
<1>0. /\ DOMAIN s = 1..n /\ \A i \in 1..n : s[i] \in Stored
      /\ \A i, j \in 1..n : s[i] = s[j] => i = j
      /\ \A k \in Stored : \E i \in 1..n : s[i] = k
  BY StoredFinite, SortedIs
<1>1. n \in Nat /\ (n = 0 <=> Stored = {}) BY StoredFinite
<1>2. data \in [DbKeys -> {0} \cup Versions] /\ \A k \in Stored : data[k] = 1 /\ k \in DbKeys
  BY DEF AdbInit, Stored, AdbAssumption
<1>3. kdb = <<>> \/ kdb = [i \in DOMAIN s |-> <<s[i], 1>>] BY DEF AdbInit
<1> HIDE DEF s, n
<1>4. \/ kdb = <<>> /\ Len(kdb) = 0
      \/ Len(kdb) = n /\ \A i \in 1..n : kdb[i] = <<s[i], 1>> /\ kdb[i][1] = s[i] /\ kdb[i][2] = 1
  BY <1>0, <1>1, <1>3
<1>5. kdb \in Seq(Mark)
  <2>1. \A i \in 1..n : <<s[i], 1>> \in Mark BY <1>0, <1>2 DEF Mark, AdbAssumption
  <2>2. <<>> \in Seq(Mark) OBVIOUS
  <2>3. [i \in 1..n |-> <<s[i], 1>>] \in [1..n -> Mark] BY <2>1
  <2>4. [i \in 1..n |-> <<s[i], 1>>] \in Seq(Mark) BY <1>1, <2>3, SeqDef
  <2> QED BY <1>0, <1>3, <2>2, <2>4
<1>6. \A k \in DbKeys : None(k) BY DEF None, AdbInit
<1>7. AdbTypes BY <1>2, <1>5 DEF AdbTypes, AdbInit, Mark
<1>8. \A i \in 1..Len(kdb) : kdb[i][1] \in Stored
                              /\ mkey(kdb[i][1], kdb[i][2]) = mkey(kdb[i][1], data[kdb[i][1]])
  BY <1>0, <1>1, <1>2, <1>4
<1>9. \A i, j \in 1..Len(kdb) : kdb[i][1] = kdb[j][1] => i = j BY <1>0, <1>1, <1>4
<1>10. Listing => at = Len(kdb) /\ at <= Cardinality(Stored)
                  /\ \A i \in 1..at : kdb[i][1] = sorted(Stored)[i]
  <2>1. at = 0 /\ (Listing => kdb = <<>>) BY DEF AdbInit, Listing
  <2> QED BY <1>1, <2>1 DEF n
<1>11. ~Listing => /\ \A k \in Stored \ left : Listed(k, Len(kdb))
                   /\ kdb # <<>> \/ Stored = {}
  <2>1. ~Listing => kdb # <<>> BY DEF AdbInit, Listing
  <2> QED BY <1>0, <1>4, <2>1 DEF Listed
<1>12. Old BY <1>6, <1>8, <1>9, <1>10, <1>11 DEF Old, AdbInit
<1> QED BY <1>7, <1>12 DEF AdbInv, AdbInit

LEMMA KeepTypes ==
    ASSUME AdbTypes, UNCHANGED <<hasaux, data, tree, treefile, op, acked, torn, left>>,
           op = NoCall, kdb' \in Seq(Mark), at' \in Nat, up' \in {"kdb", "tree", "fill", "up"},
           treefile' \/ up' \in {"kdb", "tree"}
    PROVE  AdbTypes'
BY DEF AdbTypes

LEMMA KeepKept ==
    ASSUME AdbTypes, AdbKept, op = NoCall, UNCHANGED <<hasaux, data, kdb, tree, op, acked, torn, left>>, at' = 0
    PROVE  AdbKept'
<1>1. (kdb # <<>> \/ Stored = {})' BY DEF AdbKept, Stored
<1>2. ASSUME NEW k \in DbKeys PROVE KeyKept(k)'
  <2>1. KeyKept(k) /\ ~Busy(k) /\ ~Busy(k)' BY DEF AdbKept, Busy
  <2> QED BY <2>1, SameKey
<1> QED BY <1>1, <1>2 DEF AdbKept, CallKept

LEMMA GetkeysAdb == ASSUME AdbAssumption, AdbInv, migrate_getkeys PROVE AdbInv'
<1> DEFINE s == sorted(Stored)
           n == Cardinality(Stored)
<1>0. /\ DOMAIN s = 1..n /\ \A i \in 1..n : s[i] \in Stored
      /\ \A i, j \in 1..n : s[i] = s[j] => i = j
      /\ \A k \in Stored : \E i \in 1..n : s[i] = k
  BY StoredFinite, SortedIs
<1>1. n \in Nat /\ (n = 0 <=> Stored = {}) BY StoredFinite
<1>2. AdbTypes /\ op = NoCall BY DEF AdbInv, AdbTypes, migrate_getkeys
<1>3. at \in Nat /\ Len(kdb) \in Nat /\ (kdb = <<>> <=> Len(kdb) = 0) BY <1>2 DEF AdbTypes
<1>4. Stored' = Stored BY DEF migrate_getkeys, Stored
<1>5. CASE treefile
  <2>1. AdbKept BY <1>5 DEF AdbInv, migrate_getkeys
  <2>2. up' = "tree" /\ at' = 0 /\ UNCHANGED kdb BY <1>1, <2>1 DEF migrate_getkeys, AdbKept
  <2>3. AdbTypes' BY <1>2, <1>3, <1>5, <2>2, KeepTypes DEF migrate_getkeys, AdbTypes
  <2>4. AdbKept' BY <1>2, <2>1, <2>2, KeepKept DEF migrate_getkeys
  <2> QED BY <1>5, <2>2, <2>3, <2>4 DEF AdbInv, migrate_getkeys
<1>6. CASE ~treefile /\ ((at = 0 /\ kdb # <<>>) \/ at = n)
  <2>1. Old BY <1>6 DEF AdbInv
  <2>2. up' = "tree" /\ at' = 0 /\ UNCHANGED kdb BY <1>6 DEF migrate_getkeys
  <2>3. AdbTypes' BY <1>2, <1>3, <1>6, <2>2, KeepTypes DEF migrate_getkeys, AdbTypes
  <2>4. ~Listing' BY <2>2 DEF Listing
  <2>5. (\A k \in Stored \ left : Listed(k, Len(kdb))) /\ (kdb # <<>> \/ Stored = {})
    <3>1. CASE ~Listing BY <2>1, <3>1 DEF Old
    <3>2. CASE Listing
      <4>1. at = Len(kdb) /\ \A i \in 1..at : kdb[i][1] = s[i] BY <2>1, <3>2 DEF Old
      <4>2. at = n BY <1>3, <1>6, <4>1
      <4> QED BY <1>0, <1>1, <1>3, <4>1, <4>2 DEF Listed
    <3> QED BY <3>1, <3>2
  <2>6. \A k \in DbKeys : None(k) BY <2>1 DEF Old, migrate_getkeys
  <2>7. Old' 
    <3>1. (\A k \in DbKeys : None(k))' BY <2>6 DEF None, migrate_getkeys
    <3>2. (\A k \in Stored \ left : Listed(k, Len(kdb)))' /\ (kdb # <<>> \/ Stored = {})'
      BY <1>4, <2>2, <2>5 DEF Listed, migrate_getkeys
    <3>3. (\A i \in 1..Len(kdb) : kdb[i][1] \in Stored
                              /\ mkey(kdb[i][1], kdb[i][2]) = mkey(kdb[i][1], data[kdb[i][1]]))'
      BY <1>4, <2>1, <2>2 DEF Old, mkey, migrate_getkeys
    <3>4. (\A i, j \in 1..Len(kdb) : kdb[i][1] = kdb[j][1] => i = j)' BY <2>1, <2>2 DEF Old
    <3> QED BY <2>1, <2>2, <2>4, <3>1, <3>2, <3>3, <3>4 DEF Old, migrate_getkeys
  <2> QED BY <1>6, <2>3, <2>7 DEF AdbInv, migrate_getkeys
<1>7. CASE ~treefile /\ ~((at = 0 /\ kdb # <<>>) \/ at = n)
  <2> DEFINE e == <<s[at + 1], IF hasaux THEN data[s[at + 1]] ELSE 0>>
  <2>1. Old /\ Listing BY <1>3, <1>7 DEF AdbInv, Listing, migrate_getkeys
  <2>2. up' = "kdb" /\ at' = at + 1 /\ kdb' = Append(kdb, e) BY <1>7 DEF migrate_getkeys
  <2>3. at = Len(kdb) /\ at <= n /\ at # n /\ \A i \in 1..at : kdb[i][1] = s[i] BY <1>7, <2>1 DEF Old
  <2>4. at + 1 \in 1..n BY <1>1, <1>3, <2>3
  <2>5. s[at + 1] \in Stored /\ s[at + 1] \in DbKeys BY <1>0, <2>4 DEF Stored
  <2>6. e \in Mark /\ e[1] = s[at + 1] /\ mkey(e[1], e[2]) = mkey(e[1], data[e[1]])
    BY <1>2, <2>5 DEF Mark, AdbTypes, mkey
  <2> HIDE DEF e, s, n
  <2>7. /\ kdb' \in Seq(Mark) /\ Len(kdb') = at + 1 /\ kdb'[at + 1] = e
        /\ \A i \in 1..at : kdb'[i] = kdb[i]
    BY <1>2, <1>3, <2>2, <2>3, <2>6 DEF AdbTypes
  <2>8. \A i \in 1..(at + 1) : i \in 1..at \/ i = at + 1 BY <1>3
  <2>9. AdbTypes' BY <1>2, <1>3, <2>2, <2>7, KeepTypes DEF migrate_getkeys, AdbTypes
  <2>10. \A i \in 1..(at + 1) : kdb'[i][1] = s[i] BY <2>3, <2>6, <2>7, <2>8
  <2>11. Listing' BY <1>3, <2>2 DEF Listing
  <2>12. \A i \in 1..(at + 1) : kdb'[i][1] \in Stored
                              /\ mkey(kdb'[i][1], kdb'[i][2]) = mkey(kdb'[i][1], data[kdb'[i][1]])
    BY <2>1, <2>3, <2>5, <2>6, <2>7, <2>8 DEF Old
  <2>13. (\A i \in 1..Len(kdb) : kdb[i][1] \in Stored
                              /\ mkey(kdb[i][1], kdb[i][2]) = mkey(kdb[i][1], data[kdb[i][1]]))'
    BY <1>4, <2>7, <2>12 DEF mkey, migrate_getkeys
  <2>14. (\A i, j \in 1..Len(kdb) : kdb[i][1] = kdb[j][1] => i = j)'
    <3>1. \A i \in 1..(at + 1) : i \in 1..n BY <1>1, <1>3, <2>4
    <3> QED BY <1>0, <2>7, <2>10, <3>1
  <2>15. (\A k \in DbKeys : None(k))' BY <2>1 DEF Old, None, migrate_getkeys
  <2>16. at + 1 <= n BY <1>1, <1>3, <2>4
  <2>17. Old' BY <1>4, <2>1, <2>2, <2>7, <2>10, <2>11, <2>13, <2>14, <2>15, <2>16 DEF Old, migrate_getkeys, s, n
  <2> QED BY <1>7, <2>9, <2>17 DEF AdbInv, migrate_getkeys
<1> QED BY <1>5, <1>6, <1>7

LEMMA TreeAdb == ASSUME AdbInv, merkle_tree_disk PROVE AdbInv'
<1>1. AdbTypes /\ op = NoCall BY DEF AdbInv, AdbTypes, merkle_tree_disk
<1>2. AdbTypes' BY <1>1 DEF AdbTypes, merkle_tree_disk
<1>3. CASE treefile
  <2>1. AdbKept BY <1>3 DEF AdbInv, merkle_tree_disk
  <2>2. AdbKept' BY <1>1, <2>1, KeepKept DEF merkle_tree_disk, AdbKept
  <2> QED BY <1>2, <1>3, <2>2 DEF AdbInv, merkle_tree_disk
<1>4. CASE ~treefile
  <2>1. Old /\ at = 0 /\ up = "tree" BY <1>4 DEF AdbInv, merkle_tree_disk, Old
  <2>2. up' = "fill" /\ at' = 0 /\ Stored' = Stored BY <1>4, <2>1 DEF merkle_tree_disk, Stored
  <2>3. ~Listing /\ ~Listing' BY <2>1, <2>2 DEF Listing
  <2>4. \A k \in DbKeys : ~Listed(k, 0)' /\ None(k)' BY <2>1 DEF Listed, Old, None, merkle_tree_disk
  <2>5. Len(kdb) \in Nat BY <1>1 DEF AdbTypes
  <2>6. (\A k \in Stored \ left : Listed(k, Len(kdb)))' /\ (kdb # <<>> \/ Stored = {})'
    BY <2>1, <2>2, <2>3 DEF Listed, merkle_tree_disk, Old
  <2>7. (\A i \in 1..Len(kdb) : kdb[i][1] \in Stored
                              /\ mkey(kdb[i][1], kdb[i][2]) = mkey(kdb[i][1], data[kdb[i][1]]))'
    BY <2>1, <2>2 DEF Old, mkey, merkle_tree_disk
  <2>8. Old' BY <2>1, <2>2, <2>3, <2>4, <2>5, <2>6, <2>7 DEF Old, merkle_tree_disk, Listed
  <2> QED BY <1>2, <2>2, <2>8 DEF AdbInv
<1> QED BY <1>3, <1>4

LEMMA FillAdb == ASSUME AdbInv, migrate_tree PROVE AdbInv'
<1>1. AdbTypes /\ op = NoCall /\ treefile /\ up = "fill" /\ Old BY DEF AdbInv, AdbTypes, migrate_tree
<1>2. at \in Nat /\ Len(kdb) \in Nat /\ at <= Len(kdb) /\ acked = {} /\ torn = {} BY <1>1 DEF AdbTypes, Old
<1>3. CASE at = Len(kdb)
  <2>1. up' = "up" /\ at' = 0 /\ UNCHANGED <<tree, data, kdb, left, treefile>> BY <1>3 DEF migrate_tree
  <2>2. AdbTypes' BY <1>1, <2>1 DEF AdbTypes, migrate_tree
  <2>3. \A i \in 1..Len(kdb) : i <= at BY <1>2, <1>3
  <2>4. AdbKept' BY <1>1, <1>2, <2>1, <2>3, FillKept DEF migrate_tree
  <2> QED BY <1>1, <2>1, <2>2, <2>4 DEF AdbInv
<1>4. CASE at # Len(kdb)
  <2> DEFINE m == kdb[at + 1]
             c == m[1]
             w == data[c]
  <2>0. at + 1 \in 1..Len(kdb) /\ at + 1 \notin 1..at /\ at < at + 1 BY <1>2, <1>4
  <2>1. /\ up' = "fill" /\ at' = at + 1 /\ UNCHANGED <<data, kdb, hasaux, left, treefile>>
        /\ tree' = [tree EXCEPT ![mkey(c, m[2])] = @ + 1] BY <1>1, <1>4 DEF migrate_tree
  <2>2. c \in Stored /\ mkey(c, m[2]) = mkey(c, w) BY <1>1, <2>0 DEF Old
  <2>3. c \in DbKeys /\ w # 0 /\ w \in {0} \cup Versions BY <1>1, <2>2 DEF Stored, AdbTypes
  <2>4. mkey(c, w) = <<c, Slot(w)>> /\ Slot(w) \in {0} \cup Versions /\ <<c, Slot(w)>> \in Mark BY <1>1, <2>3, MkeyIs
  <2>5. ~Listed(c, at) BY <1>1, <1>2, <2>0 DEF Listed, Old
  <2>6. None(c) BY <1>1, <2>3, <2>5 DEF Old
  <2>7. tree' = [tree EXCEPT ![<<c, Slot(w)>>] = @ + 1] BY <2>1, <2>2, <2>4
  <2> HIDE DEF m, c, w
  <2>8. tree \in [Mark -> Nat] BY <1>1 DEF AdbTypes
  <2>9. tree' \in [Mark -> Nat] BY <2>4, <2>7, <2>8
  <2>10. \A k \in DbKeys, v \in {0} \cup Versions :
            tree'[<<k, v>>] = IF k = c /\ v = Slot(w) THEN tree[<<k, v>>] + 1 ELSE tree[<<k, v>>]
    BY <2>4, <2>7, <2>8 DEF Mark
  <2>11. AdbTypes' BY <1>1, <1>2, <2>1, <2>9 DEF AdbTypes, migrate_tree
  <2>12. ASSUME NEW k \in DbKeys
         PROVE  (IF Listed(k, at) THEN Marked(k, data[k]) ELSE None(k))'
    <3>1. (Listed(k, at))' <=> Listed(k, at) \/ k = c
      <4>1. \A i \in 1..(at + 1) : i \in 1..at \/ i = at + 1 BY <1>2
      <4>2. \A i \in 1..at : i \in 1..(at + 1) BY <1>2
      <4>3. at + 1 \in 1..(at + 1) BY <1>2
      <4> QED BY <2>1, <4>1, <4>2, <4>3 DEF Listed, c, m
    <3>2. CASE k = c
      <4>1. ASSUME NEW v \in {0} \cup Versions
            PROVE  tree'[<<k, v>>] = IF w # 0 /\ Slot(w) = v THEN 1 ELSE 0
        <5>1. tree[<<k, v>>] = 0 BY <2>6, <3>2 DEF None
        <5>2. tree'[<<k, v>>] = IF v = Slot(w) THEN tree[<<k, v>>] + 1 ELSE tree[<<k, v>>] BY <2>10, <3>2
        <5> QED BY <2>3, <5>1, <5>2
      <4>2. data'[k] = w /\ hasaux' = hasaux BY <2>1, <3>2 DEF w
      <4>3. \A v \in {0} \cup Versions : mkey(k, w) = <<k, v>> <=> Slot(w) = v BY <2>4, <3>2
      <4>4. Marked(k, data[k])' BY <4>1, <4>2, <4>3 DEF Marked, mkey
      <4> QED BY <3>1, <3>2, <4>4
    <3>3. CASE k # c
      <4>1. \A v \in {0} \cup Versions : tree'[<<k, v>>] = tree[<<k, v>>] BY <2>10, <3>3
      <4>2. data'[k] = data[k] /\ data[k] \in {0} \cup Versions BY <1>1, <2>1 DEF AdbTypes
      <4>3. Marked(k, data[k])' <=> Marked(k, data[k])
        BY <2>1, <4>1, <4>2 DEF Marked, mkey
      <4>4. None(k)' <=> None(k) BY <4>1 DEF None
      <4> QED BY <1>1, <3>1, <3>3, <4>3, <4>4 DEF Old
    <3> QED BY <3>2, <3>3
  <2>13. Stored' = Stored /\ ~Listing /\ ~Listing' BY <1>1, <2>1 DEF Stored, Listing
  <2>14. (\A k \in Stored \ left : Listed(k, Len(kdb)))' /\ (kdb # <<>> \/ Stored = {})'
    BY <1>1, <2>1, <2>13 DEF Listed, Old
  <2>15. (\A i \in 1..Len(kdb) : kdb[i][1] \in Stored
                              /\ mkey(kdb[i][1], kdb[i][2]) = mkey(kdb[i][1], data[kdb[i][1]]))'
    BY <1>1, <2>1, <2>13 DEF Old, mkey
  <2>16. at' <= Len(kdb') BY <1>2, <2>0, <2>1
  <2>17. Old' BY <1>1, <2>1, <2>12, <2>13, <2>14, <2>15, <2>16 DEF Old, migrate_tree
  <2> QED BY <2>1, <2>11, <2>17 DEF AdbInv
<1> QED BY <1>3, <1>4

\* A new call.
LEMMA StoreAdb ==
    ASSUME AdbAssumption, AdbInv, NEW c \in DbKeys, NEW w \in Versions, adb_store(c, w)
    PROVE  AdbInv'
<1>1. AdbTypes /\ op = NoCall /\ up = "up" /\ treefile /\ AdbKept BY DEF AdbInv, AdbTypes, adb_store
<1>2. PICK p \in {"delete", "tree"} :
         /\ op' = [pc |-> p, k |-> c, v |-> w, old |-> data[c]]
         /\ p = "delete" => hasaux /\ data[c] # 0
         /\ p = "tree" => (hasaux => data[c] = 0)
  BY DEF adb_store
<1>3. op' # NoCall /\ op'.pc = p /\ op'.k = c /\ op'.v = w /\ op'.old = data[c] BY <1>2 DEF NoCall
<1>4. op' \in Call BY <1>1, <1>2 DEF Call, AdbTypes
<1>5. AdbTypes' BY <1>1, <1>4 DEF AdbTypes, adb_store
<1>6. UNCHANGED <<data, tree, kdb, at, torn, left>> /\ hasaux' = hasaux /\ acked' = acked \ {c} BY DEF adb_store
<1>7. (kdb # <<>> \/ Stored = {})' BY <1>1, <1>6 DEF AdbKept, Stored
<1>8. CallKept' BY <1>2, <1>3, <1>6 DEF CallKept
<1>9. ASSUME NEW k \in DbKeys PROVE KeyKept(k)'
  <2>1. KeyKept(k) /\ ~Busy(k) BY <1>1 DEF AdbKept, Busy
  <2>2. CASE k # c
    <3>1. ~Busy(k)' BY <1>3, <2>2 DEF Busy
    <3> QED BY <1>1, <1>6, <2>1, <3>1, SameKey
  <2>3. CASE k = c
    <3>1. Busy(k)' /\ k \notin acked' BY <1>3, <1>6, <2>3 DEF Busy
    <3>2. TreeHas(k)' <=> TreeHas(k) BY <1>1, <1>6, SameExact
    <3>3. data[k] \in {0} \cup Versions /\ data'[k] = data[k] BY <1>1, <1>6 DEF AdbTypes
    <3>4. Marked(k, data[k])' <=> Marked(k, data[k]) BY <1>1, <1>6, SameExact
    <3>5. Exact(k) => Exact(k)' BY <1>2, <1>3, <1>6, <2>1, <2>3, <3>1, <3>3, <3>4 DEF Exact
    <3> QED BY <1>6, <2>1, <3>1, <3>2, <3>3, <3>5 DEF KeyKept
  <2> QED BY <2>2, <2>3
<1>10. AdbKept' BY <1>1, <1>6, <1>7, <1>8, <1>9 DEF AdbKept
<1> QED BY <1>1, <1>5, <1>10 DEF AdbInv, adb_store

\* A step of the call of key c to stage p.
LEMMA NextStage ==
    ASSUME AdbTypes, up = "up", op # NoCall, NEW p \in {"delete", "deltree", "tree", "kdb", "data"},
           op' = [op EXCEPT !.pc = p]
    PROVE  /\ op' \in Call /\ op' # NoCall /\ op'.pc = p
           /\ op'.k = op.k /\ op'.v = op.v /\ op'.old = op.old
<1>1. op \in Call BY DEF AdbTypes
<1> QED BY <1>1 DEF Call, NoCall

LEMMA InCall ==
    ASSUME AdbInv, op.pc # "no"
    PROVE  /\ AdbTypes /\ op # NoCall /\ op \in Call /\ up = "up" /\ treefile /\ AdbKept
           /\ op.k \in DbKeys /\ op.v \in Versions /\ op.old \in {0} \cup Versions
           /\ Busy(op.k) /\ CallKept /\ KeyKept(op.k)
           /\ \A k \in DbKeys : KeyKept(k) /\ (k # op.k => ~Busy(k))
<1>1. op # NoCall BY DEF NoCall
<1>2. AdbTypes /\ op \in Call /\ up = "up" /\ treefile BY <1>1 DEF AdbInv, AdbTypes
<1>3. AdbKept BY <1>2 DEF AdbInv
<1> QED BY <1>1, <1>2, <1>3 DEF Call, AdbKept, Busy

LEMMA DelDataAdb == ASSUME AdbInv, del_data PROVE AdbInv'
<1> DEFINE c == op.k
<1>1. /\ AdbTypes /\ op # NoCall /\ op \in Call /\ up = "up" /\ treefile /\ AdbKept
      /\ c \in DbKeys /\ op.old \in {0} \cup Versions /\ op.pc = "delete"
      /\ Busy(c) /\ CallKept /\ KeyKept(c)
      /\ \A k \in DbKeys : KeyKept(k) /\ (k # c => ~Busy(k))
  BY InCall DEF del_data
<1>2. op' \in Call /\ op' # NoCall /\ op'.pc = "deltree" /\ op'.k = c /\ op'.v = op.v /\ op'.old = op.old
  BY <1>1, NextStage DEF del_data
<1>3. /\ UNCHANGED <<tree, kdb, at, acked, torn, left, up, treefile>> /\ hasaux' = hasaux
      /\ data' = [data EXCEPT ![c] = 0] BY DEF del_data
<1>4. data \in [DbKeys -> {0} \cup Versions] BY <1>1 DEF AdbTypes
<1> HIDE DEF c
<1>5. data' \in [DbKeys -> {0} \cup Versions] /\ data'[c] = 0 /\ \A k \in DbKeys : k # c => data'[k] = data[k]
  BY <1>1, <1>3, <1>4
<1>6. AdbTypes' BY <1>1, <1>2, <1>3, <1>5 DEF AdbTypes, del_data
<1>7. (kdb # <<>> \/ Stored = {})' BY <1>1, <1>3, <1>5 DEF AdbKept, Stored
<1>8. hasaux BY <1>1 DEF CallKept
<1>9. CallKept' BY <1>2, <1>3, <1>5, <1>8 DEF CallKept
<1>10. ASSUME NEW k \in DbKeys PROVE KeyKept(k)'
  <2>1. CASE k # c
    <3>1. ~Busy(k)' BY <1>2, <2>1 DEF Busy
    <3>2. KeyKept(k) /\ ~Busy(k) /\ data'[k] = data[k] BY <1>1, <1>5, <2>1
    <3> QED BY <1>1, <1>3, <3>1, <3>2, SameKey
  <2>2. CASE k = c
    <3>1. Busy(k)' /\ k \notin acked' BY <1>1, <1>2, <1>3, <2>2 DEF Busy, KeyKept
    <3>2. TreeHas(k)' BY <1>5, <2>2 DEF TreeHas
    <3>3. Exact(k) => op.old # 0 /\ Marked(k, op.old)
      BY <1>1, <2>2 DEF Exact
    <3>4. Marked(k, op.old) => Marked(k, op.old)' BY <1>2, <1>3 DEF Marked, mkey
    <3>5. Exact(k) => Exact(k)' BY <1>2, <1>5, <2>2, <3>1, <3>3, <3>4 DEF Exact
    <3> QED BY <1>1, <1>3, <1>8, <2>2, <3>1, <3>2, <3>5 DEF KeyKept
  <2> QED BY <2>1, <2>2
<1>11. AdbKept' BY <1>1, <1>3, <1>7, <1>9, <1>10 DEF AdbKept
<1> QED BY <1>1, <1>3, <1>6, <1>11 DEF AdbInv

LEMMA DelTreeAdb == ASSUME AdbInv, del_tree PROVE AdbInv'
<1> DEFINE c == op.k
           m == <<c, Slot(op.old)>>
<1>1. /\ AdbTypes /\ op # NoCall /\ op \in Call /\ up = "up" /\ treefile /\ AdbKept
      /\ c \in DbKeys /\ op.old \in {0} \cup Versions /\ op.pc = "deltree"
      /\ Busy(c) /\ CallKept /\ KeyKept(c)
      /\ \A k \in DbKeys : KeyKept(k) /\ (k # c => ~Busy(k))
  BY InCall DEF del_tree
<1>2. mkey(c, op.old) = m /\ Slot(op.old) \in {0} \cup Versions /\ m \in Mark
      /\ (Marked(c, op.old) <=> \A v \in {0} \cup Versions :
                                  tree[<<c, v>>] = IF op.old # 0 /\ Slot(op.old) = v THEN 1 ELSE 0)
  BY <1>1, MkeyIs
<1>3. UNCHANGED <<data, kdb, at, acked, left, treefile>> /\ hasaux' = hasaux BY DEF del_tree
<1>4. tree \in [Mark -> Nat] BY <1>1 DEF AdbTypes
<1>5. hasaux /\ data[c] = 0 BY <1>1 DEF CallKept
<1>6. (kdb # <<>> \/ Stored = {})' BY <1>1, <1>3 DEF AdbKept, Stored
<1>7. CASE tree[m] > 0
  <2>1. /\ tree' = [tree EXCEPT ![m] = @ - 1] /\ op' = [op EXCEPT !.pc = "tree"] /\ UNCHANGED <<up, torn>>
    BY <1>2, <1>7 DEF del_tree
  <2>2. op' \in Call /\ op' # NoCall /\ op'.pc = "tree" /\ op'.k = c /\ op'.v = op.v /\ op'.old = op.old
    BY <1>1, <2>1, NextStage
  <2> HIDE DEF c
  <2>3. tree' \in [Mark -> Nat] BY <1>2, <1>4, <1>7, <2>1
  <2>4. \A k \in DbKeys, v \in {0} \cup Versions :
            tree'[<<k, v>>] = IF k = c /\ v = Slot(op.old) THEN tree[<<k, v>>] - 1 ELSE tree[<<k, v>>]
    BY <1>2, <1>4, <2>1 DEF Mark
  <2>5. AdbTypes' BY <1>1, <1>3, <2>1, <2>2, <2>3 DEF AdbTypes
  <2>6. CallKept' BY <2>2 DEF CallKept
  <2>7. ASSUME NEW k \in DbKeys PROVE KeyKept(k)'
    <3>1. CASE k # c
      <4>1. ~Busy(k)' BY <2>2, <3>1 DEF Busy
      <4>2. KeyKept(k) /\ ~Busy(k) BY <1>1, <3>1
      <4>3. \A v \in {0} \cup Versions : tree'[<<k, v>>] = tree[<<k, v>>] BY <2>4, <3>1
      <4> QED BY <1>1, <1>3, <2>1, <4>1, <4>2, <4>3, SameKey
    <3>2. CASE k = c
      <4>1. Busy(k)' /\ k \notin acked' BY <1>1, <1>3, <2>2, <3>2 DEF Busy, KeyKept
      <4>2. TreeHas(k)' BY <1>3, <1>5, <3>2 DEF TreeHas
      <4>3. Exact(k) => op.old # 0 /\ Marked(c, op.old) BY <1>1, <3>2 DEF Exact
      <4>4. Exact(k) => \A v \in {0} \cup Versions : tree'[<<k, v>>] = 0 BY <1>1, <1>2, <2>4, <3>2, <4>3
      <4>5. Exact(k) => Marked(k, data[k])' BY <1>3, <1>5, <3>2, <4>4 DEF Marked
      <4>6. Exact(k) => Exact(k)' BY <1>3, <1>5, <2>2, <3>2, <4>1, <4>5 DEF Exact
      <4> QED BY <1>1, <1>3, <1>5, <2>1, <3>2, <4>1, <4>2, <4>6 DEF KeyKept
    <3> QED BY <3>1, <3>2
  <2>8. AdbKept' BY <1>1, <1>3, <1>6, <2>6, <2>7 DEF AdbKept
  <2> QED BY <1>1, <1>3, <2>1, <2>5, <2>8 DEF AdbInv
<1>8. CASE ~(tree[m] > 0)
  <2>1. op' = NoCall /\ up' = "kdb" /\ torn' = torn \cup {c} /\ UNCHANGED tree BY <1>2, <1>8 DEF del_tree
  <2>2. AdbTypes' BY <1>1, <1>3, <2>1 DEF AdbTypes
  <2>3. ASSUME NEW k \in DbKeys PROVE KeyKept(k)'
    <3>1. ~Busy(k)' /\ KeyKept(k) BY <1>1, <2>1 DEF Busy
    <3>2. ~Busy(k) \/ k \in torn' BY <1>1, <2>1
    <3> QED BY <1>1, <1>3, <2>1, <3>1, <3>2, SameKey
  <2>4. AdbKept' BY <1>1, <1>3, <1>6, <2>1, <2>3 DEF AdbKept, CallKept
  <2> QED BY <1>1, <1>3, <2>1, <2>2, <2>4 DEF AdbInv
<1> QED BY <1>7, <1>8

LEMMA KinsertAdb == ASSUME AdbAssumption, AdbInv, kinsert_tree PROVE AdbInv'
<1> DEFINE c == op.k
           w == op.v
           m == <<c, Slot(w)>>
<1>1. /\ AdbTypes /\ op # NoCall /\ op \in Call /\ up = "up" /\ treefile /\ AdbKept
      /\ c \in DbKeys /\ w \in Versions /\ op.pc = "tree"
      /\ Busy(c) /\ CallKept /\ KeyKept(c)
      /\ \A k \in DbKeys : KeyKept(k) /\ (k # c => ~Busy(k))
  BY InCall DEF kinsert_tree
<1>2. w # 0 /\ w \in {0} \cup Versions BY <1>1 DEF AdbAssumption
<1>3. mkey(c, w) = m /\ Slot(w) \in {0} \cup Versions /\ m \in Mark BY <1>1, <1>2, MkeyIs
<1>4. UNCHANGED <<data, kdb, at, torn, left, treefile, up>> /\ hasaux' = hasaux BY DEF kinsert_tree
<1>5. tree \in [Mark -> Nat] BY <1>1 DEF AdbTypes
<1>6. (kdb # <<>> \/ Stored = {})' BY <1>1, <1>4 DEF AdbKept, Stored
<1>7. key_exists(c) <=> ~hasaux /\ tree[<<c, 0>>] > 0 BY DEF key_exists, mkey
<1>8. CASE key_exists(c)
  <2>1. op' = NoCall /\ acked' = acked \cup {c} /\ UNCHANGED tree BY <1>8 DEF kinsert_tree, EndCall
  <2>2. AdbTypes' BY <1>1, <1>4, <2>1 DEF AdbTypes
  <2>3. ASSUME NEW k \in DbKeys PROVE KeyKept(k)'
    <3>1. ~Busy(k)' /\ KeyKept(k) BY <1>1, <2>1 DEF Busy
    <3>2. CASE k # c
      <4>1. ~Busy(k) /\ (k \in acked' => k \in acked) BY <1>1, <2>1, <3>2
      <4> QED BY <1>1, <1>4, <2>1, <3>1, <4>1, SameKey
    <3>3. CASE k = c
      <4>1. data[k] # 0 \/ k \in torn BY <1>1, <1>7, <1>8, <3>1, <3>3 DEF KeyKept
      <4>2. TreeHas(k)' <=> TreeHas(k) BY <1>1, <1>4, <2>1, SameExact
      <4>3. Marked(k, data[k])' <=> Marked(k, data[k]) BY <1>1, <1>4, <2>1, SameExact
      <4>4. Exact(k) => Marked(k, data[k]) BY <1>1, <3>3 DEF Exact
      <4>5. Exact(k) => Exact(k)' BY <3>1, <4>3, <4>4 DEF Exact
      <4> QED BY <1>4, <2>1, <3>1, <4>1, <4>2, <4>5 DEF KeyKept
    <3> QED BY <3>2, <3>3
  <2>4. AdbKept' BY <1>1, <1>4, <1>6, <2>1, <2>3 DEF AdbKept, CallKept
  <2> QED BY <1>1, <1>4, <2>2, <2>4 DEF AdbInv
<1>9. CASE ~key_exists(c)
  <2>1. tree' = [tree EXCEPT ![m] = @ + 1] /\ op' = [op EXCEPT !.pc = "kdb"] /\ UNCHANGED acked
    BY <1>3, <1>9 DEF kinsert_tree
  <2>2. op' \in Call /\ op' # NoCall /\ op'.pc = "kdb" /\ op'.k = c /\ op'.v = w /\ op'.old = op.old
    BY <1>1, <2>1, NextStage
  <2> HIDE DEF c, w
  <2>3. tree' \in [Mark -> Nat] BY <1>3, <1>5, <2>1
  <2>4. \A k \in DbKeys, v \in {0} \cup Versions :
            tree'[<<k, v>>] = IF k = c /\ v = Slot(w) THEN tree[<<k, v>>] + 1 ELSE tree[<<k, v>>]
    BY <1>3, <1>5, <2>1 DEF Mark
  <2>5. AdbTypes' BY <1>1, <1>4, <2>1, <2>2, <2>3 DEF AdbTypes
  <2>6. mkey(op.k, op.v)' = m BY <1>3, <1>4, <2>2 DEF mkey
  <2>7. tree'[m] > 0
    <3>1. tree[m] \in Nat /\ tree'[m] = tree[m] + 1 BY <1>3, <1>5, <2>1
    <3> QED BY <3>1
  <2>8. CallKept' BY <2>2, <2>6, <2>7 DEF CallKept
  <2>9. ASSUME NEW k \in DbKeys PROVE KeyKept(k)'
    <3>1. CASE k # c
      <4>1. ~Busy(k)' BY <2>2, <3>1 DEF Busy
      <4>2. KeyKept(k) /\ ~Busy(k) BY <1>1, <3>1
      <4>3. \A v \in {0} \cup Versions : tree'[<<k, v>>] = tree[<<k, v>>] BY <2>4, <3>1
      <4> QED BY <1>1, <1>4, <2>1, <4>1, <4>2, <4>3, SameKey
    <3>2. CASE k = c
      <4>1. Busy(k)' /\ k \notin acked' BY <1>1, <2>1, <2>2, <3>2 DEF Busy, KeyKept
      <4>2. data[k] \in {0} \cup Versions /\ data'[k] = data[k] BY <1>1, <1>4 DEF AdbTypes
      <4>3. mkey(k, data[k]) = <<k, Slot(data[k])>> /\ Slot(data[k]) \in {0} \cup Versions
            /\ <<k, Slot(data[k])>> \in Mark BY <1>1, <4>2, MkeyIs
      <4>4. TreeHas(k) => TreeHas(k)'
        <5>1. mkey(k, data[k])' = <<k, Slot(data[k])>> BY <1>4, <4>2, <4>3 DEF mkey
        <5>2. tree[<<k, Slot(data[k])>>] \in Nat BY <1>5, <4>3
        <5>3. tree[<<k, Slot(data[k])>>] > 0 => tree'[<<k, Slot(data[k])>>] > 0
          <6>1. PICK x \in {0} \cup Versions : x = Slot(data[k]) BY <4>3
          <6>2. tree'[<<k, x>>] = tree[<<k, x>>] + 1 \/ tree'[<<k, x>>] = tree[<<k, x>>] BY <2>4
          <6>3. PICK t \in Nat : t = tree[<<k, x>>] BY <5>2, <6>1
          <6>4. t > 0 => tree'[<<k, x>>] > 0 BY <6>2, <6>3
          <6> QED BY <6>1, <6>3, <6>4
        <5> QED BY <4>2, <4>3, <5>1, <5>3 DEF TreeHas
      <4>5. ASSUME k \notin left, Exact(k) PROVE Exact(k)'
        <5>1. (hasaux => data[k] = 0) /\ Marked(k, data[k]) /\ TreeHas(k) BY <1>1, <3>2, <4>5 DEF Exact, KeyKept
        <5>2. data[k] = 0
          <6>1. CASE hasaux BY <5>1, <6>1
          <6>2. CASE ~hasaux
            <7>1. mkey(k, data[k]) = <<c, 0>> BY <3>2, <6>2 DEF mkey
            <7> QED BY <1>7, <1>9, <5>1, <6>2, <7>1 DEF TreeHas
          <6> QED BY <6>1, <6>2
        <5>3. \A v \in {0} \cup Versions : tree[<<k, v>>] = 0 BY <5>1, <5>2 DEF Marked
        <5>4. ASSUME NEW v \in {0} \cup Versions PROVE tree'[<<k, v>>] = IF v = Slot(w) THEN 1 ELSE 0
          <6>1. tree[<<k, v>>] = 0 BY <5>3
          <6>2. tree'[<<k, v>>] = IF v = Slot(w) THEN tree[<<k, v>>] + 1 ELSE tree[<<k, v>>] BY <2>4, <3>2
          <6> QED BY <6>1, <6>2
        <5>5. mkey(k, op.v)' = <<k, Slot(w)>> BY <2>2, <2>6, <3>2 DEF mkey
        <5>6. op'.v # 0 BY <1>2, <2>2
        <5>7. Marked(k, op.v)' BY <5>4, <5>5, <5>6 DEF Marked
        <5> QED BY <2>2, <3>2, <4>1, <4>2, <5>2, <5>7 DEF Exact
      <4> QED BY <1>1, <1>4, <2>2, <3>2, <4>1, <4>4, <4>5 DEF KeyKept
    <3> QED BY <3>1, <3>2
  <2>10. AdbKept' BY <1>1, <1>4, <1>6, <2>8, <2>9 DEF AdbKept
  <2> QED BY <1>1, <1>4, <2>5, <2>10 DEF AdbInv
<1> QED BY <1>8, <1>9

LEMMA AddkeyAdb == ASSUME AdbInv, addkey PROVE AdbInv'
<1> DEFINE c == op.k
<1>1. /\ AdbTypes /\ op # NoCall /\ op \in Call /\ up = "up" /\ treefile /\ AdbKept
      /\ c \in DbKeys /\ op.v \in Versions /\ op.pc = "kdb"
      /\ Busy(c) /\ CallKept /\ KeyKept(c)
      /\ \A k \in DbKeys : KeyKept(k) /\ (k # c => ~Busy(k))
  BY InCall DEF addkey
<1>2. op' \in Call /\ op' # NoCall /\ op'.pc = "data" /\ op'.k = c /\ op'.v = op.v /\ op'.old = op.old
  BY <1>1, NextStage DEF addkey
<1>3. UNCHANGED <<data, tree, at, acked, torn, left, up, treefile>> /\ hasaux' = hasaux BY DEF addkey
<1>4. kdb \in Seq(Mark) /\ <<op.k, op.v>> \in Mark BY <1>1 DEF AdbTypes, Mark
<1>5. kdb' \in Seq(Mark) /\ kdb' # <<>> BY <1>4 DEF addkey
<1>6. AdbTypes' BY <1>1, <1>2, <1>3, <1>5 DEF AdbTypes
<1>7. tree[mkey(op.k, op.v)] > 0 BY <1>1 DEF CallKept
<1>8. mkey(op.k, op.v)' = mkey(op.k, op.v) BY <1>2, <1>3 DEF mkey
<1>9. CallKept' BY <1>2, <1>3, <1>5, <1>7, <1>8 DEF CallKept
<1>10. ASSUME NEW k \in DbKeys PROVE KeyKept(k)'
  <2>1. CASE k # c
    <3>1. ~Busy(k)' BY <1>2, <2>1 DEF Busy
    <3>2. KeyKept(k) /\ ~Busy(k) BY <1>1, <2>1
    <3> QED BY <1>1, <1>3, <3>1, <3>2, SameKey
  <2>2. CASE k = c
    <3>1. Busy(k)' /\ k \notin acked' BY <1>1, <1>2, <1>3, <2>2 DEF Busy, KeyKept
    <3>2. TreeHas(k)' <=> TreeHas(k) BY <1>1, <1>3, SameExact
    <3>3. Exact(k) => data[k] = 0 /\ Marked(k, op.v) BY <1>1, <2>2 DEF Exact
    <3>4. Marked(k, op.v) => Marked(k, op.v)' BY <1>2, <1>3 DEF Marked, mkey
    <3>5. Exact(k) => Exact(k)' BY <1>2, <1>3, <2>2, <3>1, <3>3, <3>4 DEF Exact
    <3> QED BY <1>1, <1>2, <1>3, <2>2, <3>1, <3>2, <3>5 DEF KeyKept
  <2> QED BY <2>1, <2>2
<1>11. AdbKept' BY <1>1, <1>3, <1>5, <1>9, <1>10 DEF AdbKept
<1> QED BY <1>1, <1>3, <1>6, <1>11 DEF AdbInv

LEMMA InsertAdb == ASSUME AdbAssumption, AdbInv, insert PROVE AdbInv'
<1> DEFINE c == op.k
           w == op.v
<1>1. /\ AdbTypes /\ op # NoCall /\ op \in Call /\ up = "up" /\ treefile /\ AdbKept
      /\ c \in DbKeys /\ w \in Versions /\ op.pc = "data"
      /\ Busy(c) /\ CallKept /\ KeyKept(c)
      /\ \A k \in DbKeys : KeyKept(k) /\ (k # c => ~Busy(k))
  BY InCall DEF insert
<1>2. UNCHANGED <<tree, kdb, at, left, up, treefile>> /\ hasaux' = hasaux /\ op' = NoCall BY DEF insert, EndCall
<1>3. \A k \in DbKeys : ~Busy(k)' BY <1>2 DEF Busy
<1>4. CallKept' BY <1>2 DEF CallKept
<1>5. kdb # <<>> BY <1>1 DEF CallKept
<1>6. w # 0 /\ w \in {0} \cup Versions BY <1>1 DEF AdbAssumption
<1>7. CASE data' = [data EXCEPT ![c] = w] /\ acked' = acked \cup {c} /\ UNCHANGED torn
  <2>1. data \in [DbKeys -> {0} \cup Versions] BY <1>1 DEF AdbTypes
  <2>2. tree[mkey(c, w)] > 0 BY <1>1 DEF CallKept
  <2> HIDE DEF c, w
  <2>4. data' \in [DbKeys -> {0} \cup Versions] /\ data'[c] = w /\ \A k \in DbKeys : k # c => data'[k] = data[k]
    BY <1>1, <1>6, <1>7, <2>1
  <2>5. AdbTypes' BY <1>1, <1>2, <1>7, <2>4 DEF AdbTypes
  <2>6. ASSUME NEW k \in DbKeys PROVE KeyKept(k)'
    <3>1. CASE k # c
      <4>1. KeyKept(k) /\ ~Busy(k) /\ ~Busy(k)' /\ data'[k] = data[k] BY <1>1, <1>3, <2>4, <3>1
      <4>2. k \in acked' => k \in acked BY <1>7, <3>1
      <4> QED BY <1>1, <1>2, <1>7, <4>1, <4>2, SameKey
    <3>2. CASE k = c
      <4>1. ~Busy(k)' /\ data'[k] = w BY <1>3, <2>4, <3>2
      <4>2. PICK x \in {0} \cup Versions : x = w BY <1>6
      <4>3. tree[mkey(k, x)] > 0 BY <2>2, <3>2, <4>2
      <4>4. mkey(k, x)' = mkey(k, x) BY <1>2 DEF mkey
      <4>5. TreeHas(k)' BY <1>2, <4>1, <4>2, <4>3, <4>4 DEF TreeHas, mkey
      <4>6. Exact(k) => Marked(k, x) BY <1>1, <3>2, <4>2 DEF Exact, c, w
      <4>7. Marked(k, x) => Marked(k, x)' BY <1>2 DEF Marked, mkey
      <4>8. Exact(k) => Exact(k)' BY <4>1, <4>2, <4>6, <4>7 DEF Exact
      <4> QED BY <1>1, <1>2, <1>6, <1>7, <3>2, <4>1, <4>5, <4>8 DEF KeyKept
    <3> QED BY <3>1, <3>2
  <2>7. AdbKept' BY <1>1, <1>2, <1>4, <1>5, <2>6 DEF AdbKept
  <2> QED BY <1>1, <1>2, <2>5, <2>7 DEF AdbInv
<1>8. CASE torn' = torn \cup {c} /\ UNCHANGED data /\ (acked' = acked \/ acked' = acked \cup {c})
  <2>1. AdbTypes' BY <1>1, <1>2, <1>8 DEF AdbTypes
  <2>2. ASSUME NEW k \in DbKeys PROVE KeyKept(k)'
    <3>1. KeyKept(k) /\ ~Busy(k)' /\ (~Busy(k) \/ k \in torn') BY <1>1, <1>3, <1>8
    <3>2. k \in acked' => k \in acked \/ k \in torn' BY <1>8
    <3> QED BY <1>1, <1>2, <1>8, <3>1, <3>2, SameKey
  <2>3. AdbKept' BY <1>1, <1>2, <1>4, <1>5, <2>2 DEF AdbKept
  <2> QED BY <1>1, <1>2, <2>1, <2>3 DEF AdbInv
<1>9. \/ data' = [data EXCEPT ![c] = w] /\ acked' = acked \cup {c} /\ UNCHANGED torn
      \/ torn' = torn \cup {c} /\ UNCHANGED data /\ (acked' = acked \/ acked' = acked \cup {c})
  BY DEF insert, EndCall
<1> QED BY <1>7, <1>8, <1>9

\* The daemon stops, wherever it is.
LEMMA CrashAdb == ASSUME AdbInv, Crash PROVE AdbInv'
<1>1. AdbTypes BY DEF AdbInv
<1>2. /\ UNCHANGED <<data, kdb, tree, treefile, acked>> /\ hasaux' = hasaux
      /\ op' = NoCall /\ up' = "kdb" /\ at' = 0 /\ left \subseteq left' BY DEF Crash
<1>3. torn' = IF op = NoCall THEN torn ELSE torn \cup {op.k} BY DEF Crash
<1>4. Len(kdb) \in Nat /\ at \in Nat BY <1>1 DEF AdbTypes
<1>5. left' \subseteq DbKeys
  <2>1. \A i \in (at + 1)..Len(kdb) : kdb[i][1] \in DbKeys
    <3>1. \A i \in (at + 1)..Len(kdb) : i \in 1..Len(kdb) BY <1>4
    <3> QED BY <1>1, <3>1 DEF AdbTypes, Mark
  <2>2. {kdb[i][1] : i \in (at + 1)..Len(kdb)} \subseteq DbKeys BY <2>1
  <2>3. {k \in Stored : \A i \in DOMAIN kdb : kdb[i][1] # k} \subseteq DbKeys BY DEF Stored
  <2>4. left \subseteq DbKeys BY <1>1 DEF AdbTypes
  <2>5. CASE up = "kdb" /\ at > 0
    <3>1. left' = left \cup {k \in Stored : \A i \in DOMAIN kdb : kdb[i][1] # k} BY <2>5 DEF Crash
    <3> QED BY <2>3, <2>4, <3>1
  <2>6. CASE up = "fill"
    <3>1. left' = left \cup {kdb[i][1] : i \in (at + 1)..Len(kdb)} BY <2>6 DEF Crash
    <3> QED BY <2>2, <2>4, <3>1
  <2>7. CASE up # "fill" /\ ~(up = "kdb" /\ at > 0)
    <3>1. left' = left BY <2>7 DEF Crash
    <3> QED BY <2>4, <3>1
  <2> QED BY <2>5, <2>6, <2>7
<1>6. torn' \subseteq DbKeys BY <1>1, <1>3 DEF AdbTypes, Call
<1>7. AdbTypes' BY <1>1, <1>2, <1>5, <1>6 DEF AdbTypes
<1>8. CASE up = "fill"
  <2>1. Old /\ treefile /\ op = NoCall /\ acked = {} /\ torn = {} BY <1>1, <1>8 DEF AdbInv, Old, AdbTypes
  <2>2. left' = left \cup {kdb[i][1] : i \in (at + 1)..Len(kdb)} BY <1>8 DEF Crash
  <2>3. \A i \in 1..Len(kdb) : i <= at \/ kdb[i][1] \in left'
    <3>1. \A i \in 1..Len(kdb) : i <= at \/ i \in (at + 1)..Len(kdb) BY <1>4
    <3> QED BY <2>2, <3>1
  <2>4. acked' = {} /\ torn' = {} BY <1>2, <1>3, <2>1
  <2>5. AdbKept' BY <1>1, <1>2, <1>8, <2>1, <2>3, <2>4, FillKept
  <2> QED BY <1>2, <1>7, <2>1, <2>5 DEF AdbInv
<1>9. CASE up # "fill" /\ treefile
  <2>1. AdbKept BY <1>9 DEF AdbInv
  <2>2. (kdb # <<>> \/ Stored = {})' BY <1>2, <2>1 DEF AdbKept, Stored
  <2>3. ASSUME NEW k \in DbKeys PROVE KeyKept(k)'
    <3>1. KeyKept(k) /\ ~Busy(k)' BY <1>2, <2>1 DEF AdbKept, Busy
    <3>2. (~Busy(k) \/ k \in torn') /\ (k \in torn => k \in torn') BY <1>3 DEF Busy
    <3> QED BY <1>1, <1>2, <3>1, <3>2, SameKey
  <2>4. AdbKept' BY <1>2, <2>2, <2>3 DEF AdbKept, CallKept
  <2> QED BY <1>2, <1>7, <1>9, <2>4 DEF AdbInv
<1>10. CASE ~treefile
  <2>1. Old /\ up \in {"kdb", "tree"} /\ op = NoCall /\ torn' = {} /\ acked' = {}
    BY <1>1, <1>2, <1>3, <1>10 DEF AdbInv, Old, AdbTypes
  <2>2. Stored' = Stored BY <1>2 DEF Stored
  <2>3. (\A i \in 1..Len(kdb) : kdb[i][1] \in Stored
                              /\ mkey(kdb[i][1], kdb[i][2]) = mkey(kdb[i][1], data[kdb[i][1]]))'
    BY <1>2, <2>1, <2>2 DEF Old, mkey
  <2>4. (\A k \in DbKeys : None(k))' BY <1>2, <2>1 DEF Old, None
  <2>5. Listing' <=> kdb = <<>> BY <1>2 DEF Listing
  <2>6. Listing' => at' = Len(kdb') /\ at' <= Cardinality(Stored')
    <3>1. SUFFICES ASSUME kdb = <<>> PROVE Len(kdb) = 0 /\ 0 <= Cardinality(Stored) BY <1>2, <2>2, <2>5
    <3>2. Len(kdb) = 0 BY <3>1
    <3>3. CASE Listing BY <2>1, <3>2, <3>3 DEF Old
    <3>4. CASE ~Listing
      <4>1. Stored = {} BY <2>1, <3>1, <3>4 DEF Old
      <4> QED BY <3>2, <4>1, FS_EmptySet
    <3> QED BY <3>3, <3>4
  <2>7. ~Listing' => (\A k \in Stored \ left : Listed(k, Len(kdb)))' /\ (kdb # <<>> \/ Stored = {})'
    <3>1. SUFFICES ASSUME kdb # <<>>, NEW k \in Stored, k \notin left' PROVE Listed(k, Len(kdb))
      BY <1>2, <2>2, <2>5 DEF Listed
    <3>2. CASE up = "kdb" /\ at > 0
      <4>1. left' = left \cup {l \in Stored : \A i \in DOMAIN kdb : kdb[i][1] # l} BY <3>2 DEF Crash
      <4>2. PICK i \in DOMAIN kdb : kdb[i][1] = k BY <3>1, <4>1
      <4>3. DOMAIN kdb = 1..Len(kdb) BY <1>1 DEF AdbTypes
      <4> QED BY <4>2, <4>3 DEF Listed
    <3>3. CASE ~(up = "kdb" /\ at > 0)
      <4>1. ~Listing BY <1>4, <3>1, <3>3 DEF Listing
      <4> QED BY <1>2, <2>1, <3>1, <4>1 DEF Old
    <3> QED BY <3>2, <3>3
  <2>8. Listing' => \A i \in 1..at' : kdb'[i][1] = sorted(Stored')[i] BY <1>2
  <2>9. (\A i, j \in 1..Len(kdb) : kdb[i][1] = kdb[j][1] => i = j)' BY <1>2, <2>1 DEF Old
  <2>10. Old' BY <1>2, <2>1, <2>3, <2>4, <2>6, <2>7, <2>8, <2>9 DEF Old
  <2> QED BY <1>2, <1>7, <1>10, <2>10 DEF AdbInv
<1> QED BY <1>8, <1>9, <1>10

LEMMA IdleAdb == ASSUME AdbInv, UNCHANGED adb PROVE AdbInv'
<1>1. UNCHANGED <<data, kdb, tree, treefile, up, at, op, acked, torn, left>> /\ hasaux' = hasaux BY DEF adb
<1>2. AdbTypes' <=> AdbTypes BY <1>1 DEF AdbTypes
<1>3. Stored' = Stored /\ \A k, w : mkey(k, w)' = mkey(k, w) BY <1>1 DEF Stored, mkey
<1>5. \A k : Marked(k, data[k])' <=> Marked(k, data[k]) BY <1>1, <1>3 DEF Marked, mkey
<1>6. \A k : (None(k)' <=> None(k)) /\ (Busy(k)' <=> Busy(k)) BY <1>1 DEF None, Busy
<1>7. Listing' <=> Listing BY <1>1 DEF Listing
<1>9. Old => Old'
  <2>1. SUFFICES ASSUME Old PROVE Old' OBVIOUS
  <2>2. (\A i \in 1..Len(kdb) : kdb[i][1] \in Stored
                              /\ mkey(kdb[i][1], kdb[i][2]) = mkey(kdb[i][1], data[kdb[i][1]]))'
    BY <1>1, <1>3, <2>1 DEF Old, mkey
  <2>3. (~Listing => /\ \A k \in Stored \ left : Listed(k, Len(kdb))
                     /\ kdb # <<>> \/ Stored = {})'
    BY <1>1, <1>3, <1>7, <2>1 DEF Old, Listed
  <2>4. (Listing => /\ at = Len(kdb) /\ at <= Cardinality(Stored)
                    /\ \A i \in 1..at : kdb[i][1] = sorted(Stored)[i])'
    BY <1>1, <1>3, <1>7, <2>1 DEF Old
  <2>5. (IF up = "fill"
         THEN at <= Len(kdb) /\ \A k \in DbKeys : IF Listed(k, at) THEN Marked(k, data[k]) ELSE None(k)
         ELSE \A k \in DbKeys : None(k))'
    <3>1. \A k : Listed(k, at)' <=> Listed(k, at) BY <1>1 DEF Listed
    <3> QED BY <1>1, <1>5, <1>6, <2>1, <3>1 DEF Old
  <2> QED BY <1>1, <2>1, <2>2, <2>3, <2>4, <2>5 DEF Old
<1>10. AdbKept => AdbKept'
  <2>1. SUFFICES ASSUME AdbKept PROVE AdbKept' OBVIOUS
  <2>2. CallKept' BY <1>1, <2>1 DEF AdbKept, CallKept, mkey
  <2>3. ASSUME NEW k \in DbKeys PROVE KeyKept(k)'
    <3>1. KeyKept(k) BY <2>1 DEF AdbKept
    <3>2. TreeHas(k)' <=> TreeHas(k) BY <1>1 DEF TreeHas, mkey
    <3>3. (Marked(k, op.old)' <=> Marked(k, op.old)) /\ (Marked(k, op.v)' <=> Marked(k, op.v))
      BY <1>1, <1>3 DEF Marked, mkey
    <3>4. Exact(k)' <=> Exact(k) BY <1>1, <1>5, <1>6, <3>3 DEF Exact
    <3> QED BY <1>1, <1>6, <3>1, <3>2, <3>4 DEF KeyKept
  <2> QED BY <1>1, <1>3, <2>1, <2>2, <2>3 DEF AdbKept
<1> QED BY <1>1, <1>2, <1>9, <1>10 DEF AdbInv

LEMMA SoundAdb == ASSUME AdbInv PROVE StoreSound
<1>1. SUFFICES ASSUME up = "up", ~wrecked PROVE
        /\ \A k \in DbKeys \ left : TreeHas(k)
        /\ \A k \in acked : data[k] # 0 \/ k \in torn
        /\ \A k \in DbKeys \ (torn \cup left) : op = NoCall => Marked(k, data[k])
  BY DEF StoreSound, Marked
<1>2. AdbKept /\ acked \subseteq DbKeys BY <1>1 DEF AdbInv, AdbTypes
<1>3. \A k \in DbKeys : KeyKept(k) BY <1>2 DEF AdbKept
<1>4. op = NoCall => \A k \in DbKeys : ~Busy(k) BY DEF Busy
<1> QED BY <1>2, <1>3, <1>4 DEF KeyKept, Exact

(* Wherever the daemon stops and however often, as long as no stop loses a *)
(* block of the tree, the tree has every block that no migration cut short *)
(* left out, a store answered OK left its block unless it or an earlier    *)
(* one of the key failed or was cut short, and without such a store tree   *)
(* and blocks agree: for any keys, versions and numbers of calls and stops *)
(* (adbd.C, libadb.C).                                                     *)
THEOREM StoreSafe == ASSUME AdbAssumption PROVE AdbSpec => []StoreSound
<1>1. AdbInit => AdbInv BY StartAdb
<1>2. AdbInv /\ [AdbNext]_adb => AdbInv'
  <2>1. SUFFICES ASSUME AdbInv, [AdbNext]_adb PROVE AdbInv' OBVIOUS
  <2>2. CASE migrate_getkeys BY <2>1, <2>2, GetkeysAdb
  <2>3. CASE merkle_tree_disk BY <2>1, <2>3, TreeAdb
  <2>4. CASE migrate_tree BY <2>1, <2>4, FillAdb
  <2>5. CASE \E k \in DbKeys, v \in Versions : adb_store(k, v) BY <2>1, <2>5, StoreAdb
  <2>6. CASE del_data BY <2>1, <2>6, DelDataAdb
  <2>7. CASE del_tree BY <2>1, <2>7, DelTreeAdb
  <2>8. CASE kinsert_tree BY <2>1, <2>8, KinsertAdb
  <2>9. CASE addkey BY <2>1, <2>9, AddkeyAdb
  <2>10. CASE insert BY <2>1, <2>10, InsertAdb
  <2>11. CASE Crash BY <2>1, <2>11, CrashAdb
  <2>12. CASE UNCHANGED adb BY <2>1, <2>12, IdleAdb
  <2> QED BY <2>1, <2>2, <2>3, <2>4, <2>5, <2>6, <2>7, <2>8, <2>9, <2>10, <2>11, <2>12 DEF AdbNext, AdbStep
<1>3. AdbInv => StoreSound BY SoundAdb
<1> QED BY <1>1, <1>2, <1>3, PTL DEF AdbSpec

---------------------------------------------------------------------------------
(* The repair queue, which the loops over the jobs of a page fill (AddMany) and *)
(* which is emptied as far as jobs may run (FlushQueue).                        *)

\* A queue that has each block once, and not one that is being repaired.
QueueOK(s) ==
    /\ s.q \in Seq(Range(s.q)) /\ s.queued = {s.q[i].key : i \in DOMAIN s.q}
    /\ \A i, j \in DOMAIN s.q : s.q[i].key = s.q[j].key => i = j
    /\ IsFiniteSet(s.busy) /\ Cardinality(s.busy) <= OUTSTANDING_MAX
    /\ \A a, b \in s.busy : a.key = b.key => a = b
    /\ \A a \in s.busy : a.key \notin s.queued
    /\ DOMAIN s = {"q", "queued", "busy"}
Full(s) == s.q = <<>> \/ Cardinality(s.busy) = OUTSTANDING_MAX

AskOK(a) ==
    /\ DOMAIN a = {"frags", "start", "count", "rep"} /\ a.count \in Int
    /\ a.rep # <<>> => \E m \in Nat : DOMAIN Head(a.rep).blocks = 1..m
RepairInv == QueueOK(Queues) /\ Full(Queues) /\ \A a \in asks : AskOK(a)

\* As many values as places, if no two are the same.
LEMMA CountImage ==
    ASSUME NEW f, NEW S, IsFiniteSet(S), \A x, y \in S : f[x] = f[y] => x = y
    PROVE  /\ IsFiniteSet({f[x] : x \in S})
           /\ Cardinality({f[x] : x \in S}) = Cardinality(S)
<1> DEFINE T == {f[x] : x \in S}
           g == [x \in S |-> f[x]]
<1>1. g \in Bijection(S, T)
  <2>1. g \in [S -> T] /\ \A t \in T : \E x \in S : g[x] = t OBVIOUS
  <2>2. \A x, y \in S : g[x] = g[y] => x = y OBVIOUS
  <2>3. DOMAIN g = S OBVIOUS
  <2> HIDE DEF g, T
  <2> QED BY <2>1, <2>2, <2>3 DEF Bijection, Injection, Surjection, IsInjective
<1>2. ExistsBijection(S, T) BY <1>1 DEF ExistsBijection
<1> HIDE DEF T
<1>3. IsFiniteSet(T) /\ Cardinality(T) = Cardinality(S) BY <1>2, FS_Bijection
<1> QED BY <1>3 DEF T

LEMMA FlushQueue ==
    ASSUME RepairAssumption, NEW s, QueueOK(s)
    PROVE  QueueOK(repair_flush_q(s)) /\ Full(repair_flush_q(s))
<1>1. PICK q : q = s.q OBVIOUS
<1>2. PICK B : B = s.busy OBVIOUS
<1>3. PICK n \in Nat : n = Len(q) /\ DOMAIN q = 1..n /\ q \in Seq(Range(q)) BY <1>1 DEF QueueOK
<1>4. PICK room \in Nat : room = OUTSTANDING_MAX - Cardinality(B)
  <2>1. Cardinality(B) \in Nat /\ Cardinality(B) <= OUTSTANDING_MAX /\ OUTSTANDING_MAX \in Nat
    BY <1>2, FS_CardinalityType DEF QueueOK, RepairAssumption
  <2> QED BY <2>1
<1>5. PICK k : k = IF n < room THEN n ELSE room OBVIOUS
<1>6. k \in Nat /\ k <= n /\ k <= room /\ (k = n \/ k = room) BY <1>3, <1>4, <1>5
<1>7. PICK r : r = SubSeq(q, k + 1, n) OBVIOUS
<1>8. PICK C : C = {q[i] : i \in 1..k} OBVIOUS
<1>9. PICK Q : Q = s.queued \ {q[i].key : i \in 1..k} OBVIOUS
<1>10. repair_flush_q(s) = [q |-> r, queued |-> Q, busy |-> B \cup C]
  BY <1>1, <1>2, <1>3, <1>4, <1>5, <1>7, <1>8, <1>9 DEF repair_flush_q
<1>11. \A i \in 1..k : i \in 1..n BY <1>3, <1>6
<1>12. /\ \A i, j \in 1..n : q[i].key = q[j].key => i = j
       /\ s.queued = {q[i].key : i \in 1..n}
       /\ \A a, b \in B : a.key = b.key => a = b
       /\ \A a \in B, i \in 1..n : a.key # q[i].key
       /\ IsFiniteSet(B)
  BY <1>1, <1>2, <1>3 DEF QueueOK
<1>13. r \in Seq(Range(r)) /\ DOMAIN r = 1..(n - k) /\ \A i \in 1..(n - k) : r[i] = q[k + i]
  <2>1. \A i \in (k + 1)..n : q[i] \in Range(q) BY <1>3, <1>6 DEF Range
  <2>2. k + 1 \in Int /\ n \in Int BY <1>6
  <2>3. /\ r \in Seq(Range(q)) /\ Len(r) = IF k + 1 <= n THEN n - (k + 1) + 1 ELSE 0
        /\ \A i \in 1..(n - (k + 1) + 1) : r[i] = q[(k + 1) + i - 1]
    BY <1>7, <2>1, <2>2, SubSeqProperties
  <2>4. Len(r) = n - k /\ n - (k + 1) + 1 = n - k BY <1>6, <2>3
  <2>5. \A i \in 1..(n - k) : (k + 1) + i - 1 = k + i BY <1>6
  <2>6. r \in Seq(Range(r)) BY <2>3, SeqOfRange
  <2>7. DOMAIN r = 1..(n - k) BY <2>3, <2>4
  <2> QED BY <2>3, <2>4, <2>5, <2>6, <2>7
<1>14. /\ \A i \in 1..(n - k) : k + i \in 1..n /\ k + i \notin 1..k
       /\ \A i \in 1..n : i \in 1..k \/ (i - k \in 1..(n - k) /\ k + (i - k) = i)
       /\ \A i, j \in 1..(n - k) : k + i = k + j => i = j
  BY <1>3, <1>6
<1>15. Q = {r[i].key : i \in DOMAIN r}
  <2>1. \A x \in Q : \E i \in 1..(n - k) : r[i].key = x
    <3>1. SUFFICES ASSUME NEW x \in Q PROVE \E i \in 1..(n - k) : r[i].key = x OBVIOUS
    <3>2. PICK i \in 1..n : q[i].key = x /\ i \notin 1..k BY <1>9, <1>12
    <3> QED BY <1>13, <1>14, <3>2
  <2>2. \A i \in 1..(n - k) : r[i].key \in Q
    <3>1. SUFFICES ASSUME NEW i \in 1..(n - k) PROVE r[i].key \in Q OBVIOUS
    <3>2. r[i] = q[k + i] /\ k + i \in 1..n /\ k + i \notin 1..k BY <1>13, <1>14
    <3>3. \A j \in 1..k : q[j].key # q[k + i].key BY <1>11, <1>12, <3>2
    <3> QED BY <1>9, <1>12, <3>2, <3>3
  <2> QED BY <1>13, <2>1, <2>2
<1>16. \A i, j \in DOMAIN r : r[i].key = r[j].key => i = j BY <1>12, <1>13, <1>14
<1>17. IsFiniteSet(C) /\ Cardinality(C) = k
  <2>1. PICK I : I = 1..k OBVIOUS
  <2>2. IsFiniteSet(I) /\ Cardinality(I) = k BY <1>6, <2>1, FS_Interval
  <2>3. \A i, j \in I : q[i] = q[j] => i = j BY <1>11, <1>12, <2>1
  <2>4. IsFiniteSet({q[i] : i \in I}) /\ Cardinality({q[i] : i \in I}) = Cardinality(I)
    BY ONLY <2>2, <2>3, CountImage
  <2> QED BY <1>8, <2>1, <2>2, <2>4
<1>18. B \cap C = {} BY <1>8, <1>11, <1>12
<1>19. IsFiniteSet(B \cup C) /\ Cardinality(B \cup C) = Cardinality(B) + k
  <2>1. Cardinality(B \cup C) = Cardinality(B) + Cardinality(C) - Cardinality(B \cap C) /\ IsFiniteSet(B \cup C)
    BY <1>12, <1>17, FS_Union
  <2>2. Cardinality(B \cap C) = 0 BY <1>18, FS_EmptySet
  <2>3. Cardinality(B) \in Nat BY <1>12, FS_CardinalityType
  <2> QED BY <1>6, <1>17, <2>1, <2>2, <2>3
<1>20. Cardinality(B) \in Nat /\ OUTSTANDING_MAX \in Nat BY <1>12, FS_CardinalityType DEF RepairAssumption
<1>21. Cardinality(B \cup C) <= OUTSTANDING_MAX /\ (k = room => Cardinality(B \cup C) = OUTSTANDING_MAX)
  BY <1>4, <1>6, <1>19, <1>20
<1>22. \A a, b \in B \cup C : a.key = b.key => a = b BY <1>8, <1>11, <1>12
<1>23. \A a \in B \cup C : a.key \notin Q BY <1>8, <1>9, <1>12
<1>24. QueueOK(repair_flush_q(s))
  <2>1. PICK t : t = repair_flush_q(s) OBVIOUS
  <2>2. t.q = r /\ t.queued = Q /\ t.busy = B \cup C /\ DOMAIN t = {"q", "queued", "busy"} BY <1>10, <2>1
  <2>3. QueueOK(t) BY <1>13, <1>15, <1>16, <1>19, <1>21, <1>22, <1>23, <2>2 DEF QueueOK
  <2> QED BY <2>1, <2>3
<1>25. Full(repair_flush_q(s))
  <2>1. k = n => r = <<>>
    <3>1. k = n => DOMAIN r = 1..0 BY <1>3, <1>13
    <3> QED BY <1>13, <3>1
  <2> QED BY <1>6, <1>10, <1>21, <2>1 DEF Full
<1> QED BY <1>24, <1>25

LEMMA AddOne ==
    ASSUME RepairAssumption, NEW s, NEW j, QueueOK(s), Full(s)
    PROVE  QueueOK(repair_add(s, j)) /\ Full(repair_add(s, j))
<1>1. CASE j.key \in s.queued \cup Running(s) BY <1>1 DEF repair_add
<1>2. CASE j.key \notin s.queued \cup Running(s)
  <2>1. PICK q : q = s.q OBVIOUS
  <2>2. PICK n \in Nat : n = Len(q) /\ DOMAIN q = 1..n /\ q \in Seq(Range(q)) BY <2>1 DEF QueueOK
  <2>3. PICK p : p = Append(q, j) OBVIOUS
  <2>4. PICK Q : Q = s.queued \cup {j.key} OBVIOUS
  <2>5. PICK t : t = [s EXCEPT !.q = Append(@, j), !.queued = @ \cup {j.key}] OBVIOUS
  <2>6. t.q = p /\ t.queued = Q /\ t.busy = s.busy /\ DOMAIN t = {"q", "queued", "busy"}
    BY <2>1, <2>3, <2>4, <2>5 DEF QueueOK
  <2>7. /\ p \in Seq(Range(p)) /\ DOMAIN p = 1..(n + 1) /\ p[n + 1] = j
        /\ \A i \in 1..n : p[i] = q[i]
    <3>1. q \in Seq(Range(q) \cup {j}) /\ j \in Range(q) \cup {j} 
      <4>1. Range(q) \subseteq Range(q) \cup {j} OBVIOUS
      <4> QED BY <2>2, <4>1
    <3>2. p \in Seq(Range(q) \cup {j}) /\ DOMAIN p = 1..(n + 1) /\ p[n + 1] = j /\ \A i \in 1..n : p[i] = q[i]
      BY <2>2, <2>3, <3>1
    <3> QED BY <3>2, SeqOfRange
  <2>8. \A i \in 1..(n + 1) : i \in 1..n \/ i = n + 1 BY <2>2
  <2>9. (\A i \in 1..n : i \in 1..(n + 1)) /\ n + 1 \in 1..(n + 1) BY <2>2
  <2>10. s.queued = {q[i].key : i \in 1..n} /\ \A i, l \in 1..n : q[i].key = q[l].key => i = l
    BY <2>1, <2>2 DEF QueueOK
  <2>11. Q = {p[i].key : i \in DOMAIN p} BY <2>4, <2>7, <2>8, <2>9, <2>10
  <2>12. \A i \in 1..n : q[i].key # j.key BY <1>2, <2>10
  <2>13. \A i, l \in DOMAIN p : p[i].key = p[l].key => i = l BY <2>7, <2>8, <2>10, <2>12
  <2>14. \A a \in s.busy : a.key \notin Q BY <1>2, <2>4 DEF QueueOK, Running
  <2>15. QueueOK(t) BY <2>6, <2>7, <2>11, <2>13, <2>14 DEF QueueOK
  <2>16. repair_add(s, j) = repair_flush_q(t) BY <1>2, <2>5 DEF repair_add
  <2> QED BY <2>15, <2>16, FlushQueue
<1> QED BY <1>1, <1>2

\* Partial results of the loop over jobs, and of the concatenation.
Added(s, js, k, t) ==
    DOMAIN t = 0..k /\ \A i \in 0..k : t[i] = IF i = 0 THEN s ELSE repair_add(t[i - 1], js[i])
Joined(ss, k, t) ==
    DOMAIN t = 1..k /\ \A i \in 1..k : t[i] = IF i = 1 THEN ss[i] ELSE t[i - 1] \o ss[i]

LEMMA AddedExists ==
    ASSUME NEW n \in Nat, NEW s, NEW js PROVE \E t : Added(s, js, n, t)
<1> DEFINE T == {k \in Nat : ~ \E t : Added(s, js, k, t)}
<1>1. SUFFICES ASSUME T # {} PROVE FALSE OBVIOUS
<1>2. PICK k \in T : \A y \in T : k <= y BY <1>1, LeastNat
<1>3. k # 0
  <2>1. Added(s, js, 0, [i \in 0..0 |-> s]) BY DEF Added
  <2> QED BY <2>1
<1>4. PICK t : Added(s, js, k - 1, t) BY <1>2, <1>3
<1>5. PICK u : u = [i \in 0..k |-> IF i = k THEN repair_add(t[k - 1], js[k]) ELSE t[i]] OBVIOUS
<1>6. k \in Nat /\ k >= 1 BY <1>2, <1>3
<1>7. DOMAIN u = 0..k /\ u[k] = repair_add(t[k - 1], js[k]) /\ \A i \in 0..(k - 1) : u[i] = t[i] BY <1>5, <1>6
<1>8. ASSUME NEW i \in 0..k PROVE u[i] = IF i = 0 THEN s ELSE repair_add(u[i - 1], js[i])
  <2>1. i = k \/ i \in 0..(k - 1) BY <1>6
  <2>2. i # 0 => i - 1 \in 0..(k - 1) BY <1>6
  <2>3. i \in 0..(k - 1) => t[i] = IF i = 0 THEN s ELSE repair_add(t[i - 1], js[i]) BY <1>4 DEF Added
  <2> QED BY <1>3, <1>7, <2>1, <2>2, <2>3
<1>9. Added(s, js, k, u) BY <1>7, <1>8 DEF Added
<1> QED BY <1>2, <1>9

LEMMA AddAllIs ==
    ASSUME NEW s, NEW js, Len(js) \in Nat
    PROVE  \E t : Added(s, js, Len(js), t) /\ AddAll(s, js) = t[Len(js)]
<1>0. PICK n \in Nat : n = Len(js) OBVIOUS
<1> DEFINE Eqn(t) == t = [i \in 0..n |-> IF i = 0 THEN s ELSE repair_add(t[i - 1], js[i])]
<1> DEFINE c == CHOOSE t : Eqn(t)
<1>1. PICK t0 : Added(s, js, n, t0) BY AddedExists
<1>2. \E t : Eqn(t)
  <2>0. PICK t1 : t1 = [i \in 0..n |-> t0[i]] OBVIOUS
  <2>1. DOMAIN t1 = 0..n /\ \A i \in 0..n : t1[i] = t0[i] BY <2>0
  <2>2. \A i \in 0..n : i # 0 => i - 1 \in 0..n OBVIOUS
  <2>3. \A i \in 0..n : t1[i] = IF i = 0 THEN s ELSE repair_add(t1[i - 1], js[i])
    BY <1>1, <2>1, <2>2 DEF Added
  <2>4. t1 = [i \in 0..n |-> t1[i]] BY <2>0, <2>1
  <2>5. Eqn(t1) BY <2>3, <2>4
  <2> QED BY <2>5
<1>3. Eqn(c) BY <1>2
<1>4. AddAll(s, js) = c[n] BY <1>0 DEF AddAll
<1>5. Added(s, js, n, c) BY <1>3 DEF Added
<1> QED BY <1>0, <1>4, <1>5

LEMMA AddMany ==
    ASSUME RepairAssumption, NEW s, NEW js, Len(js) \in Nat, QueueOK(s), Full(s)
    PROVE  QueueOK(AddAll(s, js)) /\ Full(AddAll(s, js))
<1>1. PICK n \in Nat : n = Len(js) OBVIOUS
<1>2. PICK t : Added(s, js, n, t) /\ AddAll(s, js) = t[n] BY <1>1, AddAllIs
<1> DEFINE T == {k \in Nat : k <= n /\ ~(QueueOK(t[k]) /\ Full(t[k]))}
<1>3. ASSUME T # {} PROVE FALSE
  <2>1. PICK k \in T : \A y \in T : k <= y BY <1>3, LeastNat
  <2>2. k # 0 BY <1>2, <2>1 DEF Added
  <2>3. k - 1 \in Nat /\ k - 1 <= n /\ k - 1 \notin T /\ k \in 0..n BY <2>1, <2>2
  <2>4. QueueOK(t[k - 1]) /\ Full(t[k - 1]) BY <2>3
  <2>5. t[k] = repair_add(t[k - 1], js[k]) BY <1>2, <2>2, <2>3 DEF Added
  <2>6. QueueOK(t[k]) /\ Full(t[k]) BY <2>4, <2>5, AddOne
  <2> QED BY <2>1, <2>6
<1>4. n \notin T BY <1>3
<1> QED BY <1>2, <1>4

\* A sequence of sequences makes a sequence.
LEMMA JoinedExists ==
    ASSUME NEW n \in Nat, NEW ss PROVE \E t : Joined(ss, n, t)
<1> DEFINE T == {k \in Nat : ~ \E t : Joined(ss, k, t)}
<1>1. SUFFICES ASSUME T # {} PROVE FALSE OBVIOUS
<1>2. PICK k \in T : \A y \in T : k <= y BY <1>1, LeastNat
<1>3. k # 0
  <2>1. Joined(ss, 0, [i \in 1..0 |-> 0]) BY DEF Joined
  <2> QED BY <2>1
<1>4. PICK t : Joined(ss, k - 1, t) BY <1>2, <1>3
<1>5. PICK v : v = IF k = 1 THEN ss[k] ELSE t[k - 1] \o ss[k] OBVIOUS
<1>6. PICK u : u = [i \in 1..k |-> IF i = k THEN v ELSE t[i]] OBVIOUS
<1>7. k \in Nat /\ k >= 1 BY <1>2, <1>3
<1>8. DOMAIN u = 1..k /\ u[k] = v /\ \A i \in 1..(k - 1) : u[i] = t[i] BY <1>6, <1>7
<1>9. ASSUME NEW i \in 1..k PROVE u[i] = IF i = 1 THEN ss[i] ELSE u[i - 1] \o ss[i]
  <2>1. i = k \/ i \in 1..(k - 1) BY <1>7
  <2>2. i # 1 => i - 1 \in 1..(k - 1) BY <1>7
  <2>3. i \in 1..(k - 1) => t[i] = IF i = 1 THEN ss[i] ELSE t[i - 1] \o ss[i] BY <1>4 DEF Joined
  <2> QED BY <1>5, <1>8, <2>1, <2>2, <2>3
<1>10. Joined(ss, k, u) BY <1>8, <1>9 DEF Joined
<1> QED BY <1>2, <1>10

LEMMA FlattenType ==
    ASSUME NEW S, NEW ss, Len(ss) \in Nat, \A i \in 1..Len(ss) : ss[i] \in Seq(S), Len(ss) = 0 => ss \in Seq(S)
    PROVE  FlattenSeq(ss) \in Seq(S)
<1>1. PICK n \in Nat : n = Len(ss) OBVIOUS
<1>2. CASE n = 0 BY <1>1, <1>2 DEF FlattenSeq
<1>3. CASE n # 0
  <2> DEFINE Eqn(t) == t = [i \in 1..n |-> IF i = 1 THEN ss[i] ELSE t[i - 1] \o ss[i]]
             c == CHOOSE t : Eqn(t)
  <2>1. PICK t0 : Joined(ss, n, t0) BY JoinedExists
  <2>2. \E t : Eqn(t)
    <3>0. PICK t1 : t1 = [i \in 1..n |-> t0[i]] OBVIOUS
    <3>1. DOMAIN t1 = 1..n /\ \A i \in 1..n : t1[i] = t0[i] BY <3>0
    <3>2. \A i \in 1..n : i # 1 => i - 1 \in 1..n OBVIOUS
    <3>3. \A i \in 1..n : t1[i] = IF i = 1 THEN ss[i] ELSE t1[i - 1] \o ss[i]
      BY <2>1, <3>1, <3>2 DEF Joined
    <3>4. t1 = [i \in 1..n |-> t1[i]] BY <3>0, <3>1
    <3>5. Eqn(t1) BY <3>3, <3>4
    <3> QED BY <3>5
  <2>3. Eqn(c) BY <2>2
  <2>4. FlattenSeq(ss) = c[n] BY ZenonT(30), <1>1, <1>3 DEF FlattenSeq
  <2>5. \A i \in 1..n : c[i] = IF i = 1 THEN ss[i] ELSE c[i - 1] \o ss[i] BY <2>3
  <2> HIDE DEF c
  <2> DEFINE T == {k \in Nat : k \in 1..n /\ c[k] \notin Seq(S)}
  <2>6. ASSUME T # {} PROVE FALSE
    <3>1. PICK k \in T : \A y \in T : k <= y BY <2>6, LeastNat
    <3>2. k # 1 BY <1>1, <2>5, <3>1
    <3>3. k - 1 \in Nat /\ k - 1 \in 1..n /\ k - 1 \notin T /\ k \in 1..n BY <3>1, <3>2
    <3>4. c[k - 1] \in Seq(S) /\ ss[k] \in Seq(S) BY <1>1, <3>3
    <3>5. c[k] = c[k - 1] \o ss[k] BY <2>5, <3>2, <3>3
    <3>6. c[k - 1] \o ss[k] \in Seq(S) BY <3>4
    <3> QED BY <3>1, <3>5, <3>6
  <2>7. n \in 1..n /\ n \notin T BY <1>3, <2>6
  <2> QED BY <2>4, <2>7
<1> QED BY <1>2, <1>3

\* What a page of blocks makes is a sequence of jobs.
LEMMA JobsType ==
    ASSUME RepairAssumption, NEW x
    PROVE  jobs(x) \in Seq({job(x.k, n) : n \in Node})
<1> DEFINE J == {job(x.k, n) : n \in Node}
<1>0. NSUCC \in Nat /\ NREPLICA \in Nat \ {0} BY DEF RepairAssumption
<1>1. \A n \in Node : job(x.k, n) \in J OBVIOUS
<1>2. 0 \in Node BY <1>0 DEF Node
<1> HIDE DEF J
<1>3. <<>> \in Seq(J) OBVIOUS
<1>4. \A n \in Node : <<job(x.k, n)>> \in Seq(J) /\ <<job(x.k, 0), job(x.k, n)>> \in Seq(J) BY <1>1, <1>2
<1>5. chash_jobs(x) \in Seq(J)
  <2> DEFINE M == {n \in Node : n \notin x.on}
             c == CHOOSE n \in M : \A m \in M : n <= m
  <2>1. CASE M = {} BY <1>3, <2>1 DEF chash_jobs
  <2>2. CASE M # {}
    <3>1. M \in SUBSET Nat BY <1>0 DEF Node
    <3>2. \E n \in M : \A m \in M : n <= m
      <4> HIDE DEF M
      <4> QED BY <2>2, <3>1, LeastNat
    <3>3. c \in M BY <3>2
    <3>4. c \in Node BY <3>3
    <3>5. chash_jobs(x) = <<job(x.k, c)>> BY <2>2 DEF chash_jobs
    <3> QED BY <1>4, <3>4, <3>5
  <2> QED BY <2>1, <2>2
<1>6. \A n \in Node : real_repair(x, n) \in Seq(J) BY <1>2, <1>3, <1>4 DEF real_repair
<1>7. replicated_jobs(x) \in Seq(J)
  <2>1. PICK m : m = IF NREPLICA - 1 < NSUCC THEN NREPLICA - 1 ELSE NSUCC OBVIOUS
  <2>2. m \in Nat /\ \A n \in 1..m : n \in Node BY <1>0, <2>1 DEF Node
  <2>3. PICK ss : ss = [n \in 1..m |-> real_repair(x, n)] OBVIOUS
  <2>4. \A n \in 1..m : ss[n] \in Seq(J) BY <1>6, <2>2, <2>3
  <2>5. ss \in [1..m -> Seq(J)] BY <2>3, <2>4
  <2>6. ss \in Seq(Seq(J)) /\ Len(ss) = m BY <2>2, <2>3, <2>5
  <2>7. m = 0 => ss \in Seq(J)
    <3>1. m = 0 => ss \in [1..0 -> J] BY <2>3
    <3> QED BY <3>1, SeqDef
  <2>8. FlattenSeq(ss) \in Seq(J) BY <2>2, <2>4, <2>6, <2>7, FlattenType
  <2>9. 0 \in x.on => replicated_jobs(x) = FlattenSeq(ss) BY <2>1, <2>3 DEF replicated_jobs
  <2>10. 0 \notin x.on => replicated_jobs(x) = <<job(x.k, 0)>> BY DEF replicated_jobs
  <2> QED BY <1>2, <1>4, <2>8, <2>9, <2>10
<1> QED BY <1>5, <1>7 DEF jobs, J

\* A page has as many blocks as were found.
LEMMA PageLength ==
    ASSUME NEW vbs, NEW x, NEW from, NEW stop, NEW count \in Int
    PROVE  \E m \in Nat : DOMAIN DB!do_getblockrange(vbs, x, from, stop, count).blocks = 1..m
<1>1. ASSUME NEW K
      PROVE  \E m \in Nat : DOMAIN DB!getblockrange_all(K, from, stop, count).blocks = 1..m
  <2> DEFINE ring == DB!sorted({k \in K : k >= from}) \o DB!sorted({k \in K : k < from})
             nth(i) == IF i = 0 THEN from ELSE ring[((i - 1) % Len(ring)) + 1]
             taken == {i \in 1 .. count : ring # <<>> /\ \A j \in 1 .. i :
                                        DB!Id!betweenrightincl(nth(j - 1), stop, nth(j))}
  <2>0. DB!Cardinality(taken) = Cardinality(taken) BY DEF DB!Cardinality, Cardinality
  <2>1. DB!getblockrange_all(K, from, stop, count).blocks = [i \in 1 .. DB!Cardinality(taken) |-> nth(i)]
    BY DEF DB!getblockrange_all
  <2>2. taken \subseteq 1..count OBVIOUS
  <2>3. IsFiniteSet(1..count) BY FS_Interval
  <2> HIDE DEF taken, nth
  <2>4. Cardinality(taken) \in Nat BY <2>2, <2>3, FS_Subset, FS_CardinalityType
  <2> QED BY <2>0, <2>1, <2>4
<1>2. PICK K : DB!do_getblockrange(vbs, x, from, stop, count) = DB!getblockrange_all(K, from, stop, count)
  BY DEF DB!do_getblockrange, DB!getblockrange_extant
<1> QED BY <1>1, <1>2

\* What SetQueues sets.
LEMMA QueuesSet ==
    ASSUME NEW s, QueueOK(s), Full(s), SetQueues(s)
    PROVE  (QueueOK(Queues) /\ Full(Queues))'
<1>1. PICK t : t = [q |-> s.q, queued |-> s.queued, busy |-> s.busy] OBVIOUS
<1>2. t.q = s.q /\ t.queued = s.queued /\ t.busy = s.busy /\ DOMAIN t = {"q", "queued", "busy"} BY <1>1
<1>3. QueueOK(t) /\ Full(t) BY <1>2 DEF QueueOK, Full
<1>4. Queues' = t BY <1>1 DEF Queues, SetQueues
<1>5. (QueueOK(Queues))' <=> QueueOK(Queues') BY DEF QueueOK
<1>6. (Full(Queues))' <=> Full(Queues') BY DEF Full
<1> QED BY <1>3, <1>4, <1>5, <1>6

LEMMA CountQueued == ASSUME NEW s, QueueOK(s) PROVE Cardinality(s.queued) = Len(s.q) /\ Len(s.q) \in Nat
<1>1. PICK q : q = s.q OBVIOUS
<1>2. PICK n \in Nat : n = Len(q) /\ DOMAIN q = 1..n BY <1>1 DEF QueueOK
<1>3. PICK I : I = 1..n OBVIOUS
<1>4. PICK f : f = [i \in I |-> q[i].key] OBVIOUS
<1>5. \A i \in I : f[i] = q[i].key BY <1>4
<1>6. IsFiniteSet(I) /\ Cardinality(I) = n
  <2>1. 1 \in Int /\ n \in Int /\ n \in Nat BY <1>2
  <2>2. IsFiniteSet(1..n) /\ Cardinality(1..n) = IF 1 > n THEN 0 ELSE n - 1 + 1 BY <2>1, FS_Interval
  <2> QED BY <1>3, <2>1, <2>2
<1>7. \A i, j \in I : f[i] = f[j] => i = j BY <1>1, <1>2, <1>3, <1>5 DEF QueueOK
<1>8. Cardinality({f[i] : i \in I}) = Cardinality(I) BY ONLY <1>6, <1>7, CountImage
<1>9. s.queued = {f[i] : i \in I} BY <1>1, <1>2, <1>3, <1>5 DEF QueueOK
<1> QED BY <1>1, <1>2, <1>6, <1>8, <1>9

LEMMA NewAsk == ASSUME RepairAssumption, NEW s, QueueOK(s), NEW x, NEW y
                PROVE  AskOK(Ask(x, y, QUEUE_MAX - Cardinality(s.queued)))
<1>1. QUEUE_MAX - Cardinality(s.queued) \in Int BY CountQueued DEF RepairAssumption
<1> QED BY <1>1 DEF AskOK, Ask

LEMMA StepRepair == ASSUME RepairAssumption, RepairInv, [RepairNext]_repair PROVE RepairInv'
<1>1. QueueOK(Queues) /\ Full(Queues) /\ \A a \in asks : AskOK(a) BY DEF RepairInv
<1>2. ASSUME UNCHANGED <<repair_q, queued, inprogress>>
      PROVE  (QueueOK(Queues) /\ Full(Queues))'
  <2>1. SetQueues(Queues) BY <1>2 DEF SetQueues, Queues
  <2> QED BY <1>1, <2>1, QueuesSet
<1>3. ASSUME NEW j \in inprogress, Finish(j)
      PROVE  (QueueOK(Queues) /\ Full(Queues))'
  <2>1. PICK s : s = [Queues EXCEPT !.busy = @ \ {j}] OBVIOUS
  <2>2. /\ s.q = repair_q /\ s.queued = queued /\ s.busy = inprogress \ {j}
        /\ DOMAIN s = {"q", "queued", "busy"} BY <2>1 DEF Queues
  <2>3. Queues.q = repair_q /\ Queues.queued = queued /\ Queues.busy = inprogress BY DEF Queues
  <2>4. IsFiniteSet(inprogress) /\ Cardinality(inprogress) \in Nat /\ Cardinality(inprogress) <= OUTSTANDING_MAX
    BY <1>1, <2>3, FS_CardinalityType DEF QueueOK
  <2>5. IsFiniteSet(inprogress \ {j}) /\ Cardinality(inprogress \ {j}) = Cardinality(inprogress) - 1
    BY <2>4, FS_RemoveElement
  <2>6. Cardinality(inprogress \ {j}) <= OUTSTANDING_MAX BY <2>4, <2>5 DEF RepairAssumption
  <2>7. QueueOK(s) BY <1>1, <2>2, <2>3, <2>5, <2>6 DEF QueueOK
  <2>8. QueueOK(repair_flush_q(s)) /\ Full(repair_flush_q(s)) BY <2>7, FlushQueue
  <2>9. SetQueues(repair_flush_q(s)) BY <1>3, <2>1 DEF Finish
  <2> QED BY <2>8, <2>9, QueuesSet
<1>4. CASE repair_timer
  <2>1. (QueueOK(Queues) /\ Full(Queues))'
    <3>1. QueueOK(repair_flush_q(Queues)) /\ Full(repair_flush_q(Queues)) BY <1>1, FlushQueue
    <3>2. SetQueues(repair_flush_q(Queues)) BY <1>4 DEF repair_timer
    <3> QED BY <3>1, <3>2, QueuesSet
  <2>2. AskOK(First(Queues)) BY <1>1, NewAsk DEF First
  <2>3. asks' \subseteq asks \cup {First(Queues)} BY <1>4 DEF repair_timer
  <2> QED BY <1>1, <2>1, <2>2, <2>3 DEF RepairInv, AskOK
<1>5. CASE \E a \in asks : getblockrange(a)
  <2>1. PICK a \in asks : getblockrange(a) BY <1>5
  <2>2. PICK r : r = DB!do_getblockrange(bs, a.frags, a.start, Self, a.count) OBVIOUS
  <2>3. PICK p : p = [blocks |-> [i \in DOMAIN r.blocks |-> block_info(r.blocks[i])], complete |-> r.complete]
    OBVIOUS
  <2>4. PICK b : b = [a EXCEPT !.rep = <<p>>] OBVIOUS
  <2>5. asks' = (asks \ {a}) \cup {b} BY <2>1, <2>2, <2>3, <2>4 DEF getblockrange
  <2>6. DOMAIN a = {"frags", "start", "count", "rep"} /\ a.count \in Int BY <1>1 DEF AskOK
  <2>7. PICK m \in Nat : DOMAIN r.blocks = 1..m BY <2>2, <2>6, PageLength
  <2>8. DOMAIN p.blocks = 1..m BY <2>3, <2>7
  <2>9. DOMAIN b = DOMAIN a /\ b.count = a.count /\ b.rep = <<p>> BY <2>4, <2>6
  <2>10. Head(b.rep) = p BY <2>9
  <2>11. AskOK(b) BY <2>6, <2>8, <2>9, <2>10 DEF AskOK
  <2>12. (QueueOK(Queues) /\ Full(Queues))' BY <1>2, <2>1 DEF getblockrange
  <2> QED BY <1>1, <2>5, <2>11, <2>12 DEF RepairInv, AskOK
<1>6. CASE \E a \in asks : localqueue(a)
  <2>1. PICK a \in asks : localqueue(a) BY <1>6
  <2>2. PICK r : r = Head(a.rep) OBVIOUS
  <2>3. PICK m \in Nat : DOMAIN r.blocks = 1..m BY <1>1, <2>1, <2>2 DEF AskOK, localqueue
  <2>4. PICK ss : ss = [i \in DOMAIN r.blocks |-> jobs(r.blocks[i])] OBVIOUS
  <2>5. PICK J : J = UNION {{job(r.blocks[i].k, n) : n \in Node} : i \in 1..m} OBVIOUS
  <2>6. ASSUME NEW i \in 1..m PROVE ss[i] \in Seq(J)
    <3>1. PICK X : X = {job(r.blocks[i].k, n) : n \in Node} OBVIOUS
    <3>2. ss[i] \in Seq(X) BY <2>3, <2>4, <3>1, JobsType
    <3>3. X \subseteq J BY <2>5, <3>1
    <3> QED BY <3>2, <3>3
  <2>7. ss \in [1..m -> Seq(J)] BY <2>3, <2>4, <2>6
  <2>8. Len(ss) = m BY <2>3, <2>4, <2>7
  <2>9. m = 0 => ss \in Seq(J)
    <3>1. m = 0 => ss \in [1..0 -> J] BY <2>3, <2>4
    <3> QED BY <3>1, SeqDef
  <2>10. FlattenSeq(ss) \in Seq(J) BY <2>6, <2>8, <2>9, FlattenType
  <2>11. Len(FlattenSeq(ss)) \in Nat BY <2>10
  <2>12. PICK s : s = AddAll(Queues, FlattenSeq(ss)) OBVIOUS
  <2>13. QueueOK(s) /\ Full(s) BY <1>1, <2>11, <2>12, AddMany
  <2>14. SetQueues(s) BY <2>1, <2>2, <2>4, <2>12 DEF localqueue
  <2>15. \E x, y : asks' \subseteq (asks \ {a}) \cup {Ask(x, y, QUEUE_MAX - Cardinality(s.queued))}
    BY <2>1, <2>2, <2>4, <2>12 DEF localqueue
  <2>16. \A b \in asks' : AskOK(b) BY <1>1, <2>13, <2>15, NewAsk
  <2>17. (QueueOK(Queues) /\ Full(Queues))' BY <2>13, <2>14, QueuesSet
  <2> QED BY <2>16, <2>17 DEF RepairInv, AskOK
<1>7. CASE \E j \in inprogress : rjchash(j) \/ rjrep(j) \/ JobFails(j) \/ StoreFails(j)
  <2>1. PICK j \in inprogress : rjchash(j) \/ rjrep(j) \/ JobFails(j) \/ StoreFails(j) BY <1>7
  <2>2. Finish(j) /\ UNCHANGED asks BY <2>1 DEF rjchash, rjrep, JobFails, StoreFails
  <2>3. (QueueOK(Queues) /\ Full(Queues))' BY <1>3, <2>2
  <2> QED BY <1>1, <2>2, <2>3 DEF RepairInv, AskOK
<1>8. CASE (\E b \in BlockKeys, n \in Node : Sync(b, n) \/ Lose(b, n)) \/ UNCHANGED repair
  <2>1. UNCHANGED <<repair_q, queued, inprogress, asks>> BY <1>8 DEF Sync, Lose, repair
  <2>2. (QueueOK(Queues) /\ Full(Queues))' BY <1>2, <2>1
  <2> QED BY <1>1, <2>1, <2>2 DEF RepairInv, AskOK
<1> QED BY <1>4, <1>5, <1>6, <1>7, <1>8 DEF RepairNext

(* The queue and its index say the same, no block is queued or repaired    *)
(* twice, no more jobs run than may, and none waits while one more could   *)
(* run: for any blocks, successors and limits, whatever jobs and nodes     *)
(* fail (repair_add, repair_flush_q, repair_done, localqueue).             *)
THEOREM QueueSafe == ASSUME RepairAssumption PROVE RepairSpec => []QueueRight
<1>1. RepairInit => RepairInv
  <2>1. SUFFICES ASSUME RepairInit PROVE RepairInv OBVIOUS
  <2>2. Queues.q = <<>> /\ Queues.queued = {} /\ Queues.busy = {} /\ DOMAIN Queues = {"q", "queued", "busy"}
    BY <2>1 DEF RepairInit, Queues
  <2>3. IsFiniteSet({}) /\ Cardinality({}) = 0 BY FS_EmptySet
  <2>4. QueueOK(Queues) BY <2>2, <2>3 DEF QueueOK, RepairAssumption
  <2> QED BY <2>1, <2>2, <2>4 DEF RepairInv, RepairInit, Full
<1>2. RepairInv /\ [RepairNext]_repair => RepairInv' BY StepRepair
<1>3. RepairInv => QueueRight
  <2>1. SUFFICES ASSUME RepairInv PROVE QueueRight OBVIOUS
  <2>2. Queues.q = repair_q /\ Queues.queued = queued /\ Queues.busy = inprogress BY DEF Queues
  <2>3. QueueOK(Queues) /\ Full(Queues) BY <2>1 DEF RepairInv
  <2>4. Cardinality(queued) = Len(repair_q) BY <2>2, <2>3, CountQueued
  <2>5. Cardinality({j.key : j \in inprogress}) = Cardinality(inprogress)
    <3>1. PICK f : f = [j \in inprogress |-> j.key] OBVIOUS
    <3>2. \A j \in inprogress : f[j] = j.key BY <3>1
    <3>3. IsFiniteSet(inprogress) /\ \A x, y \in inprogress : f[x] = f[y] => x = y BY <2>2, <2>3, <3>2 DEF QueueOK
    <3>4. Cardinality({f[j] : j \in inprogress}) = Cardinality(inprogress) BY ONLY <3>3, CountImage
    <3>5. {f[j] : j \in inprogress} = {j.key : j \in inprogress} BY <3>2
    <3> QED BY <3>4, <3>5
  <2>6. queued \cap {j.key : j \in inprogress} = {} BY <2>2, <2>3 DEF QueueOK
  <2> QED BY <2>2, <2>3, <2>4, <2>5, <2>6 DEF QueueRight, QueueOK, Full
<1> QED BY <1>1, <1>2, <1>3, PTL DEF RepairSpec
================================================================================
