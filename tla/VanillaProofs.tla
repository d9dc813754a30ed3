---------------------------- MODULE VanillaProofs ----------------------------
(* The exec phase of VanillaXGossip is right for any number of peers, rounds  *)
(* and signatures: whatever the DHT loses, copies or delivers late, no list   *)
(* ever leaves the range of the peers' own counts, and without such faults    *)
(* the exchange conserves mass.                                               *)
EXTENDS VanillaGossip, ListLemmas

-------------------------------------------------------------------------------
(* The inductive invariant.                                                   *)

\* Messages and store requests that carry a list in G.
Msg(G) == [src : Peer, seq : 0..(rounds - 1), list : G]
Req(G) == [to : Peer, msg : Msg(G)]

\* Every list, held or under way, is in G; a peer awaits at most one insert,
\* that of the round it is in, with the list it has kept.
Shape(G) ==
    /\ totalT \in [Peer -> Seq(G)] /\ \A p \in Peer : totalT[p] # <<>>
    /\ txseq \in [Peer -> 0..(rounds + 1)]
    /\ gossipdone \in [Peer -> BOOLEAN]
    /\ insert \in [Peer -> SUBSET Req(G)]
    /\ stores \in SUBSET Req(G)
    /\ gsock \in [Peer -> SUBSET Msg(G)]
    /\ faults \in Nat
    /\ \A p \in Peer : \A r \in insert[p] :
          /\ insert[p] = {r}
          /\ r.msg.src = p /\ r.msg.seq = txseq[p] /\ r.msg.list = totalT[p][1]
          /\ ~gossipdone[p] /\ txseq[p] < rounds
    /\ \A p \in Peer : ~gossipdone[p] => txseq[p] <= rounds

\* The merges still to come: one for every round a peer has not begun.
Left == [p \in Peer |-> IF gossipdone[p] THEN 0
                        ELSE rounds - txseq[p] - (IF insert[p] = {} THEN 0 ELSE 1)]
MergesLeft == SumTo(N, Left)

\* lo and hi bound the documents of every peer.
Bounds(lo, hi) ==
    /\ lo \in [Sig -> Nat] /\ hi \in [Sig -> Nat]
    /\ \A s \in Sig : \A p \in Peer : lo[s] <= Docs[p][s] /\ Docs[p][s] <= hi[s]

\* All masses can still be halved as often as there are merges left.
Inv(half, lo, hi) ==
    /\ MergesLeft \in 0..(N * rounds)
    /\ Shape(Good(half[MergesLeft], lo, hi))

-------------------------------------------------------------------------------
(* Steps.                                                                     *)

\* A successor on the ring is a peer.
LEMMA SuccPeer == \A p \in Peer, k \in Nat : succ(p, k) \in Peer
<1> SUFFICES ASSUME NEW p \in Peer, NEW k \in Nat PROVE succ(p, k) \in Peer OBVIOUS
<1>1. N \in Nat \ {0} BY VanillaAssumption
<1>2. p - 1 + k \in Nat BY <1>1 DEF Peer
<1>3. (p - 1 + k) % N \in 0..(N - 1) BY <1>1, <1>2
<1> QED BY <1>1, <1>3 DEF succ, Peer

\* Sending keeps every list in H, where merging takes G to H.
LEMMA GossipShape ==
    ASSUME NEW G, NEW H, G \subseteq H,
           \A Ts \in Seq(G) : Ts # <<>> => \E L \in H : mergelists(Ts) = <<L>>,
           Shape(G), NEW p \in Peer, GossipRound(p)
    PROVE  Shape(H)'
<1>1. rounds \in Nat BY VanillaAssumption
<1>2. totalT[p] \in Seq(G) /\ totalT[p] # <<>> BY DEF Shape
<1>3. PICK L \in H : mergelists(totalT[p]) = <<L>> BY <1>2
<1>4. totalT' = [totalT EXCEPT ![p] = <<L>>] BY <1>3 DEF GossipRound
<1>5. totalT'[p] = <<L>> /\ totalT'[p][1] = L
  <2>1. p \in DOMAIN totalT BY DEF Shape
  <2> QED BY <1>4, <2>1
<1>6. PICK q \in Peer : insert' = [insert EXCEPT ![p] = {Request(q, p, totalT'[p][1])}]
  BY DEF GossipRound
<1>7. txseq[p] \in 0..(rounds - 1) /\ ~gossipdone[p] /\ insert[p] = {}
  <2>1. ~gossipdone[p] /\ txseq[p] # rounds /\ insert[p] = {} BY DEF GossipRound
  <2>2. txseq[p] \in 0..(rounds + 1) /\ txseq[p] <= rounds BY <2>1 DEF Shape
  <2> QED BY <1>1, <2>1, <2>2
<1>8. PICK r : r = [to |-> q, msg |-> [src |-> p, seq |-> txseq[p], list |-> L]] OBVIOUS
<1>9. insert' = [insert EXCEPT ![p] = {r}] BY <1>5, <1>6, <1>8 DEF Request
<1>10. r \in Req(H) BY <1>7, <1>8 DEF Req, Msg
<1>11. Msg(G) \subseteq Msg(H) BY DEF Msg
<1>12. Req(G) \subseteq Req(H) BY <1>11 DEF Req
<1>13. UNCHANGED <<txseq, gossipdone, stores, gsock, faults>> BY DEF GossipRound
<1>14. totalT' \in [Peer -> Seq(H)]
  <2>1. <<L>> \in Seq(H) OBVIOUS
  <2>2. Seq(G) \subseteq Seq(H) BY SeqLarger
  <2>3. totalT \in [Peer -> Seq(H)] BY <2>2 DEF Shape
  <2> QED BY <1>4, <2>1, <2>3
<1>15. \A x \in Peer : totalT'[x] # <<>>
  <2>1. <<L>> # <<>> OBVIOUS
  <2> QED BY <1>4, <2>1 DEF Shape
<1>16. insert' \in [Peer -> SUBSET Req(H)]
  <2>1. insert \in [Peer -> SUBSET Req(H)] BY <1>12 DEF Shape
  <2> QED BY <1>9, <1>10, <2>1
<1>17. stores' \in SUBSET Req(H) /\ gsock' \in [Peer -> SUBSET Msg(H)] BY <1>11, <1>12, <1>13 DEF Shape
<1>18. ASSUME NEW x \in Peer, NEW y \in insert'[x]
       PROVE  /\ insert'[x] = {y}
              /\ y.msg.src = x /\ y.msg.seq = txseq'[x] /\ y.msg.list = totalT'[x][1]
              /\ ~gossipdone'[x] /\ txseq'[x] < rounds
  <2>1. CASE x = p
    <3>1. insert'[x] = {r} BY <1>9, <2>1 DEF Shape
    <3>2. y = r BY <3>1
    <3>3. y.msg.src = x /\ y.msg.seq = txseq[x] /\ y.msg.list = L BY <1>8, <2>1, <3>2
    <3> QED BY <1>1, <1>5, <1>7, <1>13, <2>1, <3>1, <3>2, <3>3
  <2>2. CASE x # p
    <3>1. insert'[x] = insert[x] /\ totalT'[x] = totalT[x] BY <1>4, <1>9, <2>2 DEF Shape
    <3> QED BY <1>13, <3>1 DEF Shape
  <2> QED BY <2>1, <2>2
<1> QED BY <1>13, <1>14, <1>15, <1>16, <1>17, <1>18 DEF Shape

\* The end of a round, whether the merged list is kept or doubled.
LEMMA EndShape ==
    ASSUME NEW G, Shape(G), NEW p \in Peer, insert[p] # {}, EndRound(p),
           NEW L \in G, totalT' = totalT \/ totalT' = [totalT EXCEPT ![p][1] = L],
           UNCHANGED gossipdone, stores' \in SUBSET Req(G), gsock' \in [Peer -> SUBSET Msg(G)],
           faults' \in Nat
    PROVE  Shape(G)'
<1>1. rounds \in Nat BY VanillaAssumption
<1>2. totalT \in [Peer -> Seq(G)] /\ totalT[p] \in Seq(G) /\ totalT[p] # <<>> BY DEF Shape
<1>3. PICK Ts : Ts = [totalT[p] EXCEPT ![1] = L] OBVIOUS
<1>4. Ts \in Seq(G) /\ Ts # <<>> BY <1>2, <1>3
<1>5. totalT' = totalT \/ totalT' = [totalT EXCEPT ![p] = Ts] BY <1>3
<1>6. totalT' \in [Peer -> Seq(G)] BY <1>2, <1>4, <1>5
<1>7. \A x \in Peer : totalT'[x] # <<>> BY <1>2, <1>4, <1>5 DEF Shape
<1>8. \A x \in Peer : x # p => totalT'[x] = totalT[x] BY <1>2, <1>5
<1>9. /\ txseq' = [txseq EXCEPT ![p] = @ + 1]
      /\ insert' = [insert EXCEPT ![p] = {}]
  BY DEF EndRound
<1>10. txseq[p] < rounds /\ txseq[p] \in 0..(rounds + 1) BY DEF Shape
<1>11. txseq' \in [Peer -> 0..(rounds + 1)]
  <2>1. txseq[p] + 1 \in 0..(rounds + 1) BY <1>1, <1>10
  <2> QED BY <1>9, <2>1 DEF Shape
<1>12. insert' \in [Peer -> SUBSET Req(G)] BY <1>9 DEF Shape
<1>13. ASSUME NEW x \in Peer, NEW y \in insert'[x]
       PROVE  /\ insert'[x] = {y}
              /\ y.msg.src = x /\ y.msg.seq = txseq'[x] /\ y.msg.list = totalT'[x][1]
              /\ ~gossipdone'[x] /\ txseq'[x] < rounds
  <2>1. x # p BY <1>9, <1>13 DEF Shape
  <2>2. insert'[x] = insert[x] /\ txseq'[x] = txseq[x] /\ totalT'[x] = totalT[x]
    BY <1>8, <1>9, <2>1 DEF Shape
  <2> QED BY <2>2 DEF Shape
<1>14. \A x \in Peer : ~gossipdone'[x] => txseq'[x] <= rounds
  <2>1. SUFFICES ASSUME NEW x \in Peer, ~gossipdone[x] PROVE txseq'[x] <= rounds OBVIOUS
  <2>2. CASE x = p
    <3>1. txseq'[p] = txseq[p] + 1 BY <1>9 DEF Shape
    <3> QED BY <1>1, <1>10, <2>2, <3>1
  <2>3. CASE x # p
    <3>1. txseq'[x] = txseq[x] BY <1>9, <2>3 DEF Shape
    <3> QED BY <2>1, <3>1 DEF Shape
  <2> QED BY <2>2, <2>3
<1> QED BY <1>6, <1>7, <1>11, <1>12, <1>13, <1>14 DEF Shape

\* A failed message is consumed into a list of G.
LEMMA ConsumeList ==
    ASSUME NEW G, Shape(G), \A T \in G : multiplyfreq(T) \in G, NEW p \in Peer, ConsumeFailed(p)
    PROVE  \E L \in G : totalT' = totalT \/ totalT' = [totalT EXCEPT ![p][1] = L]
<1>1. totalT \in [Peer -> Seq(G)] /\ totalT[p] \in Seq(G) /\ totalT[p] # <<>> BY DEF Shape
<1>2. totalT[p][1] \in G BY <1>1
<1>3. PICK L \in G : L = multiplyfreq(totalT[p][1]) BY <1>2
<1>4. totalT' = totalT \/ totalT' = [totalT EXCEPT ![p][1] = L] BY <1>3 DEF ConsumeFailed
<1> QED BY <1>4

\* Every other step keeps every list in G.
LEMMA OtherShape ==
    ASSUME NEW G, \A T \in G : multiplyfreq(T) \in G, Shape(G), [Next]_vars,
           ~ \E p \in Peer : GossipRound(p)
    PROVE  Shape(G)'
<1>0. rounds \in Nat /\ MaxFaults \in Nat /\ NumPut \in Nat BY VanillaAssumption
<1>1. ASSUME NEW p \in Peer, QuietRound(p) PROVE Shape(G)'
  <2>1. PICK Ts : Ts = <<totalT[p][1]>> OBVIOUS
  <2>2. totalT[p] \in Seq(G) /\ totalT[p] # <<>> BY DEF Shape
  <2>3. Ts \in Seq(G) /\ Ts # <<>> /\ Ts[1] = totalT[p][1] BY <2>1, <2>2
  <2>4. /\ insert[p] = {}
        /\ gossipdone' = [gossipdone EXCEPT ![p] = TRUE]
        /\ totalT' = [totalT EXCEPT ![p] = Ts]
        /\ txseq' = [txseq EXCEPT ![p] = IF @ > rounds THEN @ ELSE @ + 1]
        /\ UNCHANGED <<insert, stores, gsock, faults>>
    BY <1>1, <2>1 DEF QuietRound, mergelists_nogossip
  <2>5. totalT' \in [Peer -> Seq(G)] /\ \A x \in Peer : totalT'[x] # <<>> /\ (x # p => totalT'[x] = totalT[x])
    BY <2>3, <2>4 DEF Shape
  <2>6. txseq' \in [Peer -> 0..(rounds + 1)] /\ \A x \in Peer : x # p => txseq'[x] = txseq[x]
    <3>1. txseq[p] \in 0..(rounds + 1) BY DEF Shape
    <3>2. (IF txseq[p] > rounds THEN txseq[p] ELSE txseq[p] + 1) \in 0..(rounds + 1) BY <1>0, <3>1
    <3> QED BY <2>4, <3>2 DEF Shape
  <2>7. /\ gossipdone' \in [Peer -> BOOLEAN] /\ gossipdone'[p]
        /\ \A x \in Peer : x # p => gossipdone'[x] = gossipdone[x]
    BY <2>4 DEF Shape
  <2>8. ASSUME NEW x \in Peer, NEW y \in insert'[x]
         PROVE  /\ insert'[x] = {y}
                /\ y.msg.src = x /\ y.msg.seq = txseq'[x] /\ y.msg.list = totalT'[x][1]
                /\ ~gossipdone'[x] /\ txseq'[x] < rounds
    <3>1. x # p BY <2>4, <2>8
    <3>2. insert'[x] = insert[x] /\ txseq'[x] = txseq[x] /\ totalT'[x] = totalT[x] /\ gossipdone'[x] = gossipdone[x]
      BY <2>4, <2>5, <2>6, <2>7, <3>1
    <3> QED BY <3>2 DEF Shape
  <2>9. \A x \in Peer : ~gossipdone'[x] => txseq'[x] <= rounds BY <2>6, <2>7 DEF Shape
  <2> QED BY <2>4, <2>5, <2>6, <2>7, <2>8, <2>9 DEF Shape
<1>2. ASSUME NEW p \in Peer, InsertOK(p) PROVE Shape(G)'
  <2>1. PICK r \in insert[p] :
            /\ gsock' = [gsock EXCEPT ![r.to] = @ \cup {r.msg}]
            /\ \E R \in SUBSET ReplicaStores(r) : Pending(R)
            /\ EndRound(p)
            /\ UNCHANGED <<totalT, gossipdone>>
    BY <1>2 DEF InsertOK
  <2>2. r \in Req(G) BY DEF Shape
  <2>3. r.to \in Peer /\ r.msg \in Msg(G) BY <2>2 DEF Req
  <2>4. gsock' \in [Peer -> SUBSET Msg(G)] BY <2>1, <2>3 DEF Shape
  <2>5. PICK R \in SUBSET ReplicaStores(r) : Pending(R) BY <2>1
  <2>6. ReplicaStores(r) \subseteq Req(G)
    <3>1. ASSUME NEW k \in 1..(NumPut - 1) PROVE [r EXCEPT !.to = succ(@, k)] \in Req(G)
      <4>1. succ(r.to, k) \in Peer BY <1>0, <2>3, SuccPeer
      <4> QED BY <2>2, <4>1 DEF Req
    <3> QED BY <3>1 DEF ReplicaStores
  <2>7. stores' \in SUBSET Req(G) BY <2>5, <2>6 DEF Pending, Shape
  <2>8. faults' \in Nat BY <2>5 DEF Pending, Fault, Shape
  <2>9. totalT[p] \in Seq(G) /\ totalT[p] # <<>> BY DEF Shape
  <2>10. totalT[p][1] \in G BY <2>9
  <2>11. insert[p] # {} /\ totalT' = totalT /\ UNCHANGED gossipdone BY <2>1
  <2> QED BY <2>1, <2>4, <2>7, <2>8, <2>10, <2>11, EndShape
<1>3. ASSUME NEW p \in Peer, InsertFail(p) PROVE Shape(G)'
  <2>1. insert[p] # {} /\ ConsumeFailed(p) /\ EndRound(p) /\ UNCHANGED <<gossipdone, stores, gsock, faults>>
    BY <1>3 DEF InsertFail
  <2>2. PICK L \in G : totalT' = totalT \/ totalT' = [totalT EXCEPT ![p][1] = L] BY <2>1, ConsumeList
  <2>3. stores' \in SUBSET Req(G) /\ gsock' \in [Peer -> SUBSET Msg(G)] /\ faults' \in Nat BY <2>1 DEF Shape
  <2> QED BY <2>1, <2>2, <2>3, EndShape
<1>4. ASSUME NEW p \in Peer, InsertTimeout(p) PROVE Shape(G)'
  <2>1. insert[p] # {} /\ ConsumeFailed(p) /\ Pending(insert[p]) /\ EndRound(p) /\ UNCHANGED <<gossipdone, gsock>>
    BY <1>4 DEF InsertTimeout
  <2>2. PICK L \in G : totalT' = totalT \/ totalT' = [totalT EXCEPT ![p][1] = L] BY <2>1, ConsumeList
  <2>3. stores' \in SUBSET Req(G) /\ gsock' \in [Peer -> SUBSET Msg(G)] BY <2>1 DEF Shape, Pending
  <2>4. faults' \in Nat BY <2>1 DEF Pending, Fault, Shape
  <2> QED BY <2>1, <2>2, <2>3, <2>4, EndShape
<1>5. ASSUME NEW p \in Peer, ReadGossip(p) PROVE Shape(G)'
  <2>1. PICK m \in gsock[p] :
            /\ gsock' = [gsock EXCEPT ![p] = @ \ {m}]
            /\ \/ totalT' = [totalT EXCEPT ![p] = Append(@, m.list)] /\ UNCHANGED faults
               \/ LostReads /\ totalT' = totalT /\ Fault
            /\ UNCHANGED <<txseq, gossipdone, insert, stores>>
    BY <1>5 DEF ReadGossip
  <2>2. m \in Msg(G) BY DEF Shape
  <2>3. m.list \in G BY <2>2 DEF Msg
  <2>4. totalT[p] \in Seq(G) /\ totalT[p] # <<>> BY DEF Shape
  <2>5. PICK Ts : Ts = Append(totalT[p], m.list) OBVIOUS
  <2>6. Ts \in Seq(G) /\ Ts # <<>> /\ Ts[1] = totalT[p][1] BY <2>3, <2>4, <2>5
  <2>7. totalT' = totalT \/ totalT' = [totalT EXCEPT ![p] = Ts] BY <2>1, <2>5
  <2>8. totalT' \in [Peer -> Seq(G)] /\ \A x \in Peer : totalT'[x] # <<>> /\ totalT'[x][1] = totalT[x][1]
    <3>1. totalT \in [Peer -> Seq(G)] /\ \A x \in Peer : totalT[x] # <<>> BY DEF Shape
    <3>2. CASE totalT' = totalT BY <3>1, <3>2
    <3>3. CASE totalT' = [totalT EXCEPT ![p] = Ts]
      <4>1. totalT'[p] = Ts /\ \A x \in Peer : x # p => totalT'[x] = totalT[x] BY <3>1, <3>3
      <4>2. totalT' \in [Peer -> Seq(G)] BY <2>6, <3>1, <3>3
      <4> QED BY <2>6, <3>1, <4>1, <4>2
    <3> QED BY <2>7, <3>2, <3>3
  <2>9. gsock' \in [Peer -> SUBSET Msg(G)] BY <2>1 DEF Shape
  <2>10. faults' \in Nat BY <2>1 DEF Fault, Shape
  <2>11. ASSUME NEW x \in Peer, NEW y \in insert'[x]
         PROVE  /\ insert'[x] = {y}
                /\ y.msg.src = x /\ y.msg.seq = txseq'[x] /\ y.msg.list = totalT'[x][1]
                /\ ~gossipdone'[x] /\ txseq'[x] < rounds
    <3>1. insert'[x] = insert[x] /\ txseq'[x] = txseq[x] /\ gossipdone'[x] = gossipdone[x] BY <2>1
    <3>2. totalT'[x][1] = totalT[x][1] BY <2>8
    <3> QED BY <3>1, <3>2 DEF Shape
  <2> QED BY <2>1, <2>8, <2>9, <2>10, <2>11 DEF Shape
<1>6. ASSUME StoreArrives PROVE Shape(G)'
  <2>1. PICK r \in stores :
            /\ stores' = stores \ {r}
            /\ gsock' = [gsock EXCEPT ![r.to] = @ \cup {r.msg}]
            /\ UNCHANGED <<totalT, txseq, gossipdone, insert, faults>>
    BY <1>6 DEF StoreArrives
  <2>2. r \in Req(G) BY DEF Shape
  <2>3. r.to \in Peer /\ r.msg \in Msg(G) BY <2>2 DEF Req
  <2>4. gsock' \in [Peer -> SUBSET Msg(G)] BY <2>1, <2>3 DEF Shape
  <2> QED BY <2>1, <2>4 DEF Shape
<1>7. CASE UNCHANGED vars BY <1>7 DEF vars, Shape
<1> QED BY <1>1, <1>2, <1>3, <1>4, <1>5, <1>6, <1>7 DEF Next

-------------------------------------------------------------------------------
(* The merges left.                                                           *)

\* The counts of the merges left are natural numbers.
LEMMA LeftType ==
    ASSUME NEW G, Shape(G)
    PROVE  Left \in [Peer -> Nat] /\ MergesLeft \in Nat
<1>1. rounds \in Nat /\ N \in Nat BY VanillaAssumption
<1>2. ASSUME NEW p \in Peer
      PROVE  (IF gossipdone[p] THEN 0 ELSE rounds - txseq[p] - (IF insert[p] = {} THEN 0 ELSE 1)) \in Nat
  <2>1. CASE gossipdone[p] BY <2>1
  <2>2. CASE ~gossipdone[p]
    <3>1. txseq[p] \in 0..(rounds + 1) /\ txseq[p] <= rounds BY <2>2 DEF Shape
    <3>2. insert[p] # {} => txseq[p] < rounds BY DEF Shape
    <3> QED BY <1>1, <2>2, <3>1, <3>2
  <2> QED BY <2>1, <2>2
<1>3. Left \in [Peer -> Nat] BY <1>2 DEF Left
<1>4. \A i \in 1..N : Left[i] \in Nat BY <1>3 DEF Peer
<1> QED BY <1>1, <1>3, <1>4, SumNat DEF MergesLeft

\* A step that changes what is left at one peer.
LEMMA LeftPoint ==
    ASSUME NEW G, Shape(G), NEW p \in Peer,
           \A x \in Peer : x # p => /\ gossipdone'[x] = gossipdone[x]
                                    /\ txseq'[x] = txseq[x] /\ insert'[x] = insert[x],
           NEW v \in Int,
           v = IF gossipdone'[p] THEN 0 ELSE rounds - txseq'[p] - (IF insert'[p] = {} THEN 0 ELSE 1)
    PROVE  MergesLeft' = MergesLeft + (v - Left[p])
<1>1. N \in Nat /\ p \in 1..N BY VanillaAssumption DEF Peer
<1>2. PICK f, g : f = Left /\ g = Left' OBVIOUS
<1>3. f \in [Peer -> Nat] BY <1>2, LeftType
<1>4. \A x \in Peer : f[x] = IF gossipdone[x] THEN 0 ELSE rounds - txseq[x] - (IF insert[x] = {} THEN 0 ELSE 1)
  BY <1>2 DEF Left
<1>5. \A x \in Peer : g[x] = IF gossipdone'[x] THEN 0 ELSE rounds - txseq'[x] - (IF insert'[x] = {} THEN 0 ELSE 1)
  BY <1>2 DEF Left
<1>6. g[p] = v BY <1>5
<1>7. \A x \in Peer : x # p => g[x] = f[x] BY <1>4, <1>5
<1>8. \A i \in 1..N : f[i] \in Int /\ g[i] \in Int /\ (i # p => g[i] = f[i]) BY <1>3, <1>6, <1>7 DEF Peer
<1>9. SumTo(N, g) = SumTo(N, f) + (g[p] - f[p]) BY <1>1, <1>8, SumPoint
<1> QED BY <1>2, <1>6, <1>9 DEF MergesLeft

\* A round that is begun is one merge less.
LEMMA GossipLeft ==
    ASSUME NEW G, Shape(G), NEW p \in Peer, GossipRound(p)
    PROVE  MergesLeft' = MergesLeft - 1
<1>1. rounds \in Nat BY VanillaAssumption
<1>2. txseq[p] \in Int /\ ~gossipdone[p] /\ insert[p] = {} BY DEF Shape, GossipRound
<1>3. PICK q \in Peer : insert' = [insert EXCEPT ![p] = {Request(q, p, totalT'[p][1])}]
  BY DEF GossipRound
<1>4. UNCHANGED <<txseq, gossipdone>> BY DEF GossipRound
<1>5. /\ insert'[p] # {}
      /\ \A x \in Peer : x # p => insert'[x] = insert[x]
  BY <1>3 DEF Shape
<1>6. PICK v \in Int : v = rounds - txseq[p] - 1 BY <1>1, <1>2
<1>7. v = IF gossipdone'[p] THEN 0 ELSE rounds - txseq'[p] - (IF insert'[p] = {} THEN 0 ELSE 1)
  BY <1>2, <1>4, <1>5, <1>6
<1>8. MergesLeft' = MergesLeft + (v - Left[p]) BY <1>4, <1>5, <1>7, LeftPoint
<1>9. Left[p] = rounds - txseq[p] BY <1>1, <1>2 DEF Left
<1>10. MergesLeft \in Nat BY LeftType
<1> QED BY <1>1, <1>2, <1>6, <1>8, <1>9, <1>10

\* The end of a round leaves the merges of the next ones.
LEMMA EndLeft ==
    ASSUME NEW G, Shape(G), NEW p \in Peer, insert[p] # {}, EndRound(p), UNCHANGED gossipdone
    PROVE  MergesLeft' = MergesLeft
<1>1. rounds \in Nat BY VanillaAssumption
<1>2. txseq[p] \in Int /\ ~gossipdone[p] BY DEF Shape
<1>3. /\ txseq'[p] = txseq[p] + 1 /\ insert'[p] = {}
      /\ \A x \in Peer : x # p => txseq'[x] = txseq[x] /\ insert'[x] = insert[x]
  BY DEF EndRound, Shape
<1>4. PICK v \in Int : v = rounds - (txseq[p] + 1) BY <1>1, <1>2
<1>5. v = IF gossipdone'[p] THEN 0 ELSE rounds - txseq'[p] - (IF insert'[p] = {} THEN 0 ELSE 1)
  BY <1>1, <1>2, <1>3, <1>4
<1>6. MergesLeft' = MergesLeft + (v - Left[p]) BY <1>3, <1>5, LeftPoint
<1>7. Left[p] = rounds - txseq[p] - 1 BY <1>1, <1>2 DEF Left
<1>8. MergesLeft \in Nat BY LeftType
<1> QED BY <1>1, <1>2, <1>4, <1>6, <1>7, <1>8

\* No other step changes the number of merges left.
LEMMA OtherLeft ==
    ASSUME NEW G, Shape(G), [Next]_vars, ~ \E p \in Peer : GossipRound(p)
    PROVE  MergesLeft' = MergesLeft
<1>0. rounds \in Nat BY VanillaAssumption
<1>1. ASSUME NEW p \in Peer, QuietRound(p) PROVE MergesLeft' = MergesLeft
  <2>1. /\ insert[p] = {} /\ (gossipdone[p] \/ txseq[p] = rounds)
        /\ gossipdone' = [gossipdone EXCEPT ![p] = TRUE]
        /\ txseq' = [txseq EXCEPT ![p] = IF @ > rounds THEN @ ELSE @ + 1]
        /\ UNCHANGED insert
    BY <1>1 DEF QuietRound
  <2>2. /\ gossipdone'[p]
        /\ \A x \in Peer : x # p => gossipdone'[x] = gossipdone[x] /\ txseq'[x] = txseq[x]
    BY <2>1 DEF Shape
  <2>3. PICK v \in Int : v = 0 OBVIOUS
  <2>4. v = IF gossipdone'[p] THEN 0 ELSE rounds - txseq'[p] - (IF insert'[p] = {} THEN 0 ELSE 1)
    BY <2>2, <2>3
  <2>5. MergesLeft' = MergesLeft + (v - Left[p]) BY <2>1, <2>2, <2>4, LeftPoint
  <2>6. Left[p] = 0 BY <1>0, <2>1 DEF Left
  <2>7. MergesLeft \in Nat BY LeftType
  <2> QED BY <2>3, <2>5, <2>6, <2>7
<1>2. ASSUME NEW p \in Peer, InsertOK(p) PROVE MergesLeft' = MergesLeft
  BY <1>2, EndLeft DEF InsertOK
<1>3. ASSUME NEW p \in Peer, InsertFail(p) PROVE MergesLeft' = MergesLeft
  BY <1>3, EndLeft DEF InsertFail
<1>4. ASSUME NEW p \in Peer, InsertTimeout(p) PROVE MergesLeft' = MergesLeft
  BY <1>4, EndLeft DEF InsertTimeout
<1>5. ASSUME NEW p \in Peer, ReadGossip(p) PROVE MergesLeft' = MergesLeft
  BY <1>5 DEF ReadGossip, MergesLeft, Left
<1>6. ASSUME StoreArrives PROVE MergesLeft' = MergesLeft
  BY <1>6 DEF StoreArrives, MergesLeft, Left
<1>7. CASE UNCHANGED vars BY <1>7 DEF vars, MergesLeft, Left
<1> QED BY <1>1, <1>2, <1>3, <1>4, <1>5, <1>6, <1>7 DEF Next

-------------------------------------------------------------------------------
(* The estimates.                                                             *)

\* calcfreq builds the list a peer starts with.
LEMMA CalcfreqStart == ASSUME NEW docs PROVE calcfreq(docs) = StartList(docs)
<1>1. Holders = {} /\ Dummy \notin Sig BY VanillaAssumption, ListAssumption
<1> QED BY <1>1 DEF calcfreq, StartList

\* The lists calcfreq builds are good.
LEMMA InitInv ==
    ASSUME NEW half \in [0..(N * rounds) -> Nat], Halves(half, N * rounds), NEW lo, NEW hi, Bounds(lo, hi), Init
    PROVE  Inv(half, lo, hi)
<1>1. rounds \in Nat /\ N \in Nat \ {0} /\ Holders = {} /\ Docs \in [Peer -> [Sig -> Nat]] BY VanillaAssumption
<1>2. MergesLeft = N * rounds
  <2>1. PICK f : f = Left OBVIOUS
  <2>2. \A i \in 1..N : f[i] = rounds BY <1>1, <2>1 DEF Init, Left, Peer
  <2>3. rounds \in Int /\ N \in Nat BY <1>1
  <2>4. SumTo(N, f) = N * rounds BY <2>2, <2>3, SumConstant
  <2> QED BY <2>1, <2>4 DEF MergesLeft
<1>3. N * rounds \in Nat BY <1>1
<1>4. PICK h \in Nat : h = half[N * rounds] BY <1>3
<1>5. Unit \in Multiples(h)
  <2>1. Unit = h * 1 BY <1>4 DEF Halves
  <2> QED BY <2>1 DEF Multiples
<1>6. PICK G : G = Good(h, lo, hi) OBVIOUS
<1>7. \A p \in Peer : calcfreq(Docs[p]) \in G BY <1>1, <1>5, <1>6, StartGood, CalcfreqStart DEF Bounds
<1>8. totalT \in [Peer -> Seq(G)] /\ \A p \in Peer : totalT[p] # <<>>
  <2>1. \A T \in G : <<T>> \in Seq(G) /\ <<T>> # <<>> OBVIOUS
  <2> QED BY <1>7, <2>1 DEF Init
<1>9. Shape(G) BY <1>1, <1>8 DEF Init, Shape
<1> QED BY <1>2, <1>3, <1>4, <1>6, <1>9 DEF Inv

\* Every step keeps the lists good: a merge takes one halving, and leaves one
\* less to come.
LEMMA NextInv ==
    ASSUME NEW half \in [0..(N * rounds) -> Nat], Halves(half, N * rounds), NEW lo, NEW hi, Bounds(lo, hi),
           Inv(half, lo, hi), [Next]_vars
    PROVE  Inv(half, lo, hi)'
<1>1. rounds \in Nat /\ N \in Nat BY VanillaAssumption
<1>2. PICK k : k = MergesLeft OBVIOUS
<1>3. k \in 0..(N * rounds) /\ N * rounds \in Nat BY <1>1, <1>2 DEF Inv
<1>4. PICK G : G = Good(half[k], lo, hi) OBVIOUS
<1>5. Shape(G) BY <1>2, <1>4 DEF Inv
<1>6. lo \in [Sig -> Nat] /\ hi \in [Sig -> Nat] BY DEF Bounds
<1>7. half[k] \in Nat BY <1>3
<1>8. CASE \E p \in Peer : GossipRound(p)
  <2>1. PICK p \in Peer : GossipRound(p) BY <1>8
  <2>2. MergesLeft' = k - 1 BY <1>2, <1>5, <2>1, GossipLeft
  <2>3. k >= 1
    <3>1. ~gossipdone[p] /\ insert[p] = {} /\ txseq[p] # rounds BY <2>1 DEF GossipRound
    <3>2. txseq[p] \in 0..(rounds + 1) /\ txseq[p] <= rounds BY <1>5, <3>1 DEF Shape
    <3>3. Left[p] >= 1 BY <1>1, <3>1, <3>2 DEF Left
    <3>4. PICK f, g : f = Left /\ g = [Left EXCEPT ![p] = 0] OBVIOUS
    <3>5. f \in [Peer -> Nat] BY <1>5, <3>4, LeftType
    <3>6. g \in [Peer -> Nat] /\ g[p] = 0 /\ \A x \in Peer : x # p => g[x] = f[x] BY <3>4, <3>5
    <3>7. \A i \in 1..N : f[i] \in Int /\ g[i] \in Nat /\ g[i] \in Int /\ (i # p => g[i] = f[i]) BY <3>5, <3>6 DEF Peer
    <3>8. SumTo(N, g) = SumTo(N, f) + (g[p] - f[p]) BY <1>1, <3>7, SumPoint DEF Peer
    <3>9. SumTo(N, g) \in Nat BY <1>1, <3>7, SumNat
    <3>10. SumTo(N, f) = k /\ f[p] >= 1 BY <1>2, <3>3, <3>4 DEF MergesLeft
    <3>11. f[p] \in Int /\ k \in Int BY <1>3, <3>5
    <3> QED BY <3>6, <3>8, <3>9, <3>10, <3>11
  <2>4. k - 1 \in 0..(N * rounds) /\ half[k - 1] \in Nat BY <1>3, <2>3
  <2>5. PICK h \in Nat : h = half[k - 1] BY <2>4
  <2>6. half[k] = 2 * h BY <1>3, <2>3, <2>5 DEF Halves
  <2>7. PICK H : H = Good(h, lo, hi) OBVIOUS
  <2>8. G \subseteq H BY <1>4, <2>6, <2>7, GoodFiner
  <2>9. \A Ts \in Seq(G) : Ts # <<>> => \E L \in H : mergelists(Ts) = <<L>>
    <3>1. SUFFICES ASSUME NEW Ts \in Seq(Good(2 * h, lo, hi)), Ts # <<>>
                   PROVE  \E L \in Good(h, lo, hi) : mergelists(Ts) = <<L>>
      BY <1>4, <2>6, <2>7
    <3>2. \E L \in Good(h, lo, hi) :
              /\ mergelists(Ts) = <<L>>
              /\ \A s \in Sig : sumf(Ts, s) = 2 * At(L, s).f /\ sumw(Ts, s) = 2 * At(L, s).w
      BY <1>6, <3>1, MergeGood
    <3> QED BY <3>2
  <2>10. Shape(H)' BY <1>5, <2>1, <2>8, <2>9, GossipShape
  <2> QED BY <2>2, <2>4, <2>5, <2>7, <2>10 DEF Inv
<1>9. CASE ~ \E p \in Peer : GossipRound(p)
  <2>1. MergesLeft' = k BY <1>2, <1>5, <1>9, OtherLeft
  <2>2. \A T \in G : multiplyfreq(T) \in G BY <1>4, <1>6, <1>7, MultiplyGood
  <2>3. Shape(G)' BY <1>5, <1>9, <2>2, OtherShape
  <2> QED BY <1>3, <1>4, <2>1, <2>3 DEF Inv
<1> QED BY <1>8, <1>9

\* The invariant gives the properties of the lists.
LEMMA InvRange ==
    ASSUME NEW half \in [0..(N * rounds) -> Nat], NEW lo, NEW hi, Bounds(lo, hi),
           \A s \in Sig : \E p, q \in Peer : lo[s] = Docs[p][s] /\ hi[s] = Docs[q][s],
           Inv(half, lo, hi)
    PROVE  EstimateInRange
<1>1. rounds \in Nat /\ N \in Nat BY VanillaAssumption
<1>2. PICK G : G = Good(half[MergesLeft], lo, hi) OBVIOUS
<1>3. Shape(G) BY <1>2 DEF Inv
<1>4. ASSUME NEW r \in Requests PROVE r \in Req(G)
  <2>1. CASE r \in stores BY <1>3, <2>1 DEF Shape
  <2>2. CASE r \notin stores
    <3>1. PICK p \in Peer : r \in insert[p] BY <2>2 DEF Requests
    <3>2. insert[p] \in SUBSET Req(G) BY <1>3 DEF Shape
    <3> QED BY <3>1, <3>2
  <2> QED BY <2>1, <2>2
<1>5. ASSUME NEW m \in Messages PROVE m \in Msg(G)
  <2>1. CASE m \in {r.msg : r \in Requests}
    <3>1. PICK r \in Requests : m = r.msg BY <2>1
    <3>2. r \in Req(G) BY <1>4
    <3> QED BY <3>1, <3>2 DEF Req
  <2>2. CASE m \notin {r.msg : r \in Requests}
    <3>1. PICK p \in Peer : m \in gsock[p] BY <2>2 DEF Messages
    <3>2. gsock[p] \in SUBSET Msg(G) BY <1>3 DEF Shape
    <3> QED BY <3>1, <3>2
  <2> QED BY <2>1, <2>2
<1>6. ASSUME NEW T \in Lists PROVE T \in G
  <2>1. CASE T \in {m.list : m \in Messages}
    <3>1. PICK m \in Messages : T = m.list BY <2>1
    <3>2. m \in Msg(G) BY <1>5
    <3> QED BY <3>1, <3>2 DEF Msg
  <2>2. CASE T \notin {m.list : m \in Messages}
    <3>1. PICK p \in Peer : T \in {totalT[p][i] : i \in DOMAIN totalT[p]} BY <2>2 DEF Lists
    <3>2. PICK i \in DOMAIN totalT[p] : T = totalT[p][i] BY <3>1
    <3>3. totalT[p] \in Seq(G) BY <1>3 DEF Shape
    <3> QED BY <3>2, <3>3
  <2> QED BY <2>1, <2>2
<1>7. TypeOK
  <2>1. ASSUME NEW p \in Peer PROVE totalT[p] # <<>> /\ Cardinality(insert[p]) <= 1
    <3>1. totalT[p] # <<>> BY <1>3 DEF Shape
    <3>2. CASE insert[p] = {} BY <3>1, <3>2, FS_EmptySet
    <3>3. CASE insert[p] # {}
      <4>1. PICK r \in insert[p] : TRUE BY <3>3
      <4>2. insert[p] = {r} BY <1>3 DEF Shape
      <4>3. Cardinality({r}) = 1 BY FS_Singleton
      <4> QED BY <3>1, <4>2, <4>3
    <3> QED BY <3>2, <3>3
  <2>2. txseq \in [Peer -> 0..(rounds + 1)] /\ gossipdone \in [Peer -> BOOLEAN] BY <1>3 DEF Shape
  <2>3. ASSUME NEW m \in Messages PROVE m.src \in Peer /\ m.seq \in 0..rounds
    <3>1. m.src \in Peer /\ m.seq \in 0..(rounds - 1) BY <1>5 DEF Msg
    <3> QED BY <1>1, <3>1
  <2>4. \A r \in Requests : r.to \in Peer BY <1>4 DEF Req
  <2>5. ASSUME NEW T \in Lists PROVE IsList(T)
    <3>1. T \in ListType BY <1>2, <1>6 DEF Good
    <3> QED BY <3>1, ListEntries
  <2> QED BY <2>1, <2>2, <2>3, <2>4, <2>5 DEF TypeOK
<1>8. \A T \in Lists : SameWeights(T) BY <1>2, <1>6 DEF Good
<1>9. ASSUME NEW T \in Lists, NEW s \in Sig
      PROVE  \E p, q \in Peer : /\ Docs[p][s] * At(T, s).w <= At(T, s).f
                                /\ At(T, s).f <= Docs[q][s] * At(T, s).w
  <2>1. lo[s] * At(T, s).w <= At(T, s).f /\ At(T, s).f <= hi[s] * At(T, s).w BY <1>2, <1>6 DEF Good
  <2>2. PICK p, q \in Peer : lo[s] = Docs[p][s] /\ hi[s] = Docs[q][s] OBVIOUS
  <2> QED BY <2>1, <2>2
<1> QED BY <1>7, <1>8, <1>9 DEF EstimateInRange, WeightsAgree

\* The least and the greatest count of every signature.
LEMMA BoundsExist ==
    \E lo, hi : /\ Bounds(lo, hi)
                /\ \A s \in Sig : \E p, q \in Peer : lo[s] = Docs[p][s] /\ hi[s] = Docs[q][s]
<1>1. N \in Nat \ {0} /\ Docs \in [Peer -> [Sig -> Nat]] BY VanillaAssumption
<1>2. \A p \in Peer : \A s \in Sig : Docs[p][s] \in Nat BY <1>1
<1>3. ASSUME NEW s \in Sig PROVE \E p \in Peer : \A x \in Peer : Docs[p][s] <= Docs[x][s]
  <2>1. PICK T : T = {Docs[p][s] : p \in Peer} OBVIOUS
  <2>2. T \in SUBSET Nat BY <1>2, <2>1
  <2>3. 1 \in Peer BY <1>1 DEF Peer
  <2>4. T # {} BY <2>1, <2>3
  <2>5. PICK v \in T : \A y \in T : v <= y BY <2>2, <2>4, LeastNat
  <2> QED BY <2>1, <2>5
<1>4. ASSUME NEW s \in Sig PROVE \E q \in Peer : \A x \in Peer : Docs[x][s] <= Docs[q][s]
  <2>1. PICK f : f = [p \in 1..N |-> Docs[p][s]] OBVIOUS
  <2>2. \A i \in 1..N : f[i] = Docs[i][s] /\ f[i] \in Int BY <1>2, <2>1 DEF Peer
  <2>3. PICK q \in 1..N : \A p \in 1..N : f[p] <= f[q] BY <1>1, <2>2, GreatestOf
  <2> QED BY <2>2, <2>3 DEF Peer
<1>5. PICK lp : lp = [s \in Sig |-> CHOOSE p \in Peer : \A x \in Peer : Docs[p][s] <= Docs[x][s]] OBVIOUS
<1>6. PICK hp : hp = [s \in Sig |-> CHOOSE q \in Peer : \A x \in Peer : Docs[x][s] <= Docs[q][s]] OBVIOUS
<1>7. \A s \in Sig : lp[s] \in Peer /\ \A x \in Peer : Docs[lp[s]][s] <= Docs[x][s] BY <1>3, <1>5
<1>8. \A s \in Sig : hp[s] \in Peer /\ \A x \in Peer : Docs[x][s] <= Docs[hp[s]][s] BY <1>4, <1>6
<1>9. PICK lo, hi : lo = [s \in Sig |-> Docs[lp[s]][s]] /\ hi = [s \in Sig |-> Docs[hp[s]][s]] OBVIOUS
<1>10. lo \in [Sig -> Nat] /\ hi \in [Sig -> Nat] BY <1>2, <1>7, <1>8, <1>9
<1>11. \A s \in Sig : lo[s] = Docs[lp[s]][s] /\ hi[s] = Docs[hp[s]][s] BY <1>9
<1>12. Bounds(lo, hi) BY <1>7, <1>8, <1>10, <1>11 DEF Bounds
<1> QED BY <1>7, <1>8, <1>11, <1>12

\* For any number of peers, rounds and signatures, and whatever the DHT loses,
\* copies or delivers late: every list of the exec phase is well formed, its
\* weights agree, and no estimate leaves the range of the peers' own counts.
THEOREM EstimatesSafe == ASSUME ExactHalving PROVE Spec => []EstimateInRange
<1>1. PICK half \in [0..(N * rounds) -> 0..Unit] : Halves(half, N * rounds) BY DEF ExactHalving
<1>2. half \in [0..(N * rounds) -> Nat]
  <2>1. 0..Unit \subseteq Nat BY ListAssumption
  <2> QED BY <2>1
<1>3. PICK lo, hi : /\ Bounds(lo, hi)
                    /\ \A s \in Sig : \E p, q \in Peer : lo[s] = Docs[p][s] /\ hi[s] = Docs[q][s]
  BY BoundsExist
<1>4. Init => Inv(half, lo, hi) BY <1>1, <1>2, <1>3, InitInv
<1>5. Inv(half, lo, hi) /\ [Next]_vars => Inv(half, lo, hi)' BY <1>1, <1>2, <1>3, NextInv
<1>6. Inv(half, lo, hi) => EstimateInRange BY <1>2, <1>3, InvRange
<1> QED BY <1>4, <1>5, <1>6, PTL DEF Spec

-------------------------------------------------------------------------------
(* Mass.                                                                      *)

\* Before the first fault no store is left on its way, and a socket holds at
\* most one message of a round of a peer, and none of its current round.
Clean ==
    faults = 0 =>
        /\ stores = {}
        /\ \A p \in Peer : \A m \in gsock[p] : m.seq < txseq[m.src]
        /\ \A p \in Peer : \A m, n \in gsock[p] : m.src = n.src /\ m.seq = n.seq => m = n

\* The mass of messages is a natural number.
LEMMA MsgMassNat ==
    ASSUME NEW G \in SUBSET ListType, NEW M \in SUBSET Msg(G), NEW s, NEW c \in {"f", "w"}
    PROVE  MsgMass(M, s, c) \in Nat
<1>1. rounds \in Nat /\ N \in Nat BY VanillaAssumption
<1>2. Sendable(N, rounds, M) BY DEF Sendable, Msg, Peer
<1> QED BY <1>1, <1>2, SentMassNat DEF MsgMass

\* No messages, no mass.
LEMMA MsgMassEmpty == ASSUME NEW s, NEW c PROVE MsgMass({}, s, c) = 0
BY SentMassEmpty DEF MsgMass

\* The message of another round, or of another peer, adds its mass.
LEMMA MsgMassAdd ==
    ASSUME NEW G \in SUBSET ListType, NEW M \in SUBSET Msg(G), NEW m \in Msg(G),
           \A n \in M : n.src # m.src \/ n.seq # m.seq, NEW s, NEW c \in {"f", "w"}
    PROVE  MsgMass(M \cup {m}, s, c) = MsgMass(M, s, c) + At(m.list, s)[c]
<1>1. rounds \in Nat /\ N \in Nat BY VanillaAssumption
<1>2. \A x \in Msg(G) : x.src \in 1..N /\ x.seq \in 0..(rounds - 1) /\ x.list \in ListType BY DEF Msg, Peer
<1>3. PICK A : A = M \cup {m} OBVIOUS
<1>4. Sendable(N, rounds, A) BY <1>2, <1>3 DEF Sendable
<1>5. Adds(A, M, m) BY <1>3 DEF Adds
<1>6. SentMass(N, rounds, A, s, c) = SentMass(N, rounds, M, s, c) + At(m.list, s)[c]
  BY <1>1, <1>4, <1>5, SentMassAdd
<1> QED BY <1>3, <1>6 DEF MsgMass

\* A function of the peers that changes at one of them.
LEMMA PeerPoint ==
    ASSUME NEW f \in [Peer -> Nat], NEW g, NEW p \in Peer, g[p] \in Int,
           \A x \in Peer : x # p => g[x] = f[x]
    PROVE  SumTo(N, g) = SumTo(N, f) + (g[p] - f[p]) /\ SumTo(N, f) \in Nat
<1>1. N \in Nat /\ p \in 1..N BY VanillaAssumption DEF Peer
<1>2. \A i \in 1..N : f[i] \in Nat /\ f[i] \in Int /\ g[i] \in Int /\ (i # p => g[i] = f[i]) BY DEF Peer
<1>3. SumTo(N, f) \in Nat BY <1>1, <1>2, SumNat
<1> QED BY <1>1, <1>2, <1>3, SumPoint

\* A function of the peers that does not change.
LEMMA PeerSame ==
    ASSUME NEW f \in [Peer -> Nat], NEW g, \A x \in Peer : g[x] = f[x]
    PROVE  SumTo(N, g) = SumTo(N, f) /\ SumTo(N, f) \in Nat
<1>1. N \in Nat BY VanillaAssumption
<1>2. \A i \in 1..N : f[i] \in Nat /\ f[i] \in Int /\ g[i] = f[i] BY DEF Peer
<1> QED BY <1>1, <1>2, SumEqual, SumNat

\* The masses by place after a step.
LEMMA MassFunctions ==
    ASSUME NEW s, NEW c, NEW k2, NEW i2, NEW w2, NEW o2,
           k2 = Kept(s, c)', i2 = Inbox(s, c)', w2 = Wire(s, c)', o2 = Sock(s, c)'
    PROVE  /\ k2 = [x \in Peer |-> k2[x]] /\ i2 = [x \in Peer |-> i2[x]]
           /\ w2 = [x \in Peer |-> w2[x]] /\ o2 = [x \in Peer |-> o2[x]]
BY DEF Kept, Inbox, Wire, Sock

\* The masses by place are natural numbers.
LEMMA MassTypes ==
    ASSUME NEW G \in SUBSET ListType, Shape(G), NEW s, NEW c \in {"f", "w"}
    PROVE  /\ Kept(s, c) \in [Peer -> Nat] /\ Inbox(s, c) \in [Peer -> Nat]
           /\ Wire(s, c) \in [Peer -> Nat] /\ Sock(s, c) \in [Peer -> Nat]
<1>1. ASSUME NEW p \in Peer
      PROVE  /\ At(totalT[p][1], s)[c] \in Nat /\ SeqMass(Tail(totalT[p]), s, c) \in Nat
             /\ MsgMass({r.msg : r \in insert[p]}, s, c) \in Nat
             /\ MsgMass(gsock[p], s, c) \in Nat
  <2>1. totalT[p] \in Seq(G) /\ totalT[p] # <<>> BY DEF Shape
  <2>2. totalT[p] \in Seq(ListType) BY <2>1, SeqLarger
  <2>3. totalT[p][1] \in ListType /\ Tail(totalT[p]) \in Seq(ListType) BY <2>1, <2>2
  <2>4. insert[p] \in SUBSET Req(G) /\ gsock[p] \in SUBSET Msg(G) BY DEF Shape
  <2>5. {r.msg : r \in insert[p]} \in SUBSET Msg(G)
    <3>1. \A r \in Req(G) : r.msg \in Msg(G) BY DEF Req
    <3> QED BY <2>4, <3>1
  <2>6. At(totalT[p][1], s)[c] \in Nat BY <2>3, EntryParts
  <2>7. SeqMass(Tail(totalT[p]), s, c) \in Nat BY <2>3, SeqMassAppend
  <2>8. MsgMass(gsock[p], s, c) \in Nat BY <2>4, MsgMassNat
  <2>9. MsgMass({r.msg : r \in insert[p]}, s, c) \in Nat BY <2>5, MsgMassNat
  <2> QED BY <2>6, <2>7, <2>8, <2>9
<1> QED BY <1>1 DEF Kept, Inbox, Wire, Sock

\* Clean holds until the first fault.
LEMMA CleanStep ==
    ASSUME NEW G, Shape(G), Clean, [Next]_vars
    PROVE  Clean'
<1>0. SUFFICES ASSUME faults' = 0
               PROVE  /\ stores' = {}
                      /\ \A p \in Peer : \A m \in gsock'[p] : m.seq < txseq'[m.src]
                      /\ \A p \in Peer : \A m, n \in gsock'[p] : m.src = n.src /\ m.seq = n.seq => m = n
  BY DEF Clean
<1>1. ASSUME faults' = faults
      PROVE  /\ stores = {}
             /\ \A p \in Peer : \A m \in gsock[p] : m.seq < txseq[m.src]
             /\ \A p \in Peer : \A m, n \in gsock[p] : m.src = n.src /\ m.seq = n.seq => m = n
  BY <1>0, <1>1 DEF Clean
<1>f. ~Fault BY <1>0 DEF Fault, Shape
<1>t. \A x \in Peer : txseq[x] \in Int BY DEF Shape
<1>m. \A x \in Peer : \A m \in gsock[x] : m.src \in Peer /\ m.seq \in Int BY DEF Shape, Msg
<1>2. ASSUME NEW p \in Peer, GossipRound(p)
      PROVE  UNCHANGED <<stores, gsock, txseq, faults>>
  BY <1>2 DEF GossipRound
<1>3. ASSUME NEW p \in Peer, QuietRound(p)
      PROVE  UNCHANGED <<stores, gsock, faults>> /\ \A x \in Peer : txseq'[x] >= txseq[x]
  <2>1. txseq' = [txseq EXCEPT ![p] = IF @ > rounds THEN @ ELSE @ + 1] BY <1>3 DEF QuietRound
  <2>2. \A x \in Peer : txseq'[x] >= txseq[x] BY <1>t, <2>1 DEF Shape
  <2> QED BY <1>3, <2>2 DEF QuietRound
<1>4. ASSUME NEW p \in Peer, EndRound(p)
      PROVE  txseq'[p] = txseq[p] + 1 /\ \A x \in Peer : txseq'[x] >= txseq[x]
  BY <1>4, <1>t DEF EndRound, Shape
<1>5. ASSUME NEW p \in Peer, InsertOK(p)
      PROVE  /\ stores' = {}
             /\ \A x \in Peer : \A m \in gsock'[x] : m.seq < txseq'[m.src]
             /\ \A x \in Peer : \A m, n \in gsock'[x] : m.src = n.src /\ m.seq = n.seq => m = n
  <2>1. PICK r \in insert[p] :
            /\ gsock' = [gsock EXCEPT ![r.to] = @ \cup {r.msg}]
            /\ \E R \in SUBSET ReplicaStores(r) : Pending(R)
            /\ EndRound(p)
    BY <1>5 DEF InsertOK
  <2>2. faults' = faults /\ stores' = stores BY <1>f, <2>1 DEF Pending
  <2>3. r.msg.src = p /\ r.msg.seq = txseq[p] BY DEF Shape
  <2>4. ASSUME NEW x \in Peer PROVE \A m \in gsock'[x] : m \in gsock[x] \/ m = r.msg BY <2>1 DEF Shape
  <2>5. ASSUME NEW x \in Peer, NEW m \in gsock'[x] PROVE m.seq < txseq'[m.src]
    <3>1. CASE m \in gsock[x]
      <4>1. m.seq < txseq[m.src] BY <1>1, <2>2, <3>1
      <4>2. m.src \in Peer /\ m.seq \in Int BY <1>m, <3>1
      <4>3. txseq[m.src] \in Int BY <1>t, <4>2
      <4>4. txseq'[m.src] = txseq[m.src] \/ txseq'[m.src] = txseq[m.src] + 1 BY <2>1, <4>2 DEF EndRound, Shape
      <4> QED BY <4>1, <4>2, <4>3, <4>4
    <3>2. CASE m = r.msg BY <1>4, <1>t, <2>1, <2>3, <3>2
    <3> QED BY <2>4, <3>1, <3>2
  <2>6. ASSUME NEW x \in Peer, NEW m \in gsock'[x], NEW n \in gsock'[x], m.src = n.src, m.seq = n.seq
        PROVE  m = n
    <3>1. \A y \in gsock[x] : y.src = p => y.seq < txseq[p] /\ y.seq \in Int BY <1>1, <1>m, <2>2
    <3>2. \A y \in gsock[x] : ~(y.src = p /\ y.seq = txseq[p]) BY <1>t, <3>1
    <3>3. m \in gsock[x] /\ n \in gsock[x] => m = n BY <1>1, <2>2, <2>6
    <3> QED BY <2>3, <2>4, <2>6, <3>2, <3>3
  <2> QED BY <1>1, <2>2, <2>5, <2>6
<1>6. ASSUME NEW p \in Peer, InsertFail(p)
      PROVE  UNCHANGED <<stores, gsock, faults>> /\ EndRound(p)
  BY <1>6 DEF InsertFail
<1>7. ASSUME NEW p \in Peer, InsertTimeout(p) PROVE FALSE
  BY <1>f, <1>7 DEF InsertTimeout, Pending
<1>8. ASSUME NEW p \in Peer, ReadGossip(p)
      PROVE  UNCHANGED <<stores, txseq, faults>> /\ \A x \in Peer : gsock'[x] \subseteq gsock[x]
  BY <1>f, <1>8 DEF ReadGossip, Shape
<1>9. ASSUME StoreArrives PROVE FALSE
  <2>1. faults' = faults /\ stores # {} BY <1>9 DEF StoreArrives
  <2> QED BY <1>1, <2>1
<1>10. CASE UNCHANGED vars BY <1>1, <1>10 DEF vars
<1>11. ASSUME UNCHANGED <<stores, gsock, faults>>, \A x \in Peer : txseq'[x] >= txseq[x],
              txseq' \in [Peer -> Int]
       PROVE  /\ stores' = {}
              /\ \A p \in Peer : \A m \in gsock'[p] : m.seq < txseq'[m.src]
              /\ \A p \in Peer : \A m, n \in gsock'[p] : m.src = n.src /\ m.seq = n.seq => m = n
  <2>1. ASSUME NEW p \in Peer, NEW m \in gsock'[p] PROVE m.seq < txseq'[m.src]
    <3>1. m.src \in Peer /\ m.seq \in Int /\ m.seq < txseq[m.src] BY <1>1, <1>m, <1>11
    <3> QED BY <1>t, <1>11, <3>1
  <2> QED BY <1>1, <1>11, <2>1
<1>12. \A x \in Peer : txseq'[x] >= txseq[x] /\ EndRound(x) => txseq' \in [Peer -> Int]
  BY <1>t DEF EndRound, Shape
<1>13. ASSUME NEW p \in Peer, QuietRound(p) PROVE txseq' \in [Peer -> Int]
  BY <1>13, <1>t DEF QuietRound, Shape
<1>14. ASSUME NEW p \in Peer, GossipRound(p) \/ ReadGossip(p)
       PROVE  /\ stores' = {}
              /\ \A x \in Peer : \A m \in gsock'[x] : m.seq < txseq'[m.src]
              /\ \A x \in Peer : \A m, n \in gsock'[x] : m.src = n.src /\ m.seq = n.seq => m = n
  <2>1. UNCHANGED <<stores, txseq, faults>> /\ \A x \in Peer : gsock'[x] \subseteq gsock[x]
    BY <1>2, <1>8, <1>14
  <2> QED BY <1>1, <2>1
<1> QED BY <1>3, <1>4, <1>5, <1>6, <1>7, <1>9, <1>10, <1>11, <1>12, <1>13, <1>14 DEF Next

\* The mass a peer has on the wire is that of the message it awaits.
LEMMA WireMass ==
    ASSUME NEW G \in SUBSET ListType, Shape(G), NEW p \in Peer, NEW r \in insert[p],
           NEW s, NEW c \in {"f", "w"}
    PROVE  Wire(s, c)[p] = At(totalT[p][1], s)[c]
<1>1. insert[p] = {r} /\ r.msg.list = totalT[p][1] BY DEF Shape
<1>2. {x.msg : x \in insert[p]} = {} \cup {r.msg} BY <1>1
<1>3. r \in Req(G) BY DEF Shape
<1>4. r.msg \in Msg(G) BY <1>3 DEF Req
<1>5. PICK M \in SUBSET Msg(G) : M = {} OBVIOUS
<1>6. MsgMass(M \cup {r.msg}, s, c) = MsgMass(M, s, c) + At(r.msg.list, s)[c] BY <1>4, <1>5, MsgMassAdd
<1>7. MsgMass(M, s, c) = 0 BY <1>5, MsgMassEmpty
<1>8. At(r.msg.list, s)[c] \in Nat
  <2>1. r.msg.list \in ListType BY <1>4 DEF Msg
  <2> QED BY <2>1, EntryParts
<1>9. Wire(s, c)[p] = MsgMass({x.msg : x \in insert[p]}, s, c) BY DEF Wire
<1>10. {x.msg : x \in insert[p]} = M \cup {r.msg} BY <1>2, <1>5
<1>11. Wire(s, c)[p] = MsgMass(M \cup {r.msg}, s, c) BY <1>9, <1>10
<1> QED BY <1>1, <1>6, <1>7, <1>8, <1>11

\* A merge splits the mass of the peer into a half that is kept and a half on
\* the wire.
LEMMA GossipMass ==
    ASSUME NEW G \in SUBSET ListType, NEW s, NEW c \in {"f", "w"},
           \A Ts \in Seq(G) : Ts # <<>> =>
               \E L \in ListType : mergelists(Ts) = <<L>> /\ SeqMass(Ts, s, c) = 2 * At(L, s)[c],
           Shape(G), NEW H \in SUBSET ListType, Shape(H)', NEW p \in Peer, GossipRound(p)
    PROVE  TotalMass(s, c)' = TotalMass(s, c) /\ PS(s, c)!Split(p)
<1>1. totalT[p] \in Seq(G) /\ totalT[p] # <<>> BY DEF Shape
<1>2. totalT[p] \in Seq(ListType) BY <1>1, SeqLarger
<1>3. PICK L \in ListType : mergelists(totalT[p]) = <<L>> /\ SeqMass(totalT[p], s, c) = 2 * At(L, s)[c] BY <1>1
<1>4. totalT' = [totalT EXCEPT ![p] = <<L>>] BY <1>3 DEF GossipRound
<1>5. totalT'[p] = <<L>> /\ \A x \in Peer : x # p => totalT'[x] = totalT[x] BY <1>4 DEF Shape
<1>6. PICK q \in Peer : insert' = [insert EXCEPT ![p] = {Request(q, p, totalT'[p][1])}] BY DEF GossipRound
<1>7. PICK r : r = Request(q, p, totalT'[p][1]) OBVIOUS
<1>8. insert'[p] = {r} /\ \A x \in Peer : x # p => insert'[x] = insert[x] BY <1>6, <1>7 DEF Shape
<1>9. PICK k, i, w, o : k = Kept(s, c) /\ i = Inbox(s, c) /\ w = Wire(s, c) /\ o = Sock(s, c) OBVIOUS
<1>10. PICK k2, i2, w2, o2 : k2 = Kept(s, c)' /\ i2 = Inbox(s, c)' /\ w2 = Wire(s, c)' /\ o2 = Sock(s, c)' OBVIOUS
<1>11. k \in [Peer -> Nat] /\ i \in [Peer -> Nat] /\ w \in [Peer -> Nat] /\ o \in [Peer -> Nat]
  BY <1>9, MassTypes
<1>12. At(L, s)[c] \in Nat BY EntryParts
<1>13. k2[p] = At(L, s)[c] /\ i2[p] = 0 /\ w2[p] = At(L, s)[c]
  <2>1. <<L>>[1] = L /\ Tail(<<L>>) = <<>> OBVIOUS
  <2>2. k2[p] = At(totalT'[p][1], s)[c] /\ i2[p] = SeqMass(Tail(totalT'[p]), s, c) BY <1>10 DEF Kept, Inbox
  <2>3. w2[p] = MsgMass({x.msg : x \in insert'[p]}, s, c) BY <1>10 DEF Wire
  <2>4. r.msg.list = L BY <1>5, <1>7, <2>1 DEF Request
  <2>5. r \in Req(H) BY <1>8 DEF Shape
  <2>6. r.msg \in Msg(H) BY <2>5 DEF Req
  <2>7. {x.msg : x \in insert'[p]} = {} \cup {r.msg} BY <1>8
  <2>8. PICK M \in SUBSET Msg(H) : M = {} OBVIOUS
  <2>9. MsgMass(M \cup {r.msg}, s, c) = MsgMass(M, s, c) + At(r.msg.list, s)[c] BY <2>6, <2>8, MsgMassAdd
  <2>10. MsgMass(M, s, c) = 0 BY <2>8, MsgMassEmpty
  <2>12. {x.msg : x \in insert'[p]} = M \cup {r.msg} BY <2>7, <2>8
  <2>13. w2[p] = MsgMass(M \cup {r.msg}, s, c) BY <2>3, <2>12
  <2>11. w2[p] = At(L, s)[c] BY <1>12, <2>4, <2>9, <2>10, <2>13
  <2> QED BY <1>5, <2>1, <2>2, <2>11, SeqMassEmpty
<1>14. w[p] = 0
  <2>1. insert[p] = {} BY DEF GossipRound
  <2>2. {x.msg : x \in insert[p]} = {} BY <2>1
  <2>3. w[p] = MsgMass({x.msg : x \in insert[p]}, s, c) BY <1>9 DEF Wire
  <2> QED BY <2>2, <2>3, MsgMassEmpty
<1>15. k[p] + i[p] = 2 * At(L, s)[c]
  <2>1. SeqMass(totalT[p], s, c) = At(totalT[p][1], s)[c] + SeqMass(Tail(totalT[p]), s, c)
    BY <1>1, <1>2, SeqMassFirst
  <2>2. k[p] = At(totalT[p][1], s)[c] /\ i[p] = SeqMass(Tail(totalT[p]), s, c) BY <1>9 DEF Kept, Inbox
  <2> QED BY <1>3, <2>1, <2>2
<1>16. \A x \in Peer : x # p => k2[x] = k[x] /\ i2[x] = i[x] /\ w2[x] = w[x]
  BY <1>5, <1>8, <1>9, <1>10 DEF Kept, Inbox, Wire
<1>17. \A x \in Peer : o2[x] = o[x]
  <2>1. gsock' = gsock BY DEF GossipRound
  <2> QED BY <1>9, <1>10, <2>1 DEF Sock
<1>25. k2[p] \in Int /\ i2[p] \in Int /\ w2[p] \in Int BY <1>12, <1>13
<1>18. SumTo(N, k2) = SumTo(N, k) + (k2[p] - k[p]) /\ SumTo(N, k) \in Nat BY <1>11, <1>16, <1>25, PeerPoint
<1>19. SumTo(N, i2) = SumTo(N, i) + (i2[p] - i[p]) /\ SumTo(N, i) \in Nat BY <1>11, <1>16, <1>25, PeerPoint
<1>20. SumTo(N, w2) = SumTo(N, w) + (w2[p] - w[p]) /\ SumTo(N, w) \in Nat BY <1>11, <1>16, <1>25, PeerPoint
<1>21. SumTo(N, o2) = SumTo(N, o) /\ SumTo(N, o) \in Nat BY <1>11, <1>17, PeerSame
<1>22. k[p] \in Nat /\ i[p] \in Nat BY <1>11
<1>23. TotalMass(s, c) = SumTo(N, k) + SumTo(N, i) + SumTo(N, w) + SumTo(N, o) BY <1>9 DEF TotalMass
<1>24. TotalMass(s, c)' = SumTo(N, k2) + SumTo(N, i2) + SumTo(N, w2) + SumTo(N, o2) BY <1>10 DEF TotalMass
<1>26. PICK d \in Nat : d = At(L, s)[c] BY <1>12
<1>27. k2[p] = d /\ i2[p] = 0 /\ w2[p] = d /\ w[p] = 0 /\ k[p] + i[p] = 2 * d BY <1>13, <1>14, <1>15, <1>26
<1>28. (k2[p] - k[p]) + (i2[p] - i[p]) + (w2[p] - w[p]) = 0 BY <1>22, <1>26, <1>27
<1>29. k2[p] - k[p] \in Int /\ i2[p] - i[p] \in Int /\ w2[p] - w[p] \in Int BY <1>22, <1>26, <1>27
<1>30. TotalMass(s, c)' = TotalMass(s, c)
  <2>1. PICK x \in Int, y \in Int, z \in Int : x = k2[p] - k[p] /\ y = i2[p] - i[p] /\ z = w2[p] - w[p]
    BY <1>29
  <2>2. PICK A \in Nat, B \in Nat, C \in Nat, D \in Nat :
            A = SumTo(N, k) /\ B = SumTo(N, i) /\ C = SumTo(N, w) /\ D = SumTo(N, o)
    BY <1>18, <1>19, <1>20, <1>21
  <2>3. TotalMass(s, c) = A + B + C + D BY <1>23, <2>2
  <2>4. TotalMass(s, c)' = (A + x) + (B + y) + (C + z) + D
    BY <1>18, <1>19, <1>20, <1>21, <1>24, <2>1, <2>2
  <2>5. x + y + z = 0 BY <1>28, <2>1
  <2> QED BY <2>3, <2>4, <2>5
<1>31. /\ k2 = [k EXCEPT ![p] = d] /\ i2 = [i EXCEPT ![p] = 0] /\ w2 = [w EXCEPT ![p] = d] /\ o2 = o
  <2>1. /\ k2 = [x \in Peer |-> k2[x]] /\ i2 = [x \in Peer |-> i2[x]]
        /\ w2 = [x \in Peer |-> w2[x]] /\ o2 = [x \in Peer |-> o2[x]]
    BY <1>10, MassFunctions
  <2>2. k2 = [k EXCEPT ![p] = k2[p]] BY <1>11, <1>16, <2>1, FunExcept
  <2>3. i2 = [i EXCEPT ![p] = i2[p]] BY <1>11, <1>16, <2>1, FunExcept
  <2>4. w2 = [w EXCEPT ![p] = w2[p]] BY <1>11, <1>16, <2>1, FunExcept
  <2>5. o2 = o BY <1>11, <1>17, <2>1, FunEqual
  <2> QED BY <1>27, <2>2, <2>3, <2>4, <2>5
<1>32. Phase[p] = "sleep" /\ Phase' = [Phase EXCEPT ![p] = "await"]
  <2>1. insert[p] = {} BY DEF GossipRound
  <2> QED BY <1>8, <2>1 DEF Phase
<1>33. ~gossipdone[p] /\ gossipdone' = gossipdone BY DEF GossipRound
<1>34. d \in 0..(k[p] + i[p]) /\ d + d = k[p] + i[p] BY <1>22, <1>26, <1>27
<1>35. PS(s, c)!Split(p) BY <1>9, <1>10, <1>31, <1>32, <1>33, <1>34 DEF PS!Split
<1> QED BY <1>30, <1>35

\* A message that is handed over moves its mass to the socket.
LEMMA OKMass ==
    ASSUME NEW G \in SUBSET ListType, Shape(G), Clean, faults = 0, NEW s, NEW c \in {"f", "w"},
           NEW p \in Peer, InsertOK(p)
    PROVE  TotalMass(s, c)' = TotalMass(s, c) /\ \E q \in Peer : PS(s, c)!Accept(p, q)
<1>1. PICK r \in insert[p] :
            /\ gsock' = [gsock EXCEPT ![r.to] = @ \cup {r.msg}]
            /\ EndRound(p)
            /\ UNCHANGED totalT
  BY DEF InsertOK
<1>2. r.msg.src = p /\ r.msg.seq = txseq[p] /\ r.msg.list = totalT[p][1] BY DEF Shape
<1>3. r \in Req(G) BY DEF Shape
<1>4. r.to \in Peer /\ r.msg \in Msg(G) BY <1>3 DEF Req
<1>5. PICK q \in Peer : q = r.to BY <1>4
<1>6. gsock'[q] = gsock[q] \cup {r.msg} /\ \A x \in Peer : x # q => gsock'[x] = gsock[x] BY <1>1, <1>5 DEF Shape
<1>7. insert'[p] = {} /\ \A x \in Peer : x # p => insert'[x] = insert[x] BY <1>1 DEF EndRound, Shape
<1>9. PICK k, i, w, o : k = Kept(s, c) /\ i = Inbox(s, c) /\ w = Wire(s, c) /\ o = Sock(s, c) OBVIOUS
<1>10. PICK k2, i2, w2, o2 : k2 = Kept(s, c)' /\ i2 = Inbox(s, c)' /\ w2 = Wire(s, c)' /\ o2 = Sock(s, c)' OBVIOUS
<1>11. k \in [Peer -> Nat] /\ i \in [Peer -> Nat] /\ w \in [Peer -> Nat] /\ o \in [Peer -> Nat]
  BY <1>9, MassTypes
<1>12. w[p] = At(totalT[p][1], s)[c] /\ w2[p] = 0
  <2>1. w[p] = At(totalT[p][1], s)[c] BY <1>9, WireMass
  <2>2. {x.msg : x \in insert'[p]} = {} BY <1>7
  <2>3. w2[p] = MsgMass({x.msg : x \in insert'[p]}, s, c) BY <1>10 DEF Wire
  <2> QED BY <2>1, <2>2, <2>3, MsgMassEmpty
<1>13. o2[q] = o[q] + w[p]
  <2>1. \A n \in gsock[q] : n.src = p => n.seq \in Int /\ n.seq < txseq[p] BY DEF Clean, Shape, Msg
  <2>2. txseq[p] \in Int BY DEF Shape
  <2>3. \A n \in gsock[q] : n.src # r.msg.src \/ n.seq # r.msg.seq BY <1>2, <2>1, <2>2
  <2>4. gsock[q] \in SUBSET Msg(G) BY DEF Shape
  <2>7. PICK M \in SUBSET Msg(G), m \in Msg(G) : M = gsock[q] /\ m = r.msg BY <1>4, <2>4
  <2>8. \A n \in M : n.src # m.src \/ n.seq # m.seq BY <2>3, <2>7
  <2>9. MsgMass(M \cup {m}, s, c) = MsgMass(M, s, c) + At(m.list, s)[c] BY ZenonT(30), <2>8, MsgMassAdd
  <2>5. MsgMass(gsock[q] \cup {r.msg}, s, c) = MsgMass(gsock[q], s, c) + At(r.msg.list, s)[c]
    BY <2>7, <2>9
  <2>6. o[q] = MsgMass(gsock[q], s, c) /\ o2[q] = MsgMass(gsock'[q], s, c) BY <1>9, <1>10 DEF Sock
  <2> QED BY <1>2, <1>6, <1>12, <2>5, <2>6
<1>14. \A x \in Peer : k2[x] = k[x] /\ i2[x] = i[x] BY <1>1, <1>9, <1>10 DEF Kept, Inbox
<1>15. \A x \in Peer : x # p => w2[x] = w[x] BY <1>7, <1>9, <1>10 DEF Wire
<1>16. \A x \in Peer : x # q => o2[x] = o[x] BY <1>6, <1>9, <1>10 DEF Sock
<1>17. w[p] \in Nat /\ o[q] \in Nat BY <1>11
<1>18. SumTo(N, k2) = SumTo(N, k) /\ SumTo(N, k) \in Nat BY <1>11, <1>14, PeerSame
<1>19. SumTo(N, i2) = SumTo(N, i) /\ SumTo(N, i) \in Nat BY <1>11, <1>14, PeerSame
<1>25. w2[p] \in Int BY <1>12
<1>20. SumTo(N, w2) = SumTo(N, w) + (w2[p] - w[p]) /\ SumTo(N, w) \in Nat BY <1>11, <1>15, <1>25, PeerPoint
<1>21. o2[q] \in Int BY <1>13, <1>17
<1>22. SumTo(N, o2) = SumTo(N, o) + (o2[q] - o[q]) /\ SumTo(N, o) \in Nat BY <1>11, <1>16, <1>21, PeerPoint
<1>23. TotalMass(s, c) = SumTo(N, k) + SumTo(N, i) + SumTo(N, w) + SumTo(N, o) BY <1>9 DEF TotalMass
<1>24. TotalMass(s, c)' = SumTo(N, k2) + SumTo(N, i2) + SumTo(N, w2) + SumTo(N, o2) BY <1>10 DEF TotalMass
<1>30. TotalMass(s, c)' = TotalMass(s, c) BY <1>12, <1>13, <1>17, <1>18, <1>19, <1>20, <1>22, <1>23, <1>24
<1>31. k2 = k /\ i2 = i /\ w2 = [w EXCEPT ![p] = 0] /\ o2 = [o EXCEPT ![q] = @ + w[p]]
  <2>1. /\ k2 = [x \in Peer |-> k2[x]] /\ i2 = [x \in Peer |-> i2[x]]
        /\ w2 = [x \in Peer |-> w2[x]] /\ o2 = [x \in Peer |-> o2[x]]
    BY <1>10, MassFunctions
  <2>2. k2 = k BY <1>11, <1>14, <2>1, FunEqual
  <2>3. i2 = i BY <1>11, <1>14, <2>1, FunEqual
  <2>4. w2 = [w EXCEPT ![p] = w2[p]] BY <1>11, <1>15, <2>1, FunExcept
  <2>5. o2 = [o EXCEPT ![q] = o2[q]] BY <1>11, <1>16, <2>1, FunExcept
  <2> QED BY <1>12, <1>13, <2>2, <2>3, <2>4, <2>5
<1>32. Phase[p] = "await" /\ Phase' = [Phase EXCEPT ![p] = "sleep"] BY <1>7 DEF Phase
<1>33. gossipdone' = gossipdone BY DEF InsertOK
<1>34. PS(s, c)!Accept(p, q) BY <1>9, <1>10, <1>31, <1>32, <1>33 DEF PS!Accept
<1> QED BY <1>30, <1>34

\* A failed message is consumed: the half on the wire is kept again.
LEMMA FailMass ==
    ASSUME NEW G \in SUBSET ListType, \A T \in G : multiplyfreq(T) \in G, Shape(G),
           consume_failed_msgs, NEW s, NEW c \in {"f", "w"}, NEW p \in Peer, InsertFail(p)
    PROVE  TotalMass(s, c)' = TotalMass(s, c) /\ PS(s, c)!Consume(p)
<1>1. insert[p] # {} /\ EndRound(p) /\ gsock' = gsock BY DEF InsertFail
<1>2. totalT[p] \in Seq(G) /\ totalT[p] # <<>> BY DEF Shape
<1>3. totalT[p][1] \in G /\ totalT[p][1] \in ListType BY <1>2
<1>4. PICK L \in ListType : L = multiplyfreq(totalT[p][1]) BY <1>3
<1>5. PICK Ts : Ts = [totalT[p] EXCEPT ![1] = L] OBVIOUS
<1>6. totalT' = [totalT EXCEPT ![p] = Ts] BY <1>4, <1>5 DEF InsertFail, ConsumeFailed
<1>7. totalT'[p] = Ts /\ \A x \in Peer : x # p => totalT'[x] = totalT[x] BY <1>6 DEF Shape
<1>8. Ts[1] = L /\ Tail(Ts) = Tail(totalT[p])
  <2>0. totalT[p] \in Seq(ListType) BY <1>2, SeqLarger
  <2>1. Ts \in Seq(ListType) /\ Len(Ts) = Len(totalT[p]) /\ Ts[1] = L BY <1>2, <1>5, <2>0
  <2>2. \A j \in 2..Len(Ts) : Ts[j] = totalT[p][j] BY <1>2, <1>5, <2>0, <2>1
  <2>3. PICK U, V : U = Tail(Ts) /\ V = Tail(totalT[p]) OBVIOUS
  <2>4. /\ U \in Seq(ListType) /\ V \in Seq(ListType) /\ Len(U) = Len(V)
        /\ \A j \in 1..Len(U) : U[j] = Ts[j + 1] /\ V[j] = totalT[p][j + 1] /\ j + 1 \in 2..Len(Ts)
    BY <1>2, <2>0, <2>1, <2>3
  <2>5. \A j \in 1..Len(U) : U[j] = V[j] BY <2>2, <2>4
  <2>6. U = V BY <2>4, <2>5, SeqEqual
  <2> QED BY <2>1, <2>3, <2>6
<1>9. PICK k, i, w, o : k = Kept(s, c) /\ i = Inbox(s, c) /\ w = Wire(s, c) /\ o = Sock(s, c) OBVIOUS
<1>10. PICK k2, i2, w2, o2 : k2 = Kept(s, c)' /\ i2 = Inbox(s, c)' /\ w2 = Wire(s, c)' /\ o2 = Sock(s, c)' OBVIOUS
<1>11. k \in [Peer -> Nat] /\ i \in [Peer -> Nat] /\ w \in [Peer -> Nat] /\ o \in [Peer -> Nat]
  BY <1>9, MassTypes
<1>12. w[p] = k[p] /\ w2[p] = 0
  <2>0. PICK r \in insert[p] : TRUE BY <1>1
  <2>1. w[p] = At(totalT[p][1], s)[c] BY <1>9, <2>0, WireMass
  <2>2. insert'[p] = {} BY <1>1 DEF EndRound, Shape
  <2>3. {x.msg : x \in insert'[p]} = {} BY <2>2
  <2>4. w2[p] = MsgMass({x.msg : x \in insert'[p]}, s, c) BY <1>10 DEF Wire
  <2>5. k[p] = At(totalT[p][1], s)[c] BY <1>9 DEF Kept
  <2> QED BY <2>1, <2>3, <2>4, <2>5, MsgMassEmpty
<1>13. k2[p] = 2 * k[p]
  <2>1. k[p] = At(totalT[p][1], s)[c] /\ k2[p] = At(totalT'[p][1], s)[c] BY <1>9, <1>10 DEF Kept
  <2>2. At(L, s)[c] = 2 * At(totalT[p][1], s)[c] BY <1>3, <1>4, MultiplyMass
  <2> QED BY <1>7, <1>8, <2>1, <2>2
<1>14. \A x \in Peer : i2[x] = i[x] BY <1>7, <1>8, <1>9, <1>10 DEF Inbox
<1>15. \A x \in Peer : x # p => k2[x] = k[x] BY <1>7, <1>9, <1>10 DEF Kept
<1>16. \A x \in Peer : x # p => w2[x] = w[x] BY <1>1, <1>9, <1>10 DEF Wire, EndRound, Shape
<1>17. \A x \in Peer : o2[x] = o[x] BY <1>1, <1>9, <1>10 DEF Sock
<1>18. k[p] \in Nat /\ k2[p] \in Int BY <1>11, <1>13
<1>19. SumTo(N, k2) = SumTo(N, k) + (k2[p] - k[p]) /\ SumTo(N, k) \in Nat BY <1>11, <1>15, <1>18, PeerPoint
<1>20. SumTo(N, i2) = SumTo(N, i) /\ SumTo(N, i) \in Nat BY <1>11, <1>14, PeerSame
<1>25. w2[p] \in Int BY <1>12
<1>21. SumTo(N, w2) = SumTo(N, w) + (w2[p] - w[p]) /\ SumTo(N, w) \in Nat BY <1>11, <1>16, <1>25, PeerPoint
<1>22. SumTo(N, o2) = SumTo(N, o) /\ SumTo(N, o) \in Nat BY <1>11, <1>17, PeerSame
<1>23. TotalMass(s, c) = SumTo(N, k) + SumTo(N, i) + SumTo(N, w) + SumTo(N, o) BY <1>9 DEF TotalMass
<1>24. TotalMass(s, c)' = SumTo(N, k2) + SumTo(N, i2) + SumTo(N, w2) + SumTo(N, o2) BY <1>10 DEF TotalMass
<1>30. TotalMass(s, c)' = TotalMass(s, c) BY <1>12, <1>13, <1>18, <1>19, <1>20, <1>21, <1>22, <1>23, <1>24
<1>31. k2 = [k EXCEPT ![p] = 2 * @] /\ i2 = i /\ w2 = [w EXCEPT ![p] = 0] /\ o2 = o
  <2>1. /\ k2 = [x \in Peer |-> k2[x]] /\ i2 = [x \in Peer |-> i2[x]]
        /\ w2 = [x \in Peer |-> w2[x]] /\ o2 = [x \in Peer |-> o2[x]]
    BY <1>10, MassFunctions
  <2>2. k2 = [k EXCEPT ![p] = k2[p]] BY <1>11, <1>15, <2>1, FunExcept
  <2>3. i2 = i BY <1>11, <1>14, <2>1, FunEqual
  <2>4. w2 = [w EXCEPT ![p] = w2[p]] BY <1>11, <1>16, <2>1, FunExcept
  <2>5. o2 = o BY <1>11, <1>17, <2>1, FunEqual
  <2> QED BY <1>12, <1>13, <2>2, <2>3, <2>4, <2>5
<1>32. Phase[p] = "await" /\ Phase' = [Phase EXCEPT ![p] = "sleep"] BY <1>1 DEF Phase, EndRound, Shape
<1>33. gossipdone' = gossipdone BY DEF InsertFail
<1>34. PS(s, c)!Consume(p) BY <1>9, <1>10, <1>31, <1>32, <1>33 DEF PS!Consume
<1> QED BY <1>30, <1>34

\* A message that is read moves its mass from the socket to the lists to merge.
LEMMA ReadMass ==
    ASSUME NEW G \in SUBSET ListType, Shape(G), Clean, faults = 0, faults' = 0,
           NEW s, NEW c \in {"f", "w"}, NEW p \in Peer, ReadGossip(p)
    PROVE  TotalMass(s, c)' = TotalMass(s, c) /\ PS(s, c)!Read(p)
<1>1. PICK m \in gsock[p] :
            /\ gsock' = [gsock EXCEPT ![p] = @ \ {m}]
            /\ totalT' = [totalT EXCEPT ![p] = Append(@, m.list)]
            /\ UNCHANGED insert
  <2>1. PICK m \in gsock[p] :
            /\ gsock' = [gsock EXCEPT ![p] = @ \ {m}]
            /\ \/ totalT' = [totalT EXCEPT ![p] = Append(@, m.list)]
               \/ Fault
            /\ UNCHANGED insert
    BY DEF ReadGossip
  <2>2. ~Fault BY DEF Fault
  <2> QED BY <2>1, <2>2
<1>2. gsock[p] \in SUBSET Msg(G) BY DEF Shape
<1>3. m \in Msg(G) BY <1>2
<1>4. m.list \in G /\ m.list \in ListType BY <1>3 DEF Msg
<1>5. totalT[p] \in Seq(G) /\ totalT[p] # <<>> BY DEF Shape
<1>6. totalT'[p] = Append(totalT[p], m.list) /\ \A x \in Peer : x # p => totalT'[x] = totalT[x] BY <1>1 DEF Shape
<1>7. gsock'[p] = gsock[p] \ {m} /\ \A x \in Peer : x # p => gsock'[x] = gsock[x] BY <1>1 DEF Shape
<1>8. totalT'[p][1] = totalT[p][1] /\ Tail(totalT'[p]) = Append(Tail(totalT[p]), m.list)
  BY <1>4, <1>5, <1>6, AppendTail
<1>9. PICK k, i, w, o : k = Kept(s, c) /\ i = Inbox(s, c) /\ w = Wire(s, c) /\ o = Sock(s, c) OBVIOUS
<1>10. PICK k2, i2, w2, o2 : k2 = Kept(s, c)' /\ i2 = Inbox(s, c)' /\ w2 = Wire(s, c)' /\ o2 = Sock(s, c)' OBVIOUS
<1>11. k \in [Peer -> Nat] /\ i \in [Peer -> Nat] /\ w \in [Peer -> Nat] /\ o \in [Peer -> Nat]
  BY <1>9, MassTypes
<1>12. PICK d \in Nat : d = At(m.list, s)[c] BY <1>4, EntryParts
<1>13. o[p] = o2[p] + d /\ o2[p] \in Nat
  <2>1. PICK M \in SUBSET Msg(G) : M = gsock[p] \ {m} BY <1>2
  <2>2. \A n \in M : n.src # m.src \/ n.seq # m.seq BY <2>1 DEF Clean
  <2>3. MsgMass(M \cup {m}, s, c) = MsgMass(M, s, c) + At(m.list, s)[c] BY <1>3, <2>1, <2>2, MsgMassAdd
  <2>4. M \cup {m} = gsock[p] BY <2>1
  <2>5. o[p] = MsgMass(gsock[p], s, c) /\ o2[p] = MsgMass(gsock'[p], s, c) BY <1>9, <1>10 DEF Sock
  <2>6. MsgMass(M, s, c) \in Nat BY <2>1, MsgMassNat
  <2> QED BY <1>7, <1>12, <2>1, <2>3, <2>4, <2>5, <2>6
<1>14. i2[p] = i[p] + d
  <2>1. i[p] = SeqMass(Tail(totalT[p]), s, c) /\ i2[p] = SeqMass(Tail(totalT'[p]), s, c) BY <1>9, <1>10 DEF Inbox
  <2>2. totalT[p] \in Seq(ListType) BY <1>5, SeqLarger
  <2>3. Tail(totalT[p]) \in Seq(ListType) BY <1>5, <2>2
  <2> QED BY <1>4, <1>8, <1>12, <2>1, <2>3, SeqMassAppend
<1>15. \A x \in Peer : k2[x] = k[x] /\ w2[x] = w[x] BY <1>1, <1>6, <1>8, <1>9, <1>10 DEF Kept, Wire
<1>16. \A x \in Peer : x # p => i2[x] = i[x] /\ o2[x] = o[x] BY <1>6, <1>7, <1>9, <1>10 DEF Inbox, Sock
<1>17. i[p] \in Nat /\ o[p] \in Nat /\ i2[p] \in Int BY <1>11, <1>12, <1>14
<1>18. SumTo(N, k2) = SumTo(N, k) /\ SumTo(N, k) \in Nat BY <1>11, <1>15, PeerSame
<1>19. SumTo(N, w2) = SumTo(N, w) /\ SumTo(N, w) \in Nat BY <1>11, <1>15, PeerSame
<1>20. SumTo(N, i2) = SumTo(N, i) + (i2[p] - i[p]) /\ SumTo(N, i) \in Nat BY <1>11, <1>16, <1>17, PeerPoint
<1>25. o2[p] \in Int BY <1>13
<1>21. SumTo(N, o2) = SumTo(N, o) + (o2[p] - o[p]) /\ SumTo(N, o) \in Nat BY <1>11, <1>16, <1>25, PeerPoint
<1>23. TotalMass(s, c) = SumTo(N, k) + SumTo(N, i) + SumTo(N, w) + SumTo(N, o) BY <1>9 DEF TotalMass
<1>24. TotalMass(s, c)' = SumTo(N, k2) + SumTo(N, i2) + SumTo(N, w2) + SumTo(N, o2) BY <1>10 DEF TotalMass
<1>30. TotalMass(s, c)' = TotalMass(s, c) BY <1>13, <1>14, <1>17, <1>18, <1>19, <1>20, <1>21, <1>23, <1>24
<1>31. k2 = k /\ w2 = w /\ i2 = [i EXCEPT ![p] = @ + d] /\ o2 = [o EXCEPT ![p] = @ - d]
  <2>1. /\ k2 = [x \in Peer |-> k2[x]] /\ i2 = [x \in Peer |-> i2[x]]
        /\ w2 = [x \in Peer |-> w2[x]] /\ o2 = [x \in Peer |-> o2[x]]
    BY <1>10, MassFunctions
  <2>2. k2 = k BY <1>11, <1>15, <2>1, FunEqual
  <2>3. w2 = w BY <1>11, <1>15, <2>1, FunEqual
  <2>4. i2 = [i EXCEPT ![p] = i2[p]] BY <1>11, <1>16, <2>1, FunExcept
  <2>5. o2 = [o EXCEPT ![p] = o2[p]] BY <1>11, <1>16, <2>1, FunExcept
  <2>6. o2[p] = o[p] - d BY <1>13, <1>17
  <2> QED BY <1>14, <2>2, <2>3, <2>4, <2>5, <2>6
<1>32. d \in 0..o[p] BY <1>13, <1>17
<1>33. Phase' = Phase BY <1>1 DEF Phase
<1>34. gossipdone' = gossipdone BY DEF ReadGossip
<1>35. PS(s, c)!Read(p) BY <1>9, <1>10, <1>31, <1>32, <1>33, <1>34 DEF PS!Read
<1> QED BY <1>30, <1>35

\* A peer that has finished drops what it still receives.
LEMMA QuietMass ==
    ASSUME NEW G \in SUBSET ListType, Shape(G), NEW s, NEW c \in {"f", "w"}, NEW p \in Peer, QuietRound(p)
    PROVE  PS(s, c)!Drop(p)
<1>1. PICK Ts : Ts = <<totalT[p][1]>> OBVIOUS
<1>2. Ts[1] = totalT[p][1] /\ Tail(Ts) = <<>> BY <1>1
<1>3. /\ insert[p] = {}
      /\ gossipdone' = [gossipdone EXCEPT ![p] = TRUE]
      /\ totalT' = [totalT EXCEPT ![p] = Ts]
      /\ UNCHANGED <<insert, gsock>>
  BY <1>1 DEF QuietRound, mergelists_nogossip
<1>4. totalT'[p] = Ts /\ \A x \in Peer : x # p => totalT'[x] = totalT[x] BY <1>3 DEF Shape
<1>9. PICK k, i, w, o : k = Kept(s, c) /\ i = Inbox(s, c) /\ w = Wire(s, c) /\ o = Sock(s, c) OBVIOUS
<1>10. PICK k2, i2, w2, o2 : k2 = Kept(s, c)' /\ i2 = Inbox(s, c)' /\ w2 = Wire(s, c)' /\ o2 = Sock(s, c)' OBVIOUS
<1>11. k \in [Peer -> Nat] /\ i \in [Peer -> Nat] /\ w \in [Peer -> Nat] /\ o \in [Peer -> Nat]
  BY <1>9, MassTypes
<1>12. \A x \in Peer : k2[x] = k[x] /\ w2[x] = w[x] /\ o2[x] = o[x]
  BY <1>2, <1>3, <1>4, <1>9, <1>10 DEF Kept, Wire, Sock
<1>13. i2[p] = 0 /\ \A x \in Peer : x # p => i2[x] = i[x]
  <2>1. i2[p] = SeqMass(Tail(totalT'[p]), s, c) BY <1>10 DEF Inbox
  <2>2. i2[p] = 0 BY <1>2, <1>4, <2>1, SeqMassEmpty
  <2> QED BY <1>4, <1>9, <1>10, <2>2 DEF Inbox
<1>14. k2 = k /\ w2 = w /\ o2 = o /\ i2 = [i EXCEPT ![p] = 0]
  <2>1. /\ k2 = [x \in Peer |-> k2[x]] /\ i2 = [x \in Peer |-> i2[x]]
        /\ w2 = [x \in Peer |-> w2[x]] /\ o2 = [x \in Peer |-> o2[x]]
    BY <1>10, MassFunctions
  <2>2. k2 = k BY <1>11, <1>12, <2>1, FunEqual
  <2>3. w2 = w BY <1>11, <1>12, <2>1, FunEqual
  <2>4. o2 = o BY <1>11, <1>12, <2>1, FunEqual
  <2>5. i2 = [i EXCEPT ![p] = i2[p]] BY <1>11, <1>13, <2>1, FunExcept
  <2> QED BY <1>13, <2>2, <2>3, <2>4, <2>5
<1>15. Phase[p] = "sleep" /\ Phase' = Phase BY <1>3 DEF Phase
<1> QED BY <1>3, <1>9, <1>10, <1>14, <1>15 DEF PS!Drop

\* The inductive invariant of the mass.
MassInv(half, lo, hi) == Inv(half, lo, hi) /\ Clean /\ MassConserved

\* The list a peer starts with.
LEMMA StartLists ==
    ASSUME NEW p \in Peer, NEW s \in Sig
    PROVE  /\ calcfreq(Docs[p]) \in ListType
           /\ \A c \in {"f", "w"} : At(calcfreq(Docs[p]), s)[c] = IF c = "w" THEN Unit ELSE Docs[p][s] * Unit
<1>1. PICK docs \in [Sig -> Nat] : docs = Docs[p] BY VanillaAssumption
<1> QED BY <1>1, StartMasses, CalcfreqStart

\* Initially all the mass is kept.
LEMMA InitMass ==
    ASSUME NEW half \in [0..(N * rounds) -> Nat], Halves(half, N * rounds), NEW lo, NEW hi, Bounds(lo, hi), Init
    PROVE  MassInv(half, lo, hi)
<1>1. Inv(half, lo, hi) BY InitInv
<1>2. Clean BY DEF Init, Clean
<1>3. ASSUME NEW s \in Sig, NEW c \in {"f", "w"} PROVE TotalMass(s, c) = SumTo(N, StartMass(s, c))
  <2>1. N \in Nat /\ Holders = {} /\ Docs \in [Peer -> [Sig -> Nat]] /\ N * rounds \in Nat /\ rounds \in Nat
    BY VanillaAssumption
  <2>2. PICK k, i, w, o, st : /\ k = Kept(s, c) /\ i = Inbox(s, c) /\ w = Wire(s, c) /\ o = Sock(s, c)
                              /\ st = StartMass(s, c)
    OBVIOUS
  <2>5. Unit \in Nat BY ListAssumption
  <2>6. ASSUME NEW p \in Peer PROVE k[p] = st[p] /\ st[p] \in Nat /\ i[p] = 0 /\ w[p] = 0 /\ o[p] = 0
    <3>1. PICK T : T = calcfreq(Docs[p]) OBVIOUS
    <3>5. At(T, s)[c] = IF c = "w" THEN Unit ELSE Docs[p][s] * Unit BY <3>1, StartLists
    <3>6. totalT[p] = <<T>> BY <3>1 DEF Init
    <3>7. <<T>>[1] = T /\ Tail(<<T>>) = <<>> OBVIOUS
    <3>8. k[p] = At(T, s)[c] /\ i[p] = SeqMass(<<>>, s, c) BY <2>2, <3>6, <3>7 DEF Kept, Inbox
    <3>9. st[p] = IF c = "w" THEN Unit ELSE Docs[p][s] * Unit BY <2>2 DEF StartMass
    <3>10. Docs[p][s] \in Nat /\ Docs[p][s] * Unit \in Nat BY <2>1, <2>5
    <3>11. insert[p] = {} /\ gsock[p] = {} BY DEF Init
    <3>12. {r.msg : r \in insert[p]} = {} BY <3>11
    <3>13. w[p] = MsgMass({}, s, c) /\ o[p] = MsgMass({}, s, c) BY <2>2, <3>11, <3>12 DEF Wire, Sock
    <3> QED BY <2>5, <3>5, <3>8, <3>9, <3>10, <3>13, SeqMassEmpty, MsgMassEmpty
  <2>7. SumTo(N, i) = 0 /\ SumTo(N, w) = 0 /\ SumTo(N, o) = 0 BY <2>1, <2>6, SumZero DEF Peer
  <2>8. SumTo(N, k) = SumTo(N, st) /\ SumTo(N, st) \in Nat
    <3>1. \A j \in 1..N : st[j] \in Nat /\ st[j] \in Int /\ k[j] = st[j] BY <2>6 DEF Peer
    <3> QED BY <2>1, <3>1, SumEqual, SumNat
  <2> QED BY <2>2, <2>7, <2>8 DEF TotalMass
<1> QED BY <1>1, <1>2, <1>3 DEF MassInv, MassConserved

\* Before the first fault every step is one of push-sum, for every signature and
\* both of its components, and keeps their total unless a peer finishes.
LEMMA StepPushSum ==
    ASSUME NEW half \in [0..(N * rounds) -> Nat], Halves(half, N * rounds), NEW lo, NEW hi, Bounds(lo, hi),
           Inv(half, lo, hi), Inv(half, lo, hi)', Clean, [Next]_vars,
           consume_failed_msgs, faults' = 0, NEW s \in Sig, NEW c \in {"f", "w"}
    PROVE  /\ faults = 0
           /\ [PS(s, c)!Next]_(PS(s, c)!vars)
           /\ (\A p \in Peer : ~gossipdone'[p]) =>
                  (\A p \in Peer : ~gossipdone[p]) /\ TotalMass(s, c)' = TotalMass(s, c)
<1> DEFINE Goal ==
           /\ faults = 0
           /\ [PS(s, c)!Next]_(PS(s, c)!vars)
           /\ (\A p \in Peer : ~gossipdone'[p]) =>
                  (\A p \in Peer : ~gossipdone[p]) /\ TotalMass(s, c)' = TotalMass(s, c)
<1>3. PICK h, g : h = half[MergesLeft] /\ g = half[MergesLeft'] OBVIOUS
<1>4. h \in Nat /\ g \in Nat
  <2>1. MergesLeft \in 0..(N * rounds) /\ MergesLeft' \in 0..(N * rounds) BY DEF Inv
  <2> QED BY <1>3, <2>1
<1>5. PICK G, H : G = Good(h, lo, hi) /\ H = Good(g, lo, hi) OBVIOUS
<1>6. G \in SUBSET ListType /\ H \in SUBSET ListType BY <1>5 DEF Good
<1>7. Shape(G) BY <1>3, <1>5 DEF Inv
<1>8. Shape(H)' BY <1>3, <1>5 DEF Inv
<1>9. lo \in [Sig -> Nat] /\ hi \in [Sig -> Nat] BY DEF Bounds
<1>10. ~Fault BY <1>7 DEF Fault, Shape
<1>11. ASSUME NEW p \in Peer, GossipRound(p) PROVE Goal
  <2>1. MergesLeft' = MergesLeft - 1 BY <1>7, <1>11, GossipLeft
  <2>2. MergesLeft \in 0..(N * rounds) /\ MergesLeft' \in 0..(N * rounds) BY DEF Inv
  <2>3. N * rounds \in Nat BY VanillaAssumption
  <2>4. MergesLeft \in 1..(N * rounds) BY <2>1, <2>2, <2>3
  <2>5. h = 2 * g BY <1>3, <2>1, <2>4 DEF Halves
  <2>6. ASSUME NEW Ts \in Seq(G), Ts # <<>>
        PROVE  \E L \in ListType : mergelists(Ts) = <<L>> /\ SeqMass(Ts, s, c) = 2 * At(L, s)[c]
    <3>1. Ts \in Seq(Good(2 * g, lo, hi)) BY <1>5, <2>5
    <3>2. PICK L \in Good(g, lo, hi) :
              /\ mergelists(Ts) = <<L>>
              /\ \A x \in Sig : \A y \in {"f", "w"} : SeqMass(Ts, x, y) = 2 * At(L, x)[y]
      BY <1>4, <1>9, <2>6, <3>1, MergeMass
    <3>3. L \in ListType BY <1>5, <1>6
    <3> QED BY <3>2, <3>3
  <2>7. TotalMass(s, c)' = TotalMass(s, c) /\ PS(s, c)!Split(p) BY <1>6, <1>7, <1>8, <1>11, <2>6, GossipMass
  <2>8. faults' = faults /\ gossipdone' = gossipdone BY <1>11 DEF GossipRound
  <2>9. PS(s, c)!Next BY <2>7 DEF PS!Next, Peer, PS!Peer
  <2> QED BY <2>7, <2>8, <2>9
<1>12. ASSUME NEW p \in Peer, QuietRound(p) PROVE Goal
  <2>1. PS(s, c)!Drop(p) BY <1>6, <1>7, <1>12, QuietMass
  <2>2. faults' = faults /\ gossipdone'[p] BY <1>7, <1>12 DEF QuietRound, Shape
  <2>3. PS(s, c)!Next BY <2>1 DEF PS!Next, Peer, PS!Peer
  <2> QED BY <2>2, <2>3
<1>13. ASSUME NEW p \in Peer, InsertOK(p) PROVE Goal
  <2>1. faults' = faults /\ gossipdone' = gossipdone BY <1>10, <1>13 DEF InsertOK, Pending
  <2>2. faults = 0 BY <2>1
  <2>3. TotalMass(s, c)' = TotalMass(s, c) /\ \E q \in Peer : PS(s, c)!Accept(p, q)
    BY <1>6, <1>7, <1>13, <2>2, OKMass
  <2>4. PS(s, c)!Next BY <2>3 DEF PS!Next, Peer, PS!Peer
  <2> QED BY <2>1, <2>3, <2>4
<1>14. ASSUME NEW p \in Peer, InsertFail(p) PROVE Goal
  <2>1. faults' = faults /\ gossipdone' = gossipdone BY <1>14 DEF InsertFail
  <2>2. \A T \in G : multiplyfreq(T) \in G BY <1>4, <1>5, <1>9, MultiplyGood
  <2>3. TotalMass(s, c)' = TotalMass(s, c) /\ PS(s, c)!Consume(p) BY <1>6, <1>7, <1>14, <2>2, FailMass
  <2>4. PS(s, c)!Next BY <2>3 DEF PS!Next, Peer, PS!Peer
  <2> QED BY <2>1, <2>3, <2>4
<1>15. ASSUME NEW p \in Peer, InsertTimeout(p) PROVE FALSE
  BY <1>10, <1>15 DEF InsertTimeout, Pending
<1>16. ASSUME NEW p \in Peer, ReadGossip(p) PROVE Goal
  <2>1. faults' = faults /\ gossipdone' = gossipdone BY <1>10, <1>16 DEF ReadGossip
  <2>2. faults = 0 BY <2>1
  <2>3. TotalMass(s, c)' = TotalMass(s, c) /\ PS(s, c)!Read(p) BY <1>6, <1>7, <1>16, <2>2, ReadMass
  <2>4. PS(s, c)!Next BY <2>3 DEF PS!Next, Peer, PS!Peer
  <2> QED BY <2>1, <2>3, <2>4
<1>17. ASSUME StoreArrives PROVE FALSE
  <2>1. faults' = faults /\ stores # {} BY <1>17 DEF StoreArrives
  <2> QED BY <2>1 DEF Clean
<1>18. ASSUME UNCHANGED vars PROVE Goal
  <2>1. /\ Kept(s, c)' = Kept(s, c) /\ Inbox(s, c)' = Inbox(s, c)
        /\ Wire(s, c)' = Wire(s, c) /\ Sock(s, c)' = Sock(s, c)
        /\ Phase' = Phase /\ gossipdone' = gossipdone /\ faults' = faults
    BY <1>18 DEF vars, Kept, Inbox, Wire, Sock, Phase
  <2>2. UNCHANGED PS(s, c)!vars BY <2>1 DEF PS!vars
  <2>3. TotalMass(s, c)' = TotalMass(s, c) BY <2>1 DEF TotalMass
  <2> QED BY <2>1, <2>2, <2>3
<1> HIDE DEF Goal
<1>19. Goal BY <1>11, <1>12, <1>13, <1>14, <1>15, <1>16, <1>17, <1>18 DEF Next
<1> QED BY <1>19 DEF Goal

\* Every step conserves mass: while all peers gossip and before the first fault
\* the total of every signature stays what it was.
LEMMA NextMass ==
    ASSUME NEW half \in [0..(N * rounds) -> Nat], Halves(half, N * rounds), NEW lo, NEW hi, Bounds(lo, hi),
           MassInv(half, lo, hi), [Next]_vars
    PROVE  MassInv(half, lo, hi)'
<1>1. Inv(half, lo, hi) /\ Clean /\ MassConserved BY DEF MassInv
<1>2. Inv(half, lo, hi)' BY <1>1, NextInv
<1>3. Clean'
  <2>1. PICK G : G = Good(half[MergesLeft], lo, hi) OBVIOUS
  <2>2. Shape(G) BY <1>1, <2>1 DEF Inv
  <2> QED BY <1>1, <2>2, CleanStep
<1>4. MassConserved'
  <2>1. SUFFICES ASSUME consume_failed_msgs, faults' = 0, \A p \in Peer : ~gossipdone'[p],
                        NEW s \in Sig, NEW c \in {"f", "w"}
                 PROVE  TotalMass(s, c)' = SumTo(N, StartMass(s, c))'
    BY DEF MassConserved
  <2>2. faults = 0 /\ (\A p \in Peer : ~gossipdone[p]) /\ TotalMass(s, c)' = TotalMass(s, c)
    BY <1>1, <1>2, <2>1, StepPushSum
  <2>3. TotalMass(s, c) = SumTo(N, StartMass(s, c)) BY <1>1, <2>1, <2>2 DEF MassConserved
  <2>4. SumTo(N, StartMass(s, c))' = SumTo(N, StartMass(s, c)) BY DEF StartMass, SumTo
  <2> QED BY <2>2, <2>3, <2>4
<1> QED BY <1>2, <1>3, <1>4 DEF MassInv

\* For any number of peers, rounds and signatures: while all peers gossip and
\* no message is copied, late or lost, the frequencies and the weights of every
\* signature, kept, on the wire, in sockets and waiting to be merged, add up to
\* what the peers began with, although inserts fail and messages overtake.
THEOREM MassSafe == ASSUME ExactHalving PROVE Spec => []MassConserved
<1>1. PICK half \in [0..(N * rounds) -> 0..Unit] : Halves(half, N * rounds) BY DEF ExactHalving
<1>2. half \in [0..(N * rounds) -> Nat]
  <2>1. 0..Unit \subseteq Nat BY ListAssumption
  <2> QED BY <2>1
<1>3. PICK lo, hi : Bounds(lo, hi) BY BoundsExist
<1>4. Init => MassInv(half, lo, hi) BY <1>1, <1>2, <1>3, InitMass
<1>5. MassInv(half, lo, hi) /\ [Next]_vars => MassInv(half, lo, hi)' BY <1>1, <1>2, <1>3, NextMass
<1>6. MassInv(half, lo, hi) => MassConserved BY DEF MassInv
<1> QED BY <1>4, <1>5, <1>6, PTL DEF Spec

\* The initial state is one of push-sum.
LEMMA InitPushSum ==
    ASSUME Init, NEW s \in Sig, NEW c \in {"f", "w"}
    PROVE  PS(s, c)!Init
<1>3. ASSUME NEW p \in Peer
      PROVE  /\ At(totalT[p][1], s)[c] = IF c = "w" THEN Unit ELSE Docs[p][s] * Unit
             /\ SeqMass(Tail(totalT[p]), s, c) = 0
             /\ MsgMass({r.msg : r \in insert[p]}, s, c) = 0 /\ MsgMass(gsock[p], s, c) = 0
  <2>1. totalT[p] = <<calcfreq(Docs[p])>> /\ insert[p] = {} /\ gsock[p] = {} BY DEF Init
  <2>2. PICK T : T = calcfreq(Docs[p]) OBVIOUS
  <2>5. <<T>>[1] = T /\ Tail(<<T>>) = <<>> OBVIOUS
  <2>6. {r.msg : r \in insert[p]} = {} BY <2>1
  <2>7. At(T, s)[c] = IF c = "w" THEN Unit ELSE Docs[p][s] * Unit BY <2>2, StartLists
  <2> QED BY <2>1, <2>2, <2>5, <2>6, <2>7, SeqMassEmpty, MsgMassEmpty
<1>4. /\ Kept(s, c) = StartMass(s, c)
      /\ Wire(s, c) = [p \in Peer |-> 0] /\ Sock(s, c) = [p \in Peer |-> 0] /\ Inbox(s, c) = [p \in Peer |-> 0]
  BY <1>3 DEF Kept, Wire, Sock, Inbox, StartMass
<1>5. Phase = [p \in Peer |-> "sleep"] /\ gossipdone = [p \in Peer |-> FALSE] BY DEF Init, Phase
<1> QED BY <1>4, <1>5 DEF PS!Init, Peer, PS!Peer

\* The exec loop implements push-sum for every signature, up to the first fault
\* of the DHT, for any number of peers and rounds.  (A peer that was told not to
\* take failed messages back loses mass, which push-sum does not.)
THEOREM PushSumImplemented ==
    ASSUME ExactHalving, consume_failed_msgs PROVE Spec => ImplementsPushSum
<1>1. PICK half \in [0..(N * rounds) -> 0..Unit] : Halves(half, N * rounds) BY DEF ExactHalving
<1>2. half \in [0..(N * rounds) -> Nat]
  <2>1. 0..Unit \subseteq Nat BY ListAssumption
  <2> QED BY <2>1
<1>3. PICK lo, hi : Bounds(lo, hi) BY BoundsExist
<1>4. Init => MassInv(half, lo, hi) BY <1>1, <1>2, <1>3, InitMass
<1>5. MassInv(half, lo, hi) /\ [Next]_vars => MassInv(half, lo, hi)' BY <1>1, <1>2, <1>3, NextMass
<1>6. Init => \A s \in Sig, c \in {"f", "w"} : PS(s, c)!Init BY InitPushSum
<1>7. ASSUME MassInv(half, lo, hi), MassInv(half, lo, hi)', [Next]_vars, NEW s \in Sig, NEW c \in {"f", "w"}
      PROVE  faults' > 0 \/ [PS(s, c)!Next]_(PS(s, c)!vars)
  <2>1. faults' \in Nat BY <1>7 DEF MassInv, Inv, Shape
  <2>2. CASE faults' = 0 BY <1>1, <1>2, <1>3, <1>7, <2>2, StepPushSum DEF MassInv
  <2> QED BY <2>1, <2>2
<1>8. MassInv(half, lo, hi) /\ MassInv(half, lo, hi)' /\ [Next]_vars
        => [\A s \in Sig, c \in {"f", "w"} : faults' > 0 \/ [PS(s, c)!Next]_(PS(s, c)!vars)]_vars
  BY <1>7
<1> QED BY <1>4, <1>5, <1>6, <1>8, PTL DEF Spec, ImplementsPushSum
===============================================================================
