---------------------------- MODULE XGossipProofs ----------------------------
(* The exec phase of XGossip is right for any number of peers, teams, rounds  *)
(* and signatures: whatever fails, is copied or comes late, and whoever is    *)
(* killed or loads its teams late, no list of a team leaves the range of its  *)
(* members' counts; and until a copy or a late store arrives, mass is never   *)
(* created within a team.  So is the init phase before it, for any input and  *)
(* any loss: its lists are fit for the exec phase, and until a copy arrives   *)
(* no frequency is counted twice and every member of a team gets a list.      *)
EXTENDS XGossip, XGossipInit, ListLemmas

-------------------------------------------------------------------------------
(* The inductive invariant.                                                   *)

\* Messages of the members of a team; a list of team t is in G[t].
Msg(G) == {m \in [src : Peer, seq : 0..(rounds - 1), team : Team, list : ListType] :
              m.src \in Members(m.team) /\ m.list \in G[m.team]}

\* The message of round n of peer p to team t, which is the merged list of T.
Outgoing(p, n, t, T) == [src |-> p, seq |-> n, team |-> t, list |-> T[t][1]]

\* What the variables of peer p may be: its lists T, phase ph, current team u,
\* round n, gossipdone d and awaited inserts I.
PeerOK(G, p, T, ph, u, n, d, I) ==
    /\ DOMAIN T = (IF ph = "load" THEN {} ELSE TeamsOf(p))
    /\ \A t \in DOMAIN T : T[t] \in Seq(G[t]) /\ T[t] # <<>>
    /\ ph \in {"load", "sleep", "await", "group", "dead"}
    /\ n \in 0..(rounds + 1) /\ d \in BOOLEAN /\ (d \/ n <= rounds)
    /\ IF ph \in {"await", "group"} THEN u \in TeamsOf(p) /\ ~d /\ n < rounds ELSE u = 0
    /\ IF ph = "await" THEN \E q \in Peer : I = {[to |-> q, msg |-> Outgoing(p, n, u, T)]} ELSE I = {}

Here(G, p) == PeerOK(G, p, totalT[p], phase[p], cur[p], txseq[p], gossipdone[p], insert[p])

Domains ==
    /\ DOMAIN totalT = Peer /\ DOMAIN phase = Peer /\ DOMAIN cur = Peer /\ DOMAIN txseq = Peer
    /\ DOMAIN gossipdone = Peer /\ DOMAIN insert = Peer
    /\ phase = [p \in Peer |-> phase[p]] /\ txseq = [p \in Peer |-> txseq[p]]
    /\ gossipdone = [p \in Peer |-> gossipdone[p]]

Shape(G) ==
    /\ Domains
    /\ \A p \in Peer : Here(G, p)
    /\ gsock \in [Peer -> SUBSET Msg(G)]
    /\ lost \in BOOLEAN

\* The stores that may still be delivered, and their number.
Request(G) == [to : Peer, msg : Msg(G)]
StoresOK(G) == stores \in SUBSET Request(G) /\ faults \in 0..MaxFaults

\* The merges still to come: one for every round a peer has not begun.
LeftAt(ph, n, d) == IF d THEN 0 ELSE rounds - n - (IF ph \in {"await", "group"} THEN 1 ELSE 0)
Left == [p \in Peer |-> LeftAt(phase[p], txseq[p], gossipdone[p])]
MergesLeft == SumTo(N, Left)

\* lo and hi bound the frequencies the members of each team begin with.
Bounds(lo, hi) ==
    \A t \in Team :
        /\ lo[t] \in [Sig -> Nat] /\ hi[t] \in [Sig -> Nat]
        /\ \A s \in Sig : \A p \in Members(t) : lo[t][s] <= Freq[p][t][s] /\ Freq[p][t][s] <= hi[t][s]

\* The good lists of each team.
GoodLists(h, lo, hi) == [t \in Team |-> Good(h, lo[t], hi[t])]

\* All masses can still be halved as often as there are merges left.
Inv(half, lo, hi) ==
    /\ MergesLeft \in 0..(N * rounds)
    /\ Shape(GoodLists(half[MergesLeft], lo, hi))
    /\ StoresOK(GoodLists(half[MergesLeft], lo, hi))

\* G is a family of well-formed lists; every list of G is one of H.
Family(G) == \A t \in Team : G[t] \subseteq ListType
Finer(G, H) == \A t \in Team : G[t] \subseteq H[t]

-------------------------------------------------------------------------------
(* Steps.                                                                     *)

\* Messages and peers stay right when more lists are.
LEMMA FinerMsg == ASSUME NEW G, NEW H, Finer(G, H) PROVE Msg(G) \subseteq Msg(H)
BY DEF Finer, Msg

LEMMA FinerPeer ==
    ASSUME NEW G, NEW H, Finer(G, H), NEW p, NEW T, NEW ph, NEW u, NEW n, NEW d, NEW I,
           PeerOK(G, p, T, ph, u, n, d, I)
    PROVE  PeerOK(H, p, T, ph, u, n, d, I)
<1>1. \A t \in DOMAIN T : T[t] \in Seq(H[t]) /\ T[t] # <<>>
  <2>1. ASSUME NEW t \in DOMAIN T PROVE T[t] \in Seq(H[t])
    <3>1. t \in Team BY DEF PeerOK, TeamsOf
    <3>2. G[t] \subseteq H[t] BY <3>1 DEF Finer
    <3>3. T[t] \in Seq(G[t]) BY DEF PeerOK
    <3> QED BY <3>2, <3>3, SeqLarger
  <2> QED BY <2>1 DEF PeerOK
<1> QED BY <1>1 DEF PeerOK

\* The step of one peer: what it leaves at the others.
Only(p) ==
    /\ Domains'
    /\ \A x \in Peer : x # p =>
          /\ totalT'[x] = totalT[x] /\ phase'[x] = phase[x] /\ cur'[x] = cur[x]
          /\ txseq'[x] = txseq[x] /\ gossipdone'[x] = gossipdone[x] /\ insert'[x] = insert[x]

\* It suffices to look at that peer and at the sockets.
LEMMA PeerStep ==
    ASSUME NEW G, NEW H, Finer(G, H), Shape(G), NEW p \in Peer, Only(p),
           PeerOK(H, p, totalT'[p], phase'[p], cur'[p], txseq'[p], gossipdone'[p], insert'[p]),
           gsock' \in [Peer -> SUBSET Msg(H)], lost' \in BOOLEAN
    PROVE  Shape(H)'
<1>1. ASSUME NEW x \in Peer
      PROVE  PeerOK(H, x, totalT'[x], phase'[x], cur'[x], txseq'[x], gossipdone'[x], insert'[x])
  <2>1. CASE x = p BY <2>1
  <2>2. CASE x # p
    <3>1. PeerOK(G, x, totalT[x], phase[x], cur[x], txseq[x], gossipdone[x], insert[x]) BY DEF Shape, Here
    <3>2. PeerOK(H, x, totalT[x], phase[x], cur[x], txseq[x], gossipdone[x], insert[x]) BY <3>1, FinerPeer
    <3> QED BY <2>2, <3>2 DEF Only
  <2> QED BY <2>1, <2>2
<1>2. \A x \in Peer : Here(H, x)' BY <1>1 DEF Here
<1>3. Domains' BY DEF Only
<1> QED BY <1>2, <1>3 DEF Shape

\* While a peer is alive, every ID has an owner.
LEMMA OwnerPeer ==
    ASSUME NEW q \in Peer, NEW p \in Peer, alive(p)
    PROVE  owner(q) \in Peer
<1>1. N \in Nat \ {0} BY XGossipAssumption
<1>2. q \in 1..N /\ p \in 1..N BY DEF Peer
<1>3. \A i \in Nat : ((q - 1 + i) % N) + 1 \in Peer
  <2>1. SUFFICES ASSUME NEW i \in Nat PROVE ((q - 1 + i) % N) + 1 \in Peer OBVIOUS
  <2>2. q - 1 + i \in Nat BY <1>2
  <2>3. (q - 1 + i) % N \in 0..(N - 1) BY <1>1, <2>2
  <2> QED BY <1>1, <2>3 DEF Peer
<1>4. \E i \in 0..(N - 1) : ((q - 1 + i) % N) + 1 = p
  <2>1. CASE q <= p
    <3>1. PICK i : i = p - q OBVIOUS
    <3>2. i \in 0..(N - 1) /\ q - 1 + i = p - 1 /\ p - 1 \in 0..(N - 1) BY <1>1, <1>2, <2>1, <3>1
    <3>3. (p - 1) % N = p - 1 BY <1>1, <3>2
    <3> QED BY <1>2, <3>2, <3>3
  <2>2. CASE p < q
    <3>1. PICK i : i = N + (p - q) OBVIOUS
    <3>2. i \in 0..(N - 1) /\ q - 1 + i = (p - 1) + N /\ p - 1 \in 0..(N - 1) BY <1>1, <1>2, <2>2, <3>1
    <3>3. PICK j \in 0..(N - 1) : j = p - 1 BY <3>2
    <3>4. (j + N) % N = j BY <1>1
    <3> QED BY <1>2, <3>2, <3>3, <3>4
  <2> QED BY <1>2, <2>1, <2>2
<1>5. PICK T : T = {i \in 0..(N - 1) : alive(((q - 1 + i) % N) + 1)} OBVIOUS
<1>6. T \in SUBSET Nat /\ T # {} BY <1>1, <1>4, <1>5
<1>7. PICK k \in T : \A y \in T : k <= y BY <1>6, LeastNat
<1>8. k \in 0..(N - 1) /\ alive(((q - 1 + k) % N) + 1) BY <1>5, <1>7
<1>9. \A j \in 0..(k - 1) : ~alive(((q - 1 + j) % N) + 1)
  <2>1. SUFFICES ASSUME NEW j \in 0..(k - 1) PROVE ~alive(((q - 1 + j) % N) + 1) OBVIOUS
  <2>2. j \in 0..(N - 1) /\ ~(k <= j) BY <1>1, <1>8
  <2>3. j \notin T BY <1>7, <2>2
  <2> QED BY <1>5, <2>2, <2>3
<1> DEFINE First(i) == /\ alive(((q - 1 + i) % N) + 1)
                       /\ \A j \in 0..(i - 1) : ~alive(((q - 1 + j) % N) + 1)
<1>10. \E i \in 0..(N - 1) : First(i) BY <1>8, <1>9
<1>11. PICK c : c = CHOOSE i \in 0..(N - 1) : First(i) OBVIOUS
<1> HIDE DEF First
<1>12. c \in 0..(N - 1) BY <1>10, <1>11
<1>13. owner(q) = ((q - 1 + c) % N) + 1 BY <1>11 DEF owner, First
<1> QED BY <1>3, <1>12, <1>13

\* The next team is one of the peer's, and the first of those that follow.
LEMMA NextTeamIs ==
    ASSUME NEW p, NEW i, After(p, i) # {}, After(p, i) \subseteq Nat
    PROVE  NextTeam(p, i) \in After(p, i) /\ \A u \in After(p, i) : NextTeam(p, i) <= u
<1>1. PICK t \in After(p, i) : \A u \in After(p, i) : t <= u BY LeastNat
<1> QED BY <1>1 DEF NextTeam

\* A message of peer p for one of its teams.
LEMMA OutgoingMsg ==
    ASSUME NEW G, Family(G), NEW p \in Peer, NEW n \in 0..(rounds - 1), NEW t \in TeamsOf(p), NEW T,
           T[t] \in Seq(G[t]), T[t] # <<>>
    PROVE  Outgoing(p, n, t, T) \in Msg(G)
<1>1. T[t][1] \in G[t] OBVIOUS
<1>2. t \in Team /\ p \in Members(t) BY DEF TeamsOf
<1>3. T[t][1] \in ListType BY <1>1, <1>2 DEF Family
<1> QED BY <1>1, <1>2, <1>3 DEF Outgoing, Msg

\* A sequence of one list.
LEMMA OneList == ASSUME NEW S, NEW L \in S PROVE <<L>> \in Seq(S) /\ <<L>> # <<>>
OBVIOUS

\* A sequence with its first list replaced.
LEMMA FirstList ==
    ASSUME NEW S, NEW Ts \in Seq(S), Ts # <<>>, NEW L \in S, NEW Us, Us = [Ts EXCEPT ![1] = L]
    PROVE  Us \in Seq(S) /\ Us # <<>> /\ Us[1] = L /\ Tail(Us) = Tail(Ts)
<1>1. Us \in Seq(S) /\ Len(Us) = Len(Ts) /\ Us[1] = L /\ \A i \in 2..Len(Ts) : Us[i] = Ts[i] OBVIOUS
<1>2. Us # <<>> BY <1>1
<1>3. PICK U, V : U = Tail(Us) /\ V = Tail(Ts) OBVIOUS
<1>4. U \in Seq(S) /\ V \in Seq(S) /\ Len(U) = Len(V) BY <1>1, <1>2, <1>3
<1>5. ASSUME NEW i \in 1..Len(U) PROVE U[i] = V[i]
  <2>1. U[i] = Us[i + 1] /\ V[i] = Ts[i + 1] /\ i + 1 \in 2..Len(Ts) BY <1>1, <1>2, <1>3
  <2> QED BY <1>1, <2>1
<1> QED BY <1>1, <1>2, <1>3, <1>4, <1>5, SeqEqual

\* A sequence with one more list.
LEMMA OneMore ==
    ASSUME NEW S, NEW Ts \in Seq(S), Ts # <<>>, NEW L \in S, NEW Us, Us = Append(Ts, L)
    PROVE  Us \in Seq(S) /\ Us # <<>> /\ Us[1] = Ts[1] /\ Tail(Us) = Append(Tail(Ts), L)
<1>1. Us[1] = Ts[1] /\ Tail(Us) = Append(Tail(Ts), L) BY AppendTail
<1> QED BY <1>1

\* What SendTeam does to the peer that sends.
LEMMA SendTeamDoes ==
    ASSUME NEW G, Shape(G), NEW p \in Peer, alive(p), NEW t \in TeamsOf(p), NEW T, SendTeam(p, t, T)
    PROVE  /\ cur' = [cur EXCEPT ![p] = t] /\ phase' = [phase EXCEPT ![p] = "await"]
           /\ \E q \in Peer : insert' = [insert EXCEPT ![p] = {[to |-> q, msg |-> Outgoing(p, txseq[p], t, T)]}]
<1>1. PICK q \in Members(t) : insert' = [insert EXCEPT ![p] =
          {[to |-> owner(q), msg |-> [src |-> p, seq |-> txseq[p], team |-> t, list |-> T[t][1]]]}]
  BY DEF SendTeam
<1>2. q \in Peer
  <2>1. t \in Team BY DEF TeamsOf
  <2>2. Members(t) \subseteq Peer BY <2>1, XGossipAssumption
  <2> QED BY <2>2
<1>3. owner(q) \in Peer BY <1>2, OwnerPeer
<1>4. insert' = [insert EXCEPT ![p] = {[to |-> owner(q), msg |-> Outgoing(p, txseq[p], t, T)]}]
  BY <1>1 DEF Outgoing
<1> QED BY <1>3, <1>4 DEF SendTeam

\* What the end of a round does to a peer and to the sockets.
LEMMA EndRoundDoes ==
    ASSUME NEW G, NEW H, Finer(G, H), Shape(G), NEW p \in Peer, EndRound(p)
    PROVE  /\ txseq' = [txseq EXCEPT ![p] = txseq[p] + 1] /\ cur' = [cur EXCEPT ![p] = 0]
           /\ \E ph \in {"sleep", "dead"} : phase' = [phase EXCEPT ![p] = ph]
           /\ gsock' \in [Peer -> SUBSET Msg(H)] /\ lost' \in BOOLEAN
           /\ \/ UNCHANGED <<gsock, lost>>
              \/ gsock' = [gsock EXCEPT ![p] = {}] /\ lost'
<1>1. gsock \in [Peer -> SUBSET Msg(G)] /\ lost \in BOOLEAN BY DEF Shape
<1>2. gsock \in [Peer -> SUBSET Msg(H)] BY <1>1, FinerMsg
<1>3. CASE txseq[p] + 1 = killround[p] BY <1>2, <1>3 DEF EndRound
<1>4. CASE txseq[p] + 1 # killround[p] BY <1>1, <1>2, <1>4 DEF EndRound
<1> QED BY <1>3, <1>4

\* Sending keeps every list in H, where merging takes G to H.
LEMMA GossipShape ==
    ASSUME NEW G, NEW H, Finer(G, H),
           \A t \in Team : \A Ts \in Seq(G[t]) : Ts # <<>> => \E L \in H[t] : mergelists(Ts) = <<L>>,
           Shape(G), NEW p \in Peer, GossipRound(p)
    PROVE  Shape(H)' /\ Only(p)
<1>1. rounds \in Nat BY XGossipAssumption
<1>2. /\ phase[p] = "sleep" /\ ~gossipdone[p] /\ txseq[p] # rounds
      /\ totalT' = [totalT EXCEPT ![p] = [t \in DOMAIN totalT[p] |-> mergelists(totalT[p][t])]]
      /\ UNCHANGED gossipdone
  BY DEF GossipRound
<1>3. PeerOK(G, p, totalT[p], phase[p], cur[p], txseq[p], gossipdone[p], insert[p]) /\ Domains BY DEF Shape, Here
<1>4. /\ DOMAIN totalT[p] = TeamsOf(p)
      /\ \A t \in TeamsOf(p) : totalT[p][t] \in Seq(G[t]) /\ totalT[p][t] # <<>>
      /\ cur[p] = 0 /\ insert[p] = {} /\ txseq[p] \in 0..(rounds + 1) /\ txseq[p] <= rounds
  BY <1>2, <1>3 DEF PeerOK
<1>5. txseq[p] \in 0..(rounds - 1) /\ txseq[p] < rounds /\ txseq[p] + 1 <= rounds /\ txseq[p] + 1 \in 0..(rounds + 1)
  BY <1>1, <1>2, <1>4
<1>6. PICK T2 : T2 = [t \in DOMAIN totalT[p] |-> mergelists(totalT[p][t])] OBVIOUS
<1>7. /\ totalT'[p] = T2 /\ DOMAIN totalT' = Peer
      /\ \A x \in Peer : x # p => totalT'[x] = totalT[x]
  BY <1>2, <1>3, <1>6 DEF Domains
<1>8. DOMAIN T2 = TeamsOf(p) BY <1>4, <1>6
<1>9. ASSUME NEW t \in TeamsOf(p) PROVE T2[t] \in Seq(H[t]) /\ T2[t] # <<>>
  <2>1. t \in Team BY DEF TeamsOf
  <2>2. totalT[p][t] \in Seq(G[t]) /\ totalT[p][t] # <<>> BY <1>4
  <2>3. PICK L \in H[t] : mergelists(totalT[p][t]) = <<L>> BY <2>1, <2>2
  <2>4. T2[t] = <<L>> BY <1>4, <1>6, <2>3
  <2> QED BY <2>4, OneList
<1>10. alive(p) BY <1>2 DEF alive
<1>11. \A t \in After(p, 0) : t \in TeamsOf(p) BY <1>4 DEF After
<1>12. CASE After(p, 0) # {}
  <2>1. PICK t : t = NextTeam(p, 0) OBVIOUS
  <2>2. t \in TeamsOf(p)
    <3>1. After(p, 0) \subseteq Nat BY <1>11, XGossipAssumption DEF TeamsOf, Team
    <3>2. NextTeam(p, 0) \in After(p, 0) BY <1>12, <3>1, NextTeamIs
    <3> QED BY <1>11, <2>1, <3>2
  <2>3. SendTeam(p, t, totalT'[p]) /\ UNCHANGED <<txseq, gsock, lost>> BY <1>12, <2>1 DEF GossipRound
  <2>4. /\ cur' = [cur EXCEPT ![p] = t] /\ phase' = [phase EXCEPT ![p] = "await"]
        /\ \E q \in Peer : insert' = [insert EXCEPT ![p] = {[to |-> q, msg |-> Outgoing(p, txseq[p], t, totalT'[p])]}]
    BY <1>10, <2>2, <2>3, SendTeamDoes
  <2>5. PICK q \in Peer : insert' = [insert EXCEPT ![p] = {[to |-> q, msg |-> Outgoing(p, txseq[p], t, totalT'[p])]}]
    BY <2>4
  <2>6. PICK I : I = {[to |-> q, msg |-> Outgoing(p, txseq[p], t, totalT'[p])]} OBVIOUS
  <2>7. insert' = [insert EXCEPT ![p] = I] BY <2>5, <2>6
  <2>8. cur'[p] = t /\ phase'[p] = "await" /\ insert'[p] = I /\ txseq'[p] = txseq[p] /\ gossipdone'[p] = gossipdone[p]
    BY <1>2, <1>3, <2>3, <2>4, <2>7 DEF Domains
  <2>9. Only(p) BY <1>2, <1>3, <1>7, <2>3, <2>4, <2>7 DEF Only, Domains
  <2>10. PeerOK(H, p, T2, "await", t, txseq[p], gossipdone[p], I)
    <3>1. \E x \in Peer : I = {[to |-> x, msg |-> Outgoing(p, txseq[p], t, T2)]} BY <1>7, <2>6
    <3> QED BY <1>2, <1>3, <1>4, <1>5, <1>8, <1>9, <2>2, <3>1 DEF PeerOK
  <2>11. gsock' \in [Peer -> SUBSET Msg(H)] /\ lost' \in BOOLEAN
    <3>1. gsock \in [Peer -> SUBSET Msg(G)] /\ lost \in BOOLEAN BY DEF Shape
    <3>2. gsock \in [Peer -> SUBSET Msg(H)] BY <3>1, FinerMsg
    <3> QED BY <2>3, <3>1, <3>2
  <2>12. PeerOK(H, p, totalT'[p], phase'[p], cur'[p], txseq'[p], gossipdone'[p], insert'[p])
    BY <1>7, <2>8, <2>10
  <2> QED BY <2>9, <2>11, <2>12, PeerStep
<1>13. CASE After(p, 0) = {}
  <2>1. EndRound(p) /\ UNCHANGED insert BY <1>13 DEF GossipRound
  <2>2. PICK ph \in {"sleep", "dead"} : phase' = [phase EXCEPT ![p] = ph] BY <2>1, EndRoundDoes
  <2>3. txseq' = [txseq EXCEPT ![p] = txseq[p] + 1] /\ cur' = [cur EXCEPT ![p] = 0] BY <2>1, EndRoundDoes
  <2>4. gsock' \in [Peer -> SUBSET Msg(H)] /\ lost' \in BOOLEAN BY <2>1, EndRoundDoes
  <2>5. Only(p) BY <1>2, <1>3, <1>7, <2>1, <2>2, <2>3 DEF Only, Domains
  <2>6. /\ cur'[p] = 0 /\ phase'[p] = ph /\ insert'[p] = {} /\ txseq'[p] = txseq[p] + 1
        /\ gossipdone'[p] = gossipdone[p]
    BY <1>2, <1>3, <1>4, <2>1, <2>2, <2>3 DEF Domains
  <2>7. PeerOK(H, p, T2, ph, 0, txseq[p] + 1, gossipdone[p], {})
    BY <1>3, <1>5, <1>8, <1>9, <2>2 DEF PeerOK
  <2>8. PeerOK(H, p, totalT'[p], phase'[p], cur'[p], txseq'[p], gossipdone'[p], insert'[p])
    BY <1>7, <2>6, <2>7
  <2> QED BY <2>4, <2>5, <2>8, PeerStep
<1> QED BY <1>12, <1>13

\* What a peer that is in insertDHT awaits.
LEMMA Awaiting ==
    ASSUME NEW G, Shape(G), NEW p \in Peer, insert[p] # {}
    PROVE  /\ phase[p] = "await" /\ cur[p] \in TeamsOf(p) /\ DOMAIN totalT[p] = TeamsOf(p)
           /\ txseq[p] \in 0..(rounds - 1) /\ totalT[p][cur[p]] \in Seq(G[cur[p]]) /\ totalT[p][cur[p]] # <<>>
           /\ \E q \in Peer : insert[p] = {[to |-> q, msg |-> Outgoing(p, txseq[p], cur[p], totalT[p])]}
<1>0. rounds \in Nat BY XGossipAssumption
<1>p. PeerOK(G, p, totalT[p], phase[p], cur[p], txseq[p], gossipdone[p], insert[p]) BY DEF Shape, Here
<1>1. phase[p] = "await" BY <1>p DEF PeerOK
<1>2. /\ cur[p] \in TeamsOf(p) /\ DOMAIN totalT[p] = TeamsOf(p)
      /\ txseq[p] \in 0..(rounds + 1) /\ txseq[p] < rounds
      /\ \E q \in Peer : insert[p] = {[to |-> q, msg |-> Outgoing(p, txseq[p], cur[p], totalT[p])]}
  BY <1>p, <1>1 DEF PeerOK
<1>3. totalT[p][cur[p]] \in Seq(G[cur[p]]) /\ totalT[p][cur[p]] # <<>> BY <1>p, <1>2 DEF PeerOK
<1>4. txseq[p] \in 0..(rounds - 1) BY <1>0, <1>2
<1> QED BY <1>1, <1>2, <1>3, <1>4

\* So its requests carry messages of the lists it holds.
LEMMA AwaitedRequest ==
    ASSUME NEW G, Family(G), Shape(G), NEW p \in Peer
    PROVE  insert[p] \in SUBSET Request(G)
<1>1. CASE insert[p] = {} BY <1>1
<1>2. CASE insert[p] # {}
  <2>1. /\ cur[p] \in TeamsOf(p) /\ txseq[p] \in 0..(rounds - 1)
        /\ totalT[p][cur[p]] \in Seq(G[cur[p]]) /\ totalT[p][cur[p]] # <<>>
    BY <1>2, Awaiting
  <2>2. PICK q \in Peer : insert[p] = {[to |-> q, msg |-> Outgoing(p, txseq[p], cur[p], totalT[p])]}
    BY <1>2, Awaiting
  <2>3. Outgoing(p, txseq[p], cur[p], totalT[p]) \in Msg(G) BY <2>1, OutgoingMsg
  <2> QED BY <2>2, <2>3 DEF Request
<1> QED BY <1>1, <1>2

\* The stores at the replicas carry the message of the request, to peers.
LEMMA ReplicaRequest ==
    ASSUME NEW G, NEW r \in Request(G), alive(r.to)
    PROVE  ReplicaStores(r) \in SUBSET Request(G)
<1>1. N \in Nat \ {0} /\ NumPut \in Nat \ {0} BY XGossipAssumption
<1>2. r.to \in Peer /\ r.msg \in Msg(G) BY DEF Request
<1>3. ASSUME NEW k \in 1..(NumPut - 1) PROVE owner(((r.to - 1 + k) % N) + 1) \in Peer
  <2>1. PICK x : x = r.to - 1 + k OBVIOUS
  <2>2. x \in Nat BY <1>1, <1>2, <2>1 DEF Peer
  <2>3. x % N \in 0..(N - 1) BY <1>1, <2>2
  <2>4. (x % N) + 1 \in Peer BY <1>1, <2>3 DEF Peer
  <2> QED BY <1>2, <2>1, <2>4, OwnerPeer
<1>4. ASSUME NEW q \in Peer PROVE [r EXCEPT !.to = q] \in Request(G) BY <1>4 DEF Request
<1> QED BY <1>3, <1>4 DEF ReplicaStores

\* The stores under way stay right: those of a merged or doubled list too.
LEMMA SentStep ==
    ASSUME NEW G, NEW H, Finer(G, H), Family(G), Shape(G), StoresOK(G), [Next]_vars
    PROVE  StoresOK(H)'
<1>1. MaxFaults \in Nat BY XGossipAssumption
<1>2. Request(G) \subseteq Request(H) BY FinerMsg DEF Request
<1>3. stores \in SUBSET Request(G) /\ faults \in 0..MaxFaults BY DEF StoresOK
<1>4. ASSUME NEW R \in SUBSET Request(G), Issued(R) PROVE StoresOK(H)'
  <2>1. stores' \in SUBSET Request(H) BY <1>2, <1>3, <1>4 DEF Issued
  <2>2. faults' \in 0..MaxFaults
    <3>1. CASE R = {} BY <1>3, <1>4, <3>1 DEF Issued
    <3>2. CASE R # {} BY <1>1, <1>3, <1>4, <3>2 DEF Issued
    <3> QED BY <3>1, <3>2
  <2> QED BY <2>1, <2>2 DEF StoresOK
<1>5. ASSUME UNCHANGED <<stores, faults>> PROVE StoresOK(H)'
  <2>1. stores' \in SUBSET Request(H) BY <1>2, <1>3, <1>5
  <2> QED BY <1>3, <1>5, <2>1 DEF StoresOK
<1>6. ASSUME NEW p \in Peer, InsertOK(p) PROVE StoresOK(H)'
  <2>1. PICK r \in insert[p] : alive(r.to) /\ \E R \in SUBSET ReplicaStores(r) : Issued(R) BY <1>6 DEF InsertOK
  <2>2. PICK R \in SUBSET ReplicaStores(r) : Issued(R) BY <2>1
  <2>3. r \in Request(G) BY AwaitedRequest
  <2>4. ReplicaStores(r) \in SUBSET Request(G) BY <2>1, <2>3, ReplicaRequest
  <2>5. R \in SUBSET Request(G) BY <2>4
  <2> QED BY <1>4, <2>2, <2>5
<1>7. ASSUME NEW p \in Peer, InsertTimeout(p) PROVE StoresOK(H)'
  <2>1. Issued(insert[p]) BY <1>7 DEF InsertTimeout
  <2>2. insert[p] \in SUBSET Request(G) BY AwaitedRequest
  <2> QED BY <1>4, <2>1, <2>2
<1>8. ASSUME StoreArrives PROVE StoresOK(H)'
  <2>1. PICK r : stores' = stores \ {r} /\ UNCHANGED faults BY <1>8 DEF StoreArrives
  <2>2. stores' \in SUBSET Request(H) BY <1>2, <1>3, <2>1
  <2> QED BY <1>3, <2>1, <2>2 DEF StoresOK
<1>9. ASSUME NEW p \in Peer, LoadState(p) \/ GossipRound(p) \/ QuietRound(p) \/ GroupWake(p)
                             \/ InsertFail(p) \/ ReadGossip(p)
      PROVE  StoresOK(H)'
  <2>1. UNCHANGED <<stores, faults>> BY <1>9 DEF LoadState, GossipRound, QuietRound, GroupWake, InsertFail, ReadGossip
  <2> QED BY <1>5, <2>1
<1>10. CASE UNCHANGED vars BY <1>5, <1>10 DEF vars
<1> QED BY <1>6, <1>7, <1>8, <1>9, <1>10 DEF Next, Turn

\* No other step needs a finer unit.
LEMMA OtherShape ==
    ASSUME NEW G, Family(G), \A t \in Team : \A T \in G[t] : multiplyfreq(T) \in G[t],
           \A p \in Peer : \A t \in TeamsOf(p) : loadinitstate(p, t) \in G[t],
           Shape(G), StoresOK(G), [Next]_vars, ~ \E p \in Peer : GossipRound(p)
    PROVE  Shape(G)'
<1>0. rounds \in Nat BY XGossipAssumption
<1>r. Finer(G, G) BY DEF Finer
<1>g. gsock \in [Peer -> SUBSET Msg(G)] /\ lost \in BOOLEAN /\ Domains BY DEF Shape
<1>p. \A p \in Peer : PeerOK(G, p, totalT[p], phase[p], cur[p], txseq[p], gossipdone[p], insert[p]) BY DEF Shape, Here
<1>1. ASSUME NEW p \in Peer, LoadState(p) PROVE Shape(G)'
  <2>1. PICK T : T = InitState(p) OBVIOUS
  <2>2. /\ phase[p] = "load" /\ totalT' = [totalT EXCEPT ![p] = T]
        /\ phase' = [phase EXCEPT ![p] = "sleep"]
        /\ UNCHANGED <<cur, txseq, gossipdone, insert, gsock, lost>>
    BY <1>1, <2>1 DEF LoadState
  <2>3. DOMAIN T = TeamsOf(p) /\ \A t \in TeamsOf(p) : T[t] = <<loadinitstate(p, t)>> BY <2>1 DEF InitState
  <2>4. \A t \in TeamsOf(p) : T[t] \in Seq(G[t]) /\ T[t] # <<>> BY <2>3, OneList
  <2>5. Only(p) BY <1>g, <2>2 DEF Only, Domains
  <2>6. totalT'[p] = T /\ phase'[p] = "sleep" BY <1>g, <2>2 DEF Domains
  <2>7. PeerOK(G, p, T, "sleep", cur[p], txseq[p], gossipdone[p], insert[p])
    BY <1>p, <2>2, <2>3, <2>4 DEF PeerOK
  <2>8. PeerOK(G, p, totalT'[p], phase'[p], cur'[p], txseq'[p], gossipdone'[p], insert'[p]) BY <2>2, <2>6, <2>7
  <2>9. gsock' \in [Peer -> SUBSET Msg(G)] /\ lost' \in BOOLEAN BY <1>g, <2>2
  <2> QED BY <1>r, <2>5, <2>8, <2>9, PeerStep
<1>2. ASSUME NEW p \in Peer, QuietRound(p) PROVE Shape(G)'
  <2>1. PICK T : T = [t \in DOMAIN totalT[p] |-> <<totalT[p][t][1]>>] OBVIOUS
  <2>2. PICK n : n = IF txseq[p] > rounds THEN txseq[p] ELSE txseq[p] + 1 OBVIOUS
  <2>3. /\ phase[p] = "sleep" /\ (gossipdone[p] \/ txseq[p] = rounds)
        /\ gossipdone' = [gossipdone EXCEPT ![p] = TRUE]
        /\ totalT' = [totalT EXCEPT ![p] = T] /\ txseq' = [txseq EXCEPT ![p] = n]
        /\ UNCHANGED <<phase, cur, insert, gsock, lost>>
    BY <1>2, <2>1, <2>2 DEF QuietRound, mergelists_nogossip
  <2>4. ASSUME NEW t \in TeamsOf(p), t \in DOMAIN totalT[p] PROVE T[t] \in Seq(G[t]) /\ T[t] # <<>>
    <3>1. totalT[p][t] \in Seq(G[t]) /\ totalT[p][t] # <<>> BY <1>p, <2>4 DEF PeerOK
    <3>2. totalT[p][t][1] \in G[t] BY <3>1
    <3>3. T[t] = <<totalT[p][t][1]>> BY <2>1, <2>4
    <3> QED BY <3>2, <3>3, OneList
  <2>5. Only(p) BY <1>g, <2>3 DEF Only, Domains
  <2>6. totalT'[p] = T /\ gossipdone'[p] = TRUE /\ txseq'[p] = n BY <1>g, <2>3 DEF Domains
  <2>7. PeerOK(G, p, T, phase[p], cur[p], n, TRUE, insert[p])
    <3>1. txseq[p] \in 0..(rounds + 1) /\ DOMAIN totalT[p] = TeamsOf(p) BY <1>p, <2>3 DEF PeerOK
    <3>2. n \in 0..(rounds + 1) BY <1>0, <2>2, <3>1
    <3>3. DOMAIN T = TeamsOf(p) /\ \A t \in TeamsOf(p) : T[t] \in Seq(G[t]) /\ T[t] # <<>> BY <2>1, <2>4, <3>1
    <3> QED BY <1>p, <2>3, <3>2, <3>3 DEF PeerOK
  <2>8. PeerOK(G, p, totalT'[p], phase'[p], cur'[p], txseq'[p], gossipdone'[p], insert'[p]) BY <2>3, <2>6, <2>7
  <2>9. gsock' \in [Peer -> SUBSET Msg(G)] /\ lost' \in BOOLEAN BY <1>g, <2>3
  <2> QED BY <1>r, <2>5, <2>8, <2>9, PeerStep
<1>3. ASSUME NEW p \in Peer, GroupWake(p) PROVE Shape(G)'
  <2>1. phase[p] = "group" /\ UNCHANGED <<totalT, gossipdone>> BY <1>3 DEF GroupWake
  <2>2. /\ DOMAIN totalT[p] = TeamsOf(p) /\ insert[p] = {} /\ ~gossipdone[p]
        /\ txseq[p] \in 0..(rounds + 1) /\ txseq[p] < rounds
    BY <1>p, <2>1 DEF PeerOK
  <2>3. \A t \in After(p, cur[p]) : t \in TeamsOf(p) BY <2>2 DEF After
  <2>4. CASE After(p, cur[p]) # {}
    <3>1. PICK t : t = NextTeam(p, cur[p]) OBVIOUS
    <3>2. t \in TeamsOf(p)
      <4>1. After(p, cur[p]) \subseteq Nat BY <2>3, XGossipAssumption DEF TeamsOf, Team
      <4>2. NextTeam(p, cur[p]) \in After(p, cur[p]) BY <2>4, <4>1, NextTeamIs
      <4> QED BY <2>3, <3>1, <4>2
    <3>3. SendTeam(p, t, totalT[p]) /\ UNCHANGED <<txseq, gsock, lost>> BY <1>3, <2>4, <3>1 DEF GroupWake
    <3>4. alive(p) BY <2>1 DEF alive
    <3>5. /\ cur' = [cur EXCEPT ![p] = t] /\ phase' = [phase EXCEPT ![p] = "await"]
          /\ \E q \in Peer : insert' = [insert EXCEPT ![p] = {[to |-> q, msg |-> Outgoing(p, txseq[p], t, totalT[p])]}]
      BY <3>2, <3>3, <3>4, SendTeamDoes
    <3>6. PICK q \in Peer : insert' = [insert EXCEPT ![p] = {[to |-> q, msg |-> Outgoing(p, txseq[p], t, totalT[p])]}]
      BY <3>5
    <3>7. PICK I : I = {[to |-> q, msg |-> Outgoing(p, txseq[p], t, totalT[p])]} OBVIOUS
    <3>8. insert' = [insert EXCEPT ![p] = I] BY <3>6, <3>7
    <3>9. cur'[p] = t /\ phase'[p] = "await" /\ insert'[p] = I BY <1>g, <3>5, <3>8 DEF Domains
    <3>10. Only(p) BY <1>g, <2>1, <3>3, <3>5, <3>8 DEF Only, Domains
    <3>11. PeerOK(G, p, totalT[p], "await", t, txseq[p], gossipdone[p], I)
      <4>1. \E x \in Peer : I = {[to |-> x, msg |-> Outgoing(p, txseq[p], t, totalT[p])]} BY <3>7
      <4> QED BY <1>p, <2>1, <2>2, <3>2, <4>1 DEF PeerOK
    <3>12. PeerOK(G, p, totalT'[p], phase'[p], cur'[p], txseq'[p], gossipdone'[p], insert'[p])
      BY <2>1, <3>3, <3>9, <3>11
    <3>13. gsock' \in [Peer -> SUBSET Msg(G)] /\ lost' \in BOOLEAN BY <1>g, <3>3
    <3> QED BY <1>r, <3>10, <3>12, <3>13, PeerStep
  <2>5. CASE After(p, cur[p]) = {}
    <3>1. EndRound(p) /\ UNCHANGED insert BY <1>3, <2>5 DEF GroupWake
    <3>2. PICK ph \in {"sleep", "dead"} : phase' = [phase EXCEPT ![p] = ph] BY <1>r, <3>1, EndRoundDoes
    <3>3. txseq' = [txseq EXCEPT ![p] = txseq[p] + 1] /\ cur' = [cur EXCEPT ![p] = 0] BY <1>r, <3>1, EndRoundDoes
    <3>4. gsock' \in [Peer -> SUBSET Msg(G)] /\ lost' \in BOOLEAN BY <1>r, <3>1, EndRoundDoes
    <3>5. Only(p) BY <1>g, <2>1, <3>1, <3>2, <3>3 DEF Only, Domains
    <3>6. cur'[p] = 0 /\ phase'[p] = ph /\ insert'[p] = {} /\ txseq'[p] = txseq[p] + 1
      BY <1>g, <2>2, <3>1, <3>2, <3>3 DEF Domains
    <3>7. txseq[p] + 1 \in 0..(rounds + 1) /\ txseq[p] + 1 <= rounds BY <1>0, <2>2
    <3>8. PeerOK(G, p, totalT[p], ph, 0, txseq[p] + 1, gossipdone[p], {})
      BY <1>p, <2>1, <2>2, <3>2, <3>7 DEF PeerOK
    <3>9. PeerOK(G, p, totalT'[p], phase'[p], cur'[p], txseq'[p], gossipdone'[p], insert'[p])
      BY <2>1, <3>6, <3>8
    <3> QED BY <1>r, <3>4, <3>5, <3>9, PeerStep
  <2> QED BY <2>4, <2>5
<1>i. ASSUME NEW p \in Peer, insert[p] # {}
      PROVE  /\ phase[p] = "await" /\ cur[p] \in TeamsOf(p) /\ DOMAIN totalT[p] = TeamsOf(p)
             /\ txseq[p] \in 0..(rounds - 1) /\ totalT[p][cur[p]] \in Seq(G[cur[p]]) /\ totalT[p][cur[p]] # <<>>
             /\ \E q \in Peer : insert[p] = {[to |-> q, msg |-> Outgoing(p, txseq[p], cur[p], totalT[p])]}
  BY <1>i, Awaiting
<1>4. ASSUME NEW p \in Peer, InsertOK(p) PROVE Shape(G)'
  <2>1. PICK r \in insert[p] :
            /\ gsock' = [gsock EXCEPT ![r.to] = @ \cup {r.msg}]
            /\ insert' = [insert EXCEPT ![p] = {}] /\ phase' = [phase EXCEPT ![p] = "group"]
            /\ UNCHANGED <<totalT, cur, txseq, gossipdone, lost>>
    BY <1>4 DEF InsertOK, Returns
  <2>2. /\ phase[p] = "await" /\ cur[p] \in TeamsOf(p) /\ DOMAIN totalT[p] = TeamsOf(p)
        /\ txseq[p] \in 0..(rounds - 1) /\ totalT[p][cur[p]] \in Seq(G[cur[p]]) /\ totalT[p][cur[p]] # <<>>
    BY <1>i, <2>1
  <2>3. PICK q \in Peer : insert[p] = {[to |-> q, msg |-> Outgoing(p, txseq[p], cur[p], totalT[p])]} BY <1>i, <2>1
  <2>4. PICK m : m = Outgoing(p, txseq[p], cur[p], totalT[p]) OBVIOUS
  <2>5. r.to = q /\ r.msg = m BY <2>1, <2>3, <2>4
  <2>6. m \in Msg(G) BY <2>2, <2>4, OutgoingMsg
  <2>7. gsock' = [gsock EXCEPT ![q] = @ \cup {m}] BY <2>1, <2>5
  <2>8. gsock' \in [Peer -> SUBSET Msg(G)] /\ lost' \in BOOLEAN
    <3>1. gsock[q] \cup {m} \in SUBSET Msg(G) BY <1>g, <2>6
    <3> QED BY <1>g, <2>1, <2>7, <3>1
  <2>9. Only(p) BY <1>g, <2>1 DEF Only, Domains
  <2>10. phase'[p] = "group" /\ insert'[p] = {} BY <1>g, <2>1 DEF Domains
  <2>11. PeerOK(G, p, totalT[p], "group", cur[p], txseq[p], gossipdone[p], {}) BY <1>p, <2>2 DEF PeerOK
  <2>12. PeerOK(G, p, totalT'[p], phase'[p], cur'[p], txseq'[p], gossipdone'[p], insert'[p]) BY <2>1, <2>10, <2>11
  <2> QED BY <1>r, <2>8, <2>9, <2>12, PeerStep
<1>5. ASSUME NEW p \in Peer, InsertFail(p) \/ InsertTimeout(p) PROVE Shape(G)'
  <2>1. /\ insert[p] # {}
        /\ insert' = [insert EXCEPT ![p] = {}] /\ phase' = [phase EXCEPT ![p] = "group"]
        /\ UNCHANGED <<cur, txseq, gossipdone, gsock>>
    BY <1>5 DEF InsertFail, InsertTimeout, Returns
  <2>c. ConsumeFailed(p) BY <1>5 DEF InsertFail, InsertTimeout
  <2>2. /\ phase[p] = "await" /\ cur[p] \in TeamsOf(p) /\ DOMAIN totalT[p] = TeamsOf(p)
        /\ totalT[p][cur[p]] \in Seq(G[cur[p]]) /\ totalT[p][cur[p]] # <<>>
    BY <1>i, <2>1
  <2>3. phase'[p] = "group" /\ insert'[p] = {} BY <1>g, <2>1 DEF Domains
  <2>4. CASE consume_failed_msgs[p]
    <3>1. totalT' = [totalT EXCEPT ![p][cur[p]][1] = multiplyfreq(@)] /\ UNCHANGED lost
      BY <2>c, <2>4 DEF ConsumeFailed
    <3>2. PICK u, Ts : u = cur[p] /\ Ts = totalT[p][u] OBVIOUS
    <3>3. PICK Us : Us = [Ts EXCEPT ![1] = multiplyfreq(Ts[1])] OBVIOUS
    <3>4. PICK T : T = [totalT[p] EXCEPT ![u] = Us] OBVIOUS
    <3>5. totalT' = [totalT EXCEPT ![p] = T] BY <3>1, <3>2, <3>3, <3>4
    <3>6. u \in Team BY <2>2, <3>2 DEF TeamsOf
    <3>7. Ts \in Seq(G[u]) /\ Ts # <<>> BY <2>2, <3>2
    <3>8. Ts[1] \in G[u] BY <3>7
    <3>9. multiplyfreq(Ts[1]) \in G[u] BY <3>6, <3>8
    <3>10. Us \in Seq(G[u]) /\ Us # <<>>
      <4>1. PICK S : S = G[u] OBVIOUS
      <4>2. PICK L : L = multiplyfreq(Ts[1]) OBVIOUS
      <4>3. Ts \in Seq(S) /\ L \in S /\ Us = [Ts EXCEPT ![1] = L] BY <3>3, <3>7, <3>9, <4>1, <4>2
      <4>4. Us \in Seq(S) /\ Us # <<>> BY <3>7, <4>3, FirstList
      <4> QED BY <4>1, <4>4
    <3>11. DOMAIN T = TeamsOf(p) /\ \A t \in TeamsOf(p) : T[t] = IF t = u THEN Us ELSE totalT[p][t] BY <2>2, <3>4
    <3>12. \A t \in TeamsOf(p) : T[t] \in Seq(G[t]) /\ T[t] # <<>>
      <4>1. \A t \in TeamsOf(p) : totalT[p][t] \in Seq(G[t]) /\ totalT[p][t] # <<>> BY <1>p, <2>2 DEF PeerOK
      <4> QED BY <3>10, <3>11, <4>1
    <3>13. Only(p) BY <1>g, <2>1, <3>5 DEF Only, Domains
    <3>14. totalT'[p] = T BY <1>g, <3>5 DEF Domains
    <3>15. PeerOK(G, p, T, "group", cur[p], txseq[p], gossipdone[p], {}) BY <1>p, <2>2, <3>11, <3>12 DEF PeerOK
    <3>16. PeerOK(G, p, totalT'[p], phase'[p], cur'[p], txseq'[p], gossipdone'[p], insert'[p])
      BY <2>1, <2>3, <3>14, <3>15
    <3>17. gsock' \in [Peer -> SUBSET Msg(G)] /\ lost' \in BOOLEAN BY <1>g, <2>1, <3>1
    <3> QED BY <1>r, <3>13, <3>16, <3>17, PeerStep
  <2>5. CASE ~consume_failed_msgs[p]
    <3>1. lost' = TRUE /\ UNCHANGED totalT BY <2>c, <2>5 DEF ConsumeFailed
    <3>2. Only(p) BY <1>g, <2>1, <3>1 DEF Only, Domains
    <3>3. PeerOK(G, p, totalT[p], "group", cur[p], txseq[p], gossipdone[p], {}) BY <1>p, <2>2 DEF PeerOK
    <3>4. PeerOK(G, p, totalT'[p], phase'[p], cur'[p], txseq'[p], gossipdone'[p], insert'[p]) BY <2>1, <2>3, <3>1, <3>3
    <3>5. gsock' \in [Peer -> SUBSET Msg(G)] /\ lost' \in BOOLEAN BY <1>g, <2>1, <3>1
    <3> QED BY <1>r, <3>2, <3>4, <3>5, PeerStep
  <2> QED BY <2>4, <2>5
<1>6. ASSUME NEW p \in Peer, ReadGossip(p) PROVE Shape(G)'
  <2>1. PICK m \in gsock[p] :
            /\ gsock' = [gsock EXCEPT ![p] = @ \ {m}]
            /\ IF m.team \in DOMAIN totalT[p]
               THEN totalT' = [totalT EXCEPT ![p][m.team] = Append(@, m.list)] /\ UNCHANGED lost
               ELSE UNCHANGED totalT /\ lost' = TRUE
    BY <1>6 DEF ReadGossip
  <2>2. UNCHANGED <<phase, cur, txseq, gossipdone, insert>> BY <1>6 DEF ReadGossip
  <2>3. m \in Msg(G) BY <1>g, <2>1
  <2>4. m.list \in G[m.team] /\ m.team \in Team BY <2>3 DEF Msg
  <2>5. gsock' \in [Peer -> SUBSET Msg(G)] /\ lost' \in BOOLEAN
    <3>1. gsock[p] \ {m} \in SUBSET Msg(G) BY <1>g
    <3> QED BY <1>g, <2>1, <3>1
  <2>6. CASE m.team \in DOMAIN totalT[p]
    <3>1. PICK u, Ts : u = m.team /\ Ts = totalT[p][u] OBVIOUS
    <3>2. PICK Us : Us = Append(Ts, m.list) OBVIOUS
    <3>3. PICK T : T = [totalT[p] EXCEPT ![u] = Us] OBVIOUS
    <3>4. totalT' = [totalT EXCEPT ![p] = T] BY <2>1, <2>6, <3>1, <3>2, <3>3
    <3>5. Ts \in Seq(G[u]) /\ Ts # <<>> BY <1>p, <2>6, <3>1 DEF PeerOK
    <3>6. Us \in Seq(G[u]) /\ Us # <<>> /\ Us[1] = Ts[1]
      <4>1. PICK S, L : S = G[u] /\ L = m.list OBVIOUS
      <4>2. Ts \in Seq(S) /\ L \in S /\ Us = Append(Ts, L) BY <2>4, <3>1, <3>2, <3>5, <4>1
      <4>3. Us \in Seq(S) /\ Us # <<>> /\ Us[1] = Ts[1] BY <3>5, <4>2, OneMore
      <4> QED BY <4>1, <4>3
    <3>7. /\ DOMAIN T = DOMAIN totalT[p]
          /\ \A t \in DOMAIN T : T[t] = IF t = u THEN Us ELSE totalT[p][t]
      BY <3>3
    <3>8. \A t \in DOMAIN T : T[t] \in Seq(G[t]) /\ T[t] # <<>> /\ T[t][1] = totalT[p][t][1]
      <4>1. \A t \in DOMAIN totalT[p] : totalT[p][t] \in Seq(G[t]) /\ totalT[p][t] # <<>> BY <1>p DEF PeerOK
      <4> QED BY <3>1, <3>6, <3>7, <4>1
    <3>9. Only(p) BY <1>g, <2>2, <3>4 DEF Only, Domains
    <3>10. totalT'[p] = T BY <1>g, <3>4 DEF Domains
    <3>11. PeerOK(G, p, T, phase[p], cur[p], txseq[p], gossipdone[p], insert[p])
      <4>1. ASSUME phase[p] = "await" PROVE Outgoing(p, txseq[p], cur[p], T) = Outgoing(p, txseq[p], cur[p], totalT[p])
        <5>1. cur[p] \in DOMAIN T BY <1>p, <3>7, <4>1 DEF PeerOK
        <5> QED BY <3>8, <5>1 DEF Outgoing
      <4> QED BY <1>p, <3>7, <3>8, <4>1 DEF PeerOK
    <3>12. PeerOK(G, p, totalT'[p], phase'[p], cur'[p], txseq'[p], gossipdone'[p], insert'[p]) BY <2>2, <3>10, <3>11
    <3> QED BY <1>r, <2>5, <3>9, <3>12, PeerStep
  <2>7. CASE m.team \notin DOMAIN totalT[p]
    <3>1. Only(p) BY <1>g, <2>1, <2>2, <2>7 DEF Only, Domains
    <3>2. PeerOK(G, p, totalT'[p], phase'[p], cur'[p], txseq'[p], gossipdone'[p], insert'[p]) BY <1>p, <2>1, <2>2, <2>7
    <3> QED BY <1>r, <2>5, <3>1, <3>2, PeerStep
  <2> QED BY <2>6, <2>7
<1>7. CASE UNCHANGED vars BY <1>7 DEF vars, Shape, Here, Domains
<1>8. ASSUME StoreArrives PROVE Shape(G)'
  <2>1. PICK r \in stores :
            /\ gsock' = [gsock EXCEPT ![r.to] = @ \cup {r.msg}]
            /\ UNCHANGED <<totalT, phase, cur, txseq, gossipdone, insert, lost>>
    BY <1>8 DEF StoreArrives
  <2>2. r.to \in Peer /\ r.msg \in Msg(G) BY DEF StoresOK, Request
  <2>3. gsock' \in [Peer -> SUBSET Msg(G)] /\ lost' \in BOOLEAN
    <3>1. gsock[r.to] \cup {r.msg} \in SUBSET Msg(G) BY <1>g, <2>2
    <3> QED BY <1>g, <2>1, <3>1
  <2>4. Only(r.to) BY <1>g, <2>1 DEF Only, Domains
  <2>5. PeerOK(G, r.to, totalT'[r.to], phase'[r.to], cur'[r.to], txseq'[r.to], gossipdone'[r.to], insert'[r.to])
    BY <1>p, <2>1, <2>2
  <2> QED BY <1>r, <2>2, <2>3, <2>4, <2>5, PeerStep
<1> QED BY <1>1, <1>2, <1>3, <1>4, <1>5, <1>6, <1>7, <1>8 DEF Next, Turn

-------------------------------------------------------------------------------
(* The merges left.                                                           *)

\* The counts of the merges left are natural numbers.
LEMMA LeftType ==
    ASSUME NEW G, Shape(G)
    PROVE  Left \in [Peer -> Nat] /\ MergesLeft \in Nat
<1>1. rounds \in Nat /\ N \in Nat BY XGossipAssumption
<1>2. ASSUME NEW p \in Peer PROVE LeftAt(phase[p], txseq[p], gossipdone[p]) \in Nat
  <2>1. PeerOK(G, p, totalT[p], phase[p], cur[p], txseq[p], gossipdone[p], insert[p]) BY DEF Shape, Here
  <2>2. /\ txseq[p] \in 0..(rounds + 1) /\ (gossipdone[p] \/ txseq[p] <= rounds)
        /\ phase[p] \in {"await", "group"} => txseq[p] < rounds
    BY <2>1 DEF PeerOK
  <2> QED BY <1>1, <2>2 DEF LeftAt
<1>3. Left \in [Peer -> Nat] BY <1>2 DEF Left
<1>4. \A i \in 1..N : Left[i] \in Nat BY <1>3 DEF Peer
<1> QED BY <1>1, <1>3, <1>4, SumNat DEF MergesLeft

\* A step changes what is left at one peer.
LEMMA LeftPoint ==
    ASSUME NEW G, Shape(G), NEW p \in Peer, Only(p), NEW v \in Int,
           v = LeftAt(phase'[p], txseq'[p], gossipdone'[p])
    PROVE  MergesLeft' = MergesLeft + (v - Left[p])
<1>1. N \in Nat /\ p \in 1..N BY XGossipAssumption DEF Peer
<1>2. PICK f, g : f = Left /\ g = Left' OBVIOUS
<1>3. f \in [Peer -> Nat] BY <1>2, LeftType
<1>4. \A x \in Peer : f[x] = LeftAt(phase[x], txseq[x], gossipdone[x]) BY <1>2 DEF Left
<1>5. \A x \in Peer : g[x] = LeftAt(phase'[x], txseq'[x], gossipdone'[x]) BY <1>2 DEF Left
<1>6. g[p] = v BY <1>5
<1>7. \A x \in Peer : x # p => g[x] = f[x] BY <1>4, <1>5 DEF Only
<1>8. \A i \in 1..N : f[i] \in Int /\ g[i] \in Int /\ (i # p => g[i] = f[i]) BY <1>3, <1>6, <1>7 DEF Peer
<1>9. SumTo(N, g) = SumTo(N, f) + (g[p] - f[p]) BY <1>1, <1>8, SumPoint
<1> QED BY <1>2, <1>6, <1>9 DEF MergesLeft

\* A peer's step leaves as many merges as before, or one less.
LEMMA LeftStep ==
    ASSUME NEW G, Shape(G), NEW p \in Peer, Only(p), NEW d \in {0, 1},
           LeftAt(phase'[p], txseq'[p], gossipdone'[p]) = LeftAt(phase[p], txseq[p], gossipdone[p]) - d
    PROVE  MergesLeft' = MergesLeft - d
<1>1. PICK v : v = LeftAt(phase'[p], txseq'[p], gossipdone'[p]) OBVIOUS
<1>2. Left[p] = LeftAt(phase[p], txseq[p], gossipdone[p]) BY DEF Left
<1>3. Left[p] \in Nat /\ MergesLeft \in Nat BY LeftType
<1>4. v \in Int /\ v - Left[p] = 0 - d BY <1>1, <1>2, <1>3
<1>5. MergesLeft' = MergesLeft + (v - Left[p]) BY <1>1, <1>4, LeftPoint
<1> QED BY <1>3, <1>4, <1>5

\* A round that is begun is one merge less, also if there is nothing to send.
LEMMA GossipLeft ==
    ASSUME NEW G, Shape(G), NEW p \in Peer, GossipRound(p), Only(p)
    PROVE  MergesLeft' = MergesLeft - 1 /\ Left[p] >= 1
<1>1. rounds \in Nat BY XGossipAssumption
<1>2. PeerOK(G, p, totalT[p], phase[p], cur[p], txseq[p], gossipdone[p], insert[p]) /\ Domains BY DEF Shape, Here
<1>3. phase[p] = "sleep" /\ ~gossipdone[p] /\ txseq[p] # rounds /\ UNCHANGED gossipdone BY DEF GossipRound
<1>4. txseq[p] \in 0..(rounds + 1) /\ txseq[p] <= rounds BY <1>2, <1>3 DEF PeerOK
<1>5. \/ phase'[p] = "await" /\ txseq'[p] = txseq[p]
      \/ phase'[p] \in {"sleep", "dead"} /\ txseq'[p] = txseq[p] + 1
  <2>1. CASE After(p, 0) # {} BY <1>2, <2>1 DEF GossipRound, SendTeam, Domains
  <2>2. CASE After(p, 0) = {}
    <3>1. EndRound(p) BY <2>2 DEF GossipRound
    <3> QED BY <1>2, <3>1 DEF EndRound, Domains
  <2> QED BY <2>1, <2>2
<1>6. LeftAt(phase'[p], txseq'[p], gossipdone'[p]) = LeftAt(phase[p], txseq[p], gossipdone[p]) - 1
  BY <1>1, <1>3, <1>4, <1>5 DEF LeftAt
<1>7. Left[p] >= 1 BY <1>1, <1>3, <1>4 DEF Left, LeftAt
<1>8. MergesLeft' = MergesLeft - 1 BY <1>6, LeftStep
<1> QED BY <1>7, <1>8

\* No other step changes the number of merges left.
LEMMA OtherLeft ==
    ASSUME NEW G, Shape(G), [Next]_vars, ~ \E p \in Peer : GossipRound(p)
    PROVE  MergesLeft' = MergesLeft
<1>0. rounds \in Nat BY XGossipAssumption
<1>g. Domains BY DEF Shape
<1>p. \A p \in Peer : PeerOK(G, p, totalT[p], phase[p], cur[p], txseq[p], gossipdone[p], insert[p]) BY DEF Shape, Here
<1>n. MergesLeft \in Nat BY LeftType
<1>s. ASSUME NEW p \in Peer, Only(p),
             LeftAt(phase'[p], txseq'[p], gossipdone'[p]) = LeftAt(phase[p], txseq[p], gossipdone[p])
      PROVE  MergesLeft' = MergesLeft
  <2>1. PICK v \in Nat : v = LeftAt(phase[p], txseq[p], gossipdone[p])
    <3>1. Left[p] \in Nat /\ Left[p] = LeftAt(phase[p], txseq[p], gossipdone[p])  BY LeftType DEF Left
    <3> QED BY <3>1
  <2>2. LeftAt(phase'[p], txseq'[p], gossipdone'[p]) = LeftAt(phase[p], txseq[p], gossipdone[p]) - 0 BY <1>s, <2>1
  <2>3. MergesLeft' = MergesLeft - 0 BY <1>s, <2>2, LeftStep
  <2> QED BY <1>n, <2>3
<1>1. ASSUME NEW p \in Peer, LoadState(p) PROVE MergesLeft' = MergesLeft
  <2>1. Only(p) BY <1>1, <1>g DEF LoadState, Only, Domains
  <2>2. phase[p] = "load" /\ phase'[p] = "sleep" /\ UNCHANGED <<txseq, gossipdone>> BY <1>1, <1>g DEF LoadState, Domains
  <2> QED BY <1>s, <2>1, <2>2 DEF LeftAt
<1>2. ASSUME NEW p \in Peer, QuietRound(p) PROVE MergesLeft' = MergesLeft
  <2>1. Only(p) BY <1>2, <1>g DEF QuietRound, Only, Domains
  <2>2. /\ phase[p] = "sleep" /\ (gossipdone[p] \/ txseq[p] = rounds) /\ gossipdone'[p] = TRUE
    BY <1>2, <1>g DEF QuietRound, Domains
  <2>3. LeftAt(phase[p], txseq[p], gossipdone[p]) = 0 BY <1>0, <2>2 DEF LeftAt
  <2>4. LeftAt(phase'[p], txseq'[p], gossipdone'[p]) = 0 BY <2>2 DEF LeftAt
  <2> QED BY <1>s, <2>1, <2>3, <2>4
<1>3. ASSUME NEW p \in Peer, GroupWake(p) PROVE MergesLeft' = MergesLeft
  <2>1. phase[p] = "group" /\ UNCHANGED <<totalT, gossipdone>> BY <1>3 DEF GroupWake
  <2>2. ~gossipdone[p] /\ txseq[p] \in 0..(rounds + 1) BY <1>p, <2>1 DEF PeerOK
  <2>3. CASE After(p, cur[p]) # {}
    <3>1. SendTeam(p, NextTeam(p, cur[p]), totalT[p]) /\ UNCHANGED txseq BY <1>3, <2>3 DEF GroupWake
    <3>2. Only(p) BY <1>g, <2>1, <3>1 DEF SendTeam, Only, Domains
    <3>3. phase'[p] = "await" BY <1>g, <3>1 DEF SendTeam, Domains
    <3> QED BY <1>s, <2>1, <3>1, <3>2, <3>3 DEF LeftAt
  <2>4. CASE After(p, cur[p]) = {}
    <3>1. EndRound(p) /\ UNCHANGED insert BY <1>3, <2>4 DEF GroupWake
    <3>2. PICK ph \in {"sleep", "dead"} : phase' = [phase EXCEPT ![p] = ph] BY <3>1 DEF EndRound
    <3>3. txseq' = [txseq EXCEPT ![p] = txseq[p] + 1] /\ cur' = [cur EXCEPT ![p] = 0] BY <3>1 DEF EndRound
    <3>4. Only(p) BY <1>g, <2>1, <3>1, <3>2, <3>3 DEF Only, Domains
    <3>5. phase'[p] = ph /\ txseq'[p] = txseq[p] + 1 BY <1>g, <3>2, <3>3 DEF Domains
    <3>6. LeftAt(phase'[p], txseq'[p], gossipdone'[p]) = LeftAt(phase[p], txseq[p], gossipdone[p])
      BY <1>0, <2>1, <2>2, <3>2, <3>5 DEF LeftAt
    <3> QED BY <1>s, <3>4, <3>6
  <2> QED BY <2>3, <2>4
<1>i. \A p \in Peer : insert[p] # {} => phase[p] = "await" BY <1>p DEF PeerOK
<1>4. ASSUME NEW p \in Peer, InsertOK(p) PROVE MergesLeft' = MergesLeft
  <2>1. /\ insert[p] # {} /\ insert' = [insert EXCEPT ![p] = {}] /\ phase' = [phase EXCEPT ![p] = "group"]
        /\ UNCHANGED <<totalT, cur, txseq, gossipdone>>
    BY <1>4 DEF InsertOK, Returns
  <2>2. Only(p) BY <1>g, <2>1 DEF Only, Domains
  <2>3. phase[p] = "await" /\ phase'[p] = "group" BY <1>g, <1>i, <2>1 DEF Domains
  <2> QED BY <1>s, <2>1, <2>2, <2>3 DEF LeftAt
<1>5. ASSUME NEW p \in Peer, InsertFail(p) \/ InsertTimeout(p) PROVE MergesLeft' = MergesLeft
  <2>1. /\ insert[p] # {} /\ insert' = [insert EXCEPT ![p] = {}] /\ phase' = [phase EXCEPT ![p] = "group"]
        /\ UNCHANGED <<cur, txseq, gossipdone>>
    BY <1>5 DEF InsertFail, InsertTimeout, Returns
  <2>2. DOMAIN totalT' = Peer /\ \A x \in Peer : x # p => totalT'[x] = totalT[x]
    BY <1>5, <1>g DEF InsertFail, InsertTimeout, ConsumeFailed, Domains
  <2>3. Only(p) BY <1>g, <2>1, <2>2 DEF Only, Domains
  <2>4. phase[p] = "await" /\ phase'[p] = "group" BY <1>g, <1>i, <2>1 DEF Domains
  <2> QED BY <1>s, <2>1, <2>3, <2>4 DEF LeftAt
<1>6. ASSUME NEW p \in Peer, ReadGossip(p) PROVE MergesLeft' = MergesLeft
  BY <1>6 DEF ReadGossip, MergesLeft, Left
<1>7. CASE UNCHANGED vars BY <1>7 DEF vars, MergesLeft, Left
<1>8. CASE StoreArrives BY <1>8 DEF StoreArrives, MergesLeft, Left
<1> QED BY <1>1, <1>2, <1>3, <1>4, <1>5, <1>6, <1>7, <1>8 DEF Next, Turn

-------------------------------------------------------------------------------
(* The estimates.                                                             *)

\* The list log.init holds for a member of a team.
LEMMA LoadedList ==
    ASSUME NEW p \in Peer, NEW t \in TeamsOf(p)
    PROVE  /\ Freq[p][t] \in [Sig -> Nat]
           /\ loadinitstate(p, t) = StartList(Freq[p][t])
<1>1. t \in Team BY DEF TeamsOf
<1>2. Freq \in [Peer -> [Team -> [Sig -> Nat]]] BY XGossipAssumption
<1> QED BY <1>1, <1>2 DEF loadinitstate, StartList

\* Every unit in use divides the first one.
LEMMA UnitMultiple ==
    ASSUME NEW n \in Nat, NEW half \in [0..n -> Nat], Halves(half, n)
    PROVE  \A k \in 0..n : Unit \in Multiples(half[k])
<1> DEFINE T == {j \in Nat : j <= n /\ Unit \notin Multiples(half[n - j])}
<1>1. CASE T # {}
  <2>1. PICK j \in T : \A y \in T : j <= y BY <1>1, LeastNat
  <2>2. j \in Nat /\ j <= n /\ Unit \notin Multiples(half[n - j]) BY <2>1
  <2>3. j # 0
    <3>1. half[n] \in Nat /\ Unit = half[n] * 1 BY DEF Halves
    <3>2. Unit \in Multiples(half[n]) BY <3>1 DEF Multiples
    <3> QED BY <2>2, <3>2
  <2>4. j - 1 \in Nat /\ j - 1 <= n /\ j - 1 \notin T BY <2>1, <2>2, <2>3
  <2>5. Unit \in Multiples(half[n - (j - 1)]) BY <2>4
  <2>6. PICK k : k = n - (j - 1) OBVIOUS
  <2>7. k \in 1..n /\ k - 1 = n - j /\ k - 1 \in 0..n BY <2>2, <2>3, <2>6
  <2>8. half[k] = 2 * half[k - 1] /\ half[k - 1] \in Nat BY <2>7 DEF Halves
  <2>9. Unit \in Multiples(2 * half[k - 1]) BY <2>5, <2>6, <2>8
  <2>10. Unit \in Multiples(half[k - 1]) BY <2>8, <2>9, HalveMultiple
  <2> QED BY <2>2, <2>7, <2>10
<1>2. CASE T = {}
  <2>1. SUFFICES ASSUME NEW k \in 0..n PROVE Unit \in Multiples(half[k]) OBVIOUS
  <2>2. n - k \in Nat /\ n - k <= n /\ n - (n - k) = k OBVIOUS
  <2>3. n - k \notin T BY <1>2
  <2> QED BY <2>2, <2>3
<1> QED BY <1>1, <1>2

\* The lists the peers begin with are good for every unit in use.
LEMMA LoadedGood ==
    ASSUME NEW h \in Nat, Unit \in Multiples(h), NEW lo, NEW hi, Bounds(lo, hi),
           NEW p \in Peer, NEW t \in TeamsOf(p)
    PROVE  loadinitstate(p, t) \in GoodLists(h, lo, hi)[t]
<1>1. t \in Team /\ p \in Members(t) BY DEF TeamsOf
<1>2. PICK l, u, docs : l = lo[t] /\ u = hi[t] /\ docs = Freq[p][t] OBVIOUS
<1>3. l \in [Sig -> Nat] /\ u \in [Sig -> Nat] BY <1>1, <1>2 DEF Bounds
<1>4. docs \in [Sig -> Nat] /\ loadinitstate(p, t) = StartList(docs) BY <1>2, LoadedList
<1>5. \A s \in Sig : l[s] <= docs[s] /\ docs[s] <= u[s] BY <1>1, <1>2 DEF Bounds
<1>6. StartList(docs) \in Good(h, l, u) BY <1>3, <1>4, <1>5, StartGood
<1> QED BY <1>1, <1>2, <1>4, <1>6 DEF GoodLists

\* Good lists are well formed, and multiplyfreq keeps them good.
LEMMA GoodFamily ==
    ASSUME NEW h \in Nat, NEW lo, NEW hi, Bounds(lo, hi), NEW G, G = GoodLists(h, lo, hi)
    PROVE  Family(G) /\ \A t \in Team : \A T \in G[t] : multiplyfreq(T) \in G[t]
<1>1. \A t \in Team : G[t] = Good(h, lo[t], hi[t]) BY DEF GoodLists
<1>2. Family(G) BY <1>1 DEF Family, Good
<1>3. ASSUME NEW t \in Team, NEW T \in G[t] PROVE multiplyfreq(T) \in G[t]
  <2>1. PICK l, u : l = lo[t] /\ u = hi[t] OBVIOUS
  <2>2. l \in [Sig -> Nat] /\ u \in [Sig -> Nat] BY <2>1 DEF Bounds
  <2>3. G[t] = Good(h, l, u) BY <1>1, <2>1
  <2> QED BY <2>2, <2>3, MultiplyGood
<1> QED BY <1>2, <1>3

\* Merging takes good lists to good lists of half the unit, with half the mass.
LEMMA GoodMerge ==
    ASSUME NEW h \in Nat, NEW lo, NEW hi, Bounds(lo, hi), NEW G, NEW H,
           G = GoodLists(2 * h, lo, hi), H = GoodLists(h, lo, hi)
    PROVE  /\ Finer(G, H)
           /\ \A t \in Team : \A Ts \in Seq(G[t]) : Ts # <<>> =>
                 \E L \in H[t] : /\ mergelists(Ts) = <<L>>
                                 /\ \A s \in Sig : \A c \in {"f", "w"} : SeqMass(Ts, s, c) = 2 * At(L, s)[c]
<1>1. \A t \in Team : G[t] = Good(2 * h, lo[t], hi[t]) /\ H[t] = Good(h, lo[t], hi[t]) BY DEF GoodLists
<1>2. Finer(G, H)
  <2>1. \A l, u : Good(2 * h, l, u) \subseteq Good(h, l, u) BY GoodFiner
  <2> QED BY <1>1, <2>1 DEF Finer
<1>3. ASSUME NEW t \in Team, NEW Ts \in Seq(G[t]), Ts # <<>>
      PROVE  \E L \in H[t] : /\ mergelists(Ts) = <<L>>
                             /\ \A s \in Sig : \A c \in {"f", "w"} : SeqMass(Ts, s, c) = 2 * At(L, s)[c]
  <2>1. PICK l, u : l = lo[t] /\ u = hi[t] OBVIOUS
  <2>2. l \in [Sig -> Nat] /\ u \in [Sig -> Nat] BY <2>1 DEF Bounds
  <2>3. G[t] = Good(2 * h, l, u) /\ H[t] = Good(h, l, u) BY <1>1, <2>1
  <2>4. Ts \in Seq(Good(2 * h, l, u)) BY <2>3
  <2>5. \E L \in Good(h, l, u) :
            /\ mergelists(Ts) = <<L>>
            /\ \A s \in Sig : \A c \in {"f", "w"} : SeqMass(Ts, s, c) = 2 * At(L, s)[c]
    BY <1>3, <2>2, <2>4, MergeMass
  <2> QED BY <2>3, <2>5
<1> QED BY <1>2, <1>3

\* The first lists are good.
LEMMA InitInv ==
    ASSUME NEW half \in [0..(N * rounds) -> Nat], Halves(half, N * rounds), NEW lo, NEW hi, Bounds(lo, hi), Init
    PROVE  Inv(half, lo, hi)
<1>1. rounds \in Nat /\ N \in Nat \ {0} BY XGossipAssumption
<1>2. \A p \in Peer : /\ totalT[p] = IF p \in LateLoad THEN <<>> ELSE InitState(p)
                      /\ phase[p] = IF p \in LateLoad THEN "load" ELSE "sleep"
                      /\ cur[p] = 0 /\ txseq[p] = 0 /\ gossipdone[p] = FALSE /\ insert[p] = {}
  BY DEF Init
<1>3. MergesLeft = N * rounds
  <2>1. PICK f : f = Left OBVIOUS
  <2>2. \A i \in 1..N : f[i] = rounds
    <3>1. \A p \in Peer : f[p] = LeftAt(phase[p], txseq[p], gossipdone[p]) BY <2>1 DEF Left
    <3>2. \A p \in Peer : phase[p] \notin {"await", "group"} BY <1>2
    <3> QED BY <1>1, <1>2, <3>1, <3>2 DEF LeftAt, Peer
  <2>3. rounds \in Int /\ N \in Nat BY <1>1
  <2>4. SumTo(N, f) = N * rounds BY <2>2, <2>3, SumConstant
  <2> QED BY <2>1, <2>4 DEF MergesLeft
<1>4. N * rounds \in Nat BY <1>1
<1>5. PICK h \in Nat : h = half[N * rounds] BY <1>4
<1>6. Unit \in Multiples(h) BY <1>4, <1>5, UnitMultiple
<1>7. PICK G : G = GoodLists(h, lo, hi) OBVIOUS
<1>8. \A p \in Peer : \A t \in TeamsOf(p) : loadinitstate(p, t) \in G[t] BY <1>6, <1>7, LoadedGood
<1>9. ASSUME NEW p \in Peer
      PROVE  PeerOK(G, p, totalT[p], phase[p], cur[p], txseq[p], gossipdone[p], insert[p])
  <2>0. /\ cur[p] = 0 /\ txseq[p] = 0 /\ gossipdone[p] = FALSE /\ insert[p] = {}
        /\ 0 \in 0..(rounds + 1) /\ 0 <= rounds
    BY <1>1, <1>2
  <2>1. CASE p \in LateLoad
    <3>1. DOMAIN totalT[p] = {} /\ phase[p] = "load" BY <1>2, <2>1
    <3>2. PeerOK(G, p, totalT[p], "load", 0, 0, FALSE, {}) BY <2>0, <3>1 DEF PeerOK
    <3> QED BY <2>0, <3>1, <3>2
  <2>2. CASE p \notin LateLoad
    <3>1. DOMAIN totalT[p] = TeamsOf(p) /\ \A t \in TeamsOf(p) : totalT[p][t] = <<loadinitstate(p, t)>>
      BY <1>2, <2>2 DEF InitState
    <3>2. \A t \in TeamsOf(p) : totalT[p][t] \in Seq(G[t]) /\ totalT[p][t] # <<>> BY <1>8, <3>1, OneList
    <3>3. PeerOK(G, p, totalT[p], "sleep", 0, 0, FALSE, {}) BY <2>0, <3>1, <3>2 DEF PeerOK
    <3> QED BY <1>2, <2>0, <2>2, <3>3
  <2> QED BY <2>1, <2>2
<1>10. Domains /\ gsock \in [Peer -> SUBSET Msg(G)] /\ lost \in BOOLEAN BY DEF Init, Domains
<1>11. Shape(G) BY <1>9, <1>10 DEF Shape, Here
<1>12. StoresOK(G)
  <2>1. 0 \in 0..MaxFaults BY XGossipAssumption
  <2> QED BY <2>1 DEF Init, StoresOK
<1> QED BY <1>3, <1>4, <1>5, <1>7, <1>11, <1>12 DEF Inv

\* Every step keeps the lists good: a merge takes one halving, and leaves one
\* less to come.
LEMMA NextInv ==
    ASSUME NEW half \in [0..(N * rounds) -> Nat], Halves(half, N * rounds), NEW lo, NEW hi, Bounds(lo, hi),
           Inv(half, lo, hi), [Next]_vars
    PROVE  Inv(half, lo, hi)'
<1>1. rounds \in Nat /\ N \in Nat BY XGossipAssumption
<1>2. PICK k : k = MergesLeft OBVIOUS
<1>3. k \in 0..(N * rounds) /\ N * rounds \in Nat BY <1>1, <1>2 DEF Inv
<1>4. PICK G : G = GoodLists(half[k], lo, hi) OBVIOUS
<1>5. Shape(G) /\ StoresOK(G) BY <1>2, <1>4 DEF Inv
<1>6. half[k] \in Nat BY <1>3
<1>f. Family(G) BY <1>4, <1>6, GoodFamily
<1>7. CASE \E p \in Peer : GossipRound(p)
  <2>1. PICK p \in Peer : GossipRound(p) BY <1>7
  <2>2. k >= 1
    <3>1. phase[p] = "sleep" /\ ~gossipdone[p] /\ txseq[p] # rounds BY <2>1 DEF GossipRound
    <3>2. PeerOK(G, p, totalT[p], phase[p], cur[p], txseq[p], gossipdone[p], insert[p]) BY <1>5 DEF Shape, Here
    <3>3. txseq[p] \in 0..(rounds + 1) /\ txseq[p] <= rounds BY <3>1, <3>2 DEF PeerOK
    <3>4. Left[p] >= 1 BY <1>1, <3>1, <3>3 DEF Left, LeftAt
    <3>5. PICK f, g : f = Left /\ g = [Left EXCEPT ![p] = 0] OBVIOUS
    <3>6. f \in [Peer -> Nat] BY <1>5, <3>5, LeftType
    <3>7. g \in [Peer -> Nat] /\ g[p] = 0 /\ \A x \in Peer : x # p => g[x] = f[x] BY <3>5, <3>6
    <3>8. \A i \in 1..N : f[i] \in Int /\ g[i] \in Nat /\ g[i] \in Int /\ (i # p => g[i] = f[i]) BY <3>6, <3>7 DEF Peer
    <3>9. SumTo(N, g) = SumTo(N, f) + (g[p] - f[p]) BY <1>1, <3>8, SumPoint DEF Peer
    <3>10. SumTo(N, g) \in Nat BY <1>1, <3>8, SumNat
    <3>11. SumTo(N, f) = k /\ f[p] >= 1 BY <1>2, <3>4, <3>5 DEF MergesLeft
    <3>12. f[p] \in Int /\ k \in Int BY <1>3, <3>6
    <3> QED BY <3>7, <3>9, <3>10, <3>11, <3>12
  <2>3. k - 1 \in 0..(N * rounds) /\ half[k - 1] \in Nat BY <1>3, <2>2
  <2>4. PICK h \in Nat : h = half[k - 1] BY <2>3
  <2>5. half[k] = 2 * h BY <1>3, <2>2, <2>4 DEF Halves
  <2>6. PICK H : H = GoodLists(h, lo, hi) OBVIOUS
  <2>7. /\ Finer(G, H)
        /\ \A t \in Team : \A Ts \in Seq(G[t]) : Ts # <<>> =>
              \E L \in H[t] : /\ mergelists(Ts) = <<L>>
                              /\ \A s \in Sig : \A c \in {"f", "w"} : SeqMass(Ts, s, c) = 2 * At(L, s)[c]
    BY <1>4, <2>5, <2>6, GoodMerge
  <2>8. Shape(H)' /\ Only(p) BY <1>5, <2>1, <2>7, GossipShape
  <2>9. MergesLeft' = k - 1 BY <1>2, <1>5, <2>1, <2>8, GossipLeft
  <2>10. StoresOK(H)' BY <1>5, <1>f, <2>7, SentStep
  <2> QED BY <2>3, <2>4, <2>6, <2>8, <2>9, <2>10 DEF Inv
<1>8. CASE ~ \E p \in Peer : GossipRound(p)
  <2>1. MergesLeft' = k BY <1>2, <1>5, <1>8, OtherLeft
  <2>2. Family(G) /\ \A t \in Team : \A T \in G[t] : multiplyfreq(T) \in G[t] BY <1>4, <1>6, GoodFamily
  <2>3. Unit \in Multiples(half[k]) BY <1>3, UnitMultiple
  <2>4. \A p \in Peer : \A t \in TeamsOf(p) : loadinitstate(p, t) \in G[t] BY <1>4, <1>6, <2>3, LoadedGood
  <2>5. Shape(G)' BY <1>5, <1>8, <2>2, <2>4, OtherShape
  <2>6. Finer(G, G) BY DEF Finer
  <2>7. StoresOK(G)' BY <1>5, <1>f, <2>6, SentStep
  <2> QED BY <1>3, <1>4, <2>1, <2>5, <2>7 DEF Inv
<1> QED BY <1>7, <1>8

\* Every list of a team, held or under way, is one of G, and has a member.
LEMMA ListsOf ==
    ASSUME NEW G, Family(G), Shape(G), StoresOK(G), NEW t \in Team, NEW T \in Lists(t)
    PROVE  T \in G[t] /\ Members(t) # {}
<1>p. \A p \in Peer : PeerOK(G, p, totalT[p], phase[p], cur[p], txseq[p], gossipdone[p], insert[p]) BY DEF Shape, Here
<1>1. CASE T \in {m.list : m \in Messages(t)}
  <2>1. PICK m \in Messages(t) : T = m.list BY <1>1
  <2>2. m.team = t /\ m \in {r.msg : r \in Requests} \cup UNION {gsock[p] : p \in Peer} BY DEF Messages
  <2>3. m \in Msg(G)
    <3>1. CASE m \in UNION {gsock[p] : p \in Peer} BY <3>1 DEF Shape
    <3>2. CASE m \in {r.msg : r \in Requests}
      <4>1. PICK r \in Requests : m = r.msg BY <3>2
      <4>2. \A p \in Peer : insert[p] \in SUBSET Request(G) BY AwaitedRequest
      <4>3. r \in Request(G) BY <4>2 DEF StoresOK, Requests
      <4> QED BY <4>1, <4>3 DEF Request
    <3> QED BY <2>2, <3>1, <3>2
  <2>4. m.list \in G[m.team] /\ m.src \in Members(m.team) BY <2>3 DEF Msg
  <2> QED BY <2>1, <2>2, <2>4
<1>2. CASE T \notin {m.list : m \in Messages(t)}
  <2>1. PICK p \in Peer : t \in DOMAIN totalT[p] /\ T \in {totalT[p][t][i] : i \in DOMAIN totalT[p][t]}
    BY <1>2 DEF Lists
  <2>2. PICK i \in DOMAIN totalT[p][t] : T = totalT[p][t][i] BY <2>1
  <2>3. totalT[p][t] \in Seq(G[t]) /\ t \in TeamsOf(p) BY <1>p, <2>1 DEF PeerOK
  <2>4. T \in G[t] BY <2>2, <2>3
  <2> QED BY <2>3, <2>4 DEF TeamsOf
<1> QED BY <1>1, <1>2

\* lo and hi are frequencies of members, where a team has any.
Attained(lo, hi) ==
    \A t \in Team : Members(t) # {} =>
        \A s \in Sig : \E p, q \in Members(t) : lo[t][s] = Freq[p][t][s] /\ hi[t][s] = Freq[q][t][s]

\* The invariant gives the properties of the lists.
LEMMA InvRange ==
    ASSUME NEW half \in [0..(N * rounds) -> Nat], NEW lo, NEW hi, Bounds(lo, hi), Attained(lo, hi),
           Inv(half, lo, hi)
    PROVE  EstimateInRange
<1>1. PICK G, h : G = GoodLists(h, lo, hi) /\ h = half[MergesLeft] OBVIOUS
<1>2. Shape(G) /\ StoresOK(G) BY <1>1 DEF Inv
<1>3. \A t \in Team : G[t] = Good(h, lo[t], hi[t]) BY <1>1 DEF GoodLists
<1>f. Family(G) BY <1>3 DEF Family, Good
<1>p. \A p \in Peer : PeerOK(G, p, totalT[p], phase[p], cur[p], txseq[p], gossipdone[p], insert[p])
  BY <1>2 DEF Shape, Here
<1>d. Domains /\ lost \in BOOLEAN BY <1>2 DEF Shape
<1>4. TypeOK
  <2>1. \A p \in Peer : DOMAIN totalT[p] = IF phase[p] = "load" THEN {} ELSE TeamsOf(p) BY <1>p DEF PeerOK
  <2>2. phase \in [Peer -> {"load", "sleep", "await", "group", "dead"}]
    <3>1. \A p \in Peer : phase[p] \in {"load", "sleep", "await", "group", "dead"} BY <1>p DEF PeerOK
    <3>2. phase = [p \in Peer |-> phase[p]] BY <1>d DEF Domains
    <3> QED BY <3>1, <3>2
  <2>3. ASSUME NEW p \in Peer PROVE (insert[p] # {}) = (phase[p] = "await")
    <3>1. phase[p] = "await" => insert[p] # {} BY <1>p DEF PeerOK
    <3>2. phase[p] # "await" => insert[p] = {} BY <1>p DEF PeerOK
    <3> QED BY <3>1, <3>2
  <2>4. ASSUME NEW p \in Peer PROVE cur[p] # 0 <=> phase[p] \in {"await", "group"}
    <3>1. 0 \notin TeamsOf(p) BY XGossipAssumption DEF TeamsOf, Team
    <3> QED BY <1>p, <3>1 DEF PeerOK
  <2>5. txseq \in [Peer -> 0..(rounds + 1)] /\ gossipdone \in [Peer -> BOOLEAN]
    <3>1. \A p \in Peer : txseq[p] \in 0..(rounds + 1) /\ gossipdone[p] \in BOOLEAN BY <1>p DEF PeerOK
    <3>2. txseq = [p \in Peer |-> txseq[p]] /\ gossipdone = [p \in Peer |-> gossipdone[p]]
      BY <1>d DEF Domains
    <3> QED BY <3>1, <3>2
  <2>6. ASSUME NEW t \in Team, NEW T \in Lists(t) PROVE IsList(T)
    <3>1. T \in G[t] BY <1>2, <1>f, ListsOf
    <3>2. T \in ListType BY <1>3, <3>1 DEF Good
    <3> QED BY <3>2, ListEntries
  <2>7. ASSUME NEW r \in Requests PROVE r.to \in Peer
    <3>1. \A p \in Peer : insert[p] \in SUBSET Request(G) BY <1>2, <1>f, AwaitedRequest
    <3>2. r \in Request(G) BY <1>2, <3>1 DEF StoresOK, Requests
    <3> QED BY <3>2 DEF Request
  <2>8. faults \in 0..MaxFaults BY <1>2 DEF StoresOK
  <2> QED BY <1>d, <2>1, <2>2, <2>3, <2>4, <2>5, <2>6, <2>7, <2>8 DEF TypeOK
<1>5. ASSUME NEW t \in Team, NEW T \in Lists(t), NEW s \in Sig
      PROVE  \E p, q \in Members(t) : /\ Freq[p][t][s] * At(T, s).w <= At(T, s).f
                                      /\ At(T, s).f <= Freq[q][t][s] * At(T, s).w
  <2>1. T \in G[t] /\ Members(t) # {} BY <1>2, <1>f, ListsOf
  <2>2. lo[t][s] * At(T, s).w <= At(T, s).f /\ At(T, s).f <= hi[t][s] * At(T, s).w BY <1>3, <2>1 DEF Good
  <2>3. PICK p, q \in Members(t) : lo[t][s] = Freq[p][t][s] /\ hi[t][s] = Freq[q][t][s] BY <2>1 DEF Attained
  <2> QED BY <2>2, <2>3
<1> QED BY <1>4, <1>5 DEF EstimateInRange

\* The least and the greatest frequency of a signature among members.
LEMMA TeamBounds ==
    ASSUME NEW t \in Team, Members(t) # {}, NEW s \in Sig
    PROVE  \E p, q \in Members(t) : \A x \in Members(t) :
               Freq[p][t][s] <= Freq[x][t][s] /\ Freq[x][t][s] <= Freq[q][t][s]
<1>1. N \in Nat \ {0} /\ Freq \in [Peer -> [Team -> [Sig -> Nat]]] /\ Members(t) \subseteq Peer BY XGossipAssumption
<1>2. \A p \in Peer : Freq[p][t][s] \in Nat BY <1>1
<1>3. PICK p \in Members(t) : \A x \in Members(t) : Freq[p][t][s] <= Freq[x][t][s]
  <2>1. PICK T : T = {Freq[p][t][s] : p \in Members(t)} OBVIOUS
  <2>2. T \in SUBSET Nat /\ T # {} BY <1>1, <1>2, <2>1
  <2>3. PICK v \in T : \A y \in T : v <= y BY <2>2, LeastNat
  <2> QED BY <2>1, <2>3
<1>4. PICK q \in Members(t) : \A x \in Members(t) : Freq[x][t][s] <= Freq[q][t][s]
  <2>1. PICK f : f = [x \in 1..N |-> IF x \in Members(t) THEN Freq[x][t][s] ELSE Freq[p][t][s]] OBVIOUS
  <2>2. \A i \in 1..N : f[i] \in Int
    <3>1. p \in Peer BY <1>1
    <3> QED BY <1>2, <2>1, <3>1 DEF Peer
  <2>3. PICK q \in 1..N : \A x \in 1..N : f[x] <= f[q] BY <1>1, <2>2, GreatestOf
  <2>4. \A x \in Members(t) : x \in 1..N /\ f[x] = Freq[x][t][s] BY <1>1, <2>1 DEF Peer
  <2>5. CASE q \in Members(t) BY <2>3, <2>4, <2>5
  <2>6. CASE q \notin Members(t)
    <3>1. f[q] = Freq[p][t][s] BY <2>1, <2>6
    <3> QED BY <2>3, <2>4, <3>1
  <2> QED BY <2>5, <2>6
<1> QED BY <1>3, <1>4

\* Such bounds exist.
LEMMA BoundsExist == \E lo, hi : Bounds(lo, hi) /\ Attained(lo, hi)
<1> DEFINE Least(t, s) == CHOOSE p \in Members(t) : \A x \in Members(t) : Freq[p][t][s] <= Freq[x][t][s]
           Most(t, s) == CHOOSE q \in Members(t) : \A x \in Members(t) : Freq[x][t][s] <= Freq[q][t][s]
           Low(t, s) == IF Members(t) = {} THEN 0 ELSE Freq[Least(t, s)][t][s]
           High(t, s) == IF Members(t) = {} THEN 0 ELSE Freq[Most(t, s)][t][s]
<1>1. ASSUME NEW t \in Team, NEW s \in Sig, Members(t) # {}
      PROVE  /\ Least(t, s) \in Members(t) /\ Most(t, s) \in Members(t)
             /\ \A x \in Members(t) : /\ Freq[Least(t, s)][t][s] <= Freq[x][t][s]
                                      /\ Freq[x][t][s] <= Freq[Most(t, s)][t][s]
  <2>1. PICK p, q \in Members(t) : \A x \in Members(t) :
               Freq[p][t][s] <= Freq[x][t][s] /\ Freq[x][t][s] <= Freq[q][t][s]
    BY <1>1, TeamBounds
  <2> QED BY <2>1
<1> HIDE DEF Least, Most
<1>2. ASSUME NEW t \in Team, NEW s \in Sig PROVE Low(t, s) \in Nat /\ High(t, s) \in Nat
  <2>1. Freq \in [Peer -> [Team -> [Sig -> Nat]]] /\ Members(t) \subseteq Peer BY XGossipAssumption
  <2>2. \A p \in Members(t) : Freq[p][t][s] \in Nat BY <2>1
  <2> QED BY <1>1, <2>2
<1>3. PICK lo, hi : /\ lo = [t \in Team |-> [s \in Sig |-> Low(t, s)]]
                    /\ hi = [t \in Team |-> [s \in Sig |-> High(t, s)]]
  OBVIOUS
<1>4. \A t \in Team : \A s \in Sig : lo[t][s] = Low(t, s) /\ hi[t][s] = High(t, s) BY <1>3
<1>5. \A t \in Team : lo[t] \in [Sig -> Nat] /\ hi[t] \in [Sig -> Nat]
  <2>1. SUFFICES ASSUME NEW t \in Team PROVE lo[t] \in [Sig -> Nat] /\ hi[t] \in [Sig -> Nat] OBVIOUS
  <2>2. lo[t] = [s \in Sig |-> Low(t, s)] /\ hi[t] = [s \in Sig |-> High(t, s)] BY <1>3
  <2> HIDE DEF Low, High
  <2> QED BY <1>2, <2>2
<1>6. \A t \in Team : \A s \in Sig : Members(t) # {} =>
         lo[t][s] = Freq[Least(t, s)][t][s] /\ hi[t][s] = Freq[Most(t, s)][t][s]
  BY <1>4
<1> HIDE DEF Low, High
<1>7. Bounds(lo, hi) BY <1>1, <1>5, <1>6 DEF Bounds
<1>8. Attained(lo, hi) BY <1>1, <1>6 DEF Attained
<1> QED BY <1>7, <1>8

\* The halvings of Unit, and the bounds.
LEMMA UnitsExist ==
    ASSUME ExactHalving
    PROVE  \E half \in [0..(N * rounds) -> Nat] : Halves(half, N * rounds)
<1>1. 0..Unit \subseteq Nat BY ListAssumption
<1> QED BY <1>1 DEF ExactHalving

\* For any number of peers, teams, rounds and signatures, whatever fails, is
\* copied to the successors or arrives late, whoever is killed and whoever loads
\* its teams late: every list of the exec
\* phase is well formed and no estimate leaves the range of the frequencies of
\* the members of its team.
THEOREM TeamEstimatesSafe == ASSUME ExactHalving PROVE Spec => []EstimateInRange
<1>1. PICK half \in [0..(N * rounds) -> Nat] : Halves(half, N * rounds) BY UnitsExist
<1>2. PICK lo, hi : Bounds(lo, hi) /\ Attained(lo, hi) BY BoundsExist
<1>3. Init => Inv(half, lo, hi) BY <1>1, <1>2, InitInv
<1>4. Inv(half, lo, hi) /\ [Next]_vars => Inv(half, lo, hi)' BY <1>1, <1>2, NextInv
<1>5. Inv(half, lo, hi) => EstimateInRange BY <1>2, InvRange
<1> QED BY <1>3, <1>4, <1>5, PTL DEF Spec

-------------------------------------------------------------------------------
(* Mass: the places of a team's mass.                                         *)

\* Where peer p keeps the mass of component c of signature s in team t, from
\* its lists T, phase ph, current team u and awaited inserts I.
PendingAt(T, ph, u, I, t) == t \in DOMAIN T /\ ph \in {"await", "group"} /\ (t > u \/ (t = u /\ I # {}))
PhaseAt(T, ph, u, I, t) == IF PendingAt(T, ph, u, I, t) THEN "await" ELSE "sleep"
KeptAt(p, T, t, s, c) == IF t \in DOMAIN T THEN At(T[t][1], s)[c]
                         ELSE IF p \in Members(t) THEN At(loadinitstate(p, t), s)[c] ELSE 0
WireAt(p, T, ph, u, I, t, s, c) == IF PendingAt(T, ph, u, I, t) THEN KeptAt(p, T, t, s, c) ELSE 0
InboxAt(T, t, s, c) == IF t \in DOMAIN T THEN SeqMass(Tail(T[t]), s, c) ELSE 0

\* What a message of a team is worth to team t.
Worth(m, t, s, c) == IF m.team = t THEN At(m.list, s)[c] ELSE 0

\* A is M and the message m, of another round, peer or team than those of M.
AddsTeam(A, M, m) == A = M \cup {m} /\ \A x \in M : x.src # m.src \/ x.seq # m.seq \/ x.team # m.team

\* The mass of messages is a natural number.
LEMMA MsgMassNat ==
    ASSUME NEW G, NEW M \in SUBSET Msg(G), NEW t, NEW s, NEW c \in {"f", "w"}
    PROVE  MsgMass(M, t, s, c) \in Nat
<1>1. rounds \in Nat /\ N \in Nat BY XGossipAssumption
<1>2. PICK B : B = {m \in M : m.team = t} OBVIOUS
<1>3. Sendable(N, rounds, B) BY <1>2 DEF Sendable, Msg, Peer
<1>4. SentMass(N, rounds, B, s, c) \in Nat BY <1>1, <1>3, SentMassNat
<1> QED BY <1>2, <1>4 DEF MsgMass

\* A message adds its mass to that of its team.
LEMMA MsgMassAdd ==
    ASSUME NEW G, NEW M \in SUBSET Msg(G), NEW m \in Msg(G), NEW A, AddsTeam(A, M, m),
           NEW t, NEW s, NEW c \in {"f", "w"}
    PROVE  MsgMass(A, t, s, c) = MsgMass(M, t, s, c) + Worth(m, t, s, c)
<1>1. rounds \in Nat /\ N \in Nat BY XGossipAssumption
<1>2. PICK B, C : B = {x \in M : x.team = t} /\ C = {x \in A : x.team = t} OBVIOUS
<1>3. MsgMass(A, t, s, c) = SentMass(N, rounds, C, s, c) /\ MsgMass(M, t, s, c) = SentMass(N, rounds, B, s, c)
  BY <1>2 DEF MsgMass
<1>4. A = M \cup {m} BY DEF AddsTeam
<1>5. CASE m.team = t
  <2>1. \A x \in Msg(G) : x.src \in 1..N /\ x.seq \in 0..(rounds - 1) /\ x.list \in ListType BY DEF Msg, Peer
  <2>2. Sendable(N, rounds, C) BY <1>2, <1>4, <2>1 DEF Sendable
  <2>3. Adds(C, B, m) BY <1>2, <1>4, <1>5 DEF Adds, AddsTeam
  <2>4. SentMass(N, rounds, C, s, c) = SentMass(N, rounds, B, s, c) + At(m.list, s)[c]
    BY <1>1, <2>2, <2>3, SentMassAdd
  <2> QED BY <1>3, <1>5, <2>4 DEF Worth
<1>6. CASE m.team # t
  <2>1. C = B BY <1>2, <1>4, <1>6
  <2>2. MsgMass(M, t, s, c) \in Nat BY MsgMassNat
  <2> QED BY <1>3, <1>6, <2>1, <2>2 DEF Worth
<1> QED BY <1>5, <1>6

\* No messages, no mass; one message, its mass.
LEMMA MsgMassEmpty == ASSUME NEW t, NEW s, NEW c PROVE MsgMass({}, t, s, c) = 0
<1>1. {m \in {} : m.team = t} = {} OBVIOUS
<1> QED BY <1>1, SentMassEmpty DEF MsgMass

LEMMA MsgMassOne ==
    ASSUME NEW G, NEW m \in Msg(G), NEW s, NEW c \in {"f", "w"}
    PROVE  MsgMass({m}, m.team, s, c) = At(m.list, s)[c]
<1>1. PICK M \in SUBSET Msg(G) : M = {} OBVIOUS
<1>a. PICK A : A = {m} OBVIOUS
<1>2. AddsTeam(A, M, m) BY <1>1, <1>a DEF AddsTeam
<1>3. PICK t : t = m.team OBVIOUS
<1>4. MsgMass(A, t, s, c) = MsgMass(M, t, s, c) + Worth(m, t, s, c) BY <1>2, MsgMassAdd
<1>5. MsgMass(M, t, s, c) = 0 BY <1>1, MsgMassEmpty
<1>6. Worth(m, t, s, c) = At(m.list, s)[c] BY <1>3 DEF Worth
<1>7. At(m.list, s)[c] \in Nat
  <2>1. m.list \in ListType BY DEF Msg
  <2> QED BY <2>1, EntryParts
<1> QED BY <1>a, <1>3, <1>4, <1>5, <1>6, <1>7

\* The mass of the list a member begins with.
LEMMA LoadedMass ==
    ASSUME NEW p \in Peer, NEW t \in TeamsOf(p), NEW s \in Sig, NEW c \in {"f", "w"}
    PROVE  At(loadinitstate(p, t), s)[c] \in Nat
<1>1. PICK docs : docs = Freq[p][t] OBVIOUS
<1>2. docs \in [Sig -> Nat] /\ loadinitstate(p, t) = StartList(docs) BY <1>1, LoadedList
<1> QED BY <1>2, StartMasses

\* The masses a peer keeps are natural numbers.
LEMMA PlaceNat ==
    ASSUME NEW G, Family(G), NEW p \in Peer, NEW T, NEW ph, NEW u, NEW n, NEW d, NEW I,
           PeerOK(G, p, T, ph, u, n, d, I), NEW t \in Team, NEW s \in Sig, NEW c \in {"f", "w"}
    PROVE  KeptAt(p, T, t, s, c) \in Nat /\ InboxAt(T, t, s, c) \in Nat /\ WireAt(p, T, ph, u, I, t, s, c) \in Nat
<1>1. CASE t \in DOMAIN T
  <2>1. PICK S, Ts : S = G[t] /\ Ts = T[t] OBVIOUS
  <2>2. Ts \in Seq(S) /\ Ts # <<>> /\ S \subseteq ListType BY <1>1, <2>1 DEF PeerOK, Family
  <2>3. Ts \in Seq(ListType) BY <2>2, SeqLarger
  <2>4. Ts[1] \in ListType /\ Tail(Ts) \in Seq(ListType) BY <2>2, <2>3
  <2>5. At(Ts[1], s)[c] \in Nat BY <2>4, EntryParts
  <2>6. SeqMass(Tail(Ts), s, c) \in Nat BY <2>4, SeqMassAppend
  <2> QED BY <1>1, <2>1, <2>5, <2>6 DEF KeptAt, InboxAt, WireAt
<1>2. CASE t \notin DOMAIN T
  <2>1. p \in Members(t) => t \in TeamsOf(p) BY DEF TeamsOf
  <2>2. p \in Members(t) => At(loadinitstate(p, t), s)[c] \in Nat BY <2>1, LoadedMass
  <2> QED BY <1>2, <2>2 DEF KeptAt, InboxAt, WireAt
<1> QED BY <1>1, <1>2

\* A half that is under way is the half that is kept.
LEMMA HalfKept ==
    ASSUME NEW G, Family(G), NEW p \in Peer, NEW T, NEW ph, NEW u, NEW n, NEW d, NEW I,
           PeerOK(G, p, T, ph, u, n, d, I), NEW t \in Team, NEW s \in Sig, NEW c \in {"f", "w"}
    PROVE  (IF ~PendingAt(T, ph, u, I, t) THEN 0
            ELSE IF t = u THEN MsgMass({r.msg : r \in I}, t, s, c) ELSE KeptAt(p, T, t, s, c))
               = WireAt(p, T, ph, u, I, t, s, c)
<1>1. CASE PendingAt(T, ph, u, I, t) /\ t = u
  <2>1. t \in DOMAIN T /\ I # {} /\ u \in Int
    <3>1. t \in DOMAIN T /\ t \in Int BY <1>1, XGossipAssumption DEF PendingAt, Team
    <3>2. ~(t > u) BY <1>1, <3>1
    <3> QED BY <1>1, <3>1, <3>2 DEF PendingAt
  <2>2. PICK q \in Peer : I = {[to |-> q, msg |-> Outgoing(p, n, u, T)]} BY <2>1 DEF PeerOK
  <2>3. ph = "await" /\ n \in 0..(rounds + 1) /\ n < rounds /\ u \in TeamsOf(p) BY <2>1 DEF PeerOK
  <2>4. n \in 0..(rounds - 1) BY <2>3, XGossipAssumption
  <2>5. T[u] \in Seq(G[u]) /\ T[u] # <<>> BY <1>1, <2>1 DEF PeerOK
  <2>6. PICK m : m = Outgoing(p, n, u, T) OBVIOUS
  <2>7. m \in Msg(G) BY <2>3, <2>4, <2>5, <2>6, OutgoingMsg
  <2>8. m.team = u /\ m.list = T[u][1] BY <2>6 DEF Outgoing
  <2>9. MsgMass({m}, m.team, s, c) = At(m.list, s)[c] BY <2>7, MsgMassOne
  <2>10. {r.msg : r \in I} = {m} BY <2>2, <2>6
  <2>11. MsgMass({r.msg : r \in I}, t, s, c) = At(T[t][1], s)[c] BY <1>1, <2>8, <2>9, <2>10
  <2> QED BY <1>1, <2>1, <2>11 DEF WireAt, KeptAt
<1>2. CASE ~(PendingAt(T, ph, u, I, t) /\ t = u) BY <1>2 DEF WireAt
<1> QED BY <1>1, <1>2

\* The masses by place, from what each peer has.
LEMMA Places ==
    ASSUME NEW G, Family(G), Shape(G), NEW t \in Team, NEW s \in Sig, NEW c \in {"f", "w"}
    PROVE  /\ Kept(t, s, c) = [p \in Peer |-> KeptAt(p, totalT[p], t, s, c)]
           /\ Wire(t, s, c) = [p \in Peer |-> WireAt(p, totalT[p], phase[p], cur[p], insert[p], t, s, c)]
           /\ Inbox(t, s, c) = [p \in Peer |-> InboxAt(totalT[p], t, s, c)]
           /\ Phase(t) = [p \in Peer |-> PhaseAt(totalT[p], phase[p], cur[p], insert[p], t)]
<1>1. \A p \in Peer : PeerOK(G, p, totalT[p], phase[p], cur[p], txseq[p], gossipdone[p], insert[p]) BY DEF Shape, Here
<1>2. \A p \in Peer : Pending(p, t) = PendingAt(totalT[p], phase[p], cur[p], insert[p], t)
  BY DEF Pending, PendingAt, Holds
<1>3. Kept(t, s, c) = [p \in Peer |-> KeptAt(p, totalT[p], t, s, c)] BY DEF Kept, KeptAt, Holds
<1>4. Inbox(t, s, c) = [p \in Peer |-> InboxAt(totalT[p], t, s, c)] BY DEF Inbox, InboxAt, Holds
<1>5. Phase(t) = [p \in Peer |-> PhaseAt(totalT[p], phase[p], cur[p], insert[p], t)] BY <1>2 DEF Phase, PhaseAt
<1>6. ASSUME NEW p \in Peer
      PROVE  (IF ~Pending(p, t) THEN 0
              ELSE IF t = cur[p] THEN MsgMass({r.msg : r \in insert[p]}, t, s, c) ELSE Kept(t, s, c)[p])
                 = WireAt(p, totalT[p], phase[p], cur[p], insert[p], t, s, c)
  <2>1. PICK T, ph, u, n, d, I : /\ T = totalT[p] /\ ph = phase[p] /\ u = cur[p]
                                 /\ n = txseq[p] /\ d = gossipdone[p] /\ I = insert[p]
    OBVIOUS
  <2>2. PeerOK(G, p, T, ph, u, n, d, I) BY <1>1, <2>1
  <2>3. (IF ~PendingAt(T, ph, u, I, t) THEN 0
         ELSE IF t = u THEN MsgMass({r.msg : r \in I}, t, s, c) ELSE KeptAt(p, T, t, s, c))
            = WireAt(p, T, ph, u, I, t, s, c)
    BY <2>2, HalfKept
  <2>4. Kept(t, s, c)[p] = KeptAt(p, T, t, s, c) BY <1>3, <2>1
  <2> QED BY <1>2, <2>1, <2>3, <2>4
<1>7. Wire(t, s, c) = [p \in Peer |-> WireAt(p, totalT[p], phase[p], cur[p], insert[p], t, s, c)] BY <1>6 DEF Wire
<1> QED BY <1>3, <1>4, <1>5, <1>7

\* The same after a step.
LEMMA PlacesNext ==
    ASSUME NEW G, Family(G), Shape(G)', NEW t \in Team, NEW s \in Sig, NEW c \in {"f", "w"}
    PROVE  /\ Kept(t, s, c)' = [p \in Peer |-> KeptAt(p, totalT'[p], t, s, c)]
           /\ Wire(t, s, c)' = [p \in Peer |-> WireAt(p, totalT'[p], phase'[p], cur'[p], insert'[p], t, s, c)]
           /\ Inbox(t, s, c)' = [p \in Peer |-> InboxAt(totalT'[p], t, s, c)]
           /\ Phase(t)' = [p \in Peer |-> PhaseAt(totalT'[p], phase'[p], cur'[p], insert'[p], t)]
<1>1. \A p \in Peer : PeerOK(G, p, totalT'[p], phase'[p], cur'[p], txseq'[p], gossipdone'[p], insert'[p])
  BY DEF Shape, Here
<1>2. \A p \in Peer : Pending(p, t)' = PendingAt(totalT'[p], phase'[p], cur'[p], insert'[p], t)
  BY DEF Pending, PendingAt, Holds
<1>3. Kept(t, s, c)' = [p \in Peer |-> KeptAt(p, totalT'[p], t, s, c)] BY DEF Kept, KeptAt, Holds, loadinitstate
<1>4. Inbox(t, s, c)' = [p \in Peer |-> InboxAt(totalT'[p], t, s, c)] BY DEF Inbox, InboxAt, Holds
<1>5. Phase(t)' = [p \in Peer |-> PhaseAt(totalT'[p], phase'[p], cur'[p], insert'[p], t)] BY <1>2 DEF Phase, PhaseAt
<1>6. ASSUME NEW p \in Peer
      PROVE  (IF ~Pending(p, t)' THEN 0
              ELSE IF t = cur'[p] THEN MsgMass({r.msg : r \in insert'[p]}, t, s, c) ELSE Kept(t, s, c)'[p])
                 = WireAt(p, totalT'[p], phase'[p], cur'[p], insert'[p], t, s, c)
  <2>1. PICK T, ph, u, n, d, I : /\ T = totalT'[p] /\ ph = phase'[p] /\ u = cur'[p]
                                 /\ n = txseq'[p] /\ d = gossipdone'[p] /\ I = insert'[p]
    OBVIOUS
  <2>2. PeerOK(G, p, T, ph, u, n, d, I) BY <1>1, <2>1
  <2>3. (IF ~PendingAt(T, ph, u, I, t) THEN 0
         ELSE IF t = u THEN MsgMass({r.msg : r \in I}, t, s, c) ELSE KeptAt(p, T, t, s, c))
            = WireAt(p, T, ph, u, I, t, s, c)
    BY <2>2, HalfKept
  <2>4. Kept(t, s, c)'[p] = KeptAt(p, T, t, s, c) BY <1>3, <2>1
  <2> QED BY <1>2, <2>1, <2>3, <2>4
<1>7. Wire(t, s, c)' = [p \in Peer |-> WireAt(p, totalT'[p], phase'[p], cur'[p], insert'[p], t, s, c)]
  BY <1>6 DEF Wire, MsgMass, SentMass, Sent
<1> QED BY <1>3, <1>4, <1>5, <1>7

\* A step of peer p takes its masses (kept, on the wire, to merge) from a, b, e
\* to a2, b2, e2, the socket of q from g to g2, and the phase of p to f2.
Moved(p, q, t, s, c, a, b, e, g, f, a2, b2, e2, g2, f2) ==
    /\ a \in Nat /\ b \in Nat /\ e \in Nat /\ g \in Nat /\ a2 \in Nat /\ b2 \in Nat /\ e2 \in Nat /\ g2 \in Nat
    /\ Kept(t, s, c) \in [Peer -> Nat] /\ Wire(t, s, c) \in [Peer -> Nat]
    /\ Inbox(t, s, c) \in [Peer -> Nat] /\ Sock(t, s, c) \in [Peer -> Nat]
    /\ Phase(t) \in [Peer -> {"sleep", "await"}]
    /\ Kept(t, s, c)[p] = a /\ Wire(t, s, c)[p] = b /\ Inbox(t, s, c)[p] = e /\ Sock(t, s, c)[q] = g
    /\ Phase(t)[p] = f
    /\ Kept(t, s, c)' = [Kept(t, s, c) EXCEPT ![p] = a2]
    /\ Wire(t, s, c)' = [Wire(t, s, c) EXCEPT ![p] = b2]
    /\ Inbox(t, s, c)' = [Inbox(t, s, c) EXCEPT ![p] = e2]
    /\ Sock(t, s, c)' = [Sock(t, s, c) EXCEPT ![q] = g2]
    /\ Phase(t)' = [Phase(t) EXCEPT ![p] = f2]
    /\ TotalMass(t, s, c) \in Nat
    /\ TotalMass(t, s, c)' = TotalMass(t, s, c) + ((a2 - a) + (b2 - b) + (e2 - e) + (g2 - g))

\* A function of the peers that changes at one of them.
LEMMA PeerPoint ==
    ASSUME NEW f \in [Peer -> Nat], NEW g, NEW p \in Peer, g[p] \in Int,
           \A x \in Peer : x # p => g[x] = f[x]
    PROVE  SumTo(N, g) = SumTo(N, f) + (g[p] - f[p]) /\ SumTo(N, f) \in Nat
<1>1. N \in Nat /\ p \in 1..N BY XGossipAssumption DEF Peer
<1>2. \A i \in 1..N : f[i] \in Nat /\ f[i] \in Int /\ g[i] \in Int /\ (i # p => g[i] = f[i]) BY DEF Peer
<1>3. SumTo(N, f) \in Nat BY <1>1, <1>2, SumNat
<1> QED BY <1>1, <1>2, <1>3, SumPoint

\* A function given by its values, and its change at one point.
LEMMA PointChange ==
    ASSUME NEW S, NEW f, NEW g, f = [x \in S |-> f[x]], g = [x \in S |-> g[x]], NEW p \in S,
           \A x \in S : x # p => g[x] = f[x]
    PROVE  g = [f EXCEPT ![p] = g[p]]
<1>1. PICK e : e = [f EXCEPT ![p] = g[p]] OBVIOUS
<1>2. e = [x \in S |-> e[x]] /\ \A x \in S : e[x] = g[x] BY <1>1
<1>3. [x \in S |-> e[x]] = [x \in S |-> g[x]] BY <1>2
<1> QED BY <1>1, <1>2, <1>3

\* The step in terms of the peer's variables.
LEMMA StepAt ==
    ASSUME NEW G, NEW H, Family(G), Family(H), Shape(G), Shape(H)', NEW p \in Peer, Only(p),
           NEW q \in Peer, \A x \in Peer : x # q => gsock'[x] = gsock[x],
           NEW t \in Team, NEW s \in Sig, NEW c \in {"f", "w"},
           NEW a, NEW b, NEW e, NEW g, NEW f, NEW a2, NEW b2, NEW e2, NEW g2, NEW f2,
           a = KeptAt(p, totalT[p], t, s, c),
           b = WireAt(p, totalT[p], phase[p], cur[p], insert[p], t, s, c),
           e = InboxAt(totalT[p], t, s, c), g = MsgMass(gsock[q], t, s, c),
           f = PhaseAt(totalT[p], phase[p], cur[p], insert[p], t),
           a2 = KeptAt(p, totalT'[p], t, s, c),
           b2 = WireAt(p, totalT'[p], phase'[p], cur'[p], insert'[p], t, s, c),
           e2 = InboxAt(totalT'[p], t, s, c), g2 = MsgMass(gsock'[q], t, s, c),
           f2 = PhaseAt(totalT'[p], phase'[p], cur'[p], insert'[p], t)
    PROVE  Moved(p, q, t, s, c, a, b, e, g, f, a2, b2, e2, g2, f2)
<1>1. PICK k, w, i, o, h : /\ k = Kept(t, s, c) /\ w = Wire(t, s, c) /\ i = Inbox(t, s, c)
                           /\ o = Sock(t, s, c) /\ h = Phase(t)
  OBVIOUS
<1>2. PICK k2, w2, i2, o2, h2 : /\ k2 = Kept(t, s, c)' /\ w2 = Wire(t, s, c)' /\ i2 = Inbox(t, s, c)'
                                /\ o2 = Sock(t, s, c)' /\ h2 = Phase(t)'
  OBVIOUS
<1>3. /\ k = [x \in Peer |-> KeptAt(x, totalT[x], t, s, c)]
      /\ w = [x \in Peer |-> WireAt(x, totalT[x], phase[x], cur[x], insert[x], t, s, c)]
      /\ i = [x \in Peer |-> InboxAt(totalT[x], t, s, c)]
      /\ h = [x \in Peer |-> PhaseAt(totalT[x], phase[x], cur[x], insert[x], t)]
  BY <1>1, Places
<1>4. /\ k2 = [x \in Peer |-> KeptAt(x, totalT'[x], t, s, c)]
      /\ w2 = [x \in Peer |-> WireAt(x, totalT'[x], phase'[x], cur'[x], insert'[x], t, s, c)]
      /\ i2 = [x \in Peer |-> InboxAt(totalT'[x], t, s, c)]
      /\ h2 = [x \in Peer |-> PhaseAt(totalT'[x], phase'[x], cur'[x], insert'[x], t)]
  BY <1>2, PlacesNext
<1>5. o = [x \in Peer |-> MsgMass(gsock[x], t, s, c)] BY <1>1 DEF Sock
<1>6. o2 = [x \in Peer |-> MsgMass(gsock'[x], t, s, c)] BY <1>2 DEF Sock, MsgMass, SentMass, Sent
<1>7. k \in [Peer -> Nat] /\ w \in [Peer -> Nat] /\ i \in [Peer -> Nat]
  <2>1. \A x \in Peer : PeerOK(G, x, totalT[x], phase[x], cur[x], txseq[x], gossipdone[x], insert[x]) BY DEF Shape, Here
  <2>2. ASSUME NEW x \in Peer
        PROVE  /\ KeptAt(x, totalT[x], t, s, c) \in Nat /\ InboxAt(totalT[x], t, s, c) \in Nat
               /\ WireAt(x, totalT[x], phase[x], cur[x], insert[x], t, s, c) \in Nat
    <3>1. PeerOK(G, x, totalT[x], phase[x], cur[x], txseq[x], gossipdone[x], insert[x]) BY <2>1
    <3> QED BY <3>1, PlaceNat
  <2> QED BY <1>3, <2>2
<1>8. a2 \in Nat /\ b2 \in Nat /\ e2 \in Nat
  <2>1. PeerOK(H, p, totalT'[p], phase'[p], cur'[p], txseq'[p], gossipdone'[p], insert'[p]) BY DEF Shape, Here
  <2>2. KeptAt(p, totalT'[p], t, s, c) \in Nat /\ InboxAt(totalT'[p], t, s, c) \in Nat
        /\ WireAt(p, totalT'[p], phase'[p], cur'[p], insert'[p], t, s, c) \in Nat
    BY <2>1, PlaceNat
  <2> QED BY <2>2
<1>9. o \in [Peer -> Nat]
  <2>1. \A x \in Peer : gsock[x] \in SUBSET Msg(G) BY DEF Shape
  <2>2. \A x \in Peer : MsgMass(gsock[x], t, s, c) \in Nat BY <2>1, MsgMassNat
  <2> QED BY <1>5, <2>2
<1>10. g2 \in Nat
  <2>1. gsock'[q] \in SUBSET Msg(H) BY DEF Shape
  <2> QED BY <2>1, MsgMassNat
<1>11. h \in [Peer -> {"sleep", "await"}] BY <1>3 DEF PhaseAt
<1>12. k[p] = a /\ w[p] = b /\ i[p] = e /\ o[q] = g /\ h[p] = f BY <1>3, <1>5
<1>13. k2[p] = a2 /\ w2[p] = b2 /\ i2[p] = e2 /\ o2[q] = g2 /\ h2[p] = f2 BY <1>4, <1>6
<1>14. \A x \in Peer : x # p => k2[x] = k[x] /\ w2[x] = w[x] /\ i2[x] = i[x] /\ h2[x] = h[x]
  <2>1. SUFFICES ASSUME NEW x \in Peer, x # p
                 PROVE  k2[x] = k[x] /\ w2[x] = w[x] /\ i2[x] = i[x] /\ h2[x] = h[x]
    OBVIOUS
  <2>2. totalT'[x] = totalT[x] /\ phase'[x] = phase[x] /\ cur'[x] = cur[x] /\ insert'[x] = insert[x]
    BY <2>1 DEF Only
  <2> QED BY <1>3, <1>4, <2>2
<1>15. \A x \in Peer : x # q => o2[x] = o[x] BY <1>5, <1>6
<1>16. /\ k = [x \in Peer |-> k[x]] /\ w = [x \in Peer |-> w[x]] /\ i = [x \in Peer |-> i[x]]
       /\ o = [x \in Peer |-> o[x]] /\ h = [x \in Peer |-> h[x]]
  BY <1>3, <1>5
<1>17. /\ k2 = [x \in Peer |-> k2[x]] /\ w2 = [x \in Peer |-> w2[x]] /\ i2 = [x \in Peer |-> i2[x]]
       /\ o2 = [x \in Peer |-> o2[x]] /\ h2 = [x \in Peer |-> h2[x]]
  BY <1>4, <1>6
<1>18. k2 = [k EXCEPT ![p] = a2] BY <1>13, <1>14, <1>16, <1>17, PointChange
<1>19. w2 = [w EXCEPT ![p] = b2] BY <1>13, <1>14, <1>16, <1>17, PointChange
<1>20. i2 = [i EXCEPT ![p] = e2] BY <1>13, <1>14, <1>16, <1>17, PointChange
<1>21. o2 = [o EXCEPT ![q] = g2] BY <1>13, <1>15, <1>16, <1>17, PointChange
<1>22. h2 = [h EXCEPT ![p] = f2] BY <1>13, <1>14, <1>16, <1>17, PointChange
<1>i. k2[p] \in Int /\ w2[p] \in Int /\ i2[p] \in Int /\ o2[q] \in Int BY <1>8, <1>10, <1>13
<1>23. SumTo(N, k2) = SumTo(N, k) + (a2 - a) /\ SumTo(N, k) \in Nat
  <2>1. k \in [Peer -> Nat] /\ k2[p] \in Int BY <1>7, <1>i
  <2>2. \A x \in Peer : x # p => k2[x] = k[x] BY <1>14
  <2>3. SumTo(N, k2) = SumTo(N, k) + (k2[p] - k[p]) /\ SumTo(N, k) \in Nat BY <2>1, <2>2, PeerPoint
  <2> QED BY <1>12, <1>13, <2>3
<1>24. SumTo(N, w2) = SumTo(N, w) + (b2 - b) /\ SumTo(N, w) \in Nat
  <2>1. w \in [Peer -> Nat] /\ w2[p] \in Int BY <1>7, <1>i
  <2>2. \A x \in Peer : x # p => w2[x] = w[x] BY <1>14
  <2>3. SumTo(N, w2) = SumTo(N, w) + (w2[p] - w[p]) /\ SumTo(N, w) \in Nat BY <2>1, <2>2, PeerPoint
  <2> QED BY <1>12, <1>13, <2>3
<1>25. SumTo(N, i2) = SumTo(N, i) + (e2 - e) /\ SumTo(N, i) \in Nat
  <2>1. i \in [Peer -> Nat] /\ i2[p] \in Int BY <1>7, <1>i
  <2>2. \A x \in Peer : x # p => i2[x] = i[x] BY <1>14
  <2>3. SumTo(N, i2) = SumTo(N, i) + (i2[p] - i[p]) /\ SumTo(N, i) \in Nat BY <2>1, <2>2, PeerPoint
  <2> QED BY <1>12, <1>13, <2>3
<1>26. SumTo(N, o2) = SumTo(N, o) + (g2 - g) /\ SumTo(N, o) \in Nat
  <2>1. SumTo(N, o2) = SumTo(N, o) + (o2[q] - o[q]) /\ SumTo(N, o) \in Nat BY <1>9, <1>15, <1>i, PeerPoint
  <2> QED BY <1>12, <1>13, <2>1
<1>27. a \in Nat /\ b \in Nat /\ e \in Nat /\ g \in Nat BY <1>7, <1>9, <1>12
<1>28. TotalMass(t, s, c) = SumTo(N, k) + SumTo(N, w) + SumTo(N, o) + SumTo(N, i) BY <1>1 DEF TotalMass
<1>29. TotalMass(t, s, c)' = SumTo(N, k2) + SumTo(N, w2) + SumTo(N, o2) + SumTo(N, i2) BY <1>2 DEF TotalMass
<1>30. /\ TotalMass(t, s, c) \in Nat
       /\ TotalMass(t, s, c)' = TotalMass(t, s, c) + ((a2 - a) + (b2 - b) + (e2 - e) + (g2 - g))
  <2>1. PICK A, B, C, D \in Nat : A = SumTo(N, k) /\ B = SumTo(N, w) /\ C = SumTo(N, o) /\ D = SumTo(N, i)
    BY <1>23, <1>24, <1>25, <1>26
  <2>2. PICK X, Y, Z, W \in Int : X = a2 - a /\ Y = b2 - b /\ Z = e2 - e /\ W = g2 - g BY <1>8, <1>10, <1>27
  <2>3. TotalMass(t, s, c) = A + B + C + D BY <1>28, <2>1
  <2>4. TotalMass(t, s, c)' = (A + X) + (B + Y) + (C + W) + (D + Z)
    BY <1>23, <1>24, <1>25, <1>26, <1>29, <2>1, <2>2
  <2>5. TotalMass(t, s, c)' = (A + B + C + D) + (X + Y + Z + W) BY <2>4
  <2> QED BY <2>2, <2>3, <2>5
<1> QED BY <1>1, <1>2, <1>7, <1>8, <1>9, <1>10, <1>11, <1>12, <1>18, <1>19, <1>20, <1>21, <1>22, <1>27, <1>30 DEF Moved

-------------------------------------------------------------------------------
(* Mass: the steps of a team.                                                 *)

\* What every step is to team t: a step of push-sum or none, unless gossip is
\* lost; mass is never created, and kept while nothing is lost or dropped.
Step(t, s, c) ==
    /\ lost' \/ UNCHANGED PS(t, s, c)!vars \/ PS(t, s, c)!Next
    /\ TotalMass(t, s, c) \in Int /\ TotalMass(t, s, c)' \in Int
    /\ TotalMass(t, s, c)' <= TotalMass(t, s, c)
    /\ ~lost' /\ (\A p \in Peer : ~gossipdone'[p]) => TotalMass(t, s, c)' = TotalMass(t, s, c)

\* The team does not notice.
LEMMA StutterStep ==
    ASSUME NEW p \in Peer, NEW q \in Peer, NEW t, NEW s, NEW c, NEW a, NEW b, NEW e, NEW g, NEW f,
           Moved(p, q, t, s, c, a, b, e, g, f, a, b, e, g, f), UNCHANGED gossipdone
    PROVE  Step(t, s, c)
<1>1. /\ Kept(t, s, c)' = Kept(t, s, c) /\ Wire(t, s, c)' = Wire(t, s, c) /\ Inbox(t, s, c)' = Inbox(t, s, c)
      /\ Sock(t, s, c)' = Sock(t, s, c) /\ Phase(t)' = Phase(t)
  BY DEF Moved
<1>2. UNCHANGED PS(t, s, c)!vars BY <1>1 DEF PS!vars
<1>3. TotalMass(t, s, c)' = TotalMass(t, s, c) /\ TotalMass(t, s, c) \in Nat BY DEF Moved
<1> QED BY <1>2, <1>3 DEF Step

\* Gossip of the team is lost, or a peer that took part is killed.
LEMMA LossStep ==
    ASSUME NEW p \in Peer, NEW q \in Peer, NEW t, NEW s, NEW c, NEW a, NEW b, NEW e, NEW g, NEW f,
           NEW b2, NEW g2, NEW f2, Moved(p, q, t, s, c, a, b, e, g, f, a, b2, e, g2, f2),
           b2 <= b, g2 <= g, lost'
    PROVE  Step(t, s, c)
<1>1. /\ TotalMass(t, s, c) \in Int /\ TotalMass(t, s, c)' \in Int
      /\ TotalMass(t, s, c)' <= TotalMass(t, s, c)
  <2>1. /\ a \in Nat /\ b \in Nat /\ e \in Nat /\ g \in Nat /\ b2 \in Nat /\ g2 \in Nat
        /\ TotalMass(t, s, c) \in Nat
        /\ TotalMass(t, s, c)' = TotalMass(t, s, c) + ((a - a) + (b2 - b) + (e - e) + (g2 - g))
    BY DEF Moved
  <2> QED BY <2>1
<1> QED BY <1>1 DEF Step

\* A merge.
LEMMA SplitStep ==
    ASSUME NEW p \in Peer, NEW q \in Peer, NEW t, NEW s, NEW c, NEW a, NEW b, NEW e, NEW g, NEW d \in Nat,
           Moved(p, q, t, s, c, a, b, e, g, "sleep", d, d, 0, g, "await"), b = 0, a + e = 2 * d,
           ~gossipdone[p], UNCHANGED gossipdone
    PROVE  Step(t, s, c)
<1>1. /\ a \in Nat /\ e \in Nat /\ g \in Nat /\ TotalMass(t, s, c) \in Nat
      /\ TotalMass(t, s, c)' = TotalMass(t, s, c) + ((d - a) + (d - b) + (0 - e) + (g - g))
  BY DEF Moved
<1>2. TotalMass(t, s, c)' = TotalMass(t, s, c) BY <1>1
<1>3. d \in 0..(a + e) /\ d + d = a + e BY <1>1
<1>4. PS(t, s, c)!Split(p)
  <2>1. /\ Kept(t, s, c)[p] = a /\ Inbox(t, s, c)[p] = e /\ Phase(t)[p] = "sleep"
        /\ Kept(t, s, c)' = [Kept(t, s, c) EXCEPT ![p] = d] /\ Wire(t, s, c)' = [Wire(t, s, c) EXCEPT ![p] = d]
        /\ Inbox(t, s, c)' = [Inbox(t, s, c) EXCEPT ![p] = 0] /\ Phase(t)' = [Phase(t) EXCEPT ![p] = "await"]
        /\ Sock(t, s, c)' = Sock(t, s, c)
    BY DEF Moved
  <2> QED BY <1>3, <2>1 DEF PS!Split
<1>5. PS(t, s, c)!Next BY <1>4 DEF PS!Next, Peer, PS!Peer
<1> QED BY <1>1, <1>2, <1>5 DEF Step

\* The half is with q.
LEMMA AcceptStep ==
    ASSUME NEW p \in Peer, NEW q \in Peer, NEW t, NEW s, NEW c, NEW a, NEW e, NEW g, NEW g2,
           Moved(p, q, t, s, c, a, a, e, g, "await", a, 0, e, g2, "sleep"), g2 = g + a, UNCHANGED gossipdone
    PROVE  Step(t, s, c)
<1>1. /\ a \in Nat /\ e \in Nat /\ g \in Nat /\ TotalMass(t, s, c) \in Nat
      /\ TotalMass(t, s, c)' = TotalMass(t, s, c) + ((a - a) + (0 - a) + (e - e) + (g2 - g))
  BY DEF Moved
<1>2. TotalMass(t, s, c)' = TotalMass(t, s, c) BY <1>1
<1>3. PS(t, s, c)!Accept(p, q)
  <2>1. /\ Wire(t, s, c)[p] = a /\ Phase(t)[p] = "await" /\ Sock(t, s, c)[q] = g
        /\ Kept(t, s, c)' = Kept(t, s, c) /\ Wire(t, s, c)' = [Wire(t, s, c) EXCEPT ![p] = 0]
        /\ Inbox(t, s, c)' = Inbox(t, s, c) /\ Phase(t)' = [Phase(t) EXCEPT ![p] = "sleep"]
        /\ Sock(t, s, c)' = [Sock(t, s, c) EXCEPT ![q] = g2]
    BY DEF Moved
  <2>2. Sock(t, s, c)' = [Sock(t, s, c) EXCEPT ![q] = @ + Wire(t, s, c)[p]] BY <2>1
  <2> QED BY <2>1, <2>2 DEF PS!Accept
<1>4. PS(t, s, c)!Next BY <1>3 DEF PS!Next, Peer, PS!Peer
<1> QED BY <1>1, <1>2, <1>4 DEF Step

\* The half is taken back.
LEMMA ConsumeStep ==
    ASSUME NEW p \in Peer, NEW q \in Peer, NEW t, NEW s, NEW c, NEW a, NEW a2, NEW e, NEW g,
           Moved(p, q, t, s, c, a, a, e, g, "await", a2, 0, e, g, "sleep"), a2 = 2 * a, UNCHANGED gossipdone
    PROVE  Step(t, s, c)
<1>1. /\ a \in Nat /\ e \in Nat /\ g \in Nat /\ TotalMass(t, s, c) \in Nat
      /\ TotalMass(t, s, c)' = TotalMass(t, s, c) + ((a2 - a) + (0 - a) + (e - e) + (g - g))
  BY DEF Moved
<1>2. TotalMass(t, s, c)' = TotalMass(t, s, c) BY <1>1
<1>3. PS(t, s, c)!Consume(p)
  <2>1. /\ Kept(t, s, c)[p] = a /\ Phase(t)[p] = "await"
        /\ Kept(t, s, c)' = [Kept(t, s, c) EXCEPT ![p] = a2] /\ Wire(t, s, c)' = [Wire(t, s, c) EXCEPT ![p] = 0]
        /\ Inbox(t, s, c)' = Inbox(t, s, c) /\ Phase(t)' = [Phase(t) EXCEPT ![p] = "sleep"]
        /\ Sock(t, s, c)' = Sock(t, s, c)
    BY DEF Moved
  <2>2. Kept(t, s, c)' = [Kept(t, s, c) EXCEPT ![p] = 2 * @] BY <2>1
  <2> QED BY <2>1, <2>2 DEF PS!Consume
<1>4. PS(t, s, c)!Next BY <1>3 DEF PS!Next, Peer, PS!Peer
<1> QED BY <1>1, <1>2, <1>4 DEF Step

\* A list of the team is read.
LEMMA ReadStep ==
    ASSUME NEW p \in Peer, NEW t, NEW s, NEW c, NEW a, NEW b, NEW e, NEW g, NEW f, NEW d \in Nat, NEW e2, NEW g2,
           Moved(p, p, t, s, c, a, b, e, g, f, a, b, e2, g2, f), e2 = e + d, g = g2 + d, UNCHANGED gossipdone
    PROVE  Step(t, s, c)
<1>1. /\ a \in Nat /\ b \in Nat /\ e \in Nat /\ g \in Nat /\ g2 \in Nat /\ TotalMass(t, s, c) \in Nat
      /\ TotalMass(t, s, c)' = TotalMass(t, s, c) + ((a - a) + (b - b) + (e2 - e) + (g2 - g))
  BY DEF Moved
<1>2. TotalMass(t, s, c)' = TotalMass(t, s, c) BY <1>1
<1>3. d \in 0..g /\ g2 = g - d BY <1>1
<1>4. PS(t, s, c)!Read(p)
  <2>1. /\ Inbox(t, s, c)[p] = e /\ Sock(t, s, c)[p] = g
        /\ Kept(t, s, c)' = Kept(t, s, c) /\ Wire(t, s, c)' = Wire(t, s, c)
        /\ Inbox(t, s, c)' = [Inbox(t, s, c) EXCEPT ![p] = e2] /\ Phase(t)' = Phase(t)
        /\ Sock(t, s, c)' = [Sock(t, s, c) EXCEPT ![p] = g2]
    BY DEF Moved
  <2>2. d \in 0..Sock(t, s, c)[p] BY <1>3, <2>1
  <2>3. /\ Sock(t, s, c)' = [Sock(t, s, c) EXCEPT ![p] = @ - d]
        /\ Inbox(t, s, c)' = [Inbox(t, s, c) EXCEPT ![p] = @ + d]
    BY <1>3, <2>1
  <2> QED BY <2>1, <2>2, <2>3 DEF PS!Read
<1>5. PS(t, s, c)!Next BY <1>4 DEF PS!Next, Peer, PS!Peer
<1> QED BY <1>1, <1>2, <1>5 DEF Step

\* A peer that has finished drops what waits.
LEMMA DropStep ==
    ASSUME NEW p \in Peer, NEW q \in Peer, NEW t, NEW s, NEW c, NEW a, NEW b, NEW e, NEW g,
           Moved(p, q, t, s, c, a, b, e, g, "sleep", a, b, 0, g, "sleep"),
           DOMAIN gossipdone = Peer, gossipdone' = [gossipdone EXCEPT ![p] = TRUE]
    PROVE  Step(t, s, c)
<1>1. /\ a \in Nat /\ b \in Nat /\ e \in Nat /\ g \in Nat /\ TotalMass(t, s, c) \in Nat
      /\ TotalMass(t, s, c)' = TotalMass(t, s, c) + ((a - a) + (b - b) + (0 - e) + (g - g))
  BY DEF Moved
<1>2. /\ TotalMass(t, s, c) \in Int /\ TotalMass(t, s, c)' \in Int
      /\ TotalMass(t, s, c)' <= TotalMass(t, s, c)
  BY <1>1
<1>3. PS(t, s, c)!Drop(p)
  <2>1. /\ Phase(t)[p] = "sleep"
        /\ Kept(t, s, c)' = Kept(t, s, c) /\ Wire(t, s, c)' = Wire(t, s, c)
        /\ Inbox(t, s, c)' = [Inbox(t, s, c) EXCEPT ![p] = 0] /\ Phase(t)' = Phase(t)
        /\ Sock(t, s, c)' = Sock(t, s, c)
    BY DEF Moved
  <2> QED BY <2>1 DEF PS!Drop
<1>4. PS(t, s, c)!Next BY <1>3 DEF PS!Next, Peer, PS!Peer
<1>5. gossipdone'[p] OBVIOUS
<1> QED BY <1>2, <1>4, <1>5 DEF Step

-------------------------------------------------------------------------------
(* Mass: the steps before the first fault.                                    *)

\* The steps in which the DHT neither copies nor delays a message.
Prompt ==
    \E p \in Peer : \/ LoadState(p) \/ GossipRound(p) \/ QuietRound(p) \/ GroupWake(p)
                    \/ InsertOK(p) \/ InsertFail(p) \/ ReadGossip(p)

\* Before the first fault there is no store left to arrive, and every step is
\* one of those.
LEMMA PromptStep ==
    ASSUME faults \in 0..MaxFaults, faults = 0 => stores = {}, [Next]_vars, faults' = 0
    PROVE  faults = 0 /\ stores = {} /\ stores' = {} /\ [Prompt]_vars
<1>1. faults \in Nat BY XGossipAssumption
<1>2. ASSUME NEW R, Issued(R) PROVE faults = 0 /\ R = {}
  <2>1. CASE R = {} BY <1>2, <2>1 DEF Issued
  <2>2. CASE R # {}
    <3>1. faults' = faults + 1 BY <1>2, <2>2 DEF Issued
    <3> QED BY <1>1, <3>1
  <2> QED BY <2>1, <2>2
<1>3. ASSUME UNCHANGED <<stores, faults>> PROVE faults = 0 /\ stores = {} /\ stores' = {} BY <1>3
<1>4. ASSUME NEW p \in Peer, InsertOK(p) PROVE faults = 0 /\ stores = {} /\ stores' = {}
  <2>1. PICK R : Issued(R) BY <1>4 DEF InsertOK
  <2>2. faults = 0 /\ R = {} BY <1>2, <2>1
  <2> QED BY <2>1, <2>2 DEF Issued
<1>5. ASSUME NEW p \in Peer, InsertTimeout(p) PROVE FALSE
  <2>1. insert[p] # {} /\ Issued(insert[p]) BY <1>5 DEF InsertTimeout
  <2> QED BY <1>2, <2>1
<1>6. ASSUME StoreArrives PROVE FALSE
  <2>1. stores # {} /\ UNCHANGED faults BY <1>6 DEF StoreArrives
  <2> QED BY <2>1
<1>7. ASSUME NEW p \in Peer, LoadState(p) \/ GossipRound(p) \/ QuietRound(p) \/ GroupWake(p)
                             \/ InsertFail(p) \/ ReadGossip(p)
      PROVE  faults = 0 /\ stores = {} /\ stores' = {}
  <2>1. UNCHANGED <<stores, faults>> BY <1>7 DEF LoadState, GossipRound, QuietRound, GroupWake, InsertFail, ReadGossip
  <2> QED BY <1>3, <2>1
<1>8. CASE UNCHANGED vars BY <1>3, <1>8 DEF vars
<1> QED BY <1>4, <1>5, <1>6, <1>7, <1>8 DEF Next, Turn, Prompt

-------------------------------------------------------------------------------
(* Mass: the messages in the sockets.                                         *)

\* An action changes the variables of one peer only.
LEMMA OnlyOne ==
    ASSUME Domains, NEW p \in Peer,
           \/ LoadState(p) \/ GossipRound(p) \/ QuietRound(p) \/ GroupWake(p)
           \/ InsertOK(p) \/ InsertFail(p) \/ ReadGossip(p)
    PROVE  Only(p)
<1>1. CASE LoadState(p) BY <1>1 DEF LoadState, Only, Domains
<1>2. CASE QuietRound(p) BY <1>2 DEF QuietRound, Only, Domains
<1>3. ASSUME NEW t, NEW T, SendTeam(p, t, T) \/ (EndRound(p) /\ UNCHANGED insert)
      PROVE  /\ DOMAIN phase' = Peer /\ DOMAIN cur' = Peer /\ DOMAIN insert' = Peer /\ phase' = [x \in Peer |-> phase'[x]]
             /\ \A x \in Peer : x # p => phase'[x] = phase[x] /\ cur'[x] = cur[x] /\ insert'[x] = insert[x]
  <2>1. CASE SendTeam(p, t, T) BY <2>1 DEF SendTeam, Domains
  <2>2. CASE EndRound(p) /\ UNCHANGED insert
    <3>1. PICK ph : phase' = [phase EXCEPT ![p] = ph] BY <2>2 DEF EndRound
    <3> QED BY <2>2, <3>1 DEF EndRound, Domains
  <2> QED BY <1>3, <2>1, <2>2
<1>4. ASSUME UNCHANGED txseq \/ EndRound(p)
      PROVE  /\ DOMAIN txseq' = Peer /\ txseq' = [x \in Peer |-> txseq'[x]]
             /\ \A x \in Peer : x # p => txseq'[x] = txseq[x]
  BY <1>4 DEF EndRound, Domains
<1>5. CASE GossipRound(p)
  <2>1. \E t, T : SendTeam(p, t, T) \/ (EndRound(p) /\ UNCHANGED insert) BY <1>5 DEF GossipRound
  <2>2. UNCHANGED txseq \/ EndRound(p) BY <1>5 DEF GossipRound
  <2>3. UNCHANGED gossipdone /\ DOMAIN totalT' = Peer /\ \A x \in Peer : x # p => totalT'[x] = totalT[x]
    BY <1>5 DEF GossipRound, Domains
  <2> QED BY <1>3, <1>4, <2>1, <2>2, <2>3 DEF Only, Domains
<1>6. CASE GroupWake(p)
  <2>1. \E t, T : SendTeam(p, t, T) \/ (EndRound(p) /\ UNCHANGED insert) BY <1>6 DEF GroupWake
  <2>2. UNCHANGED txseq \/ EndRound(p) BY <1>6 DEF GroupWake
  <2>3. UNCHANGED <<totalT, gossipdone>> BY <1>6 DEF GroupWake
  <2> QED BY <1>3, <1>4, <2>1, <2>2, <2>3 DEF Only, Domains
<1>7. CASE InsertOK(p)
  <2>1. /\ insert' = [insert EXCEPT ![p] = {}] /\ phase' = [phase EXCEPT ![p] = "group"]
        /\ UNCHANGED <<totalT, cur, txseq, gossipdone>>
    BY <1>7 DEF InsertOK, Returns
  <2> QED BY <2>1 DEF Only, Domains
<1>8. CASE InsertFail(p)
  <2>1. /\ insert' = [insert EXCEPT ![p] = {}] /\ phase' = [phase EXCEPT ![p] = "group"]
        /\ UNCHANGED <<cur, txseq, gossipdone>>
    BY <1>8 DEF InsertFail, Returns
  <2>2. DOMAIN totalT' = Peer /\ \A x \in Peer : x # p => totalT'[x] = totalT[x]
    BY <1>8 DEF InsertFail, ConsumeFailed, Domains
  <2> QED BY <2>1, <2>2 DEF Only, Domains
<1>9. CASE ReadGossip(p)
  <2>1. UNCHANGED <<phase, cur, txseq, gossipdone, insert>> BY <1>9 DEF ReadGossip
  <2>2. DOMAIN totalT' = Peer /\ \A x \in Peer : x # p => totalT'[x] = totalT[x]
    BY <1>9 DEF ReadGossip, Domains
  <2> QED BY <2>1, <2>2 DEF Only, Domains
<1> QED BY <1>1, <1>2, <1>5, <1>6, <1>7, <1>8, <1>9

\* Message m was handed over by a peer that now is in phase ph, at team u of
\* round n, and awaits the inserts I.
Behind(m, ph, u, n, I) ==
    \/ m.seq < n
    \/ m.seq = n /\ ph \in {"await", "group"} /\ (m.team < u \/ (m.team = u /\ I = {}))

\* A socket holds at most one message of a peer to a team in a round, and none
\* that is still to be handed over.
Sockets ==
    /\ \A x \in Peer : \A m \in gsock[x] : Behind(m, phase[m.src], cur[m.src], txseq[m.src], insert[m.src])
    /\ \A x \in Peer : \A m, n \in gsock[x] : m.src = n.src /\ m.seq = n.seq /\ m.team = n.team => m = n

\* It suffices that the peer that steps does not go back.
LEMMA SocketsKeep ==
    ASSUME NEW G, Shape(G), Sockets, NEW p \in Peer, Only(p), \A x \in Peer : gsock'[x] \subseteq gsock[x],
           \A m \in Msg(G) : Behind(m, phase[p], cur[p], txseq[p], insert[p])
                                => Behind(m, phase'[p], cur'[p], txseq'[p], insert'[p])
    PROVE  Sockets'
<1>1. ASSUME NEW x \in Peer, NEW m \in gsock'[x]
      PROVE  Behind(m, phase'[m.src], cur'[m.src], txseq'[m.src], insert'[m.src])
  <2>1. m \in gsock[x] /\ m \in Msg(G) BY DEF Shape
  <2>2. m.src \in Peer BY <2>1 DEF Msg
  <2>3. Behind(m, phase[m.src], cur[m.src], txseq[m.src], insert[m.src]) BY <2>1 DEF Sockets
  <2>4. CASE m.src = p BY <2>1, <2>3, <2>4
  <2>5. CASE m.src # p
    <3>1. /\ phase'[m.src] = phase[m.src] /\ cur'[m.src] = cur[m.src] /\ txseq'[m.src] = txseq[m.src]
          /\ insert'[m.src] = insert[m.src]
      BY <2>2, <2>5 DEF Only
    <3> QED BY <2>3, <3>1
  <2> QED BY <2>4, <2>5
<1>2. ASSUME NEW x \in Peer, NEW m \in gsock'[x], NEW n \in gsock'[x], m.src = n.src, m.seq = n.seq, m.team = n.team
      PROVE  m = n
  <2>1. m \in gsock[x] /\ n \in gsock[x] OBVIOUS
  <2> QED BY <1>2, <2>1 DEF Sockets
<1> QED BY <1>1, <1>2 DEF Sockets

\* Peer p goes on to the first of its teams after i, or ends its round.
SendsOn(p, i) ==
    \E u \in TeamsOf(p) :
        /\ u > i /\ \A t \in TeamsOf(p) : t > i => u <= t
        /\ phase'[p] = "await" /\ cur'[p] = u /\ insert'[p] # {} /\ UNCHANGED <<txseq, gsock, lost>>

EndsRound(p, i) ==
    /\ \A t \in TeamsOf(p) : ~(t > i)
    /\ phase'[p] \in {"sleep", "dead"} /\ UNCHANGED insert /\ txseq'[p] = txseq[p] + 1
    /\ UNCHANGED <<gsock, lost>> \/ (gsock' = [gsock EXCEPT ![p] = {}] /\ lost')

LEMMA GoesOn ==
    ASSUME NEW G, Shape(G), NEW p \in Peer, alive(p), DOMAIN totalT[p] = TeamsOf(p), NEW i, NEW T,
           IF After(p, i) # {} THEN SendTeam(p, NextTeam(p, i), T) /\ UNCHANGED <<txseq, gsock, lost>>
                               ELSE EndRound(p) /\ UNCHANGED insert
    PROVE  SendsOn(p, i) \/ EndsRound(p, i)
<1>0. Domains BY DEF Shape
<1>1. \A t : t \in After(p, i) <=> t \in TeamsOf(p) /\ t > i BY DEF After
<1>2. CASE After(p, i) # {}
  <2>1. PICK u : u = NextTeam(p, i) OBVIOUS
  <2>2. After(p, i) \subseteq Nat BY <1>1, XGossipAssumption DEF TeamsOf, Team
  <2>3. u \in After(p, i) /\ \A t \in After(p, i) : u <= t BY <1>2, <2>1, <2>2, NextTeamIs
  <2>4. SendTeam(p, u, T) /\ UNCHANGED <<txseq, gsock, lost>> BY <1>2, <2>1
  <2>5. u \in TeamsOf(p) BY <1>1, <2>3
  <2>6. /\ cur' = [cur EXCEPT ![p] = u] /\ phase' = [phase EXCEPT ![p] = "await"]
        /\ \E q \in Peer : insert' = [insert EXCEPT ![p] = {[to |-> q, msg |-> Outgoing(p, txseq[p], u, T)]}]
    BY <2>4, <2>5, SendTeamDoes
  <2>7. PICK q \in Peer : insert' = [insert EXCEPT ![p] = {[to |-> q, msg |-> Outgoing(p, txseq[p], u, T)]}] BY <2>6
  <2>8. PICK r : r = [to |-> q, msg |-> Outgoing(p, txseq[p], u, T)] OBVIOUS
  <2>9. insert' = [insert EXCEPT ![p] = {r}] BY <2>7, <2>8
  <2>10. insert'[p] # {} /\ cur'[p] = u /\ phase'[p] = "await" BY <1>0, <2>6, <2>9 DEF Domains
  <2>11. u > i /\ \A t \in TeamsOf(p) : t > i => u <= t BY <1>1, <2>3
  <2> QED BY <2>4, <2>5, <2>10, <2>11 DEF SendsOn
<1>3. CASE After(p, i) = {}
  <2>1. EndRound(p) /\ UNCHANGED insert BY <1>3
  <2>2. Finer(G, G) BY DEF Finer
  <2>3. /\ txseq' = [txseq EXCEPT ![p] = txseq[p] + 1]
        /\ \E ph \in {"sleep", "dead"} : phase' = [phase EXCEPT ![p] = ph]
        /\ \/ UNCHANGED <<gsock, lost>>
           \/ gsock' = [gsock EXCEPT ![p] = {}] /\ lost'
    BY <2>1, <2>2, EndRoundDoes
  <2>4. txseq'[p] = txseq[p] + 1 /\ phase'[p] \in {"sleep", "dead"} BY <1>0, <2>3 DEF Domains
  <2>5. \A t \in TeamsOf(p) : ~(t > i) BY <1>1, <1>3
  <2> QED BY <2>1, <2>3, <2>4, <2>5 DEF EndsRound
<1> QED BY <1>2, <1>3

\* A round that begins.
LEMMA GossipGoes ==
    ASSUME NEW G, Shape(G), NEW p \in Peer, GossipRound(p)
    PROVE  SendsOn(p, 0) \/ EndsRound(p, 0)
<1>1. phase[p] = "sleep" BY DEF GossipRound
<1>2. alive(p) BY <1>1 DEF alive
<1>3. DOMAIN totalT[p] = TeamsOf(p)
  <2>1. PeerOK(G, p, totalT[p], phase[p], cur[p], txseq[p], gossipdone[p], insert[p]) BY DEF Shape, Here
  <2> QED BY <1>1, <2>1 DEF PeerOK
<1>4. PICK T : T = totalT'[p] OBVIOUS
<1>5. IF After(p, 0) # {} THEN SendTeam(p, NextTeam(p, 0), T) /\ UNCHANGED <<txseq, gsock, lost>>
                          ELSE EndRound(p) /\ UNCHANGED insert
  BY <1>4 DEF GossipRound
<1> QED BY <1>2, <1>3, <1>5, GoesOn

\* And one that goes on.
LEMMA GroupGoes ==
    ASSUME NEW G, Shape(G), NEW p \in Peer, GroupWake(p)
    PROVE  SendsOn(p, cur[p]) \/ EndsRound(p, cur[p])
<1>1. phase[p] = "group" BY DEF GroupWake
<1>2. alive(p) BY <1>1 DEF alive
<1>3. DOMAIN totalT[p] = TeamsOf(p)
  <2>1. PeerOK(G, p, totalT[p], phase[p], cur[p], txseq[p], gossipdone[p], insert[p]) BY DEF Shape, Here
  <2> QED BY <1>1, <2>1 DEF PeerOK
<1>4. PICK T, i : T = totalT[p] /\ i = cur[p] OBVIOUS
<1>5. IF After(p, i) # {} THEN SendTeam(p, NextTeam(p, i), T) /\ UNCHANGED <<txseq, gsock, lost>>
                          ELSE EndRound(p) /\ UNCHANGED insert
  BY <1>4 DEF GroupWake
<1> QED BY <1>2, <1>3, <1>4, <1>5, GoesOn

\* A peer that awaits an insert awaits that of its current team.
LEMMA Awaited ==
    ASSUME NEW G, Family(G), Shape(G), NEW p \in Peer, insert[p] # {}
    PROVE  /\ phase[p] = "await" /\ cur[p] \in TeamsOf(p) /\ DOMAIN totalT[p] = TeamsOf(p)
           /\ totalT[p][cur[p]] \in Seq(G[cur[p]]) /\ totalT[p][cur[p]] # <<>>
           /\ \E q \in Peer, m \in Msg(G) :
                 /\ insert[p] = {[to |-> q, msg |-> m]}
                 /\ m.src = p /\ m.seq = txseq[p] /\ m.team = cur[p] /\ m.list = totalT[p][cur[p]][1]
<1>p. PeerOK(G, p, totalT[p], phase[p], cur[p], txseq[p], gossipdone[p], insert[p]) BY DEF Shape, Here
<1>1. phase[p] = "await" BY <1>p DEF PeerOK
<1>2. /\ cur[p] \in TeamsOf(p) /\ DOMAIN totalT[p] = TeamsOf(p) /\ txseq[p] \in 0..(rounds + 1) /\ txseq[p] < rounds
      /\ \E q \in Peer : insert[p] = {[to |-> q, msg |-> Outgoing(p, txseq[p], cur[p], totalT[p])]}
  BY <1>p, <1>1 DEF PeerOK
<1>3. totalT[p][cur[p]] \in Seq(G[cur[p]]) /\ totalT[p][cur[p]] # <<>> BY <1>p, <1>2 DEF PeerOK
<1>4. txseq[p] \in 0..(rounds - 1) BY <1>2, XGossipAssumption
<1>5. PICK m : m = Outgoing(p, txseq[p], cur[p], totalT[p]) OBVIOUS
<1>6. m \in Msg(G) BY <1>2, <1>3, <1>4, <1>5, OutgoingMsg
<1>7. m.src = p /\ m.seq = txseq[p] /\ m.team = cur[p] /\ m.list = totalT[p][cur[p]][1] BY <1>5 DEF Outgoing
<1>8. PICK q \in Peer : insert[p] = {[to |-> q, msg |-> m]} BY <1>2, <1>5
<1> QED BY <1>1, <1>2, <1>3, <1>6, <1>7, <1>8

\* Every step keeps it so.
LEMMA SocketsStep ==
    ASSUME NEW G, Family(G), Shape(G), Sockets, [Prompt]_vars
    PROVE  Sockets'
<1>d. Domains /\ gsock \in [Peer -> SUBSET Msg(G)] BY DEF Shape
<1>p. \A p \in Peer : PeerOK(G, p, totalT[p], phase[p], cur[p], txseq[p], gossipdone[p], insert[p]) BY DEF Shape, Here
<1>m. \A m \in Msg(G) : m.seq \in Int /\ m.team \in Int /\ m.src \in Peer BY XGossipAssumption DEF Msg, Team
<1>t. \A p \in Peer : txseq[p] \in Int BY <1>p DEF PeerOK
<1>u. \A p \in Peer : cur[p] \in Int
  <2>1. \A p \in Peer : TeamsOf(p) \subseteq Int BY XGossipAssumption DEF TeamsOf, Team
  <2>2. \A p \in Peer : cur[p] \in TeamsOf(p) \/ cur[p] = 0 BY <1>p DEF PeerOK
  <2> QED BY <2>1, <2>2
<1>1. ASSUME NEW p \in Peer, LoadState(p) PROVE Sockets'
  <2>1. Only(p) BY <1>1, <1>d, OnlyOne
  <2>2. UNCHANGED <<cur, txseq, insert, gsock>> /\ phase[p] = "load" BY <1>1 DEF LoadState
  <2>3. ASSUME NEW m \in Msg(G), Behind(m, phase[p], cur[p], txseq[p], insert[p])
        PROVE  Behind(m, phase'[p], cur'[p], txseq'[p], insert'[p])
    BY <2>2, <2>3 DEF Behind
  <2> QED BY <2>1, <2>2, <2>3, SocketsKeep
<1>2. ASSUME NEW p \in Peer, QuietRound(p) PROVE Sockets'
  <2>1. Only(p) BY <1>2, <1>d, OnlyOne
  <2>2. UNCHANGED <<phase, cur, insert, gsock>> /\ phase[p] = "sleep" BY <1>2 DEF QuietRound
  <2>3. txseq'[p] >= txseq[p] /\ txseq'[p] \in Int
    <3>1. txseq'[p] = IF txseq[p] > rounds THEN txseq[p] ELSE txseq[p] + 1 BY <1>2, <1>d DEF QuietRound, Domains
    <3> QED BY <1>t, <3>1
  <2>4. ASSUME NEW m \in Msg(G), Behind(m, phase[p], cur[p], txseq[p], insert[p])
        PROVE  Behind(m, phase'[p], cur'[p], txseq'[p], insert'[p])
    <3>1. m.seq < txseq[p] /\ m.seq \in Int /\ txseq[p] \in Int BY <1>m, <1>t, <2>2, <2>4 DEF Behind
    <3>2. m.seq < txseq'[p] BY <2>3, <3>1
    <3> QED BY <3>2 DEF Behind
  <2> QED BY <2>1, <2>2, <2>4, SocketsKeep
<1>3. ASSUME NEW p \in Peer, NEW i \in Int, Only(p), SendsOn(p, i) \/ EndsRound(p, i),
             \/ phase[p] = "sleep"
             \/ phase[p] = "group" /\ i = cur[p]
      PROVE  Sockets'
  <2>1. ASSUME NEW m \in Msg(G), Behind(m, phase[p], cur[p], txseq[p], insert[p])
        PROVE  m.seq < txseq[p] \/ (m.seq = txseq[p] /\ m.team <= i)
    BY <1>3, <1>m, <2>1 DEF Behind
  <2>2. CASE SendsOn(p, i)
    <3>1. PICK u \in TeamsOf(p) : u > i /\ phase'[p] = "await" /\ cur'[p] = u /\ UNCHANGED <<txseq, gsock>>
      BY <2>2 DEF SendsOn
    <3>2. u \in Int BY XGossipAssumption DEF TeamsOf, Team
    <3>3. ASSUME NEW m \in Msg(G), Behind(m, phase[p], cur[p], txseq[p], insert[p])
          PROVE  Behind(m, phase'[p], cur'[p], txseq'[p], insert'[p])
      <4>1. m.seq < txseq[p] \/ (m.seq = txseq[p] /\ m.team < u) BY <1>m, <2>1, <3>1, <3>2, <3>3
      <4> QED BY <3>1, <4>1 DEF Behind
    <3> QED BY <1>3, <3>1, <3>3, SocketsKeep
  <2>3. CASE EndsRound(p, i)
    <3>1. txseq'[p] = txseq[p] + 1 BY <2>3 DEF EndsRound
    <3>2. \A x \in Peer : gsock'[x] \subseteq gsock[x]
      <4>1. gsock' = gsock \/ gsock' = [gsock EXCEPT ![p] = {}] BY <2>3 DEF EndsRound
      <4> QED BY <1>d, <4>1
    <3>3. ASSUME NEW m \in Msg(G), Behind(m, phase[p], cur[p], txseq[p], insert[p])
          PROVE  Behind(m, phase'[p], cur'[p], txseq'[p], insert'[p])
      <4>1. m.seq < txseq'[p] BY <1>m, <1>t, <2>1, <3>1, <3>3
      <4> QED BY <4>1 DEF Behind
    <3> QED BY <1>3, <3>2, <3>3, SocketsKeep
  <2> QED BY <1>3, <2>2, <2>3
<1>4. ASSUME NEW p \in Peer, GossipRound(p) PROVE Sockets'
  <2>1. Only(p) BY <1>4, <1>d, OnlyOne
  <2>2. SendsOn(p, 0) \/ EndsRound(p, 0) BY <1>4, GossipGoes
  <2>3. phase[p] = "sleep" BY <1>4 DEF GossipRound
  <2> QED BY <1>3, <2>1, <2>2, <2>3
<1>5. ASSUME NEW p \in Peer, GroupWake(p) PROVE Sockets'
  <2>1. Only(p) BY <1>5, <1>d, OnlyOne
  <2>2. SendsOn(p, cur[p]) \/ EndsRound(p, cur[p]) BY <1>5, GroupGoes
  <2>3. phase[p] = "group" BY <1>5 DEF GroupWake
  <2> QED BY <1>3, <1>u, <2>1, <2>2, <2>3
<1>6. ASSUME NEW p \in Peer, InsertFail(p) PROVE Sockets'
  <2>1. Only(p) BY <1>6, <1>d, OnlyOne
  <2>2. insert[p] # {} /\ UNCHANGED <<cur, txseq, gsock>> BY <1>6 DEF InsertFail
  <2>3. insert'[p] = {} /\ phase'[p] = "group" BY <1>6, <1>d DEF InsertFail, Returns, Domains
  <2>4. ASSUME NEW m \in Msg(G), Behind(m, phase[p], cur[p], txseq[p], insert[p])
        PROVE  Behind(m, phase'[p], cur'[p], txseq'[p], insert'[p])
    BY <2>2, <2>3, <2>4 DEF Behind
  <2> QED BY <2>1, <2>2, <2>4, SocketsKeep
<1>7. ASSUME NEW p \in Peer, ReadGossip(p) PROVE Sockets'
  <2>1. Only(p) BY <1>7, <1>d, OnlyOne
  <2>2. UNCHANGED <<phase, cur, txseq, insert>> BY <1>7 DEF ReadGossip
  <2>3. \A x \in Peer : gsock'[x] \subseteq gsock[x]
    <3>1. PICK m \in gsock[p] : gsock' = [gsock EXCEPT ![p] = @ \ {m}] BY <1>7 DEF ReadGossip
    <3> QED BY <1>d, <3>1
  <2> QED BY <2>1, <2>2, <2>3, SocketsKeep
<1>8. ASSUME NEW p \in Peer, InsertOK(p) PROVE Sockets'
  <2>1. PICK r \in insert[p] :
            /\ gsock' = [gsock EXCEPT ![r.to] = @ \cup {r.msg}]
            /\ insert' = [insert EXCEPT ![p] = {}] /\ phase' = [phase EXCEPT ![p] = "group"]
            /\ UNCHANGED <<cur, txseq>>
    BY <1>8 DEF InsertOK, Returns
  <2>2. PICK q \in Peer, m \in Msg(G) :
                 /\ insert[p] = {[to |-> q, msg |-> m]}
                 /\ m.src = p /\ m.seq = txseq[p] /\ m.team = cur[p]
    BY <2>1, Awaited
  <2>3. gsock' = [gsock EXCEPT ![q] = @ \cup {m}]
    <3>1. r.to = q /\ r.msg = m BY <2>1, <2>2
    <3> QED BY <2>1, <3>1
  <2>4. \A x \in Peer : \A y \in gsock'[x] : y \in gsock[x] \/ y = m BY <1>d, <2>3
  <2>5. phase[p] = "await" /\ phase'[p] = "group" /\ insert'[p] = {} /\ insert[p] # {}
    BY <1>d, <2>1, Awaited DEF Domains
  <2>6. Only(p) BY <1>8, <1>d, OnlyOne
  <2>7. ASSUME NEW x \in Peer, NEW y \in gsock'[x]
        PROVE  Behind(y, phase'[y.src], cur'[y.src], txseq'[y.src], insert'[y.src])
    <3>1. CASE y = m BY <2>1, <2>2, <2>5, <3>1 DEF Behind
    <3>2. CASE y \in gsock[x]
      <4>1. Behind(y, phase[y.src], cur[y.src], txseq[y.src], insert[y.src]) BY <3>2 DEF Sockets
      <4>2. y.src \in Peer BY <1>d, <1>m, <3>2
      <4>3. CASE y.src = p BY <2>1, <2>5, <4>1, <4>3 DEF Behind
      <4>4. CASE y.src # p
        <5>1. phase'[y.src] = phase[y.src] /\ insert'[y.src] = insert[y.src] BY <2>6, <4>2, <4>4 DEF Only
        <5> QED BY <2>1, <4>1, <5>1
      <4> QED BY <4>3, <4>4
    <3> QED BY <2>4, <3>1, <3>2
  <2>8. ASSUME NEW x \in Peer, NEW y \in gsock[x] PROVE ~(y.src = m.src /\ y.seq = m.seq /\ y.team = m.team)
    <3>1. SUFFICES ASSUME y.src = p, y.seq = txseq[p], y.team = cur[p] PROVE FALSE BY <2>2
    <3>2. Behind(y, phase[p], cur[p], txseq[p], insert[p]) BY <3>1 DEF Sockets
    <3>3. txseq[p] \in Int /\ cur[p] \in Int BY <1>t, <1>u
    <3> QED BY <2>5, <3>1, <3>2, <3>3 DEF Behind
  <2>9. ASSUME NEW x \in Peer, NEW y \in gsock'[x], NEW z \in gsock'[x], y.src = z.src, y.seq = z.seq, y.team = z.team
        PROVE  y = z
    <3>1. CASE y \in gsock[x] /\ z \in gsock[x] BY <2>9, <3>1 DEF Sockets
    <3>2. CASE ~(y \in gsock[x] /\ z \in gsock[x]) BY <2>4, <2>8, <2>9, <3>2
    <3> QED BY <3>1, <3>2
  <2> QED BY <2>7, <2>9 DEF Sockets
<1>9. CASE UNCHANGED vars BY <1>9 DEF vars, Sockets
<1> QED BY <1>1, <1>2, <1>4, <1>5, <1>6, <1>7, <1>8, <1>9 DEF Prompt

-------------------------------------------------------------------------------
(* Mass: the actions.                                                         *)

\* A peer that loads its lists begins with what was counted as its mass.
LEMMA LoadMass ==
    ASSUME NEW G, NEW H, Family(G), Family(H), Shape(G), Shape(H)', NEW p \in Peer, Only(p), LoadState(p),
           NEW t \in Team, NEW s \in Sig, NEW c \in {"f", "w"}
    PROVE  Step(t, s, c)
<1>1. PeerOK(G, p, totalT[p], phase[p], cur[p], txseq[p], gossipdone[p], insert[p]) /\ Domains BY DEF Shape, Here
<1>2. PICK T2 : T2 = InitState(p) OBVIOUS
<1>3. phase[p] = "load" /\ totalT'[p] = T2 /\ phase'[p] = "sleep" /\ UNCHANGED <<gossipdone, gsock>>
  BY <1>1, <1>2 DEF LoadState, Domains
<1>4. DOMAIN T2 = TeamsOf(p) /\ \A u \in TeamsOf(p) : T2[u] = <<loadinitstate(p, u)>> BY <1>2 DEF InitState
<1>5. DOMAIN totalT[p] = {} BY <1>1, <1>3 DEF PeerOK
<1>6. t \in TeamsOf(p) <=> p \in Members(t) BY DEF TeamsOf
<1>7. PICK a, b, e, g, f :
          /\ a = KeptAt(p, totalT[p], t, s, c)
          /\ b = WireAt(p, totalT[p], phase[p], cur[p], insert[p], t, s, c)
          /\ e = InboxAt(totalT[p], t, s, c) /\ g = MsgMass(gsock[p], t, s, c)
          /\ f = PhaseAt(totalT[p], phase[p], cur[p], insert[p], t)
  OBVIOUS
<1>8. b = 0 /\ e = 0 /\ f = "sleep" BY <1>3, <1>5, <1>7 DEF WireAt, InboxAt, PhaseAt, PendingAt
<1>9. a = KeptAt(p, totalT'[p], t, s, c) /\ e = InboxAt(totalT'[p], t, s, c)
  <2>1. CASE t \in TeamsOf(p)
    <3>1. PICK L : L = loadinitstate(p, t) OBVIOUS
    <3>2. T2[t] = <<L>> /\ <<L>>[1] = L /\ Tail(<<L>>) = <<>> BY <1>4, <2>1, <3>1
    <3>3. a = At(L, s)[c] BY <1>5, <1>6, <1>7, <2>1, <3>1 DEF KeptAt
    <3>4. KeptAt(p, T2, t, s, c) = At(L, s)[c] BY <1>4, <2>1, <3>2 DEF KeptAt
    <3>5. InboxAt(T2, t, s, c) = 0 BY <1>4, <2>1, <3>2, SeqMassEmpty DEF InboxAt
    <3> QED BY <1>3, <1>8, <3>3, <3>4, <3>5
  <2>2. CASE t \notin TeamsOf(p) BY <1>3, <1>4, <1>5, <1>6, <1>7, <1>8, <2>2 DEF KeptAt, InboxAt
  <2> QED BY <2>1, <2>2
<1>10. /\ b = WireAt(p, totalT'[p], phase'[p], cur'[p], insert'[p], t, s, c)
       /\ f = PhaseAt(totalT'[p], phase'[p], cur'[p], insert'[p], t) /\ g = MsgMass(gsock'[p], t, s, c)
  BY <1>3, <1>7, <1>8 DEF WireAt, PhaseAt, PendingAt
<1>11. \A x \in Peer : x # p => gsock'[x] = gsock[x] BY <1>3
<1>12. Moved(p, p, t, s, c, a, b, e, g, f, a, b, e, g, f) BY <1>7, <1>9, <1>10, <1>11, StepAt
<1> QED BY <1>3, <1>12, StutterStep

\* The step of p changes no mass of team t, unless p is killed.
Idle(p, t, s, c) ==
    /\ KeptAt(p, totalT'[p], t, s, c) = KeptAt(p, totalT[p], t, s, c)
    /\ InboxAt(totalT'[p], t, s, c) = InboxAt(totalT[p], t, s, c)
    /\ PendingAt(totalT'[p], phase'[p], cur'[p], insert'[p], t) <=>
          PendingAt(totalT[p], phase[p], cur[p], insert[p], t)
    /\ UNCHANGED gossipdone
    /\ UNCHANGED <<gsock, lost>> \/ (gsock' = [gsock EXCEPT ![p] = {}] /\ lost')

LEMMA IdleMass ==
    ASSUME NEW G, NEW H, Family(G), Family(H), Shape(G), Shape(H)', NEW p \in Peer, Only(p),
           NEW t \in Team, NEW s \in Sig, NEW c \in {"f", "w"}, Idle(p, t, s, c)
    PROVE  Step(t, s, c)
<1>1. PICK a, b, e, g, f :
          /\ a = KeptAt(p, totalT[p], t, s, c)
          /\ b = WireAt(p, totalT[p], phase[p], cur[p], insert[p], t, s, c)
          /\ e = InboxAt(totalT[p], t, s, c) /\ g = MsgMass(gsock[p], t, s, c)
          /\ f = PhaseAt(totalT[p], phase[p], cur[p], insert[p], t)
  OBVIOUS
<1>2. /\ a = KeptAt(p, totalT'[p], t, s, c) /\ e = InboxAt(totalT'[p], t, s, c)
      /\ b = WireAt(p, totalT'[p], phase'[p], cur'[p], insert'[p], t, s, c)
      /\ f = PhaseAt(totalT'[p], phase'[p], cur'[p], insert'[p], t)
  BY <1>1 DEF WireAt, PhaseAt, Idle
<1>6. UNCHANGED gossipdone /\ (UNCHANGED gsock \/ (gsock' = [gsock EXCEPT ![p] = {}] /\ lost')) BY DEF Idle
<1>3. gsock \in [Peer -> SUBSET Msg(G)] BY DEF Shape
<1>4. CASE UNCHANGED gsock
  <2>1. g = MsgMass(gsock'[p], t, s, c) /\ \A x \in Peer : x # p => gsock'[x] = gsock[x] BY <1>1, <1>4
  <2>2. Moved(p, p, t, s, c, a, b, e, g, f, a, b, e, g, f) BY <1>1, <1>2, <2>1, StepAt
  <2> QED BY <1>6, <2>2, StutterStep
<1>5. CASE gsock' = [gsock EXCEPT ![p] = {}] /\ lost'
  <2>1. gsock'[p] = {} /\ \A x \in Peer : x # p => gsock'[x] = gsock[x] BY <1>3, <1>5
  <2>2. PICK g2 : g2 = MsgMass(gsock'[p], t, s, c) OBVIOUS
  <2>3. g2 = 0 BY <2>1, <2>2, MsgMassEmpty
  <2>4. g \in Nat
    <3>1. gsock[p] \in SUBSET Msg(G) BY <1>3
    <3> QED BY <1>1, <3>1, MsgMassNat
  <2>5. b \in Nat
    <3>1. PeerOK(G, p, totalT[p], phase[p], cur[p], txseq[p], gossipdone[p], insert[p]) BY DEF Shape, Here
    <3> QED BY <1>1, <3>1, PlaceNat
  <2>6. Moved(p, p, t, s, c, a, b, e, g, f, a, b, e, g2, f) BY <1>1, <1>2, <2>1, <2>2, StepAt
  <2>7. b <= b /\ g2 <= g BY <2>3, <2>4, <2>5
  <2> QED BY <1>5, <2>6, <2>7, LossStep
<1> QED BY <1>4, <1>5, <1>6

\* The pause is over: the halves still to be sent are the same.
LEMMA WakeMass ==
    ASSUME NEW G, NEW H, Family(G), Family(H), Shape(G), Shape(H)', NEW p \in Peer, Only(p), GroupWake(p),
           NEW t \in Team, NEW s \in Sig, NEW c \in {"f", "w"}
    PROVE  Step(t, s, c)
<1>1. PeerOK(G, p, totalT[p], phase[p], cur[p], txseq[p], gossipdone[p], insert[p]) BY DEF Shape, Here
<1>2. phase[p] = "group" /\ UNCHANGED <<totalT, gossipdone>> BY DEF GroupWake
<1>3. insert[p] = {} /\ cur[p] \in TeamsOf(p) /\ DOMAIN totalT[p] = TeamsOf(p) BY <1>1, <1>2 DEF PeerOK
<1>4. TeamsOf(p) \subseteq Int BY XGossipAssumption DEF TeamsOf, Team
<1>5. SendsOn(p, cur[p]) \/ EndsRound(p, cur[p]) BY GroupGoes
<1>6. PendingAt(totalT[p], phase[p], cur[p], insert[p], t) <=> t \in TeamsOf(p) /\ t > cur[p]
  BY <1>2, <1>3 DEF PendingAt
<1>7. CASE SendsOn(p, cur[p])
  <2>1. PICK u \in TeamsOf(p) :
            /\ u > cur[p] /\ \A x \in TeamsOf(p) : x > cur[p] => u <= x
            /\ phase'[p] = "await" /\ cur'[p] = u /\ insert'[p] # {} /\ UNCHANGED <<txseq, gsock, lost>>
    BY <1>7 DEF SendsOn
  <2>2. PendingAt(totalT'[p], phase'[p], cur'[p], insert'[p], t) <=> t \in TeamsOf(p) /\ (t > u \/ t = u)
    BY <1>2, <1>3, <2>1 DEF PendingAt
  <2>3. t \in TeamsOf(p) => (t > cur[p] <=> (t > u \/ t = u)) BY <1>3, <1>4, <2>1
  <2>4. PendingAt(totalT'[p], phase'[p], cur'[p], insert'[p], t) <=>
            PendingAt(totalT[p], phase[p], cur[p], insert[p], t)
    BY <1>6, <2>2, <2>3
  <2> QED BY <1>2, <2>1, <2>4, IdleMass DEF Idle
<1>8. CASE EndsRound(p, cur[p])
  <2>1. /\ \A x \in TeamsOf(p) : ~(x > cur[p])
        /\ phase'[p] \in {"sleep", "dead"}
        /\ UNCHANGED <<gsock, lost>> \/ (gsock' = [gsock EXCEPT ![p] = {}] /\ lost')
    BY <1>8 DEF EndsRound
  <2>2. ~PendingAt(totalT'[p], phase'[p], cur'[p], insert'[p], t) BY <2>1 DEF PendingAt
  <2>3. ~PendingAt(totalT[p], phase[p], cur[p], insert[p], t) BY <1>6, <2>1
  <2> QED BY <1>2, <2>1, <2>2, <2>3, IdleMass DEF Idle
<1> QED BY <1>5, <1>7, <1>8

\* A merge splits the mass of every team of the peer.
LEMMA RoundMass ==
    ASSUME NEW G, NEW H, Family(G), Family(H), Shape(G), Shape(H)', NEW p \in Peer, Only(p), GossipRound(p),
           NEW t \in Team, NEW s \in Sig, NEW c \in {"f", "w"},
           \A Ts \in Seq(G[t]) : Ts # <<>> =>
               \E L \in H[t] : mergelists(Ts) = <<L>> /\ SeqMass(Ts, s, c) = 2 * At(L, s)[c]
    PROVE  Step(t, s, c)
<1>1. PeerOK(G, p, totalT[p], phase[p], cur[p], txseq[p], gossipdone[p], insert[p]) /\ Domains BY DEF Shape, Here
<1>2. /\ phase[p] = "sleep" /\ ~gossipdone[p] /\ UNCHANGED gossipdone
      /\ totalT' = [totalT EXCEPT ![p] = [u \in DOMAIN totalT[p] |-> mergelists(totalT[p][u])]]
  BY DEF GossipRound
<1>3. DOMAIN totalT[p] = TeamsOf(p) BY <1>1, <1>2 DEF PeerOK
<1>4. PICK T2 : T2 = [u \in DOMAIN totalT[p] |-> mergelists(totalT[p][u])] OBVIOUS
<1>5. totalT'[p] = T2 /\ DOMAIN T2 = TeamsOf(p) BY <1>1, <1>2, <1>3, <1>4 DEF Domains
<1>6. SendsOn(p, 0) \/ EndsRound(p, 0) BY GossipGoes
<1>7. ~PendingAt(totalT[p], phase[p], cur[p], insert[p], t) BY <1>2 DEF PendingAt
<1>8. CASE t \notin TeamsOf(p)
  <2>1. /\ KeptAt(p, totalT'[p], t, s, c) = KeptAt(p, totalT[p], t, s, c)
        /\ InboxAt(totalT'[p], t, s, c) = InboxAt(totalT[p], t, s, c)
        /\ ~PendingAt(totalT'[p], phase'[p], cur'[p], insert'[p], t)
    BY <1>3, <1>5, <1>8 DEF KeptAt, InboxAt, PendingAt
  <2>2. UNCHANGED <<gsock, lost>> \/ (gsock' = [gsock EXCEPT ![p] = {}] /\ lost')
    BY <1>6 DEF SendsOn, EndsRound
  <2> QED BY <1>2, <1>7, <2>1, <2>2, IdleMass DEF Idle
<1>9. CASE t \in TeamsOf(p)
  <2>1. PICK S, Ts : S = G[t] /\ Ts = totalT[p][t] OBVIOUS
  <2>2. Ts \in Seq(S) /\ Ts # <<>> /\ S \subseteq ListType BY <1>1, <1>3, <1>9, <2>1 DEF PeerOK, Family
  <2>3. PICK L \in H[t] : mergelists(Ts) = <<L>> /\ SeqMass(Ts, s, c) = 2 * At(L, s)[c] BY <2>1, <2>2
  <2>4. L \in ListType BY <2>3 DEF Family
  <2>5. T2[t] = <<L>> /\ <<L>>[1] = L /\ Tail(<<L>>) = <<>> BY <1>3, <1>4, <1>9, <2>1, <2>3
  <2>6. PICK d \in Nat : d = At(L, s)[c] BY <2>4, EntryParts
  <2>7. PICK a, b, e, g :
            /\ a = KeptAt(p, totalT[p], t, s, c)
            /\ b = WireAt(p, totalT[p], phase[p], cur[p], insert[p], t, s, c)
            /\ e = InboxAt(totalT[p], t, s, c) /\ g = MsgMass(gsock[p], t, s, c)
    OBVIOUS
  <2>8. a = At(Ts[1], s)[c] /\ e = SeqMass(Tail(Ts), s, c) BY <1>3, <1>9, <2>1, <2>7 DEF KeptAt, InboxAt
  <2>9. a + e = 2 * d
    <3>1. Ts \in Seq(ListType) BY <2>2, SeqLarger
    <3>2. SeqMass(Ts, s, c) = At(Ts[1], s)[c] + SeqMass(Tail(Ts), s, c) BY <2>2, <3>1, SeqMassFirst
    <3> QED BY <2>3, <2>6, <2>8, <3>2
  <2>10. b = 0 /\ PhaseAt(totalT[p], phase[p], cur[p], insert[p], t) = "sleep" BY <1>7, <2>7 DEF WireAt, PhaseAt
  <2>11. KeptAt(p, totalT'[p], t, s, c) = d /\ InboxAt(totalT'[p], t, s, c) = 0
    BY <1>5, <1>9, <2>5, <2>6, SeqMassEmpty DEF KeptAt, InboxAt
  <2>12. TeamsOf(p) \subseteq Int /\ t > 0 BY XGossipAssumption DEF TeamsOf, Team
  <2>13. SendsOn(p, 0) BY <1>6, <1>9, <2>12 DEF EndsRound
  <2>14. PICK u \in TeamsOf(p) :
            /\ \A x \in TeamsOf(p) : x > 0 => u <= x
            /\ phase'[p] = "await" /\ cur'[p] = u /\ insert'[p] # {} /\ UNCHANGED <<txseq, gsock, lost>>
    BY <2>13 DEF SendsOn
  <2>15. PendingAt(totalT'[p], phase'[p], cur'[p], insert'[p], t)
    <3>1. t > u \/ t = u BY <1>9, <2>12, <2>14
    <3> QED BY <1>5, <1>9, <2>14, <3>1 DEF PendingAt
  <2>16. /\ WireAt(p, totalT'[p], phase'[p], cur'[p], insert'[p], t, s, c) = d
         /\ PhaseAt(totalT'[p], phase'[p], cur'[p], insert'[p], t) = "await"
    BY <2>11, <2>15 DEF WireAt, PhaseAt
  <2>17. g = MsgMass(gsock'[p], t, s, c) /\ \A x \in Peer : x # p => gsock'[x] = gsock[x] BY <2>7, <2>14
  <2>18. Moved(p, p, t, s, c, a, b, e, g, "sleep", d, d, 0, g, "await")
    BY <2>7, <2>10, <2>11, <2>16, <2>17, StepAt
  <2> QED BY <1>2, <2>9, <2>10, <2>18, SplitStep
<1> QED BY <1>8, <1>9

\* A peer that has finished drops, for every team, what it still receives.
LEMMA QuietMass ==
    ASSUME NEW G, NEW H, Family(G), Family(H), Shape(G), Shape(H)', NEW p \in Peer, Only(p), QuietRound(p),
           NEW t \in Team, NEW s \in Sig, NEW c \in {"f", "w"}
    PROVE  Step(t, s, c)
<1>1. PeerOK(G, p, totalT[p], phase[p], cur[p], txseq[p], gossipdone[p], insert[p]) /\ Domains BY DEF Shape, Here
<1>2. PICK T2 : T2 = [u \in DOMAIN totalT[p] |-> <<totalT[p][u][1]>>] OBVIOUS
<1>3. /\ phase[p] = "sleep" /\ gossipdone' = [gossipdone EXCEPT ![p] = TRUE]
      /\ totalT' = [totalT EXCEPT ![p] = T2] /\ UNCHANGED <<phase, cur, insert, gsock>>
  BY <1>2 DEF QuietRound, mergelists_nogossip
<1>4. totalT'[p] = T2 /\ DOMAIN T2 = DOMAIN totalT[p] BY <1>1, <1>2, <1>3 DEF Domains
<1>5. PICK a, b, e, g :
          /\ a = KeptAt(p, totalT[p], t, s, c)
          /\ b = WireAt(p, totalT[p], phase[p], cur[p], insert[p], t, s, c)
          /\ e = InboxAt(totalT[p], t, s, c) /\ g = MsgMass(gsock[p], t, s, c)
  OBVIOUS
<1>6. /\ b = 0 /\ PhaseAt(totalT[p], phase[p], cur[p], insert[p], t) = "sleep"
      /\ WireAt(p, totalT'[p], phase'[p], cur'[p], insert'[p], t, s, c) = b
      /\ PhaseAt(totalT'[p], phase'[p], cur'[p], insert'[p], t) = "sleep"
  BY <1>3, <1>5 DEF WireAt, PhaseAt, PendingAt
<1>7. KeptAt(p, totalT'[p], t, s, c) = a /\ InboxAt(totalT'[p], t, s, c) = 0
  <2>1. CASE t \in DOMAIN totalT[p]
    <3>1. PICK L : L = totalT[p][t][1] OBVIOUS
    <3>2. T2[t] = <<L>> /\ <<L>>[1] = L /\ Tail(<<L>>) = <<>> BY <1>2, <2>1, <3>1
    <3> QED BY <1>4, <1>5, <2>1, <3>1, <3>2, SeqMassEmpty DEF KeptAt, InboxAt
  <2>2. CASE t \notin DOMAIN totalT[p] BY <1>4, <1>5, <2>2 DEF KeptAt, InboxAt
  <2> QED BY <2>1, <2>2
<1>8. g = MsgMass(gsock'[p], t, s, c) /\ \A x \in Peer : x # p => gsock'[x] = gsock[x] BY <1>3, <1>5
<1>9. Moved(p, p, t, s, c, a, b, e, g, "sleep", a, b, 0, g, "sleep") BY <1>5, <1>6, <1>7, <1>8, StepAt
<1>10. DOMAIN gossipdone = Peer BY <1>1 DEF Domains
<1> QED BY <1>3, <1>9, <1>10, DropStep

\* An insert that ends, either way, ends the wait for the current team only.
LEMMA EndsWait ==
    ASSUME NEW G, Family(G), Shape(G), NEW p \in Peer, insert[p] # {}, NEW t \in Team, NEW T, T = totalT[p]
    PROVE  /\ t = cur[p] => PendingAt(T, phase[p], cur[p], insert[p], t)
           /\ t # cur[p] => (PendingAt(T, "group", cur[p], {}, t) <=> PendingAt(T, phase[p], cur[p], insert[p], t))
           /\ t = cur[p] => ~PendingAt(T, "group", cur[p], {}, t)
<1>1. phase[p] = "await" /\ cur[p] \in TeamsOf(p) /\ DOMAIN totalT[p] = TeamsOf(p) BY Awaited
<1>2. ~(t > t) BY XGossipAssumption DEF Team
<1> QED BY <1>1, <1>2 DEF PendingAt

\* A message that is handed over moves the half of its team to the socket.
LEMMA OKMass ==
    ASSUME NEW G, NEW H, Family(G), Family(H), Shape(G), Shape(H)', Sockets, NEW p \in Peer, Only(p), InsertOK(p),
           NEW t \in Team, NEW s \in Sig, NEW c \in {"f", "w"}
    PROVE  Step(t, s, c)
<1>d. Domains /\ gsock \in [Peer -> SUBSET Msg(G)] BY DEF Shape
<1>1. PICK r \in insert[p] :
          /\ gsock' = [gsock EXCEPT ![r.to] = @ \cup {r.msg}]
          /\ insert' = [insert EXCEPT ![p] = {}] /\ phase' = [phase EXCEPT ![p] = "group"]
          /\ UNCHANGED <<totalT, cur, gossipdone>>
  BY DEF InsertOK, Returns
<1>2. PICK q \in Peer, m \in Msg(G) :
               /\ insert[p] = {[to |-> q, msg |-> m]}
               /\ m.src = p /\ m.seq = txseq[p] /\ m.team = cur[p] /\ m.list = totalT[p][cur[p]][1]
  BY <1>1, Awaited
<1>3. r.to = q /\ r.msg = m BY <1>1, <1>2
<1>4. gsock'[q] = gsock[q] \cup {m} /\ \A x \in Peer : x # q => gsock'[x] = gsock[x] BY <1>d, <1>1, <1>3
<1>5. phase'[p] = "group" /\ insert'[p] = {} /\ totalT'[p] = totalT[p] /\ cur'[p] = cur[p] BY <1>d, <1>1 DEF Domains
<1>6. cur[p] \in TeamsOf(p) /\ DOMAIN totalT[p] = TeamsOf(p) /\ phase[p] = "await" BY <1>1, Awaited
<1>n. PICK M \in SUBSET Msg(G) : M = gsock[q] BY <1>d
<1>7. PICK A : M = gsock[q] /\ A = M \cup {m} BY <1>n
<1>8. AddsTeam(A, M, m)
  <2>1. ASSUME NEW x \in M, x.src = m.src, x.seq = m.seq, x.team = m.team PROVE FALSE
    <3>1. Behind(x, phase[p], cur[p], txseq[p], insert[p]) BY <1>2, <1>7, <2>1 DEF Sockets
    <3>2. x.seq = txseq[p] /\ x.team = cur[p] /\ insert[p] # {} BY <1>1, <1>2, <2>1
    <3>3. txseq[p] \in Int
      <4>1. PeerOK(G, p, totalT[p], phase[p], cur[p], txseq[p], gossipdone[p], insert[p]) BY DEF Shape, Here
      <4> QED BY <4>1 DEF PeerOK
    <3>4. cur[p] \in Int BY <1>6, XGossipAssumption DEF TeamsOf, Team
    <3> QED BY <3>1, <3>2, <3>3, <3>4 DEF Behind
  <2> QED BY <1>7, <2>1 DEF AddsTeam
<1>9. MsgMass(A, t, s, c) = MsgMass(M, t, s, c) + Worth(m, t, s, c) BY <1>8, MsgMassAdd
<1>10. PICK a, b, e, g, g2, f :
          /\ a = KeptAt(p, totalT[p], t, s, c)
          /\ b = WireAt(p, totalT[p], phase[p], cur[p], insert[p], t, s, c)
          /\ e = InboxAt(totalT[p], t, s, c) /\ g = MsgMass(gsock[q], t, s, c) /\ g2 = MsgMass(gsock'[q], t, s, c)
          /\ f = PhaseAt(totalT[p], phase[p], cur[p], insert[p], t)
  OBVIOUS
<1>11. g2 = g + Worth(m, t, s, c) BY <1>4, <1>7, <1>9, <1>10
<1>12. a = KeptAt(p, totalT'[p], t, s, c) /\ e = InboxAt(totalT'[p], t, s, c) BY <1>5, <1>10
<1>13. PICK T : T = totalT[p] OBVIOUS
<1>14. CASE t = cur[p]
  <2>1. PendingAt(T, phase[p], cur[p], insert[p], t) /\ ~PendingAt(T, "group", cur[p], {}, t)
    BY <1>1, <1>13, <1>14, EndsWait
  <2>2. b = a /\ f = "await" BY <1>10, <1>13, <2>1 DEF WireAt, PhaseAt
  <2>3. /\ WireAt(p, totalT'[p], phase'[p], cur'[p], insert'[p], t, s, c) = 0
        /\ PhaseAt(totalT'[p], phase'[p], cur'[p], insert'[p], t) = "sleep"
    BY <1>5, <1>13, <2>1 DEF WireAt, PhaseAt
  <2>4. Worth(m, t, s, c) = a BY <1>2, <1>6, <1>10, <1>14 DEF Worth, KeptAt
  <2>5. Moved(p, q, t, s, c, a, a, e, g, "await", a, 0, e, g2, "sleep")
    BY <1>4, <1>10, <1>12, <2>2, <2>3, StepAt
  <2> QED BY <1>1, <1>11, <2>4, <2>5, AcceptStep
<1>15. CASE t # cur[p]
  <2>1. PendingAt(T, "group", cur[p], {}, t) <=> PendingAt(T, phase[p], cur[p], insert[p], t)
    BY <1>1, <1>13, <1>15, EndsWait
  <2>2. /\ b = WireAt(p, totalT'[p], phase'[p], cur'[p], insert'[p], t, s, c)
        /\ f = PhaseAt(totalT'[p], phase'[p], cur'[p], insert'[p], t)
    BY <1>5, <1>10, <1>13, <2>1 DEF WireAt, PhaseAt
  <2>3. g2 = g
    <3>1. g \in Nat BY <1>7, <1>10, MsgMassNat
    <3>2. Worth(m, t, s, c) = 0 BY <1>2, <1>15 DEF Worth
    <3> QED BY <1>11, <3>1, <3>2
  <2>4. Moved(p, q, t, s, c, a, b, e, g, f, a, b, e, g2, f) BY <1>4, <1>10, <1>12, <2>2, StepAt
  <2>5. Moved(p, q, t, s, c, a, b, e, g, f, a, b, e, g, f) BY <2>3, <2>4
  <2> QED BY <1>1, <2>5, StutterStep
<1> QED BY <1>14, <1>15

\* A failed message is consumed, or its half is lost.
LEMMA FailMass ==
    ASSUME NEW G, NEW H, Family(G), \A u \in Team : \A T \in G[u] : multiplyfreq(T) \in G[u], Family(H),
           Shape(G), Shape(H)', NEW p \in Peer, Only(p), InsertFail(p),
           NEW t \in Team, NEW s \in Sig, NEW c \in {"f", "w"}
    PROVE  Step(t, s, c)
<1>d. Domains /\ gsock \in [Peer -> SUBSET Msg(G)] BY DEF Shape
<1>1. /\ insert[p] # {} /\ UNCHANGED <<cur, gossipdone, gsock>>
      /\ insert' = [insert EXCEPT ![p] = {}] /\ phase' = [phase EXCEPT ![p] = "group"]
  BY DEF InsertFail, Returns
<1>2. phase'[p] = "group" /\ insert'[p] = {} /\ cur'[p] = cur[p] BY <1>d, <1>1 DEF Domains
<1>3. /\ cur[p] \in TeamsOf(p) /\ DOMAIN totalT[p] = TeamsOf(p) /\ phase[p] = "await"
      /\ totalT[p][cur[p]] \in Seq(G[cur[p]]) /\ totalT[p][cur[p]] # <<>>
  BY <1>1, Awaited
<1>4. PICK a, b, e, g, f :
          /\ a = KeptAt(p, totalT[p], t, s, c)
          /\ b = WireAt(p, totalT[p], phase[p], cur[p], insert[p], t, s, c)
          /\ e = InboxAt(totalT[p], t, s, c) /\ g = MsgMass(gsock[p], t, s, c)
          /\ f = PhaseAt(totalT[p], phase[p], cur[p], insert[p], t)
  OBVIOUS
<1>5. g = MsgMass(gsock'[p], t, s, c) /\ \A x \in Peer : x # p => gsock'[x] = gsock[x] BY <1>1, <1>4
<1>6. PICK u, Ts, T : u = cur[p] /\ Ts = totalT[p][u] /\ T = totalT[p] OBVIOUS
<1>7. /\ t = u => PendingAt(T, phase[p], cur[p], insert[p], t) /\ ~PendingAt(T, "group", cur[p], {}, t)
      /\ t # u => (PendingAt(T, "group", cur[p], {}, t) <=> PendingAt(T, phase[p], cur[p], insert[p], t))
  BY <1>1, <1>6, EndsWait
<1>8. CASE ~consume_failed_msgs[p]
  <2>1. lost' /\ totalT'[p] = totalT[p] BY <1>8 DEF InsertFail, ConsumeFailed
  <2>2. a = KeptAt(p, totalT'[p], t, s, c) /\ e = InboxAt(totalT'[p], t, s, c) BY <1>4, <2>1
  <2>3. PICK b2, f2 : /\ b2 = WireAt(p, totalT'[p], phase'[p], cur'[p], insert'[p], t, s, c)
                      /\ f2 = PhaseAt(totalT'[p], phase'[p], cur'[p], insert'[p], t)
    OBVIOUS
  <2>4. b2 = 0 \/ b2 = b BY <1>2, <1>4, <1>6, <1>7, <2>1, <2>3 DEF WireAt
  <2>5. b \in Nat
    <3>1. PeerOK(G, p, totalT[p], phase[p], cur[p], txseq[p], gossipdone[p], insert[p]) BY DEF Shape, Here
    <3> QED BY <1>4, <3>1, PlaceNat
  <2>6. g \in Nat
    <3>1. gsock[p] \in SUBSET Msg(G) BY <1>d
    <3> QED BY <1>4, <3>1, MsgMassNat
  <2>7. Moved(p, p, t, s, c, a, b, e, g, f, a, b2, e, g, f2) BY <1>4, <1>5, <2>2, <2>3, StepAt
  <2>8. b2 <= b /\ g <= g BY <2>4, <2>5, <2>6
  <2> QED BY <2>1, <2>7, <2>8, LossStep
<1>9. CASE consume_failed_msgs[p]
  <2>1. totalT' = [totalT EXCEPT ![p][cur[p]][1] = multiplyfreq(@)] BY <1>9 DEF InsertFail, ConsumeFailed
  <2>2. PICK L : L = multiplyfreq(Ts[1]) OBVIOUS
  <2>3. PICK Us : Us = [Ts EXCEPT ![1] = L] OBVIOUS
  <2>4. PICK T2 : T2 = [T EXCEPT ![u] = Us] OBVIOUS
  <2>5. totalT' = [totalT EXCEPT ![p] = T2] BY <1>6, <2>1, <2>2, <2>3, <2>4
  <2>6. totalT'[p] = T2 BY <1>d, <2>5 DEF Domains
  <2>7. DOMAIN T2 = TeamsOf(p) /\ T2[u] = Us /\ \A x \in TeamsOf(p) : x # u => T2[x] = T[x] BY <1>3, <1>6, <2>4
  <2>8. CASE t # u
    <3>1. KeptAt(p, T2, t, s, c) = a /\ InboxAt(T2, t, s, c) = e BY <1>3, <1>4, <1>6, <2>7, <2>8 DEF KeptAt, InboxAt
    <3>2. PendingAt(T2, "group", cur[p], {}, t) <=> PendingAt(T, phase[p], cur[p], insert[p], t)
      <4>1. PendingAt(T2, "group", cur[p], {}, t) <=> PendingAt(T, "group", cur[p], {}, t)
        BY <1>3, <1>6, <2>7 DEF PendingAt
      <4> QED BY <1>7, <2>8, <4>1
    <3>3. /\ b = WireAt(p, totalT'[p], phase'[p], cur'[p], insert'[p], t, s, c)
          /\ f = PhaseAt(totalT'[p], phase'[p], cur'[p], insert'[p], t)
      BY <1>2, <1>4, <1>6, <2>6, <3>1, <3>2 DEF WireAt, PhaseAt
    <3>4. Moved(p, p, t, s, c, a, b, e, g, f, a, b, e, g, f) BY <1>4, <1>5, <2>6, <3>1, <3>3, StepAt
    <3> QED BY <1>1, <3>4, StutterStep
  <2>9. CASE t = u
    <3>1. PICK S : S = G[u] OBVIOUS
    <3>2. Ts \in Seq(S) /\ Ts # <<>> /\ S \subseteq ListType /\ u \in Team BY <1>3, <1>6, <2>9, <3>1 DEF Family
    <3>3. Ts[1] \in S BY <3>2
    <3>4. L \in S BY <2>2, <3>1, <3>2, <3>3
    <3>5. Us[1] = L /\ Tail(Us) = Tail(Ts) BY <2>3, <3>2, <3>4, FirstList
    <3>6. a = At(Ts[1], s)[c] /\ e = SeqMass(Tail(Ts), s, c) BY <1>3, <1>4, <1>6, <2>9 DEF KeptAt, InboxAt
    <3>7. At(L, s)[c] = 2 * At(Ts[1], s)[c]
      <4>1. PICK L1 \in ListType : L1 = Ts[1] BY <3>2, <3>3
      <4>2. multiplyfreq(L1) \in ListType /\ L = multiplyfreq(L1) BY <2>2, <3>2, <3>4, <4>1
      <4>3. At(multiplyfreq(L1), s)[c] = 2 * At(L1, s)[c] BY <4>2, MultiplyMass
      <4> QED BY <4>1, <4>2, <4>3
    <3>8. PICK a2 : a2 = KeptAt(p, totalT'[p], t, s, c) OBVIOUS
    <3>9. a2 = At(Us[1], s)[c] /\ InboxAt(totalT'[p], t, s, c) = SeqMass(Tail(Us), s, c)
      BY <1>3, <1>6, <2>6, <2>7, <2>9, <3>8 DEF KeptAt, InboxAt
    <3>10. a2 = 2 * a /\ InboxAt(totalT'[p], t, s, c) = e BY <3>5, <3>6, <3>7, <3>9
    <3>11. b = a /\ f = "await" BY <1>4, <1>6, <1>7, <2>9 DEF WireAt, PhaseAt
    <3>12. ~PendingAt(T2, "group", cur[p], {}, t)
      <4>1. ~(t > t) BY XGossipAssumption DEF Team
      <4> QED BY <1>6, <2>9, <4>1 DEF PendingAt
    <3>13. /\ WireAt(p, totalT'[p], phase'[p], cur'[p], insert'[p], t, s, c) = 0
           /\ PhaseAt(totalT'[p], phase'[p], cur'[p], insert'[p], t) = "sleep"
      BY <1>2, <2>6, <3>12 DEF WireAt, PhaseAt
    <3>14. Moved(p, p, t, s, c, a, a, e, g, "await", a2, 0, e, g, "sleep")
      BY <1>4, <1>5, <3>8, <3>10, <3>11, <3>13, StepAt
    <3> QED BY <1>1, <3>10, <3>14, ConsumeStep
  <2> QED BY <2>8, <2>9
<1> QED BY <1>8, <1>9

\* A message that is read moves its mass to the lists to merge, or is lost.
LEMMA ReadMass ==
    ASSUME NEW G, NEW H, Family(G), Family(H), Shape(G), Shape(H)', Sockets, NEW p \in Peer, Only(p), ReadGossip(p),
           NEW t \in Team, NEW s \in Sig, NEW c \in {"f", "w"}
    PROVE  Step(t, s, c)
<1>d. Domains /\ gsock \in [Peer -> SUBSET Msg(G)] BY DEF Shape
<1>p. PeerOK(G, p, totalT[p], phase[p], cur[p], txseq[p], gossipdone[p], insert[p]) BY DEF Shape, Here
<1>1. PICK m \in gsock[p] :
          /\ gsock' = [gsock EXCEPT ![p] = @ \ {m}]
          /\ IF m.team \in DOMAIN totalT[p]
             THEN totalT' = [totalT EXCEPT ![p][m.team] = Append(@, m.list)] /\ UNCHANGED lost
             ELSE UNCHANGED totalT /\ lost' = TRUE
  BY DEF ReadGossip
<1>2. UNCHANGED <<phase, cur, gossipdone, insert>> BY DEF ReadGossip
<1>3. m \in Msg(G) /\ m.list \in G[m.team] /\ m.team \in Team /\ m.list \in ListType BY <1>d, <1>1 DEF Msg
<1>4. gsock'[p] = gsock[p] \ {m} /\ \A x \in Peer : x # p => gsock'[x] = gsock[x] BY <1>d, <1>1
<1>5. PICK M, A : M = gsock[p] \ {m} /\ A = gsock[p] OBVIOUS
<1>6. AddsTeam(A, M, m)
  <2>1. A = M \cup {m} BY <1>1, <1>5
  <2>2. \A x \in M : x.src # m.src \/ x.seq # m.seq \/ x.team # m.team BY <1>1, <1>5 DEF Sockets
  <2> QED BY <2>1, <2>2 DEF AddsTeam
<1>7. MsgMass(A, t, s, c) = MsgMass(M, t, s, c) + Worth(m, t, s, c)
  <2>1. PICK n \in Msg(G) : n = m BY <1>3
  <2>2. PICK S \in SUBSET Msg(G) : S = M BY <1>d, <1>5
  <2>3. AddsTeam(A, S, n) BY <1>6, <2>1, <2>2
  <2>4. MsgMass(A, t, s, c) = MsgMass(S, t, s, c) + Worth(n, t, s, c) BY <2>3, MsgMassAdd
  <2> QED BY <2>1, <2>2, <2>4
<1>8. PICK a, b, e, g, g2, f :
          /\ a = KeptAt(p, totalT[p], t, s, c)
          /\ b = WireAt(p, totalT[p], phase[p], cur[p], insert[p], t, s, c)
          /\ e = InboxAt(totalT[p], t, s, c) /\ g = MsgMass(gsock[p], t, s, c) /\ g2 = MsgMass(gsock'[p], t, s, c)
          /\ f = PhaseAt(totalT[p], phase[p], cur[p], insert[p], t)
  OBVIOUS
<1>9. PICK d \in Nat : d = Worth(m, t, s, c) BY <1>3, EntryParts DEF Worth
<1>10. g = g2 + d /\ g2 \in Nat
  <2>1. M \in SUBSET Msg(G) BY <1>d, <1>5
  <2>2. MsgMass(M, t, s, c) \in Nat BY <2>1, MsgMassNat
  <2> QED BY <1>4, <1>5, <1>7, <1>8, <1>9, <2>2
<1>11. CASE m.team \notin DOMAIN totalT[p]
  <2>1. UNCHANGED totalT /\ lost' BY <1>1, <1>11
  <2>2. /\ a = KeptAt(p, totalT'[p], t, s, c) /\ e = InboxAt(totalT'[p], t, s, c)
        /\ b = WireAt(p, totalT'[p], phase'[p], cur'[p], insert'[p], t, s, c)
        /\ f = PhaseAt(totalT'[p], phase'[p], cur'[p], insert'[p], t)
    BY <1>2, <1>8, <2>1
  <2>3. Moved(p, p, t, s, c, a, b, e, g, f, a, b, e, g2, f) BY <1>4, <1>8, <2>2, StepAt
  <2>4. b \in Nat BY <1>p, <1>8, PlaceNat
  <2>5. b <= b /\ g2 <= g BY <1>10, <2>4
  <2> QED BY <2>1, <2>3, <2>5, LossStep
<1>12. CASE m.team \in DOMAIN totalT[p]
  <2>1. PICK u, T, S, L : u = m.team /\ T = totalT[p] /\ S = G[u] /\ L = m.list OBVIOUS
  <2>2. PICK Ts : Ts = T[u] OBVIOUS
  <2>3. PICK Us : Us = Append(Ts, L) OBVIOUS
  <2>4. PICK T2 : T2 = [T EXCEPT ![u] = Us] OBVIOUS
  <2>5. totalT' = [totalT EXCEPT ![p] = T2] BY <1>1, <1>12, <2>1, <2>2, <2>3, <2>4
  <2>6. totalT'[p] = T2 BY <1>d, <2>5 DEF Domains
  <2>7. DOMAIN T2 = DOMAIN T /\ T2[u] = Us /\ \A x \in DOMAIN T : x # u => T2[x] = T[x] BY <1>12, <2>1, <2>4
  <2>8. Ts \in Seq(S) /\ Ts # <<>> /\ L \in S /\ S \subseteq ListType
    <3>1. Ts \in Seq(S) /\ Ts # <<>> BY <1>p, <1>12, <2>1, <2>2 DEF PeerOK
    <3> QED BY <1>3, <2>1, <3>1 DEF Family
  <2>9. Us[1] = Ts[1] /\ Tail(Us) = Append(Tail(Ts), L) BY <2>3, <2>8, OneMore
  <2>10. KeptAt(p, T2, t, s, c) = a
    <3>1. CASE t = u BY <1>8, <1>12, <2>1, <2>2, <2>7, <2>9, <3>1 DEF KeptAt
    <3>2. CASE t # u BY <1>8, <2>1, <2>7, <3>2 DEF KeptAt
    <3> QED BY <3>1, <3>2
  <2>11. PendingAt(T2, phase[p], cur[p], insert[p], t) <=> PendingAt(T, phase[p], cur[p], insert[p], t)
    BY <2>7 DEF PendingAt
  <2>12. /\ b = WireAt(p, totalT'[p], phase'[p], cur'[p], insert'[p], t, s, c)
         /\ f = PhaseAt(totalT'[p], phase'[p], cur'[p], insert'[p], t)
    BY <1>2, <1>8, <2>1, <2>6, <2>10, <2>11 DEF WireAt, PhaseAt
  <2>13. PICK e2 : e2 = InboxAt(totalT'[p], t, s, c) OBVIOUS
  <2>14. e2 = e + d
    <3>1. CASE t = u
      <4>1. e = SeqMass(Tail(Ts), s, c) /\ e2 = SeqMass(Append(Tail(Ts), L), s, c)
        BY <1>8, <1>12, <2>1, <2>2, <2>6, <2>7, <2>9, <2>13, <3>1 DEF InboxAt
      <4>2. Ts \in Seq(ListType) BY <2>8, SeqLarger
      <4>3. Tail(Ts) \in Seq(ListType) /\ L \in ListType BY <2>8, <4>2
      <4>4. SeqMass(Append(Tail(Ts), L), s, c) = SeqMass(Tail(Ts), s, c) + At(L, s)[c] BY <4>3, SeqMassAppend
      <4>5. d = At(L, s)[c] BY <1>9, <2>1, <3>1 DEF Worth
      <4> QED BY <4>1, <4>4, <4>5
    <3>2. CASE t # u
      <4>1. e2 = e BY <1>8, <2>1, <2>6, <2>7, <2>13, <3>2 DEF InboxAt
      <4>2. d = 0 BY <1>9, <2>1, <3>2 DEF Worth
      <4>3. e \in Nat BY <1>p, <1>8, PlaceNat
      <4> QED BY <4>1, <4>2, <4>3
    <3> QED BY <3>1, <3>2
  <2>15. Moved(p, p, t, s, c, a, b, e, g, f, a, b, e2, g2, f)
    BY <1>4, <1>8, <2>6, <2>10, <2>12, <2>13, StepAt
  <2> QED BY <1>2, <1>10, <2>14, <2>15, ReadStep
<1> QED BY <1>11, <1>12

\* A step that changes nothing.
LEMMA StillMass ==
    ASSUME NEW G, NEW H, Family(G), Family(H), Shape(G), Shape(H)', UNCHANGED vars,
           NEW t \in Team, NEW s \in Sig, NEW c \in {"f", "w"}
    PROVE  Step(t, s, c)
<1>1. PICK p : p = 1 OBVIOUS
<1>2. p \in Peer BY <1>1, XGossipAssumption DEF Peer
<1>3. /\ totalT' = totalT /\ phase' = phase /\ cur' = cur /\ txseq' = txseq /\ gossipdone' = gossipdone
      /\ insert' = insert /\ gsock' = gsock
  BY DEF vars
<1>4. Only(p)
  <2>1. Domains' BY DEF Shape
  <2> QED BY <1>3, <2>1 DEF Only
<1>5. PICK a, b, e, g, f :
          /\ a = KeptAt(p, totalT[p], t, s, c)
          /\ b = WireAt(p, totalT[p], phase[p], cur[p], insert[p], t, s, c)
          /\ e = InboxAt(totalT[p], t, s, c) /\ g = MsgMass(gsock[p], t, s, c)
          /\ f = PhaseAt(totalT[p], phase[p], cur[p], insert[p], t)
  OBVIOUS
<1>6. /\ a = KeptAt(p, totalT'[p], t, s, c)
      /\ b = WireAt(p, totalT'[p], phase'[p], cur'[p], insert'[p], t, s, c)
      /\ e = InboxAt(totalT'[p], t, s, c) /\ g = MsgMass(gsock'[p], t, s, c)
      /\ f = PhaseAt(totalT'[p], phase'[p], cur'[p], insert'[p], t)
  BY <1>3, <1>5
<1>7. \A x \in Peer : x # p => gsock'[x] = gsock[x] BY <1>3
<1>8. Moved(p, p, t, s, c, a, b, e, g, f, a, b, e, g, f) BY <1>2, <1>4, <1>5, <1>6, <1>7, StepAt
<1> QED BY <1>2, <1>3, <1>8, StutterStep

-------------------------------------------------------------------------------
(* Mass: the theorems.                                                        *)

\* Gossip that is lost stays lost, and a peer that is done stays done.
LEMMA Forever ==
    ASSUME Domains, [Prompt]_vars
    PROVE  (lost => lost') /\ \A p \in Peer : gossipdone[p] => gossipdone'[p]
<1>1. ASSUME NEW p \in Peer, LoadState(p) PROVE UNCHANGED <<lost, gossipdone>> BY <1>1 DEF LoadState
<1>2. ASSUME NEW p \in Peer, EndRound(p) PROVE lost => lost' BY <1>2 DEF EndRound
<1>3. ASSUME NEW p \in Peer, GossipRound(p) PROVE (lost => lost') /\ UNCHANGED gossipdone
  BY <1>2, <1>3 DEF GossipRound
<1>4. ASSUME NEW p \in Peer, GroupWake(p) PROVE (lost => lost') /\ UNCHANGED gossipdone
  BY <1>2, <1>4 DEF GroupWake
<1>5. ASSUME NEW p \in Peer, QuietRound(p)
      PROVE  UNCHANGED lost /\ \A x \in Peer : gossipdone[x] => gossipdone'[x]
  BY <1>5 DEF QuietRound, Domains
<1>6. ASSUME NEW p \in Peer, InsertOK(p) PROVE UNCHANGED <<lost, gossipdone>> BY <1>6 DEF InsertOK
<1>7. ASSUME NEW p \in Peer, InsertFail(p) PROVE (lost => lost') /\ UNCHANGED gossipdone
  BY <1>7 DEF InsertFail, ConsumeFailed
<1>8. ASSUME NEW p \in Peer, ReadGossip(p) PROVE (lost => lost') /\ UNCHANGED gossipdone BY <1>8 DEF ReadGossip
<1>9. CASE UNCHANGED vars BY <1>9 DEF vars
<1> QED BY <1>1, <1>3, <1>4, <1>5, <1>6, <1>7, <1>8, <1>9 DEF Prompt

\* What every such step is to every team.
LEMMA StepMass ==
    ASSUME NEW half \in [0..(N * rounds) -> Nat], Halves(half, N * rounds), NEW lo, NEW hi, Bounds(lo, hi),
           Inv(half, lo, hi), Inv(half, lo, hi)', Sockets, [Prompt]_vars,
           NEW t \in Team, NEW s \in Sig, NEW c \in {"f", "w"}
    PROVE  Step(t, s, c)
<1>1. PICK k, j : k = MergesLeft /\ j = MergesLeft' OBVIOUS
<1>2. k \in 0..(N * rounds) /\ j \in 0..(N * rounds) /\ N * rounds \in Nat BY <1>1, XGossipAssumption DEF Inv
<1>3. PICK h, g : h = half[k] /\ g = half[j] OBVIOUS
<1>4. h \in Nat /\ g \in Nat BY <1>2, <1>3
<1>5. PICK G, H : G = GoodLists(h, lo, hi) /\ H = GoodLists(g, lo, hi) OBVIOUS
<1>6. Shape(G) /\ Domains BY <1>1, <1>3, <1>5 DEF Inv, Shape
<1>7. Shape(H)' BY <1>1, <1>3, <1>5 DEF Inv
<1>8. Family(G) /\ \A u \in Team : \A T \in G[u] : multiplyfreq(T) \in G[u] BY <1>4, <1>5, GoodFamily
<1>9. Family(H) BY <1>4, <1>5, GoodFamily
<1>10. ASSUME NEW p \in Peer, LoadState(p) PROVE Step(t, s, c)
  <2>1. Only(p) BY <1>6, <1>10, OnlyOne
  <2> QED BY <1>6, <1>7, <1>8, <1>9, <1>10, <2>1, LoadMass
<1>11. ASSUME NEW p \in Peer, GossipRound(p) PROVE Step(t, s, c)
  <2>1. Only(p) BY <1>6, <1>11, OnlyOne
  <2>2. j = k - 1 BY <1>1, <1>6, <1>11, <2>1, GossipLeft
  <2>3. k \in 1..(N * rounds) BY <1>2, <2>2
  <2>4. h = 2 * g BY <1>3, <2>2, <2>3 DEF Halves
  <2>5. \A u \in Team : \A Ts \in Seq(G[u]) : Ts # <<>> =>
            \E L \in H[u] : /\ mergelists(Ts) = <<L>>
                            /\ \A x \in Sig : \A y \in {"f", "w"} : SeqMass(Ts, x, y) = 2 * At(L, x)[y]
    BY <1>4, <1>5, <2>4, GoodMerge
  <2>6. \A Ts \in Seq(G[t]) : Ts # <<>> =>
            \E L \in H[t] : mergelists(Ts) = <<L>> /\ SeqMass(Ts, s, c) = 2 * At(L, s)[c]
    BY <2>5
  <2> QED BY <1>6, <1>7, <1>8, <1>9, <1>11, <2>1, <2>6, RoundMass
<1>12. ASSUME NEW p \in Peer, QuietRound(p) PROVE Step(t, s, c)
  <2>1. Only(p) BY <1>6, <1>12, OnlyOne
  <2> QED BY <1>6, <1>7, <1>8, <1>9, <1>12, <2>1, QuietMass
<1>13. ASSUME NEW p \in Peer, GroupWake(p) PROVE Step(t, s, c)
  <2>1. Only(p) BY <1>6, <1>13, OnlyOne
  <2> QED BY <1>6, <1>7, <1>8, <1>9, <1>13, <2>1, WakeMass
<1>14. ASSUME NEW p \in Peer, InsertOK(p) PROVE Step(t, s, c)
  <2>1. Only(p) BY <1>6, <1>14, OnlyOne
  <2> QED BY <1>6, <1>7, <1>8, <1>9, <1>14, <2>1, OKMass
<1>15. ASSUME NEW p \in Peer, InsertFail(p) PROVE Step(t, s, c)
  <2>1. Only(p) BY <1>6, <1>15, OnlyOne
  <2> QED BY <1>6, <1>7, <1>8, <1>9, <1>15, <2>1, FailMass
<1>16. ASSUME NEW p \in Peer, ReadGossip(p) PROVE Step(t, s, c)
  <2>1. Only(p) BY <1>6, <1>16, OnlyOne
  <2> QED BY <1>6, <1>7, <1>8, <1>9, <1>16, <2>1, ReadMass
<1>17. CASE UNCHANGED vars BY <1>6, <1>7, <1>8, <1>9, <1>17, StillMass
<1> QED BY <1>10, <1>11, <1>12, <1>13, <1>14, <1>15, <1>16, <1>17 DEF Prompt

\* The inductive invariant of the mass, up to the first fault.
MassInv(half, lo, hi) ==
    /\ Inv(half, lo, hi)
    /\ faults = 0 => stores = {} /\ Sockets
    /\ MassConserved

\* What the peers of a team begin with.
LEMMA StartNat ==
    ASSUME NEW t \in Team, NEW s \in Sig, NEW c \in {"f", "w"}
    PROVE  /\ StartMass(t, s, c) \in [Peer -> Nat]
           /\ SumTo(N, StartMass(t, s, c)) \in Nat
<1>1. PICK st : st = StartMass(t, s, c) OBVIOUS
<1>2. ASSUME NEW p \in Peer PROVE (IF p \in Members(t) THEN At(loadinitstate(p, t), s)[c] ELSE 0) \in Nat
  <2>1. CASE p \in Members(t)
    <3>1. t \in TeamsOf(p) BY <2>1 DEF TeamsOf
    <3>2. At(loadinitstate(p, t), s)[c] \in Nat BY <3>1, LoadedMass
    <3> QED BY <2>1, <3>2
  <2> QED BY <2>1
<1>3. st \in [Peer -> Nat] BY <1>1, <1>2 DEF StartMass
<1>4. N \in Nat /\ \A i \in 1..N : st[i] \in Nat BY <1>3, XGossipAssumption DEF Peer
<1>5. SumTo(N, st) \in Nat BY <1>4, SumNat
<1> QED BY <1>1, <1>3, <1>5

\* Initially a team's mass is all kept, or still in its members' logs.
LEMMA InitPlaces ==
    ASSUME Init, NEW t \in Team, NEW s \in Sig, NEW c \in {"f", "w"}
    PROVE  /\ Kept(t, s, c) = StartMass(t, s, c)
           /\ Wire(t, s, c) = [p \in Peer |-> 0] /\ Sock(t, s, c) = [p \in Peer |-> 0]
           /\ Inbox(t, s, c) = [p \in Peer |-> 0] /\ Phase(t) = [p \in Peer |-> "sleep"]
<1>1. ASSUME NEW p \in Peer
      PROVE  /\ ~Pending(p, t) /\ gsock[p] = {}
             /\ Holds(p, t) => p \in Members(t) /\ totalT[p][t] = <<loadinitstate(p, t)>>
  <2>1. phase[p] \in {"load", "sleep"} /\ gsock[p] = {} BY DEF Init
  <2>2. ~Pending(p, t) BY <2>1 DEF Pending
  <2>3. ASSUME Holds(p, t) PROVE p \in Members(t) /\ totalT[p][t] = <<loadinitstate(p, t)>>
    <3>1. totalT[p] = IF p \in LateLoad THEN <<>> ELSE InitState(p) BY DEF Init
    <3>2. CASE p \in LateLoad
      <4>1. DOMAIN totalT[p] = {} BY <3>1, <3>2
      <4> QED BY <2>3, <4>1 DEF Holds
    <3>3. CASE p \notin LateLoad BY <2>3, <3>1, <3>3 DEF Holds, InitState, TeamsOf
    <3> QED BY <3>2, <3>3
  <2> QED BY <2>1, <2>2, <2>3
<1>2. ASSUME NEW p \in Peer, Holds(p, t)
      PROVE  totalT[p][t][1] = loadinitstate(p, t) /\ SeqMass(Tail(totalT[p][t]), s, c) = 0
  <2>1. PICK T : T = loadinitstate(p, t) OBVIOUS
  <2>2. <<T>>[1] = T /\ Tail(<<T>>) = <<>> OBVIOUS
  <2> QED BY <1>1, <1>2, <2>1, <2>2, SeqMassEmpty
<1>3. Kept(t, s, c) = StartMass(t, s, c) BY <1>1, <1>2 DEF Kept, StartMass
<1>4. Wire(t, s, c) = [p \in Peer |-> 0] BY <1>1 DEF Wire
<1>5. Sock(t, s, c) = [p \in Peer |-> 0] BY <1>1, MsgMassEmpty DEF Sock
<1>6. Inbox(t, s, c) = [p \in Peer |-> 0] BY <1>2 DEF Inbox
<1>7. Phase(t) = [p \in Peer |-> "sleep"] BY <1>1 DEF Phase
<1> QED BY <1>3, <1>4, <1>5, <1>6, <1>7

LEMMA InitMass ==
    ASSUME NEW half \in [0..(N * rounds) -> Nat], Halves(half, N * rounds), NEW lo, NEW hi, Bounds(lo, hi), Init
    PROVE  MassInv(half, lo, hi)
<1>1. Inv(half, lo, hi) BY InitInv
<1>2. Sockets /\ stores = {} BY DEF Init, Sockets
<1>3. ASSUME NEW t \in Team, NEW s \in Sig, NEW c \in {"f", "w"}
      PROVE  /\ TotalMass(t, s, c) = SumTo(N, StartMass(t, s, c))
             /\ TotalMass(t, s, c) <= SumTo(N, StartMass(t, s, c))
  <2>1. PICK z : z = [p \in Peer |-> 0] OBVIOUS
  <2>2. N \in Nat /\ \A i \in 1..N : z[i] = 0 BY <2>1, XGossipAssumption DEF Peer
  <2>3. SumTo(N, z) = 0 BY <2>2, SumZero
  <2>4. Kept(t, s, c) = StartMass(t, s, c) /\ Wire(t, s, c) = z /\ Sock(t, s, c) = z /\ Inbox(t, s, c) = z
    BY <2>1, InitPlaces
  <2>5. PICK n \in Nat : n = SumTo(N, StartMass(t, s, c)) BY StartNat
  <2>6. TotalMass(t, s, c) = n + 0 + 0 + 0 BY <2>3, <2>4, <2>5 DEF TotalMass
  <2> QED BY <2>5, <2>6
<1>4. MassConserved BY <1>3 DEF MassConserved
<1> QED BY <1>1, <1>2, <1>4 DEF MassInv

\* No step up to the first fault creates mass, and none loses any while nothing
\* is lost or dropped.
LEMMA NextMass ==
    ASSUME NEW half \in [0..(N * rounds) -> Nat], Halves(half, N * rounds), NEW lo, NEW hi, Bounds(lo, hi),
           MassInv(half, lo, hi), [Next]_vars
    PROVE  /\ MassInv(half, lo, hi)'
           /\ faults' = 0 => \A t \in Team, s \in Sig, c \in {"f", "w"} : Step(t, s, c)
<1>1. Inv(half, lo, hi) /\ (faults = 0 => stores = {} /\ Sockets) /\ MassConserved BY DEF MassInv
<1>2. Inv(half, lo, hi)' BY <1>1, NextInv
<1>3. CASE faults' # 0
  <2>1. MassConserved' BY <1>3 DEF MassConserved
  <2> QED BY <1>2, <1>3, <2>1 DEF MassInv
<1>4. CASE faults' = 0
  <2>1. PICK G : G = GoodLists(half[MergesLeft], lo, hi) OBVIOUS
  <2>2. Shape(G) /\ Domains BY <1>1, <2>1 DEF Inv, Shape
  <2>3. Family(G)
    <3>1. MergesLeft \in 0..(N * rounds) BY <1>1 DEF Inv
    <3>2. PICK h \in Nat : h = half[MergesLeft] BY <3>1
    <3> QED BY <2>1, <3>2, GoodFamily
  <2>4. faults \in 0..MaxFaults BY <1>1 DEF Inv, StoresOK
  <2>5. faults = 0 /\ stores' = {} /\ [Prompt]_vars BY <1>1, <1>4, <2>4, PromptStep
  <2>6. Sockets BY <1>1, <2>5
  <2>7. Sockets' BY <2>2, <2>3, <2>5, <2>6, SocketsStep
  <2>8. \A t \in Team, s \in Sig, c \in {"f", "w"} : Step(t, s, c) BY <1>1, <1>2, <2>5, <2>6, StepMass
  <2>9. (lost => lost') /\ \A p \in Peer : gossipdone[p] => gossipdone'[p] BY <2>2, <2>5, Forever
  <2>10. ASSUME NEW t \in Team, NEW s \in Sig, NEW c \in {"f", "w"}
         PROVE  /\ TotalMass(t, s, c)' <= SumTo(N, StartMass(t, s, c))'
                /\ ~lost' /\ (\A p \in Peer : ~gossipdone'[p]) => TotalMass(t, s, c)' = SumTo(N, StartMass(t, s, c))'
    <3>1. PICK m, m2, n : m = TotalMass(t, s, c) /\ m2 = TotalMass(t, s, c)' /\ n = SumTo(N, StartMass(t, s, c)) OBVIOUS
    <3>2. SumTo(N, StartMass(t, s, c))' = n BY <3>1 DEF StartMass, loadinitstate, SumTo
    <3>3. m <= n /\ (~lost /\ (\A p \in Peer : ~gossipdone[p]) => m = n) BY <1>1, <2>5, <3>1 DEF MassConserved
    <3>4. /\ m \in Int /\ m2 \in Int /\ m2 <= m
          /\ ~lost' /\ (\A p \in Peer : ~gossipdone'[p]) => m2 = m
      BY <2>8, <3>1 DEF Step
    <3>5. n \in Nat BY <3>1, StartNat
    <3>6. m2 <= n BY <3>3, <3>4, <3>5
    <3> QED BY <2>9, <3>1, <3>2, <3>3, <3>4, <3>6
  <2>11. MassConserved' BY <2>10 DEF MassConserved
  <2> QED BY <1>2, <2>5, <2>7, <2>8, <2>11 DEF MassInv
<1> QED BY <1>3, <1>4

\* For any number of peers, teams, rounds and signatures: as long as the DHT has
\* copied no message to a successor and kept none on its way that it reported as
\* failed, the exec phase creates no mass within a team, and until gossip is lost
\* or a peer is done every team's frequencies and weights add up to what its members began with,
\* although a peer splits the lists of all its teams before it sends the first,
\* inserts fail, and peers load their teams late.
THEOREM TeamMassSafe == ASSUME ExactHalving PROVE Spec => []MassConserved
<1>1. PICK half \in [0..(N * rounds) -> Nat] : Halves(half, N * rounds) BY UnitsExist
<1>2. PICK lo, hi : Bounds(lo, hi) /\ Attained(lo, hi) BY BoundsExist
<1>3. Init => MassInv(half, lo, hi) BY <1>1, <1>2, InitMass
<1>4. MassInv(half, lo, hi) /\ [Next]_vars => MassInv(half, lo, hi)' BY <1>1, <1>2, NextMass
<1>5. MassInv(half, lo, hi) => MassConserved BY DEF MassInv
<1> QED BY <1>3, <1>4, <1>5, PTL DEF Spec

\* The initial state is one of push-sum, for every team.
LEMMA InitPushSum ==
    ASSUME Init, NEW t \in Team, NEW s \in Sig, NEW c \in {"f", "w"}
    PROVE  PS(t, s, c)!Init
<1>1. /\ Kept(t, s, c) = StartMass(t, s, c)
      /\ Wire(t, s, c) = [p \in Peer |-> 0] /\ Sock(t, s, c) = [p \in Peer |-> 0]
      /\ Inbox(t, s, c) = [p \in Peer |-> 0] /\ Phase(t) = [p \in Peer |-> "sleep"]
  BY InitPlaces
<1>2. gossipdone = [p \in Peer |-> FALSE] BY DEF Init
<1> QED BY <1>1, <1>2 DEF PS!Init, Peer, PS!Peer

\* For any number of peers, teams, rounds and signatures: what a step does to
\* one team is a step of push-sum, or nothing, up to the first gossip that is
\* lost, copied to a successor or delivered late.
THEOREM TeamPushSumImplemented == ASSUME ExactHalving PROVE Spec => ImplementsPushSum
<1>1. PICK half \in [0..(N * rounds) -> Nat] : Halves(half, N * rounds) BY UnitsExist
<1>2. PICK lo, hi : Bounds(lo, hi) /\ Attained(lo, hi) BY BoundsExist
<1>3. Init => MassInv(half, lo, hi) BY <1>1, <1>2, InitMass
<1>4. MassInv(half, lo, hi) /\ [Next]_vars => MassInv(half, lo, hi)' BY <1>1, <1>2, NextMass
<1>5. Init => \A t \in Team, s \in Sig, c \in {"f", "w"} : PS(t, s, c)!Init BY InitPushSum
<1>6. ASSUME MassInv(half, lo, hi), [Next]_vars, ~lost', faults' = 0,
             NEW t \in Team, NEW s \in Sig, NEW c \in {"f", "w"}
      PROVE  UNCHANGED PS(t, s, c)!vars \/ PS(t, s, c)!Next
  <2>1. Step(t, s, c) BY <1>1, <1>2, <1>6, NextMass
  <2> QED BY <1>6, <2>1 DEF Step
<1>7. MassInv(half, lo, hi) /\ [Next]_vars
        => [~lost' /\ faults' = 0 /\ vars' # vars => \A t \in Team, s \in Sig, c \in {"f", "w"} :
                UNCHANGED PS(t, s, c)!vars \/ PS(t, s, c)!Next]_vars
  BY <1>6
<1> QED BY <1>3, <1>4, <1>5, <1>7, PTL DEF Spec, ImplementsPushSum

-------------------------------------------------------------------------------
(* The init phase: what it hands to the exec phase, for any peers, teams and  *)
(* signatures, and any order and loss of its messages.                        *)

\* A list fit for the exec phase, and the frequency of x in a list.
Fit(L) == IsList(L) /\ (\A s \in DOMAIN L : L[s].w = Unit) /\ L[Dummy].f = 0
FreqIn(L, x) == IF x \in DOMAIN L THEN L[x].f ELSE 0

\* Whatever arrives, the list is fit, and has gained just that.
LEMMA ReceivedFit ==
    ASSUME ListAssumption, NEW L, L = NewList \/ Fit(L),
           NEW s \in Sig \cup {Dummy}, NEW f \in Nat, s = Dummy => f = 0
    PROVE  /\ Fit(received(L, s, f))
           /\ \A x \in Sig : FreqIn(received(L, s, f), x) = FreqIn(L, x) + (IF x = s THEN f ELSE 0)
<1> DEFINE R == received(L, s, f)
<1>1. Dummy \notin Sig /\ Dummy \notin Holders /\ Holders \cap Sig = {} /\ Unit \in Nat BY ListAssumption
<1>2. /\ Holders \subseteq DOMAIN L /\ DOMAIN L \subseteq {Dummy} \cup Holders \cup Sig
      /\ \A x \in DOMAIN L : L[x] \in [f : Nat, w : Nat] /\ L[x].w = Unit
      /\ Dummy \in DOMAIN L => L[Dummy].f = 0
  BY <1>1 DEF NewList, Fit, IsList
<1>3. [f |-> f, w |-> Unit] \in [f : Nat, w : Nat] /\ [f |-> 0, w |-> Unit] \in [f : Nat, w : Nat] BY <1>1
<1>4. \A x \in Sig : FreqIn(L, x) \in Nat BY <1>2 DEF FreqIn
<1>5. CASE s \in DOMAIN L /\ s = Dummy
  <2>1. R = L BY <1>5 DEF received
  <2>2. Fit(L) BY <1>1, <1>5 DEF NewList
  <2> HIDE DEF R
  <2>3. \A x \in Sig : x # s BY <1>1, <1>5
  <2>4. \A x \in Sig : FreqIn(L, x) + 0 = FreqIn(L, x) BY <1>4
  <2> QED BY <2>1, <2>2, <2>3, <2>4 DEF R
<1>6. CASE s \in DOMAIN L /\ s # Dummy
  <2> DEFINE e == [L[s] EXCEPT !.f = @ + f]
  <2>0. R = [L EXCEPT ![s].f = @ + f] BY <1>6 DEF received
  <2>1. R = [L EXCEPT ![s] = e] BY <2>0
  <2>2. s \in Sig BY <1>6
  <2>3. Fit(L) BY <1>1, <2>2, <1>6 DEF NewList
  <2>4. L[s] \in [f : Nat, w : Nat] /\ L[s].w = Unit BY <1>2, <1>6
  <2>5. e \in [f : Nat, w : Nat] /\ e.w = Unit /\ e.f = L[s].f + f BY <2>4
  <2> HIDE DEF e, R
  <2>6. DOMAIN R = DOMAIN L BY <2>1
  <2>6a. R[s] = e BY <1>6, <2>1
  <2>6b. ASSUME NEW x \in DOMAIN L, x # s PROVE R[x] = L[x] BY <2>1, <2>6b
  <2>7. Dummy \in DOMAIN L /\ R[Dummy] = L[Dummy] /\ L[Dummy].f = 0 BY <1>6, <2>3, <2>6b DEF Fit, IsList
  <2>8. \A x \in DOMAIN R : R[x] \in [f : Nat, w : Nat] /\ R[x].w = Unit BY <1>2, <2>5, <2>6, <2>6a, <2>6b
  <2>9. Fit(R) BY <1>2, <2>6, <2>7, <2>8 DEF Fit, IsList
  <2>10. ASSUME NEW x \in Sig PROVE FreqIn(R, x) = FreqIn(L, x) + (IF x = s THEN f ELSE 0)
    <3>1. CASE x = s BY <1>6, <2>5, <2>6, <2>6a, <3>1 DEF FreqIn
    <3>2. CASE x # s
      <4>1. FreqIn(R, x) = FreqIn(L, x) BY <2>6, <2>6b, <3>2 DEF FreqIn
      <4> QED BY <1>4, <3>2, <4>1
    <3> QED BY <3>1, <3>2
  <2> QED BY <2>9, <2>10 DEF R
<1>7. CASE s \notin DOMAIN L
  <2>1. DOMAIN R = DOMAIN L \cup {s, Dummy} /\ R[s] = [f |-> f, w |-> Unit]
        /\ (\A x \in DOMAIN L : x # s => R[x] = L[x])
        /\ R[Dummy].f = 0 /\ R[Dummy].w = Unit /\ R[Dummy] \in [f : Nat, w : Nat]
    <3>1. CASE Dummy \in DOMAIN L \cup {s}
      <4>1. R = With(L, s, f) BY <1>7, <3>1 DEF received
      <4> HIDE DEF R
      <4>2. DOMAIN R = DOMAIN L \cup {s, Dummy} BY <3>1, <4>1 DEF With
      <4>3. R[s] = [f |-> f, w |-> Unit] /\ \A x \in DOMAIN L : x # s => R[x] = L[x] BY <4>1 DEF With
      <4>4. CASE s = Dummy BY <1>3, <4>2, <4>3, <4>4
      <4>5. CASE s # Dummy
        <5>1. Dummy \in DOMAIN L BY <3>1, <4>5
        <5>2. R[Dummy] = L[Dummy] BY <4>3, <4>5, <5>1
        <5> QED BY <1>2, <4>2, <4>3, <5>1, <5>2
      <4> QED BY <4>4, <4>5
    <3>2. CASE Dummy \notin DOMAIN L \cup {s}
      <4> DEFINE V == With(L, s, f)
      <4>1. R = With(V, Dummy, 0) BY <1>7, <3>2 DEF received
      <4> HIDE DEF R
      <4>2. DOMAIN V = DOMAIN L \cup {s} /\ V[s] = [f |-> f, w |-> Unit]
            /\ \A x \in DOMAIN L : x # s => V[x] = L[x]
        BY DEF With
      <4> HIDE DEF V
      <4>3. DOMAIN R = DOMAIN V \cup {Dummy} /\ R[Dummy] = [f |-> 0, w |-> Unit]
            /\ \A x \in DOMAIN V : x # Dummy => R[x] = V[x]
        BY <4>1 DEF With
      <4>4. R[s] = V[s] /\ \A x \in DOMAIN L : x # Dummy => R[x] = V[x] BY <3>2, <4>2, <4>3
      <4>5. \A x \in DOMAIN L : x # s => R[x] = L[x] BY <3>2, <4>2, <4>4
      <4>6. DOMAIN R = DOMAIN L \cup {s, Dummy} BY <4>2, <4>3
      <4>7. R[s] = [f |-> f, w |-> Unit] BY <4>2, <4>4
      <4>8. R[Dummy].f = 0 /\ R[Dummy].w = Unit /\ R[Dummy] \in [f : Nat, w : Nat] BY <1>3, <4>3
      <4> QED BY <4>5, <4>6, <4>7, <4>8
    <3> QED BY <3>1, <3>2
  <2> HIDE DEF R
  <2>2. \A x \in DOMAIN R : R[x] \in [f : Nat, w : Nat] /\ R[x].w = Unit
    <3> TAKE x \in DOMAIN R
    <3>1. CASE x = Dummy BY <2>1, <3>1
    <3>2. CASE x = s BY <1>3, <2>1, <3>2
    <3>3. CASE x \in DOMAIN L /\ x # s BY <1>2, <2>1, <3>3
    <3> QED BY <2>1, <3>1, <3>2, <3>3
  <2>3. Fit(R) BY <1>2, <2>1, <2>2 DEF Fit, IsList
  <2>4. ASSUME NEW x \in Sig PROVE FreqIn(R, x) = FreqIn(L, x) + (IF x = s THEN f ELSE 0)
    <3>0. x # Dummy BY <1>1
    <3>1. CASE x = s
      <4>1. FreqIn(L, x) = 0 /\ FreqIn(R, x) = f BY <1>7, <2>1, <3>1 DEF FreqIn
      <4> QED BY <3>1, <4>1
    <3>2. CASE x # s
      <4>1. x \in DOMAIN R <=> x \in DOMAIN L BY <2>1, <3>0, <3>2
      <4>2. FreqIn(R, x) = FreqIn(L, x) BY <2>1, <3>2, <4>1 DEF FreqIn
      <4> QED BY <1>4, <3>2, <4>2
    <3> QED BY <3>1, <3>2
  <2> QED BY <2>3, <2>4 DEF R
<1> QED BY <1>5, <1>6, <1>7

\* The list before any message has no frequency.
LEMMA NewListEmpty == ASSUME ListAssumption, NEW x \in Sig PROVE FreqIn(NewList, x) = 0
BY ListAssumption DEF FreqIn, NewList

-------------------------------------------------------------------------------
(* Sums over the messages of all peers.                                       *)

Twice(S, h) == SumTo(Len(Todo), [p \in InitPeer |-> SumTo(S[p], [i \in 1..S[p] |-> h[p][i]])])

\* One more entry at q: g and S1 after it, h and S before.
Grows(S, S1, h, g, q) ==
    /\ S1[q] = S[q] + 1 /\ \A p \in InitPeer : p # q => S1[p] = S[p]
    /\ \A p \in InitPeer : \A i \in 1..S[p] : h[p][i] \in Nat /\ g[p][i] = h[p][i]
    /\ g[q][S[q] + 1] \in Nat

LEMMA TwiceGrow ==
    ASSUME Len(Todo) \in Nat, NEW S \in [InitPeer -> Nat], NEW S1, NEW h, NEW g, NEW q \in InitPeer,
           Grows(S, S1, h, g, q)
    PROVE  Twice(S1, g) = Twice(S, h) + g[q][S[q] + 1] /\ Twice(S, h) \in Nat
<1> USE DEF Grows
<1> DEFINE np == Len(Todo)
           A == [p \in InitPeer |-> SumTo(S[p], [i \in 1..S[p] |-> h[p][i]])]
           B == [p \in InitPeer |-> SumTo(S1[p], [i \in 1..S1[p] |-> g[p][i]])]
           n == S[q]
           u == [i \in 1..n |-> h[q][i]]
           v == [i \in 1..(n + 1) |-> g[q][i]]
<1>1. n \in Nat /\ \A p \in InitPeer : p # q => S1[p] = S[p] OBVIOUS
<1>1a. S1[q] = n + 1 OBVIOUS
<1>2. \A p \in InitPeer : p # q => B[p] = A[p]
  <2> TAKE p \in InitPeer
  <2> HAVE p # q
  <2>1. [i \in 1..S[p] |-> g[p][i]] = [i \in 1..S[p] |-> h[p][i]] OBVIOUS
  <2> QED BY <1>1, <2>1
<1>3. A[q] = SumTo(n, u) /\ B[q] = SumTo(n + 1, v) BY <1>1a
<1>4. \A p \in InitPeer : A[p] \in Nat
  <2> TAKE p \in InitPeer
  <2> DEFINE a == [i \in 1..S[p] |-> h[p][i]]
  <2>1. S[p] \in Nat /\ \A i \in 1..S[p] : a[i] \in Nat OBVIOUS
  <2>2. A[p] = SumTo(S[p], a) OBVIOUS
  <2> HIDE DEF a, A
  <2>3. SumTo(S[p], a) \in Nat BY <2>1, SumNat
  <2> QED BY <2>2, <2>3
<1>5. (\A i \in 1..(n + 1) : v[i] \in Int) /\ v[n + 1] = g[q][n + 1]
  <2>1. n + 1 \in 1..(n + 1) BY <1>1
  <2>2. \A i \in 1..(n + 1) : i \in 1..n \/ i = n + 1 BY <1>1
  <2>3. \A i \in 1..n : g[q][i] \in Nat OBVIOUS
  <2> QED BY <2>1, <2>2, <2>3
<1>6. \A i \in 1..n : u[i] \in Int /\ v[i] = u[i]
  <2> TAKE i \in 1..n
  <2>1. i \in 1..(n + 1) BY <1>1
  <2> QED BY <2>1
<1> HIDE DEF u, v, n, A
<1>7. SumTo(n + 1, v) = SumTo(n, v) + v[n + 1] /\ SumTo(n, v) = SumTo(n, u) /\ SumTo(n, u) \in Int
  <2>1. SumTo(n + 1, v) = SumTo(n, v) + v[n + 1]
    <3>1. n + 1 \in Nat \ {0} /\ (n + 1) - 1 = n BY <1>1
    <3> QED BY <1>1, <1>5, <3>1, SumLast
  <2>2. SumTo(n, v) = SumTo(n, u) BY <1>1, <1>6, SumEqual
  <2>3. SumTo(n, u) \in Int BY <1>1, <1>6, SumType
  <2> QED BY <2>1, <2>2, <2>3
<1>8. B[q] = A[q] + g[q][n + 1] /\ g[q][n + 1] \in Nat BY <1>3, <1>5, <1>7 DEF n
<1>9. \A p \in InitPeer : B[p] \in Int /\ A[p] \in Int
  <2>0. A[q] \in Nat BY <1>4
  <2>1. B[q] \in Int BY <1>8, <2>0
  <2>2. \A p \in InitPeer : A[p] \in Int BY <1>4
  <2> HIDE DEF B
  <2> QED BY <1>2, <2>1, <2>2
<1> HIDE DEF B
<1>10. SumTo(np, B) = SumTo(np, A) + (B[q] - A[q]) 
  <2>1. np \in Nat /\ InitPeer = 1..np BY DEF InitPeer
  <2>3. q \in 1..np /\ (\A p \in 1..np : p # q => B[p] = A[p])
        /\ \A p \in 1..np : A[p] \in Int /\ B[p] \in Int
    BY <1>2, <1>9, <2>1
  <2> HIDE DEF np
  <2> QED BY ONLY <2>1, <2>3, SumPoint
<1>11. SumTo(np, A) \in Nat BY <1>4, SumNat DEF InitPeer
<1>12. B[q] - A[q] = g[q][n + 1] BY <1>4, <1>8
<1> QED BY <1>8, <1>10, <1>11, <1>12 DEF Twice, A, B, n

\* One entry changes, from h to g.
Differs(S, h, g, q, j) ==
    /\ \A p \in InitPeer : \A i \in 1..S[p] : h[p][i] \in Nat /\ g[p][i] \in Nat
    /\ \A p \in InitPeer : \A i \in 1..S[p] : (p = q /\ i = j) \/ g[p][i] = h[p][i]

LEMMA TwicePoint ==
    ASSUME Len(Todo) \in Nat, NEW S \in [InitPeer -> Nat], NEW h, NEW g,
           NEW q \in InitPeer, NEW j \in 1..S[q], Differs(S, h, g, q, j)
    PROVE  /\ Twice(S, g) = Twice(S, h) + (g[q][j] - h[q][j])
           /\ Twice(S, h) \in Nat /\ Twice(S, g) \in Nat
<1> USE DEF Differs
<1> DEFINE np == Len(Todo)
           A == [p \in InitPeer |-> SumTo(S[p], [i \in 1..S[p] |-> h[p][i]])]
           B == [p \in InitPeer |-> SumTo(S[p], [i \in 1..S[p] |-> g[p][i]])]
           u == [i \in 1..S[q] |-> h[q][i]]
           v == [i \in 1..S[q] |-> g[q][i]]
<1>1. \A p \in InitPeer : p # q => B[p] = A[p]
  <2> TAKE p \in InitPeer
  <2> HAVE p # q
  <2>1. [i \in 1..S[p] |-> g[p][i]] = [i \in 1..S[p] |-> h[p][i]] OBVIOUS
  <2> QED BY <2>1
<1>2. A[q] = SumTo(S[q], u) /\ B[q] = SumTo(S[q], v) OBVIOUS
<1>3. \A i \in 1..S[q] : u[i] \in Int /\ v[i] \in Int OBVIOUS
<1>4. \A i \in 1..S[q] : i # j => v[i] = u[i] OBVIOUS
<1>5. u[j] = h[q][j] /\ v[j] = g[q][j] OBVIOUS
<1>6. \A p \in InitPeer : A[p] \in Nat /\ B[p] \in Nat
  <2> TAKE p \in InitPeer
  <2> DEFINE a == [i \in 1..S[p] |-> h[p][i]]
             b == [i \in 1..S[p] |-> g[p][i]]
  <2>1. S[p] \in Nat /\ \A i \in 1..S[p] : a[i] \in Nat /\ b[i] \in Nat OBVIOUS
  <2>2. A[p] = SumTo(S[p], a) /\ B[p] = SumTo(S[p], b) OBVIOUS
  <2> HIDE DEF a, b, A, B
  <2>3. SumTo(S[p], a) \in Nat /\ SumTo(S[p], b) \in Nat BY <2>1, SumNat
  <2> QED BY <2>2, <2>3
<1>7. S[q] \in Nat OBVIOUS
<1> HIDE DEF u, v, A, B
<1>8. SumTo(S[q], v) = SumTo(S[q], u) + (v[j] - u[j])
  <2>1. j \in 1..S[q] OBVIOUS
  <2> QED BY ONLY <1>3, <1>4, <1>7, <2>1, SumPoint
<1>9. SumTo(np, B) = SumTo(np, A) + (B[q] - A[q]) 
  <2>1. np \in Nat /\ InitPeer = 1..np BY DEF InitPeer
  <2>2. \A p \in InitPeer : A[p] \in Int /\ B[p] \in Int BY <1>6
  <2>3. q \in 1..np /\ (\A p \in 1..np : p # q => B[p] = A[p])
        /\ \A p \in 1..np : A[p] \in Int /\ B[p] \in Int
    BY <1>1, <2>1, <2>2
  <2> HIDE DEF np
  <2> QED BY ONLY <2>1, <2>3, SumPoint
<1>10. SumTo(np, A) \in Nat /\ SumTo(np, B) \in Nat BY <1>6, SumNat DEF InitPeer
<1>11. h[q][j] \in Nat /\ g[q][j] \in Nat OBVIOUS
<1>12. B[q] - A[q] = g[q][j] - h[q][j] BY <1>2, <1>5, <1>6, <1>8, <1>11
<1> QED BY <1>9, <1>10, <1>12 DEF Twice, A, B

\* Sums of naturals.
LEMMA TwiceNat ==
    ASSUME Len(Todo) \in Nat, NEW S \in [InitPeer -> Nat], NEW h,
           \A p \in InitPeer : \A i \in 1..S[p] : h[p][i] \in Nat
    PROVE  Twice(S, h) \in Nat
<1> DEFINE A == [p \in InitPeer |-> SumTo(S[p], [i \in 1..S[p] |-> h[p][i]])]
<1>1. ASSUME NEW p \in InitPeer PROVE A[p] \in Nat
  <2> DEFINE a == [i \in 1..S[p] |-> h[p][i]]
  <2>1. S[p] \in Nat /\ \A i \in 1..S[p] : a[i] \in Nat OBVIOUS
  <2>2. A[p] = SumTo(S[p], a) OBVIOUS
  <2> HIDE DEF a, A
  <2>3. SumTo(S[p], a) \in Nat BY <2>1, SumNat
  <2> QED BY <2>2, <2>3
<1> HIDE DEF A
<1>2. SumTo(Len(Todo), A) \in Nat BY <1>1, SumNat DEF InitPeer
<1> QED BY <1>2 DEF Twice, A

-------------------------------------------------------------------------------
(* The ring of a team.                                                        *)

Succ(t, k) == (k % Len(RingIDs[t])) + 1

\* A set of IDs that holds the next one of each is empty or the whole ring.
LEMMA RingClosed ==
    ASSUME NEW n \in Nat \ {0}, NEW X \in SUBSET (1..n), X # {},
           \A k \in X : (k % n) + 1 \in X
    PROVE  X = 1..n
<1>1. \A k \in 1..n : k \in Nat /\ (k # n => k % n = k) /\ n % n = 0 OBVIOUS
<1>2. ASSUME NEW a \in X PROVE \A k \in 1..n : a <= k => k \in X
  <2> DEFINE Y == {k \in Nat : k \in 1..n /\ a <= k /\ k \notin X}
  <2>1. ASSUME Y # {} PROVE FALSE
    <3>1. PICK k \in Y : \A y \in Y : k <= y BY <2>1, LeastNat
    <3>2. k \in 1..n /\ a <= k /\ k # a /\ a \in 1..n BY <1>2, <3>1
    <3>3. k - 1 \in 1..n /\ a <= k - 1 /\ k - 1 # n /\ ~(k <= k - 1) BY <3>2
    <3>4. k - 1 \in X BY <3>1, <3>3
    <3>5. (k - 1) % n = k - 1 BY <1>1, <3>3
    <3>6. (k - 1) + 1 = k BY <3>2
    <3> QED BY <3>1, <3>4, <3>5, <3>6
  <2>2. \A k \in 1..n : k \in Nat OBVIOUS
  <2> QED BY <2>1, <2>2
<1>3. PICK a \in X : TRUE OBVIOUS
<1>4. n \in X
  <2>1. a \in 1..n /\ a <= n /\ n \in 1..n OBVIOUS
  <2> QED BY <1>2, <2>1
<1>5. 1 \in X
  <2>1. n \in 1..n OBVIOUS
  <2>2. (n % n) + 1 \in X BY <1>4
  <2>3. n % n = 0 BY <1>1, <2>1
  <2> QED BY <2>2, <2>3
<1>6. \A k \in 1..n : 1 <= k OBVIOUS
<1> QED BY <1>2, <1>5, <1>6

\* The teams and what lshsig has to send.
LEMMA Inputs ==
    ASSUME InitAssumption
    PROVE  /\ Len(Todo) \in Nat
           /\ \A p \in InitPeer : Len(Todo[p]) \in Nat /\ DOMAIN Todo[p] = 1..Len(Todo[p])
           /\ \A p \in InitPeer : \A i \in 1..Len(Todo[p]) :
                  Todo[p][i].sig \in Sig /\ Todo[p][i].team \in InitTeam /\ Todo[p][i].freq \in Nat
           /\ \A t \in InitTeam : /\ Len(RingIDs[t]) \in Nat \ {0} /\ DOMAIN RingIDs[t] = 1..Len(RingIDs[t])
                                  /\ RingIDs[t] \in [1..Len(RingIDs[t]) -> InitPeer]
<1> DEFINE W == [sig : Sig, team : InitTeam, freq : Nat]
<1>1. Todo \in Seq(Seq(W)) /\ RingIDs \in Seq(Seq(InitPeer) \ {<<>>}) BY DEF InitAssumption
<1>2. Len(Todo) \in Nat /\ \A p \in InitPeer : Todo[p] \in Seq(W)
  <2> HIDE DEF W
  <2> QED BY <1>1 DEF InitPeer
<1>3. \A p \in InitPeer : Len(Todo[p]) \in Nat /\ DOMAIN Todo[p] = 1..Len(Todo[p])
  <2> HIDE DEF W
  <2> QED BY <1>2
<1>4. \A p \in InitPeer : \A i \in 1..Len(Todo[p]) : Todo[p][i] \in W
  <2> HIDE DEF W
  <2> QED BY <1>2
<1>5. \A t \in InitTeam : RingIDs[t] \in Seq(InitPeer) /\ RingIDs[t] # <<>>
  <2>1. \A t \in InitTeam : RingIDs[t] \in Seq(InitPeer) \ {<<>>} BY <1>1 DEF InitTeam
  <2> QED BY <2>1
<1>6. ASSUME NEW t \in InitTeam
      PROVE  /\ Len(RingIDs[t]) \in Nat \ {0} /\ DOMAIN RingIDs[t] = 1..Len(RingIDs[t])
             /\ RingIDs[t] \in [1..Len(RingIDs[t]) -> InitPeer]
  <2>1. RingIDs[t] \in Seq(InitPeer) /\ RingIDs[t] # <<>> BY <1>5
  <2> QED BY <2>1
<1> QED BY <1>2, <1>3, <1>4, <1>6

\* The owners of an injective team are distinct.
LEMMA Distinct ==
    ASSUME InitAssumption, NEW t \in InitTeam, Injective(t),
           NEW j \in 1..Len(RingIDs[t]), NEW k \in 1..Len(RingIDs[t]), RingIDs[t][j] = RingIDs[t][k]
    PROVE  j = k
<1> DEFINE n == Len(RingIDs[t])
           f == RingIDs[t]
           Z == Owners(t)
<1>1. n \in Nat /\ DOMAIN f = 1..n /\ f \in [1..n -> InitPeer] BY Inputs
<1>2. Z = {f[x] : x \in 1..n} BY <1>1 DEF Owners, Range
<1>3. f \in Surjection(1..n, Z) BY <1>1, <1>2 DEF Surjection
<1>4. 1 \in Int /\ n \in Int BY <1>1
<1>5. IsFiniteSet(1..n) /\ Cardinality(1..n) = n
  <2>1. IsFiniteSet(1..n) /\ Cardinality(1..n) = IF 1 > n THEN 0 ELSE n - 1 + 1 BY <1>1, FS_Interval
  <2> QED BY <1>1, <2>1
<1>6. Cardinality(Z) = n BY DEF Injective
<1> HIDE DEF n, f, Z
<1>7. f \in Injection(1..n, Z) BY <1>3, <1>5, <1>6, FS_Surjection
<1>8. \A x, y \in 1..n : f[x] = f[y] => x = y BY <1>7 DEF Injection, IsInjective
<1> QED BY <1>8 DEF n, f

-------------------------------------------------------------------------------
(* Where the frequency of s in team t is: T are the lists, M the messages     *)
(* under way and S the numbers of messages sent.                              *)

SentOK(S) == S \in [InitPeer -> Nat] /\ \A p \in InitPeer : S[p] <= Len(Todo[p])

\* The message is the i-th of p.
Ith(m, p, i) == /\ m.src = <<p, i - 1>> /\ m.team = Todo[p][i].team
                /\ m.sig = Todo[p][i].sig /\ m.f = Todo[p][i].freq * Unit
MsgOK(m, S) ==
    /\ m.team \in InitTeam /\ m.k \in 1..Len(RingIDs[m.team]) /\ m.to = RingIDs[m.team][m.k]
    /\ \/ m.type = "INITGOSSIP" /\ \E p \in InitPeer : \E i \in 1..S[p] : Ith(m, p, i)
       \/ m.type = "INFORMTEAM" /\ m.sig = Dummy /\ m.f = 0
Mail(M, S) ==
    /\ \A m \in M : MsgOK(m, S)
    /\ \A m, l \in M : m.type = "INITGOSSIP" /\ l.type = "INITGOSSIP" /\ m.src = l.src => m = l

FlyingIn(M, p, i, t, s) == {m \in M : m.src = <<p, i - 1>> /\ m.team = t /\ m.sig = s}
FlyVal(M, p, i, t, s) ==
    IF FlyingIn(M, p, i, t, s) = {} THEN 0 ELSE (CHOOSE m \in FlyingIn(M, p, i, t, s) : TRUE).f
FlyTable(M, t, s) == [p \in InitPeer |-> [i \in 1..Len(Todo[p]) |-> FlyVal(M, p, i, t, s)]]
SentTable(t, s) == [p \in InitPeer |-> [i \in 1..Len(Todo[p]) |-> SentEntry(p, i, t, s)]]
HeldTable(T, t, s) == [p \in InitPeer |-> IF t \in DOMAIN T[p] THEN FreqIn(T[p][t], s) ELSE 0]

AtMost(T, M, S, t, s) ==
    SumTo(Len(Todo), HeldTable(T, t, s)) + Twice(S, FlyTable(M, t, s)) <= Twice(S, SentTable(t, s))
Exactly(T, M, S, t, s) ==
    SumTo(Len(Todo), HeldTable(T, t, s)) + Twice(S, FlyTable(M, t, s)) = Twice(S, SentTable(t, s))

\* A message for a signature is known by its source: the i-th of p carries what
\* the i-th entry of p says.
LEMMA FlyingIs ==
    ASSUME InitAssumption, ListAssumption, NEW S, SentOK(S), NEW M, Mail(M, S),
           NEW t \in InitTeam, NEW s \in Sig, NEW p \in InitPeer, NEW i \in 1..Len(Todo[p])
    PROVE  /\ \A m \in FlyingIn(M, p, i, t, s) : m.f = SentEntry(p, i, t, s) /\ i <= S[p]
           /\ \A m, l \in FlyingIn(M, p, i, t, s) : m = l
           /\ FlyVal(M, p, i, t, s) = IF FlyingIn(M, p, i, t, s) = {} THEN 0 ELSE SentEntry(p, i, t, s)
           /\ SentEntry(p, i, t, s) \in Nat
<1> DEFINE F == FlyingIn(M, p, i, t, s)
<1>1. ASSUME NEW m \in F PROVE m.type = "INITGOSSIP" /\ m.f = SentEntry(p, i, t, s) /\ i <= S[p] /\ m \in M
  <2>1. m \in M /\ m.src = <<p, i - 1>> /\ m.team = t /\ m.sig = s BY <1>1 DEF FlyingIn
  <2>2. MsgOK(m, S) BY <2>1 DEF Mail
  <2>3. m.sig # Dummy BY <2>1, ListAssumption
  <2>4. m.type = "INITGOSSIP" BY <2>2, <2>3 DEF MsgOK
  <2>5. PICK q \in InitPeer : \E j \in 1..S[q] : Ith(m, q, j) BY <2>2, <2>3 DEF MsgOK
  <2>6. PICK j \in 1..S[q] : Ith(m, q, j) BY <2>5
  <2>7. S[q] \in Nat /\ S[p] \in Nat /\ i \in Nat BY Inputs DEF SentOK
  <2>8. <<q, j - 1>> = <<p, i - 1>> BY <2>1, <2>6 DEF Ith
  <2>9. q = p /\ j - 1 = i - 1 BY <2>8
  <2>10. j = i BY <2>7, <2>9
  <2>11. i <= S[p] BY <2>6, <2>7, <2>9, <2>10
  <2>12. m.team = Todo[p][i].team /\ m.sig = Todo[p][i].sig /\ m.f = Todo[p][i].freq * Unit
    BY <2>6, <2>9, <2>10 DEF Ith
  <2> QED BY <2>1, <2>4, <2>11, <2>12 DEF SentEntry
<1>2. \A m, l \in F : m = l
  <2> TAKE m, l \in F
  <2>1. m.src = l.src BY DEF FlyingIn
  <2> QED BY <1>1, <2>1 DEF Mail
<1>3. SentEntry(p, i, t, s) \in Nat
  <2>1. Todo[p][i].freq \in Nat /\ Unit \in Nat BY Inputs, ListAssumption
  <2>2. Todo[p][i].freq * Unit \in Nat BY <2>1
  <2> QED BY <2>2 DEF SentEntry
<1>4. FlyVal(M, p, i, t, s) = IF F = {} THEN 0 ELSE SentEntry(p, i, t, s)
  <2>1. CASE F = {} BY <2>1 DEF FlyVal
  <2>2. CASE F # {}
    <3>1. (CHOOSE m \in F : TRUE) \in F BY <2>2
    <3> QED BY <1>1, <2>2, <3>1 DEF FlyVal
  <2> QED BY <2>1, <2>2
<1> QED BY <1>1, <1>2, <1>3, <1>4

\* The tables hold natural numbers.
LEMMA TableNat ==
    ASSUME InitAssumption, ListAssumption, NEW S, SentOK(S), NEW M, Mail(M, S),
           NEW t \in InitTeam, NEW s \in Sig, NEW p \in InitPeer, NEW i \in 1..Len(Todo[p])
    PROVE  /\ FlyTable(M, t, s)[p][i] = FlyVal(M, p, i, t, s) /\ FlyTable(M, t, s)[p][i] \in Nat
           /\ SentTable(t, s)[p][i] = SentEntry(p, i, t, s) /\ SentTable(t, s)[p][i] \in Nat
<1>1. FlyTable(M, t, s)[p][i] = FlyVal(M, p, i, t, s) BY DEF FlyTable
<1>2. SentTable(t, s)[p][i] = SentEntry(p, i, t, s) BY DEF SentTable
<1>3. SentEntry(p, i, t, s) \in Nat /\ FlyVal(M, p, i, t, s) \in {0, SentEntry(p, i, t, s)} BY FlyingIs
<1> QED BY <1>1, <1>2, <1>3

Counted(S, q) == [S EXCEPT ![q] = @ + 1]

\* lshsig sends the next message of q, or loses it.
LEMMA SendCounts ==
    ASSUME InitAssumption, ListAssumption, NEW S, SentOK(S), NEW M, Mail(M, S), NEW q \in InitPeer,
           S[q] < Len(Todo[q]), NEW S1, S1 = Counted(S, q), NEW m,
           m.type = "INITGOSSIP", Ith(m, q, S[q] + 1), m.k \in 1..Len(RingIDs[m.team]),
           m.to = RingIDs[m.team][m.k],
           NEW t \in InitTeam, NEW s \in Sig, NEW T, AtMost(T, M, S, t, s),
           SumTo(Len(Todo), HeldTable(T, t, s)) \in Nat
    PROVE  /\ SentOK(S1) /\ Mail(M, S1) /\ Mail(M \cup {m}, S1)
           /\ AtMost(T, M \cup {m}, S1, t, s) /\ AtMost(T, M, S1, t, s)
           /\ Exactly(T, M, S, t, s) => Exactly(T, M \cup {m}, S1, t, s)
<1> DEFINE n == S[q]
           x == SentEntry(q, n + 1, t, s)
           M1 == M \cup {m}
<1>0. /\ Len(Todo) \in Nat
      /\ \A p \in InitPeer : Len(Todo[p]) \in Nat
      /\ \A i \in 1..Len(Todo[q]) : Todo[q][i].team \in InitTeam
  BY Inputs
<1>1. S \in [InitPeer -> Nat] /\ n \in Nat /\ n + 1 \in 1..Len(Todo[q]) /\ \A p \in InitPeer : S[p] <= Len(Todo[p])
  BY <1>0 DEF SentOK
<1>1a. S1[q] = n + 1 /\ \A p \in InitPeer : p # q => S1[p] = S[p] BY <1>1 DEF Counted
<1>1b. \A p \in InitPeer : \A i \in 1..S[p] : i \in 1..S1[p] BY <1>1, <1>1a
<1>2. SentOK(S1)
  <2>1. S1 \in [InitPeer -> Nat] BY <1>1 DEF Counted
  <2>2. ASSUME NEW p \in InitPeer PROVE S1[p] <= Len(Todo[p])
    <3>1. CASE p = q BY <1>1, <1>1a, <3>1
    <3>2. CASE p # q BY <1>1, <1>1a, <3>2
    <3> QED BY <3>1, <3>2
  <2> QED BY <2>1, <2>2 DEF SentOK
<1>3. \A y \in M : MsgOK(y, S1)
  <2> TAKE y \in M
  <2>1. MsgOK(y, S) BY DEF Mail
  <2> QED BY <1>1b, <2>1 DEF MsgOK
<1>4. MsgOK(m, S1)
  <2>1. m.team \in InitTeam BY <1>0, <1>1 DEF Ith
  <2>2. n + 1 \in 1..S1[q] BY <1>1, <1>1a
  <2> QED BY <2>1, <2>2 DEF MsgOK
<1>5. ASSUME NEW y \in M, y.type = "INITGOSSIP" PROVE y.src # m.src
  <2>1. MsgOK(y, S) BY <1>5 DEF Mail
  <2>2. PICK p \in InitPeer : \E i \in 1..S[p] : Ith(y, p, i) BY <1>5, <2>1 DEF MsgOK
  <2>3. PICK i \in 1..S[p] : Ith(y, p, i) BY <2>2
  <2>4. S[p] \in Nat BY <1>1
  <2>5. ~(p = q /\ i - 1 = (n + 1) - 1) BY <1>1, <2>3, <2>4
  <2>6. y.src = <<p, i - 1>> /\ m.src = <<q, (n + 1) - 1>> BY <2>3 DEF Ith
  <2> QED BY <2>5, <2>6
<1>6. Mail(M, S1) BY <1>3 DEF Mail
<1>7. Mail(M1, S1)
  <2>1. \A y \in M1 : MsgOK(y, S1) BY <1>3, <1>4
  <2>2. ASSUME NEW y \in M1, NEW z \in M1, y.type = "INITGOSSIP", z.type = "INITGOSSIP", y.src = z.src
        PROVE  y = z
    <3>1. CASE y \in M /\ z \in M BY <2>2, <3>1 DEF Mail
    <3>2. CASE y \in M /\ z = m BY <1>5, <2>2, <3>2
    <3>3. CASE y = m /\ z \in M BY <1>5, <2>2, <3>3
    <3> QED BY <3>1, <3>2, <3>3
  <2> QED BY <2>1, <2>2 DEF Mail
<1>8. ASSUME NEW p \in InitPeer, NEW i \in 1..S[p] PROVE i \in 1..Len(Todo[p]) BY <1>0, <1>1
\* What was under way still is, and the new message is the only one from <<q, n>>.
<1>9. ASSUME NEW p \in InitPeer, NEW i \in 1..S[p] PROVE FlyVal(M1, p, i, t, s) = FlyVal(M, p, i, t, s)
  <2>1. S[p] \in Nat BY <1>1
  <2>2. ~(p = q /\ i - 1 = (n + 1) - 1) BY <1>1, <2>1
  <2>3. m.src = <<q, (n + 1) - 1>> BY DEF Ith
  <2>4. m.src # <<p, i - 1>> BY <2>2, <2>3
  <2>5. FlyingIn(M1, p, i, t, s) = FlyingIn(M, p, i, t, s) BY <2>4 DEF FlyingIn
  <2>6. i \in 1..Len(Todo[p]) BY <1>8
  <2>7. FlyVal(M, p, i, t, s) = IF FlyingIn(M, p, i, t, s) = {} THEN 0 ELSE SentEntry(p, i, t, s)
    BY <2>6, FlyingIs
  <2>8. FlyVal(M1, p, i, t, s) = IF FlyingIn(M1, p, i, t, s) = {} THEN 0 ELSE SentEntry(p, i, t, s)
    <3> HIDE DEF M1
    <3> QED BY <1>2, <1>7, <2>6, FlyingIs
  <2> HIDE DEF M1
  <2> QED BY ONLY <2>5, <2>7, <2>8
<1>10. FlyingIn(M, q, n + 1, t, s) = {}
  <2>1. ~(n + 1 <= S[q]) BY <1>1
  <2> QED BY <1>1, <2>1, FlyingIs
<1>11. FlyVal(M, q, n + 1, t, s) = 0 BY <1>10 DEF FlyVal
<1>12. FlyVal(M1, q, n + 1, t, s) = x
  <2>1. m.src = <<q, (n + 1) - 1>> /\ m.team = Todo[q][n + 1].team /\ m.sig = Todo[q][n + 1].sig BY DEF Ith
  <2>2. CASE m.team = t /\ m.sig = s
    <3>1. m \in FlyingIn(M1, q, n + 1, t, s) BY <2>1, <2>2 DEF FlyingIn
    <3> HIDE DEF M1, x
    <3> QED BY <1>1, <1>2, <1>7, <3>1, FlyingIs DEF x
  <2>3. CASE ~(m.team = t /\ m.sig = s)
    <3>1. FlyingIn(M1, q, n + 1, t, s) = {} BY <1>10, <2>3 DEF FlyingIn
    <3>2. x = 0 BY <2>1, <2>3 DEF SentEntry
    <3> QED BY <3>1, <3>2 DEF FlyVal
  <2> QED BY <2>2, <2>3
<1>13. x \in Nat BY <1>1, FlyingIs
<1> HIDE DEF M1, x, n
<1> DEFINE h == FlyTable(M, t, s)
           g == FlyTable(M1, t, s)
           c == SentTable(t, s)
<1>14. \A p \in InitPeer : \A i \in 1..S[p] : h[p][i] \in Nat /\ g[p][i] = h[p][i] /\ c[p][i] \in Nat
  <2> TAKE p \in InitPeer
  <2> TAKE i \in 1..S[p]
  <2>1. i \in 1..Len(Todo[p]) BY <1>8
  <2>2. h[p][i] = FlyVal(M, p, i, t, s) /\ h[p][i] \in Nat /\ c[p][i] \in Nat BY <2>1, TableNat
  <2>3. g[p][i] = FlyVal(M1, p, i, t, s) BY <1>2, <1>7, <2>1, TableNat
  <2> QED BY <1>9, <2>2, <2>3
<1>15. h[q][n + 1] = 0 /\ g[q][n + 1] = x /\ c[q][n + 1] = x
  <2>1. h[q][n + 1] = FlyVal(M, q, n + 1, t, s) /\ c[q][n + 1] = SentEntry(q, n + 1, t, s) BY <1>1, TableNat
  <2>2. g[q][n + 1] = FlyVal(M1, q, n + 1, t, s) BY <1>1, <1>2, <1>7, TableNat
  <2> QED BY <1>11, <1>12, <2>1, <2>2 DEF x
<1> HIDE DEF h, g, c
<1>25. S1[q] = S[q] + 1 /\ \A p \in InitPeer : p # q => S1[p] = S[p] BY <1>1a DEF n
<1>26. S \in [InitPeer -> Nat] /\ q \in InitPeer BY <1>1
<1>16. Twice(S1, h) = Twice(S, h) + 0 /\ Twice(S, h) \in Nat
  <2>1. h[q][S[q] + 1] = 0 BY <1>15 DEF n
  <2>2. Grows(S, S1, h, h, q) BY <1>13, <1>14, <1>25, <2>1 DEF Grows
  <2>3. Twice(S1, h) = Twice(S, h) + h[q][S[q] + 1] /\ Twice(S, h) \in Nat
    BY <1>0, <1>26, <2>2, TwiceGrow
  <2> QED BY <2>1, <2>3
<1>17. Twice(S1, g) = Twice(S, h) + x
  <2>1. g[q][S[q] + 1] = x BY <1>15 DEF n
  <2>2. Grows(S, S1, h, g, q) BY <1>13, <1>14, <1>25, <2>1 DEF Grows
  <2>3. Twice(S1, g) = Twice(S, h) + g[q][S[q] + 1] /\ Twice(S, h) \in Nat
    BY <1>0, <1>26, <2>2, TwiceGrow
  <2> QED BY <2>1, <2>3
<1>18. Twice(S1, c) = Twice(S, c) + x /\ Twice(S, c) \in Nat
  <2>1. c[q][S[q] + 1] = x BY <1>15 DEF n
  <2>2. Grows(S, S1, c, c, q) BY <1>13, <1>14, <1>25, <2>1 DEF Grows
  <2>3. Twice(S1, c) = Twice(S, c) + c[q][S[q] + 1] /\ Twice(S, c) \in Nat
    BY <1>0, <1>26, <2>2, TwiceGrow
  <2> QED BY <2>1, <2>3
<1> DEFINE H == SumTo(Len(Todo), HeldTable(T, t, s))
<1>19. H + Twice(S, h) <= Twice(S, c) BY DEF AtMost, h, c
<1> HIDE DEF H
<1>20. H \in Nat BY DEF H
<1>21. H + Twice(S1, g) <= Twice(S1, c) BY <1>13, <1>16, <1>17, <1>18, <1>19, <1>20
<1>22. H + Twice(S1, h) <= Twice(S1, c) BY <1>13, <1>16, <1>18, <1>19, <1>20
<1>23. AtMost(T, M1, S1, t, s) BY <1>21 DEF AtMost, H, g, c
<1>24. AtMost(T, M, S1, t, s) BY <1>22 DEF AtMost, H, h, c
<1>27. ASSUME Exactly(T, M, S, t, s) PROVE Exactly(T, M1, S1, t, s)
  <2>1. H + Twice(S, h) = Twice(S, c) BY <1>27 DEF Exactly, H, h, c
  <2>2. H + Twice(S1, g) = Twice(S1, c) BY <1>13, <1>16, <1>17, <1>18, <1>20, <2>1
  <2> QED BY <2>2 DEF Exactly, H, g, c
<1> QED BY <1>2, <1>6, <1>7, <1>23, <1>24, <1>27 DEF M1

\* What message m brings for s in team t.
Brings(m, t, s) == IF m.team = t /\ m.sig = s THEN m.f ELSE 0
Informs(X, S) == \A x \in X : x.type = "INFORMTEAM" /\ MsgOK(x, S)
Remaining(M, m, X) == (M \ {m}) \cup X

\* Message m is read, and informteam may have sent those in X.
LEMMA TakeCounts ==
    ASSUME InitAssumption, ListAssumption, NEW S, SentOK(S), NEW M, Mail(M, S), NEW m \in M,
           NEW X, Informs(X, S), NEW M1, M1 = Remaining(M, m, X), NEW t \in InitTeam, NEW s \in Sig
    PROVE  /\ Mail(M1, S)
           /\ Twice(S, FlyTable(M1, t, s)) + Brings(m, t, s) = Twice(S, FlyTable(M, t, s))
           /\ Twice(S, FlyTable(M1, t, s)) \in Nat /\ Twice(S, FlyTable(M, t, s)) \in Nat
<1> USE DEF Informs, Remaining, Brings
<1>0. Len(Todo) \in Nat /\ \A p \in InitPeer : Len(Todo[p]) \in Nat BY Inputs
<1>1. S \in [InitPeer -> Nat] /\ \A p \in InitPeer : S[p] <= Len(Todo[p]) BY DEF SentOK
<1>2. Mail(M1, S)
  <2>1. \A x \in M1 : MsgOK(x, S) BY DEF Mail
  <2>2. \A x \in X : x.type # "INITGOSSIP" OBVIOUS
  <2> QED BY <2>1, <2>2 DEF Mail
<1>3. \A x \in X : x.sig # s
  <2> TAKE x \in X
  <2>1. x.sig = Dummy BY DEF MsgOK
  <2> QED BY <2>1, ListAssumption
<1> DEFINE h == FlyTable(M, t, s)
           g == FlyTable(M1, t, s)
<1>4. \A p \in InitPeer : \A i \in 1..S[p] : i \in 1..Len(Todo[p]) BY <1>0, <1>1
<1>5. ASSUME NEW p \in InitPeer, NEW i \in 1..S[p]
      PROVE  /\ h[p][i] = IF FlyingIn(M, p, i, t, s) = {} THEN 0 ELSE SentEntry(p, i, t, s)
             /\ g[p][i] = IF FlyingIn(M1, p, i, t, s) = {} THEN 0 ELSE SentEntry(p, i, t, s)
             /\ h[p][i] \in Nat /\ g[p][i] \in Nat
  <2>1. i \in 1..Len(Todo[p]) BY <1>4
  <2>2. h[p][i] = FlyVal(M, p, i, t, s) /\ h[p][i] \in Nat BY <2>1, TableNat
  <2>3. g[p][i] = FlyVal(M1, p, i, t, s) /\ g[p][i] \in Nat BY <1>2, <2>1, TableNat
  <2>4. FlyVal(M, p, i, t, s) = IF FlyingIn(M, p, i, t, s) = {} THEN 0 ELSE SentEntry(p, i, t, s)
    BY <2>1, FlyingIs
  <2>5. FlyVal(M1, p, i, t, s) = IF FlyingIn(M1, p, i, t, s) = {} THEN 0 ELSE SentEntry(p, i, t, s)
    <3>1. SentOK(S) /\ Mail(M1, S) /\ t \in InitTeam /\ s \in Sig /\ p \in InitPeer BY <1>2
    <3>2. InitAssumption /\ ListAssumption OBVIOUS
    <3> QED BY ONLY <2>1, <3>1, <3>2, FlyingIs
  <2> QED BY <2>2, <2>3, <2>4, <2>5
<1>6. ASSUME NEW p \in InitPeer, NEW i \in 1..S[p], m \notin FlyingIn(M, p, i, t, s) PROVE g[p][i] = h[p][i]
  <2>1. FlyingIn(M1, p, i, t, s) = FlyingIn(M, p, i, t, s) BY <1>3, <1>6 DEF FlyingIn
  <2> QED BY <1>5, <2>1
<1> HIDE DEF g, h
<1>7. Twice(S, h) \in Nat BY <1>0, <1>1, <1>5, TwiceNat
<1>8. CASE m.team = t /\ m.sig = s
  <2>1. m.sig # Dummy /\ MsgOK(m, S) BY <1>8, ListAssumption DEF Mail
  <2>1a. m.type = "INITGOSSIP" BY <2>1 DEF MsgOK
  <2>2. PICK q \in InitPeer : \E j \in 1..S[q] : Ith(m, q, j) BY <2>1 DEF MsgOK
  <2>3. PICK j \in 1..S[q] : Ith(m, q, j) BY <2>2
  <2>4. m \in FlyingIn(M, q, j, t, s) BY <1>8, <2>3 DEF FlyingIn, Ith
  <2>5. j \in 1..Len(Todo[q]) BY <1>4
  <2>6. m.f = SentEntry(q, j, t, s) /\ \A l \in FlyingIn(M, q, j, t, s) : l = m BY <2>4, <2>5, FlyingIs
  <2>7. FlyingIn(M1, q, j, t, s) = {}
    <3>1. \A l \in FlyingIn(M1, q, j, t, s) : (l \in FlyingIn(M, q, j, t, s) /\ l # m) \/ (l \in X /\ l.sig = s)
      BY DEF FlyingIn
    <3> QED BY <1>3, <2>6, <3>1
  <2>8. h[q][j] = m.f /\ g[q][j] = 0 BY <1>5, <2>4, <2>6, <2>7
  <2>9. ASSUME NEW p \in InitPeer, NEW i \in 1..S[p], ~(p = q /\ i = j) PROVE g[p][i] = h[p][i]
    <3>1. S[p] \in Nat /\ S[q] \in Nat BY <1>1
    <3>2. ~(p = q /\ i - 1 = j - 1) BY <2>9, <3>1
    <3>3. m.src = <<q, j - 1>> BY <2>3 DEF Ith
    <3>4. m.src # <<p, i - 1>> BY <3>2, <3>3
    <3>5. m \notin FlyingIn(M, p, i, t, s) BY <3>4 DEF FlyingIn
    <3> QED BY <1>6, <3>5
  <2>10. Differs(S, h, g, q, j) BY <1>5, <2>9 DEF Differs
  <2>11. Twice(S, g) = Twice(S, h) + (g[q][j] - h[q][j]) /\ Twice(S, g) \in Nat
    <3>1. S \in [InitPeer -> Nat] /\ q \in InitPeer /\ j \in 1..S[q] BY <1>1
    <3> QED BY ONLY <1>0, <2>10, <3>1, TwicePoint
  <2>12. m.f \in Nat BY <1>5, <2>8
  <2>13. Twice(S, g) + m.f = Twice(S, h) BY <1>7, <2>8, <2>11, <2>12
  <2> QED BY <1>2, <1>7, <1>8, <2>11, <2>13 DEF g, h
<1>9. CASE ~(m.team = t /\ m.sig = s)
  <2>1. \A p \in InitPeer : \A i \in 1..S[p] : g[p][i] = h[p][i]
    <3> TAKE p \in InitPeer
    <3> TAKE i \in 1..S[p]
    <3>1. m \notin FlyingIn(M, p, i, t, s) BY <1>9 DEF FlyingIn
    <3> QED BY <1>6, <3>1
  <2>2. [p \in InitPeer |-> SumTo(S[p], [i \in 1..S[p] |-> g[p][i]])]
        = [p \in InitPeer |-> SumTo(S[p], [i \in 1..S[p] |-> h[p][i]])]
    <3>1. \A p \in InitPeer : [i \in 1..S[p] |-> g[p][i]] = [i \in 1..S[p] |-> h[p][i]] BY <2>1
    <3> QED BY <3>1
  <2>3. Twice(S, g) = Twice(S, h) BY <2>2 DEF Twice
  <2>4. Twice(S, g) + 0 = Twice(S, h) BY <1>7, <2>3
  <2> QED BY <1>2, <1>7, <1>9, <2>3, <2>4 DEF g, h
<1> QED BY <1>8, <1>9

\* Every list is fit, and kept by a member of its team.
TablesReady(T) ==
    /\ DOMAIN T = InitPeer
    /\ \A p \in InitPeer : /\ DOMAIN T[p] \subseteq InitTeam
                           /\ \A t \in DOMAIN T[p] : p \in Owners(t) /\ Fit(T[p][t])

\* What p keeps for the team, and its lists with L for team t.
Kept0(T, p, t) == IF t \in DOMAIN T[p] THEN T[p][t] ELSE NewList
Kept1(T, p, t, L) ==
    [T EXCEPT ![p] = [u \in DOMAIN @ \cup {t} |-> IF u = t THEN L ELSE @[u]]]

LEMMA KeptIs ==
    ASSUME NEW T, DOMAIN T = InitPeer, NEW p \in InitPeer, NEW t, NEW L, NEW T1, T1 = Kept1(T, p, t, L)
    PROVE  /\ DOMAIN T1 = InitPeer /\ \A q \in InitPeer : q # p => T1[q] = T[q]
           /\ DOMAIN T1[p] = DOMAIN T[p] \cup {t} /\ T1[p][t] = L
           /\ \A u \in DOMAIN T[p] : u # t => T1[p][u] = T[p][u]
<1>1. T1[p] = [u \in DOMAIN T[p] \cup {t} |-> IF u = t THEN L ELSE T[p][u]] BY DEF Kept1
<1>2. DOMAIN T1 = InitPeer /\ \A q \in InitPeer : q # p => T1[q] = T[q] BY DEF Kept1
<1> QED BY <1>1, <1>2

\* Message m may come to p, and the lists after it has.
Carries(p, m) ==
    /\ m.team \in InitTeam /\ p \in Owners(m.team)
    /\ m.sig \in Sig \cup {Dummy} /\ m.f \in Nat /\ (m.sig = Dummy => m.f = 0)
ListsAfter(T, p, m) == Kept1(T, p, m.team, received(Kept0(T, p, m.team), m.sig, m.f))

\* The receiver gains just what the message brings.
LEMMA HeldCounts ==
    ASSUME InitAssumption, ListAssumption, NEW T, TablesReady(T), NEW p \in InitPeer,
           NEW m, Carries(p, m), NEW T1, T1 = ListsAfter(T, p, m), NEW t \in InitTeam, NEW s \in Sig
    PROVE  /\ TablesReady(T1)
           /\ SumTo(Len(Todo), HeldTable(T1, t, s)) = SumTo(Len(Todo), HeldTable(T, t, s)) + Brings(m, t, s)
           /\ SumTo(Len(Todo), HeldTable(T, t, s)) \in Nat
<1>a. PICK tm, x, f : tm = m.team /\ x = m.sig /\ f = m.f OBVIOUS
<1>b. /\ tm \in InitTeam /\ p \in Owners(tm) /\ x \in Sig \cup {Dummy} /\ f \in Nat /\ (x = Dummy => f = 0)
      /\ T1 = Kept1(T, p, tm, received(Kept0(T, p, tm), x, f))
      /\ Brings(m, t, s) = IF tm = t /\ x = s THEN f ELSE 0
  BY <1>a DEF Carries, ListsAfter, Brings
<1> USE <1>b
<1> DEFINE old == Kept0(T, p, tm)
           new == received(old, x, f)
           A == HeldTable(T, t, s)
           B == HeldTable(T1, t, s)
           y == IF tm = t /\ x = s THEN f ELSE 0
<1>0. Len(Todo) \in Nat BY Inputs
<1>1. /\ DOMAIN T = InitPeer
      /\ \A q \in InitPeer : /\ DOMAIN T[q] \subseteq InitTeam
                             /\ \A u \in DOMAIN T[q] : q \in Owners(u) /\ Fit(T[q][u])
  BY DEF TablesReady
<1>2. old = NewList \/ Fit(old) BY <1>1 DEF Kept0
<1>3. /\ Fit(new)
      /\ \A z \in Sig : FreqIn(new, z) = FreqIn(old, z) + (IF z = x THEN f ELSE 0)
  <2> HIDE DEF old
  <2> QED BY <1>2, ReceivedFit
<1> HIDE DEF old, new
<1>4. /\ DOMAIN T1 = InitPeer /\ \A q \in InitPeer : q # p => T1[q] = T[q]
      /\ DOMAIN T1[p] = DOMAIN T[p] \cup {tm} /\ T1[p][tm] = new
      /\ \A u \in DOMAIN T[p] : u # tm => T1[p][u] = T[p][u]
  BY <1>1, KeptIs DEF new, old
<1>5. TablesReady(T1)
  <2>1. ASSUME NEW q \in InitPeer PROVE /\ DOMAIN T1[q] \subseteq InitTeam
                                       /\ \A u \in DOMAIN T1[q] : q \in Owners(u) /\ Fit(T1[q][u])
    <3>1. CASE q # p BY <1>1, <1>4, <3>1
    <3>2. CASE q = p
      <4>1. ASSUME NEW u \in DOMAIN T1[p] PROVE p \in Owners(u) /\ Fit(T1[p][u])
        <5>1. CASE u = tm BY <1>3, <1>4, <5>1
        <5>2. CASE u # tm
          <6>1. u \in DOMAIN T[p] BY <1>4, <5>2
          <6> QED BY <1>1, <1>4, <5>2, <6>1
        <5> QED BY <5>1, <5>2
      <4> QED BY <1>1, <1>4, <3>2, <4>1
    <3> QED BY <3>1, <3>2
  <2> QED BY <1>4, <2>1 DEF TablesReady
<1>6. \A L : Fit(L) => FreqIn(L, s) \in Nat BY DEF Fit, FreqIn, IsList
<1>7. \A q \in InitPeer : A[q] \in Nat /\ B[q] \in Nat
  <2> TAKE q \in InitPeer
  <2>1. A[q] = IF t \in DOMAIN T[q] THEN FreqIn(T[q][t], s) ELSE 0 BY DEF HeldTable
  <2>2. B[q] = IF t \in DOMAIN T1[q] THEN FreqIn(T1[q][t], s) ELSE 0 BY DEF HeldTable
  <2>3. t \in DOMAIN T[q] => Fit(T[q][t]) BY <1>1
  <2>4. t \in DOMAIN T1[q] => Fit(T1[q][t]) BY <1>5 DEF TablesReady
  <2> HIDE DEF A, B
  <2> QED BY <1>6, <2>1, <2>2, <2>3, <2>4
<1>8. \A q \in InitPeer : q # p => B[q] = A[q] BY <1>4 DEF HeldTable
<1>9. B[p] = A[p] + y
  <2>0. A[p] \in Nat /\ y \in Nat BY <1>7
  <2>1. A[p] = IF t \in DOMAIN T[p] THEN FreqIn(T[p][t], s) ELSE 0 BY DEF HeldTable
  <2>2. B[p] = IF t \in DOMAIN T1[p] THEN FreqIn(T1[p][t], s) ELSE 0 BY DEF HeldTable
  <2>3. CASE t = tm
    <3>1. B[p] = FreqIn(new, s) BY <1>4, <2>2, <2>3
    <3>2. FreqIn(old, s) = A[p]
      <4>1. FreqIn(NewList, s) = 0 BY NewListEmpty
      <4> QED BY <2>1, <2>3, <4>1 DEF old, Kept0
    <3>3. FreqIn(new, s) = FreqIn(old, s) + (IF s = x THEN f ELSE 0) BY <1>3
    <3>4. y = IF s = x THEN f ELSE 0 BY <2>3
    <3> HIDE DEF A, B, y
    <3> QED BY <3>1, <3>2, <3>3, <3>4
  <2>4. CASE t # tm
    <3>1. y = 0 BY <2>4
    <3>2. B[p] = A[p] BY <1>4, <2>1, <2>2, <2>4
    <3> HIDE DEF A, B, y
    <3> QED BY <2>0, <3>1, <3>2
  <2> QED BY <2>3, <2>4
<1>10. y \in Nat OBVIOUS
<1> HIDE DEF A, B, y
<1> DEFINE np == Len(Todo)
<1>11. SumTo(np, B) = SumTo(np, A) + (B[p] - A[p])
  <2>1. np \in Nat /\ InitPeer = 1..np BY <1>0 DEF InitPeer
  <2>2. p \in 1..np /\ (\A q \in 1..np : q # p => B[q] = A[q])
        /\ \A q \in 1..np : A[q] \in Int /\ B[q] \in Int
    BY <1>7, <1>8, <2>1
  <2> HIDE DEF np
  <2> QED BY ONLY <2>1, <2>2, SumPoint
<1>12. SumTo(np, A) \in Nat BY <1>0, <1>7, SumNat DEF InitPeer
<1>13. A[p] \in Nat BY <1>7
<1>14. SumTo(np, B) = SumTo(np, A) + y
  <2> HIDE DEF np
  <2> QED BY <1>9, <1>10, <1>11, <1>12, <1>13
<1> QED BY <1>5, <1>12, <1>14 DEF A, B, y

LEMMA HeldNat ==
    ASSUME InitAssumption, NEW T, TablesReady(T), NEW t \in InitTeam, NEW s \in Sig
    PROVE  SumTo(Len(Todo), HeldTable(T, t, s)) \in Nat
<1> DEFINE A == HeldTable(T, t, s)
<1>1. Len(Todo) \in Nat BY Inputs
<1>2. ASSUME NEW q \in InitPeer PROVE A[q] \in Nat
  <2>1. A[q] = IF t \in DOMAIN T[q] THEN FreqIn(T[q][t], s) ELSE 0 BY DEF HeldTable
  <2>2. t \in DOMAIN T[q] => Fit(T[q][t]) BY DEF TablesReady
  <2>3. \A L : Fit(L) => FreqIn(L, s) \in Nat BY DEF Fit, FreqIn, IsList
  <2> HIDE DEF A
  <2> QED BY <2>1, <2>2, <2>3
<1> HIDE DEF A
<1>3. SumTo(Len(Todo), A) \in Nat BY <1>1, <1>2, SumNat DEF InitPeer
<1> QED BY <1>3 DEF A

-------------------------------------------------------------------------------
(* The inductive invariant of the init phase.                                 *)

\* Whoever holds a list of the team, the owner of the next ID does or is told.
Told(T, M, t, k) ==
    \/ t \in DOMAIN T[RingIDs[t][k]]
    \/ \E m \in M : m.type = "INFORMTEAM" /\ m.team = t /\ m.k = k
Informed(T, M) ==
    \A t \in InitTeam : Injective(t) =>
        \A k \in 1..Len(RingIDs[t]) : t \in DOMAIN T[RingIDs[t][k]] => Told(T, M, t, Succ(t, k))

StartInv ==
    /\ TablesReady(initT) /\ SentOK(sent) /\ Mail(msgs, sent)
    /\ initphase \in [InitPeer -> BOOLEAN] /\ initlost \in BOOLEAN
    /\ \A t \in InitTeam, s \in Sig : AtMost(initT, msgs, sent, t, s)
    /\ ~initlost => /\ \A t \in InitTeam, s \in Sig : Exactly(initT, msgs, sent, t, s)
                    /\ Informed(initT, msgs)

\* At first nothing is anywhere.
LEMMA StartInvInit == ASSUME InitAssumption, InitInit PROVE StartInv
<1>0. Len(Todo) \in Nat /\ \A p \in InitPeer : Len(Todo[p]) \in Nat BY Inputs
<1>1. TablesReady(initT)
  <2>1. \A p \in InitPeer : initT[p] = <<>> /\ DOMAIN initT[p] = {} BY DEF InitInit
  <2> QED BY <2>1 DEF TablesReady, InitInit
<1>2. SentOK(sent) BY <1>0 DEF InitInit, SentOK
<1>3. Mail(msgs, sent) BY DEF InitInit, Mail
<1>4. initphase \in [InitPeer -> BOOLEAN] /\ initlost \in BOOLEAN BY DEF InitInit
<1>5. ASSUME NEW t \in InitTeam, NEW s \in Sig PROVE AtMost(initT, msgs, sent, t, s) /\ Exactly(initT, msgs, sent, t, s)
  <2>1. ASSUME NEW h PROVE Twice(sent, h) = 0
    <3> DEFINE A == [p \in InitPeer |-> SumTo(sent[p], [i \in 1..sent[p] |-> h[p][i]])]
    <3>1. ASSUME NEW p \in InitPeer PROVE A[p] = 0
      <4> DEFINE a == [i \in 1..sent[p] |-> h[p][i]]
      <4>1. sent[p] = 0 BY DEF InitInit
      <4>2. 0 \in Nat /\ \A i \in 1..0 : a[i] = 0 OBVIOUS
      <4>3. A[p] = SumTo(sent[p], a) OBVIOUS
      <4> HIDE DEF a, A
      <4>4. SumTo(0, a) = 0 BY <4>2, SumZero
      <4> QED BY <4>1, <4>3, <4>4
    <3> HIDE DEF A
    <3>2. SumTo(Len(Todo), A) = 0 BY <1>0, <3>1, SumZero DEF InitPeer
    <3> QED BY <3>2 DEF Twice, A
  <2>2. SumTo(Len(Todo), HeldTable(initT, t, s)) = 0
    <3> DEFINE B == HeldTable(initT, t, s)
    <3>1. \A p \in InitPeer : B[p] = 0
      <4>1. \A p \in InitPeer : DOMAIN initT[p] = {} BY DEF InitInit
      <4> QED BY <4>1 DEF HeldTable
    <3> HIDE DEF B
    <3>2. SumTo(Len(Todo), B) = 0 BY <1>0, <3>1, SumZero DEF InitPeer
    <3> QED BY <3>2 DEF B
  <2>3. Twice(sent, FlyTable(msgs, t, s)) = 0 /\ Twice(sent, SentTable(t, s)) = 0 BY <2>1
  <2> QED BY <2>2, <2>3 DEF AtMost, Exactly
<1>6. Informed(initT, msgs)
  <2>1. ASSUME NEW t \in InitTeam, NEW k \in 1..Len(RingIDs[t]) PROVE t \notin DOMAIN initT[RingIDs[t][k]]
    <3>1. RingIDs[t][k] \in InitPeer BY Inputs
    <3>2. DOMAIN initT[RingIDs[t][k]] = {} BY <3>1 DEF InitInit
    <3> QED BY <3>2
  <2> QED BY <2>1 DEF Informed
<1> QED BY <1>1, <1>2, <1>3, <1>4, <1>5, <1>6 DEF StartInv

\* More messages inform no less.
LEMMA InformedMore == ASSUME NEW T, NEW M, NEW M1, M \subseteq M1, Informed(T, M) PROVE Informed(T, M1)
BY DEF Informed, Told

\* When no replica has been delivered, the messages of an insert have arrived, or
\* it has failed.
LEMMA InsertAlone ==
    ASSUME NEW M, NEW R, copies \in Nat, copies' = 0, Insert(M, R)
    PROVE  /\ copies = 0
           /\ \/ msgs' = (msgs \ R) \cup M /\ initlost' = initlost
              \/ msgs' = msgs \ R /\ initlost' = TRUE
<1>1. CASE msgs' = msgs \ R /\ initlost' = TRUE /\ UNCHANGED copies BY <1>1
<1>2. CASE /\ UNCHANGED initlost
           /\ \E C \in SUBSET UNION {Replicas(m) : m \in M} :
                 /\ msgs' = ((msgs \ R) \cup M) \cup C
                 /\ IF C = {} THEN UNCHANGED copies ELSE copies < MaxCopies /\ copies' = copies + 1
  <2>1. PICK C \in SUBSET UNION {Replicas(m) : m \in M} :
            /\ msgs' = ((msgs \ R) \cup M) \cup C
            /\ IF C = {} THEN UNCHANGED copies ELSE copies < MaxCopies /\ copies' = copies + 1
    BY <1>2
  <2>2. copies + 1 # 0 OBVIOUS
  <2>3. C = {} BY <2>1, <2>2
  <2> QED BY <1>2, <2>1, <2>3
<1> QED BY <1>1, <1>2 DEF Insert

LEMMA LshsigInv ==
    ASSUME InitAssumption, ListAssumption, StartInv, NEW p \in InitPeer, lshsig(p),
           copies \in Nat, copies' = 0
    PROVE  StartInv'
<1> DEFINE n == sent[p]
           e == Todo[p][n + 1]
<1>1. /\ TablesReady(initT) /\ SentOK(sent) /\ Mail(msgs, sent)
      /\ initphase \in [InitPeer -> BOOLEAN] /\ initlost \in BOOLEAN
      /\ \A t \in InitTeam, s \in Sig : AtMost(initT, msgs, sent, t, s)
      /\ ~initlost => /\ \A t \in InitTeam, s \in Sig : Exactly(initT, msgs, sent, t, s)
                      /\ Informed(initT, msgs)
  BY DEF StartInv
<1>2. n < Len(Todo[p]) /\ sent' = [sent EXCEPT ![p] = @ + 1] /\ initT' = initT /\ initphase' = initphase
  BY DEF lshsig
<1>3. n \in Nat /\ Len(Todo[p]) \in Nat /\ n + 1 \in 1..Len(Todo[p]) BY <1>1, <1>2, Inputs DEF SentOK
<1>4. e.team \in InitTeam BY <1>3, Inputs
<1>5. PICK k \in DOMAIN RingIDs[e.team] :
          Insert({Message("INITGOSSIP", <<p, n>>, e.team, k, e.sig, e.freq * Unit)}, {})
  BY DEF lshsig
<1> DEFINE m == Message("INITGOSSIP", <<p, n>>, e.team, k, e.sig, e.freq * Unit)
<1>6. /\ m.type = "INITGOSSIP" /\ Ith(m, p, n + 1) /\ m.k \in 1..Len(RingIDs[m.team])
      /\ m.to = RingIDs[m.team][m.k]
  <2>1. (n + 1) - 1 = n BY <1>3
  <2>2. DOMAIN RingIDs[e.team] = 1..Len(RingIDs[e.team]) BY <1>4, Inputs
  <2> QED BY <1>5, <2>1, <2>2 DEF Ith, Message
<1>7. (msgs' = msgs \cup {m} /\ initlost' = initlost) \/ (msgs' = msgs /\ initlost' = TRUE)
  <2> HIDE DEF m
  <2>1. \/ msgs' = (msgs \ {}) \cup {m} /\ initlost' = initlost
        \/ msgs' = msgs \ {} /\ initlost' = TRUE
    <3>1. Insert({m}, {}) BY <1>5 DEF m
    <3> QED BY <3>1, InsertAlone
  <2> QED BY <2>1
<1> HIDE DEF m
<1>8. ASSUME NEW t \in InitTeam, NEW s \in Sig
      PROVE  /\ SentOK(sent') /\ Mail(msgs, sent') /\ Mail(msgs \cup {m}, sent')
             /\ AtMost(initT, msgs \cup {m}, sent', t, s) /\ AtMost(initT, msgs, sent', t, s)
             /\ Exactly(initT, msgs, sent, t, s) => Exactly(initT, msgs \cup {m}, sent', t, s)
  <2>1. SumTo(Len(Todo), HeldTable(initT, t, s)) \in Nat BY <1>1, HeldNat
  <2>2. AtMost(initT, msgs, sent, t, s) BY <1>1
  <2>3. sent' = Counted(sent, p) BY <1>2 DEF Counted
  <2>4. /\ InitAssumption /\ ListAssumption /\ SentOK(sent) /\ Mail(msgs, sent) /\ p \in InitPeer
        /\ sent[p] < Len(Todo[p]) /\ t \in InitTeam /\ s \in Sig
    BY <1>1, <1>2
  <2>5. /\ m.type = "INITGOSSIP" /\ Ith(m, p, sent[p] + 1) /\ m.k \in 1..Len(RingIDs[m.team])
        /\ m.to = RingIDs[m.team][m.k]
    BY <1>6
  <2> HIDE DEF n, e
  <2> QED BY ONLY <2>1, <2>2, <2>3, <2>4, <2>5, SendCounts
<1>9. e.sig \in Sig BY <1>3, Inputs
<1>10. SentOK(sent') /\ Mail(msgs', sent') BY <1>4, <1>7, <1>8, <1>9
<1>11. \A t \in InitTeam, s \in Sig : AtMost(initT', msgs', sent', t, s) BY <1>2, <1>7, <1>8
<1>12. ASSUME ~initlost'
       PROVE  Informed(initT', msgs') /\ \A t \in InitTeam, s \in Sig : Exactly(initT', msgs', sent', t, s)
  <2>1. msgs' = msgs \cup {m} /\ initlost' = initlost BY <1>7, <1>12
  <2>2. ~initlost BY <1>12, <2>1
  <2>3. msgs \subseteq msgs' BY <2>1
  <2>4. Informed(initT', msgs') BY <1>1, <1>2, <2>2, <2>3, InformedMore
  <2>5. \A t \in InitTeam, s \in Sig : Exactly(initT', msgs', sent', t, s) BY <1>1, <1>2, <1>8, <2>1, <2>2
  <2> QED BY <2>4, <2>5
<1>13. initphase' \in [InitPeer -> BOOLEAN] /\ initlost' \in BOOLEAN /\ TablesReady(initT') BY <1>1, <1>2, <1>7
<1> QED BY <1>10, <1>11, <1>12, <1>13 DEF StartInv

\* What any message under way brings.
LEMMA MsgParts ==
    ASSUME InitAssumption, ListAssumption, NEW S, SentOK(S), NEW m, MsgOK(m, S)
    PROVE  /\ m.team \in InitTeam /\ m.k \in 1..Len(RingIDs[m.team]) /\ m.k \in DOMAIN RingIDs[m.team]
           /\ m.sig \in Sig \cup {Dummy} /\ m.f \in Nat /\ (m.sig = Dummy => m.f = 0)
           /\ RingIDs[m.team][m.k] \in Owners(m.team)
<1>1. m.team \in InitTeam /\ m.k \in 1..Len(RingIDs[m.team]) BY DEF MsgOK
<1>2. DOMAIN RingIDs[m.team] = 1..Len(RingIDs[m.team]) BY <1>1, Inputs
<1>3. RingIDs[m.team][m.k] \in Owners(m.team) BY <1>1, <1>2 DEF Owners, Range
<1>4. CASE \E p \in InitPeer : \E i \in 1..S[p] : Ith(m, p, i)
  <2>1. PICK p \in InitPeer : \E i \in 1..S[p] : Ith(m, p, i) BY <1>4
  <2>2. PICK i \in 1..S[p] : Ith(m, p, i) BY <2>1
  <2>3. S[p] \in Nat /\ S[p] <= Len(Todo[p]) /\ Len(Todo[p]) \in Nat BY Inputs DEF SentOK
  <2>4. i \in 1..Len(Todo[p]) BY <2>3
  <2>5. Todo[p][i].sig \in Sig /\ Todo[p][i].freq \in Nat /\ Unit \in Nat BY <2>4, Inputs, ListAssumption
  <2>6. Todo[p][i].freq * Unit \in Nat BY <2>5
  <2>7. m.sig \in Sig /\ m.f \in Nat BY <2>2, <2>5, <2>6 DEF Ith
  <2>8. m.sig # Dummy BY <2>7, ListAssumption
  <2> QED BY <1>1, <1>2, <1>3, <2>7, <2>8
<1>5. CASE m.sig = Dummy /\ m.f = 0 BY <1>1, <1>2, <1>3, <1>5
<1> QED BY <1>4, <1>5 DEF MsgOK

\* A message moves its frequency from the way to the list; a first message makes
\* the receiver inform the owner of the next ID.
LEMMA ReceiveInv ==
    ASSUME InitAssumption, ListAssumption, StartInv, NEW p \in InitPeer, Receive(p),
           copies \in Nat, copies' = 0
    PROVE  StartInv'
<1>1. /\ TablesReady(initT) /\ SentOK(sent) /\ Mail(msgs, sent)
      /\ initphase \in [InitPeer -> BOOLEAN] /\ initlost \in BOOLEAN
      /\ \A t \in InitTeam, s \in Sig : AtMost(initT, msgs, sent, t, s)
      /\ ~initlost => /\ \A t \in InitTeam, s \in Sig : Exactly(initT, msgs, sent, t, s)
                      /\ Informed(initT, msgs)
  BY DEF StartInv
<1>1a. PICK m \in msgs : m.to = p /\ initgossiprecv(p, m) BY DEF Receive
<1>3. sent' = sent /\ initphase' = initphase BY DEF Receive
<1>4. MsgOK(m, sent) BY <1>1 DEF Mail
<1>2. RingIDs[m.team][m.k] = p /\ initgossiprecv(p, m) BY <1>1a, <1>4 DEF MsgOK
<1> DEFINE tm == m.team
           old == Kept0(initT, p, tm)
           new == received(old, m.sig, m.f)
           first == Dummy \in DOMAIN new /\ Dummy \notin DOMAIN old
           nxt == IF first THEN informteam(p, tm, m.k) ELSE {}
<1>5. /\ tm \in InitTeam /\ m.k \in 1..Len(RingIDs[tm])
      /\ m.sig \in Sig \cup {Dummy} /\ m.f \in Nat /\ (m.sig = Dummy => m.f = 0) /\ p \in Owners(tm)
  BY <1>1, <1>2, <1>4, MsgParts
<1>6. ASSUME NEW x \in informteam(p, tm, m.k)
      PROVE  x.type = "INFORMTEAM" /\ x.team = tm /\ x.k = Succ(tm, m.k) /\ MsgOK(x, sent)
  <2>1. /\ x.type = "INFORMTEAM" /\ x.team = tm /\ x.k = Succ(tm, m.k) /\ x.sig = Dummy /\ x.f = 0
        /\ x.to = RingIDs[x.team][x.k]
    BY <1>6 DEF informteam, Succ, Message
  <2>2. Len(RingIDs[tm]) \in Nat \ {0} BY <1>5, Inputs
  <2>3. Succ(tm, m.k) \in 1..Len(RingIDs[tm])
    <3> DEFINE w == Len(RingIDs[tm])
               r == m.k
    <3>1. r \in Nat BY <1>5, <2>2
    <3>2. w \in Nat \ {0} BY <2>2
    <3> HIDE DEF w, r
    <3>3. r % w \in 0..(w - 1) BY <3>1, <3>2
    <3>4. (r % w) + 1 \in 1..w BY <3>2, <3>3
    <3> QED BY <3>4 DEF Succ, w, r
  <2> QED BY <1>5, <2>1, <2>3 DEF MsgOK
\* The three outcomes.
<1>7. CASE initphase[p]
  <2>1. initT' = Kept1(initT, p, tm, new) /\ Insert(nxt, {m}) BY <1>2, <1>7 DEF initgossiprecv, Kept0, Kept1
  <2>2. PICK X : /\ X \in {nxt, {}} /\ msgs' = (msgs \ {m}) \cup X
                 /\ ~initlost' => ~initlost /\ X = nxt
                 /\ initlost' \in {initlost, TRUE}
    <3>1. CASE msgs' = (msgs \ {m}) \cup nxt /\ initlost' = initlost BY <3>1
    <3>2. CASE msgs' = msgs \ {m} /\ initlost' = TRUE
      <4>1. msgs' = (msgs \ {m}) \cup {} BY <3>2
      <4> QED BY <3>2, <4>1
    <3> HIDE DEF nxt
    <3> QED BY <2>1, <3>1, <3>2, InsertAlone
  <2>3. \A x \in X : x.type = "INFORMTEAM" /\ MsgOK(x, sent) BY <1>6, <2>2
  <2> HIDE DEF nxt
  <2>4. ASSUME NEW t \in InitTeam, NEW s \in Sig
        PROVE  /\ TablesReady(initT') /\ Mail(msgs', sent)
               /\ AtMost(initT', msgs', sent, t, s)
               /\ Exactly(initT, msgs, sent, t, s) => Exactly(initT', msgs', sent, t, s)
    <3> DEFINE y == Brings(m, t, s)
               H == SumTo(Len(Todo), HeldTable(initT, t, s))
               H1 == SumTo(Len(Todo), HeldTable(initT', t, s))
               F == Twice(sent, FlyTable(msgs, t, s))
               F1 == Twice(sent, FlyTable(msgs', t, s))
               Z == Twice(sent, SentTable(t, s))
    <3>1. TablesReady(initT') /\ H1 = H + y /\ H \in Nat
      <4>1. initT' = ListsAfter(initT, p, m) /\ Carries(p, m) BY <1>5, <2>1 DEF ListsAfter, Carries
      <4>2. InitAssumption /\ ListAssumption /\ TablesReady(initT) /\ p \in InitPeer BY <1>1
      <4>3. t \in InitTeam /\ s \in Sig OBVIOUS
      <4> QED BY ONLY <4>1, <4>2, <4>3, HeldCounts
    <3>2. Mail(msgs', sent) /\ F1 + y = F /\ F1 \in Nat /\ F \in Nat
      <4>1. InitAssumption /\ ListAssumption /\ SentOK(sent) /\ Mail(msgs, sent) /\ m \in msgs BY <1>1
      <4>2. t \in InitTeam /\ s \in Sig OBVIOUS
      <4>3. msgs' = Remaining(msgs, m, X) /\ Informs(X, sent) BY <2>2, <2>3 DEF Remaining, Informs
      <4> QED BY ONLY <4>1, <4>2, <4>3, TakeCounts
    <3>3. y \in Nat BY <1>5 DEF Brings
    <3>4. AtMost(initT, msgs, sent, t, s) BY <1>1
    <3>5. H + F <= Z BY <3>4 DEF AtMost
    <3>6. Exactly(initT, msgs, sent, t, s) => H + F = Z BY DEF Exactly
    <3> HIDE DEF y, H, H1, F, F1, Z
    <3>7. H1 + F1 = H + F BY <3>1, <3>2, <3>3
    <3>8. AtMost(initT', msgs', sent, t, s) BY <3>5, <3>7 DEF AtMost, H1, F1, Z
    <3>9. Exactly(initT, msgs, sent, t, s) => Exactly(initT', msgs', sent, t, s)
      BY <3>6, <3>7 DEF Exactly, H1, F1, Z
    <3> QED BY <3>1, <3>2, <3>8, <3>9
  <2>5. TablesReady(initT') /\ Mail(msgs', sent')
    <3>1. TablesReady(initT')
      <4>1. DOMAIN initT = InitPeer BY <1>1 DEF TablesReady
      <4>2. old = NewList \/ Fit(old) BY <1>1, <1>5 DEF TablesReady, Kept0
      <4> HIDE DEF old
      <4>3. Fit(new) BY <1>5, <4>2, ReceivedFit
      <4> HIDE DEF new
      <4>4. /\ DOMAIN initT' = InitPeer /\ \A q \in InitPeer : q # p => initT'[q] = initT[q]
            /\ DOMAIN initT'[p] = DOMAIN initT[p] \cup {tm} /\ initT'[p][tm] = new
            /\ \A u \in DOMAIN initT[p] : u # tm => initT'[p][u] = initT[p][u]
        BY <2>1, <4>1, KeptIs
      <4>5. ASSUME NEW q \in InitPeer PROVE /\ DOMAIN initT'[q] \subseteq InitTeam
                                            /\ \A u \in DOMAIN initT'[q] : q \in Owners(u) /\ Fit(initT'[q][u])
        <5>1. /\ DOMAIN initT[q] \subseteq InitTeam
              /\ \A u \in DOMAIN initT[q] : q \in Owners(u) /\ Fit(initT[q][u])
          BY <1>1 DEF TablesReady
        <5>2. CASE q # p BY <4>4, <5>1, <5>2
        <5>3. CASE q = p
          <6>1. ASSUME NEW u \in DOMAIN initT'[p] PROVE p \in Owners(u) /\ Fit(initT'[p][u])
            <7>1. CASE u = tm BY <1>5, <4>3, <4>4, <7>1
            <7>2. CASE u # tm BY <4>4, <5>1, <5>3, <7>2
            <7> QED BY <7>1, <7>2
          <6> QED BY <1>5, <4>4, <5>1, <5>3, <6>1
        <5> QED BY <5>2, <5>3
      <4> QED BY <4>4, <4>5 DEF TablesReady
    <3>2. Mail(msgs', sent)
      <4>1. \A x \in msgs' : MsgOK(x, sent) BY <1>1, <2>2, <2>3 DEF Mail
      <4>2. \A x \in msgs' : x.type = "INITGOSSIP" => x \in msgs BY <2>2, <2>3
      <4> QED BY <1>1, <4>1, <4>2 DEF Mail
    <3> QED BY <1>3, <3>1, <3>2
  <2>6. \A t \in InitTeam, s \in Sig : AtMost(initT', msgs', sent', t, s) BY <1>3, <2>4
  <2>7. ASSUME ~initlost'
        PROVE  Informed(initT', msgs') /\ \A t \in InitTeam, s \in Sig : Exactly(initT', msgs', sent', t, s)
    <3>1. ~initlost /\ X = nxt BY <2>2, <2>7
    <3>2. \A t \in InitTeam, s \in Sig : Exactly(initT', msgs', sent', t, s) BY <1>1, <1>3, <2>4, <3>1
    <3>3. Informed(initT, msgs) BY <1>1, <3>1
    <3>4. DOMAIN initT = InitPeer BY <1>1 DEF TablesReady
    <3>5. /\ \A q \in InitPeer : q # p => initT'[q] = initT[q]
          /\ DOMAIN initT'[p] = DOMAIN initT[p] \cup {tm}
      <4> HIDE DEF new
      <4> QED BY <2>1, <3>4, KeptIs
    <3>6. ASSUME NEW t \in InitTeam, Injective(t), NEW k \in 1..Len(RingIDs[t]),
                 t \in DOMAIN initT'[RingIDs[t][k]]
          PROVE  Told(initT', msgs', t, Succ(t, k))
      <4> DEFINE j == Succ(t, k)
      <4>0. RingIDs[t][k] \in InitPeer BY Inputs
      <4>0a. RingIDs[t][j] \in InitPeer
        <5>1. Len(RingIDs[t]) \in Nat \ {0} /\ RingIDs[t] \in [1..Len(RingIDs[t]) -> InitPeer] BY Inputs
        <5>2. k \in Nat BY <5>1
        <5> DEFINE w == Len(RingIDs[t])
        <5>3. w \in Nat \ {0} /\ k \in Nat BY <5>1, <5>2
        <5> HIDE DEF w
        <5>4. k % w \in 0..(w - 1) BY <5>3
        <5>5. (k % w) + 1 \in 1..w BY <5>3, <5>4
        <5>6. j \in 1..Len(RingIDs[t]) BY <5>5 DEF Succ, w
        <5> HIDE DEF j
        <5> QED BY <5>1, <5>6
      <4> HIDE DEF j
      <4>1. CASE t \in DOMAIN initT[RingIDs[t][k]]
        <5>1. Told(initT, msgs, t, j) BY <3>3, <3>6, <4>1 DEF Informed, j
        <5>2. CASE t \in DOMAIN initT[RingIDs[t][j]]
          <6>1. t \in DOMAIN initT'[RingIDs[t][j]] BY <3>5, <4>0a, <5>2
          <6> QED BY <6>1 DEF Told, j
        <5>3. CASE \E l \in msgs : l.type = "INFORMTEAM" /\ l.team = t /\ l.k = j
          <6>1. PICK l \in msgs : l.type = "INFORMTEAM" /\ l.team = t /\ l.k = j BY <5>3
          <6>2. CASE l = m
            <7>1. RingIDs[t][j] = p /\ tm = t BY <1>2, <6>1, <6>2
            <7>2. t \in DOMAIN initT'[RingIDs[t][j]] BY <3>5, <7>1
            <7> QED BY <7>2 DEF Told, j
          <6>3. CASE l # m
            <7>1. l \in msgs' BY <2>2, <6>3
            <7> QED BY <6>1, <7>1 DEF Told, j
          <6> QED BY <6>2, <6>3
        <5> QED BY <5>1, <5>2, <5>3 DEF Told
      <4>2. CASE t \notin DOMAIN initT[RingIDs[t][k]]
        <5>1. RingIDs[t][k] = p BY <3>5, <3>6, <4>0, <4>2
        <5>2. t = tm BY <3>5, <3>6, <4>2, <5>1
        <5>3. RingIDs[t][m.k] = RingIDs[t][k] /\ m.k \in 1..Len(RingIDs[t]) BY <1>2, <1>5, <5>1, <5>2
        <5>4. m.k = k BY <3>6, <5>3, Distinct
        <5>5. old = NewList BY <4>2, <5>1, <5>2 DEF Kept0
        <5>6. Dummy \notin DOMAIN NewList BY ListAssumption DEF NewList
        <5>7. Fit(received(NewList, m.sig, m.f)) BY <1>5, ReceivedFit
        <5>8. Dummy \in DOMAIN new BY <5>5, <5>7 DEF Fit, IsList
        <5>9. nxt = informteam(p, tm, m.k) BY <5>5, <5>6, <5>8 DEF nxt
        <5>10. PICK x : x \in informteam(p, tm, m.k) BY DEF informteam
        <5>11. x \in msgs' BY <2>2, <3>1, <5>9, <5>10
        <5>12. x.type = "INFORMTEAM" /\ x.team = t /\ x.k = Succ(t, k) BY <1>6, <5>2, <5>4, <5>10
        <5> QED BY <5>11, <5>12 DEF Told
      <4> QED BY <4>1, <4>2
    <3>7. Informed(initT', msgs') BY <3>6 DEF Informed
    <3> QED BY <3>2, <3>7
  <2>8. initphase' \in [InitPeer -> BOOLEAN] /\ initlost' \in BOOLEAN /\ SentOK(sent') BY <1>1, <1>3, <2>2
  <2> QED BY <2>5, <2>6, <2>7, <2>8 DEF StartInv
<1>8. CASE ~initphase[p]
  <2>1. msgs' = msgs \ {m} /\ initlost' = TRUE /\ initT' = initT BY <1>2, <1>8 DEF initgossiprecv
  <2>2. msgs' = (msgs \ {m}) \cup {} BY <2>1
  <2>3. ASSUME NEW t \in InitTeam, NEW s \in Sig PROVE AtMost(initT', msgs', sent', t, s)
    <3> DEFINE y == Brings(m, t, s)
               H == SumTo(Len(Todo), HeldTable(initT, t, s))
               F == Twice(sent, FlyTable(msgs, t, s))
               F1 == Twice(sent, FlyTable(msgs', t, s))
               Z == Twice(sent, SentTable(t, s))
    <3>1. F1 + y = F /\ F1 \in Nat /\ F \in Nat
      <4>1. InitAssumption /\ ListAssumption /\ SentOK(sent) /\ Mail(msgs, sent) /\ m \in msgs BY <1>1
      <4>2. t \in InitTeam /\ s \in Sig OBVIOUS
      <4>3. msgs' = Remaining(msgs, m, {}) /\ Informs({}, sent) BY <2>2 DEF Remaining, Informs
      <4> QED BY ONLY <4>1, <4>2, <4>3, TakeCounts
    <3>2. y \in Nat BY <1>5 DEF Brings
    <3>3. H \in Nat BY <1>1, HeldNat
    <3>3a. Z \in Nat
      <4>1. \A q \in InitPeer : \A i \in 1..sent[q] : SentTable(t, s)[q][i] \in Nat
        <5> TAKE q \in InitPeer
        <5> TAKE i \in 1..sent[q]
        <5>1. sent[q] \in Nat /\ sent[q] <= Len(Todo[q]) /\ Len(Todo[q]) \in Nat BY <1>1, Inputs DEF SentOK
        <5>2. i \in 1..Len(Todo[q]) BY <5>1
        <5> QED BY <1>1, <5>2, TableNat
      <4>2. sent \in [InitPeer -> Nat] /\ Len(Todo) \in Nat BY <1>1, Inputs DEF SentOK
      <4> QED BY <4>1, <4>2, TwiceNat
    <3>4. AtMost(initT, msgs, sent, t, s) BY <1>1
    <3>5. H + F <= Z BY <3>4 DEF AtMost
    <3> HIDE DEF y, H, F, F1, Z
    <3>6. H + F1 <= Z BY <3>1, <3>2, <3>3, <3>3a, <3>5
    <3> QED BY <1>3, <2>1, <3>6 DEF AtMost, H, F1, Z
  <2>4. Mail(msgs', sent') BY <1>1, <1>3, <2>1 DEF Mail
  <2> QED BY <1>1, <1>3, <2>1, <2>3, <2>4 DEF StartInv
<1> QED BY <1>7, <1>8

\* Leaving the init phase, and staying as it is.
LEMMA SameInv ==
    ASSUME StartInv, UNCHANGED <<initT, sent, msgs, initlost>>, initphase' \in [InitPeer -> BOOLEAN]
    PROVE  StartInv'
BY DEF StartInv

LEMMA InitNextInv ==
    ASSUME InitAssumption, ListAssumption, StartInv, [InitNext]_initVars,
           copies \in Nat, copies' = 0
    PROVE  StartInv'
<1>1. ASSUME NEW p \in InitPeer, lshsig(p) PROVE StartInv' BY <1>1, LshsigInv
<1>2. ASSUME NEW p \in InitPeer, Receive(p) PROVE StartInv' BY <1>2, ReceiveInv
<1>3. ASSUME NEW p \in InitPeer, EndInit(p) PROVE StartInv'
  <2>1. initphase' \in [InitPeer -> BOOLEAN] BY <1>3 DEF StartInv, EndInit
  <2> QED BY <1>3, <2>1, SameInv DEF EndInit
<1>4. ASSUME UNCHANGED initVars PROVE StartInv'
  <2>1. initphase' \in [InitPeer -> BOOLEAN] BY <1>4 DEF StartInv, initVars
  <2> QED BY <1>4, <2>1, SameInv DEF initVars
<1>5. InitFinished => UNCHANGED initVars BY DEF InitFinished
<1> QED BY <1>1, <1>2, <1>3, <1>4, <1>5 DEF InitNext

\* The sums of the property are those of the tables.
LEMMA SumsAre ==
    ASSUME InitAssumption, StartInv, NEW t \in InitTeam, NEW s \in Sig
    PROVE  /\ SentFreq(t, s) = Twice(sent, SentTable(t, s))
           /\ FlyingFreq(t, s) = Twice(sent, FlyTable(msgs, t, s))
           /\ HeldFreq(t, s) = SumTo(Len(Todo), HeldTable(initT, t, s))
<1>1. ASSUME NEW p \in InitPeer, NEW i \in 1..sent[p] PROVE i \in 1..Len(Todo[p])
  <2>1. sent[p] \in Nat /\ sent[p] <= Len(Todo[p]) /\ Len(Todo[p]) \in Nat BY Inputs DEF StartInv, SentOK
  <2> QED BY <2>1
<1>2. SentFreq(t, s) = Twice(sent, SentTable(t, s))
  <2>1. ASSUME NEW p \in InitPeer, NEW i \in 1..sent[p] PROVE SentTable(t, s)[p][i] = SentEntry(p, i, t, s)
    BY <1>1 DEF SentTable
  <2>2. ASSUME NEW p \in InitPeer
        PROVE  [i \in 1..sent[p] |-> SentTable(t, s)[p][i]] = [i \in 1..sent[p] |-> SentEntry(p, i, t, s)]
    BY <2>1
  <2>3. [p \in InitPeer |-> SumTo(sent[p], [i \in 1..sent[p] |-> SentTable(t, s)[p][i]])]
        = [p \in InitPeer |-> SumTo(sent[p], [i \in 1..sent[p] |-> SentEntry(p, i, t, s)])]
    BY <2>2
  <2> QED BY <2>3 DEF SentFreq, Twice
<1>3. FlyingFreq(t, s) = Twice(sent, FlyTable(msgs, t, s))
  <2> DEFINE V(p, i) == IF Flying(p, i, t, s) = {} THEN 0 ELSE (CHOOSE m \in Flying(p, i, t, s) : TRUE).f
  <2>1. ASSUME NEW p \in InitPeer, NEW i \in 1..sent[p] PROVE FlyTable(msgs, t, s)[p][i] = V(p, i)
    <3>1. FlyTable(msgs, t, s)[p][i] = FlyVal(msgs, p, i, t, s) BY <1>1 DEF FlyTable
    <3>2. FlyingIn(msgs, p, i, t, s) = Flying(p, i, t, s) BY DEF FlyingIn, Flying
    <3> QED BY <3>1, <3>2 DEF FlyVal
  <2>2. ASSUME NEW p \in InitPeer
        PROVE  [i \in 1..sent[p] |-> FlyTable(msgs, t, s)[p][i]] = [i \in 1..sent[p] |-> V(p, i)]
    <3> HIDE DEF V
    <3> QED BY <2>1
  <2>3. [p \in InitPeer |-> SumTo(sent[p], [i \in 1..sent[p] |-> FlyTable(msgs, t, s)[p][i]])]
        = [p \in InitPeer |-> SumTo(sent[p], [i \in 1..sent[p] |-> V(p, i)])]
    <3> HIDE DEF V
    <3> QED BY <2>2
  <2> QED BY <2>3 DEF FlyingFreq, Twice
<1>4. HeldFreq(t, s) = SumTo(Len(Todo), HeldTable(initT, t, s))
  <2>1. HeldTable(initT, t, s)
        = [p \in InitPeer |-> IF HeldBy(p, t) /\ s \in DOMAIN initT[p][t] THEN initT[p][t][s].f ELSE 0]
    BY DEF HeldTable, HeldBy, FreqIn
  <2> QED BY <2>1 DEF HeldFreq
<1> QED BY <1>2, <1>3, <1>4

\* What also holds when replicas are delivered: every list is fit, and every
\* message is one for an ID of its team.
FitTables(T) ==
    /\ DOMAIN T = InitPeer
    /\ \A p \in InitPeer : /\ DOMAIN T[p] \subseteq InitTeam
                           /\ \A t \in DOMAIN T[p] : Fit(T[p][t])
Addressed(m) ==
    /\ m \in [type : {"INITGOSSIP", "INFORMTEAM"}, src : Seq(Nat), team : InitTeam, k : Nat,
              to : InitPeer, sig : Sig \cup {Dummy}, f : Nat]
    /\ m.k \in 1..Len(RingIDs[m.team]) /\ (m.sig = Dummy => m.f = 0)

AlwaysInv ==
    /\ FitTables(initT) /\ SentOK(sent) /\ (\A m \in msgs : Addressed(m))
    /\ initphase \in [InitPeer -> BOOLEAN] /\ initlost \in BOOLEAN /\ copies \in 0..MaxCopies

PhaseInv == AlwaysInv /\ (copies = 0 => StartInv)

\* A message made for an ID of the team is addressed; so are its replicas.
LEMMA MessageAddressed ==
    ASSUME InitAssumption, NEW ty \in {"INITGOSSIP", "INFORMTEAM"}, NEW src \in Seq(Nat),
           NEW t \in InitTeam, NEW k \in 1..Len(RingIDs[t]), NEW s \in Sig \cup {Dummy},
           NEW f \in Nat, s = Dummy => f = 0
    PROVE  Addressed(Message(ty, src, t, k, s, f))
<1>1. Len(RingIDs[t]) \in Nat /\ RingIDs[t][k] \in InitPeer BY Inputs
<1>2. k \in Nat BY <1>1
<1> QED BY <1>1, <1>2 DEF Addressed, Message

LEMMA ReplicaAddressed ==
    ASSUME InitAssumption, NEW m, Addressed(m), NEW r \in Replicas(m)
    PROVE  Addressed(r)
<1>1. PICK k \in 1..(InitPut - 1) : r = [m EXCEPT !.to = ((@ - 1 + k) % Len(Todo)) + 1] BY DEF Replicas
<1>2. m.to \in InitPeer /\ Len(Todo) \in Nat BY Inputs DEF Addressed
<1>3. InitPut \in Nat /\ k \in Nat BY DEF InitAssumption
<1> DEFINE n == Len(Todo)
           a == m.to - 1 + k
<1>4. n \in Nat \ {0} /\ a \in Nat BY <1>2, <1>3 DEF InitPeer
<1> HIDE DEF n, a
<1>5. a % n \in 0..(n - 1) BY <1>4
<1>6. (a % n) + 1 \in 1..n BY <1>4, <1>5
<1>7. (a % n) + 1 \in InitPeer BY <1>6 DEF InitPeer, n
<1>8. r = [m EXCEPT !.to = (a % n) + 1] BY <1>1 DEF a, n
<1> QED BY <1>7, <1>8 DEF Addressed

LEMMA InsertAddressed ==
    ASSUME InitAssumption, NEW M, NEW R, Insert(M, R), \A m \in msgs : Addressed(m),
           \A m \in M : Addressed(m), initlost \in BOOLEAN, copies \in 0..MaxCopies
    PROVE  (\A m \in msgs' : Addressed(m)) /\ initlost' \in BOOLEAN /\ copies' \in 0..MaxCopies
<1>0. MaxCopies \in Nat BY DEF InitAssumption
<1>1. CASE msgs' = msgs \ R /\ initlost' = TRUE /\ UNCHANGED copies BY <1>1
<1>2. CASE /\ UNCHANGED initlost
           /\ \E C \in SUBSET UNION {Replicas(m) : m \in M} :
                 /\ msgs' = ((msgs \ R) \cup M) \cup C
                 /\ IF C = {} THEN UNCHANGED copies ELSE copies < MaxCopies /\ copies' = copies + 1
  <2>1. PICK C \in SUBSET UNION {Replicas(m) : m \in M} :
            /\ msgs' = ((msgs \ R) \cup M) \cup C
            /\ IF C = {} THEN UNCHANGED copies ELSE copies < MaxCopies /\ copies' = copies + 1
    BY <1>2
  <2>2. copies' \in 0..MaxCopies BY <1>0, <2>1
  <2>3. ASSUME NEW r \in C PROVE Addressed(r)
    <3>1. PICK m \in M : r \in Replicas(m) BY <2>3
    <3> QED BY <3>1, ReplicaAddressed
  <2> QED BY <1>2, <2>1, <2>2, <2>3
<1> QED BY <1>1, <1>2 DEF Insert

\* A message leaves the lists fit.
LEMMA FitAfter ==
    ASSUME InitAssumption, ListAssumption, NEW T, FitTables(T), NEW p \in InitPeer,
           NEW m, Addressed(m), NEW T1, T1 = ListsAfter(T, p, m)
    PROVE  FitTables(T1)
<1> DEFINE tm == m.team
           old == Kept0(T, p, tm)
           new == received(old, m.sig, m.f)
<1>1. tm \in InitTeam /\ m.sig \in Sig \cup {Dummy} /\ m.f \in Nat /\ (m.sig = Dummy => m.f = 0)
  BY DEF Addressed
<1>2. old = NewList \/ Fit(old) BY DEF FitTables, Kept0
<1>3. T1 = Kept1(T, p, tm, new) BY DEF ListsAfter
<1> HIDE DEF old
<1>4. Fit(new) BY <1>1, <1>2, ReceivedFit
<1> HIDE DEF new, tm
<1>5. DOMAIN T = InitPeer BY DEF FitTables
<1>6. /\ DOMAIN T1 = InitPeer /\ \A q \in InitPeer : q # p => T1[q] = T[q]
      /\ DOMAIN T1[p] = DOMAIN T[p] \cup {tm} /\ T1[p][tm] = new
      /\ \A u \in DOMAIN T[p] : u # tm => T1[p][u] = T[p][u]
  BY <1>3, <1>5, KeptIs
<1>7. ASSUME NEW q \in InitPeer
      PROVE  DOMAIN T1[q] \subseteq InitTeam /\ \A u \in DOMAIN T1[q] : Fit(T1[q][u])
  <2>1. DOMAIN T[q] \subseteq InitTeam /\ \A u \in DOMAIN T[q] : Fit(T[q][u]) BY DEF FitTables
  <2>2. CASE q # p BY <1>6, <2>1, <2>2
  <2>3. CASE q = p
    <3>1. ASSUME NEW u \in DOMAIN T1[p] PROVE Fit(T1[p][u])
      <4>1. CASE u = tm BY <1>4, <1>6, <4>1
      <4>2. CASE u # tm BY <1>6, <2>1, <2>3, <4>2
      <4> QED BY <4>1, <4>2
    <3> QED BY <1>1, <1>6, <2>1, <2>3, <3>1 DEF tm
  <2> QED BY <2>2, <2>3
<1> QED BY <1>6, <1>7 DEF FitTables

LEMMA AlwaysNext ==
    ASSUME InitAssumption, ListAssumption, AlwaysInv, [InitNext]_initVars
    PROVE  AlwaysInv'
<1>0. /\ FitTables(initT) /\ SentOK(sent) /\ (\A m \in msgs : Addressed(m))
      /\ initphase \in [InitPeer -> BOOLEAN] /\ initlost \in BOOLEAN /\ copies \in 0..MaxCopies
  BY DEF AlwaysInv
<1>1. ASSUME NEW p \in InitPeer, lshsig(p) PROVE AlwaysInv'
  <2> DEFINE n == sent[p]
             e == Todo[p][n + 1]
  <2>1. n < Len(Todo[p]) /\ sent' = Counted(sent, p) /\ initT' = initT /\ initphase' = initphase
    BY <1>1 DEF lshsig, Counted
  <2>2. n \in Nat /\ Len(Todo[p]) \in Nat /\ n + 1 \in 1..Len(Todo[p]) BY <1>0, <2>1, Inputs DEF SentOK
  <2>3. e.team \in InitTeam /\ e.sig \in Sig /\ e.freq \in Nat /\ Unit \in Nat
    BY <2>2, Inputs, ListAssumption
  <2>4. PICK k \in DOMAIN RingIDs[e.team] :
            Insert({Message("INITGOSSIP", <<p, n>>, e.team, k, e.sig, e.freq * Unit)}, {})
    BY <1>1 DEF lshsig
  <2>5. e.freq * Unit \in Nat BY <2>3
  <2>6. <<p, n>> \in Seq(Nat) BY <2>2, Inputs DEF InitPeer
  <2>7. k \in 1..Len(RingIDs[e.team]) BY <2>3, Inputs
  <2>8. e.sig # Dummy BY <2>3, ListAssumption
  <2> DEFINE f == e.freq * Unit
             m == Message("INITGOSSIP", <<p, n>>, e.team, k, e.sig, f)
  <2> HIDE DEF f, e
  <2>9. Addressed(m) BY <2>3, <2>5, <2>6, <2>7, <2>8, MessageAddressed DEF f
  <2>10. Insert({m}, {}) BY <2>4 DEF f
  <2> HIDE DEF m
  <2>11. \A x \in {m} : Addressed(x) BY <2>9
  <2>12. (\A x \in msgs' : Addressed(x)) /\ initlost' \in BOOLEAN /\ copies' \in 0..MaxCopies
    BY <1>0, <2>10, <2>11, InsertAddressed
  <2>13. SentOK(sent')
    <3>1. sent \in [InitPeer -> Nat] /\ \A q \in InitPeer : sent[q] <= Len(Todo[q]) BY <1>0 DEF SentOK
    <3>2. sent' \in [InitPeer -> Nat] BY <2>1, <2>2, <3>1 DEF Counted
    <3>3. sent'[p] = n + 1 /\ \A q \in InitPeer : q # p => sent'[q] = sent[q] BY <2>1, <3>1 DEF Counted
    <3>4. ASSUME NEW q \in InitPeer PROVE sent'[q] <= Len(Todo[q])
      <4>1. CASE q = p BY <2>1, <2>2, <3>3, <4>1
      <4>2. CASE q # p BY <3>1, <3>3, <4>2
      <4> QED BY <4>1, <4>2
    <3> QED BY <3>2, <3>4 DEF SentOK
  <2> QED BY <1>0, <2>1, <2>12, <2>13 DEF AlwaysInv
<1>2. ASSUME NEW p \in InitPeer, Receive(p) PROVE AlwaysInv'
  <2>1. PICK m \in msgs : m.to = p /\ initgossiprecv(p, m) BY <1>2 DEF Receive
  <2>2. sent' = sent /\ initphase' = initphase BY <1>2 DEF Receive
  <2>3. Addressed(m) BY <1>0
  <2>4. CASE ~initphase[p]
    <3>1. msgs' = msgs \ {m} /\ initlost' = TRUE /\ initT' = initT /\ copies' = copies
      BY <2>1, <2>4 DEF initgossiprecv
    <3> QED BY <1>0, <2>2, <3>1 DEF AlwaysInv
  <2>5. CASE initphase[p]
    <3> DEFINE new == received(Kept0(initT, p, m.team), m.sig, m.f)
               nxt == IF Dummy \in DOMAIN new /\ Dummy \notin DOMAIN Kept0(initT, p, m.team)
                      THEN informteam(p, m.team, m.k) ELSE {}
    <3>1. initT' = ListsAfter(initT, p, m) /\ Insert(nxt, {m})
      BY <2>1, <2>5 DEF initgossiprecv, Kept0, Kept1, ListsAfter
    <3>2. FitTables(initT') BY <1>0, <2>3, <3>1, FitAfter
    <3>3. m.team \in InitTeam /\ m.k \in 1..Len(RingIDs[m.team]) BY <2>3 DEF Addressed
    <3>4. ASSUME NEW x \in informteam(p, m.team, m.k) PROVE Addressed(x)
      <4> DEFINE w == Len(RingIDs[m.team])
                 r == m.k
      <4>1. w \in Nat \ {0} /\ r \in Nat BY <3>3, Inputs
      <4> HIDE DEF w, r
      <4>2. r % w \in 0..(w - 1) BY <4>1
      <4>3. (r % w) + 1 \in 1..w BY <4>1, <4>2
      <4>4. (m.k % Len(RingIDs[m.team])) + 1 \in 1..Len(RingIDs[m.team]) BY <4>3 DEF w, r
      <4>5. <<p>> \in Seq(Nat) BY Inputs DEF InitPeer
      <4>6. x = Message("INFORMTEAM", <<p>>, m.team, (m.k % Len(RingIDs[m.team])) + 1, Dummy, 0)
        BY <3>4 DEF informteam
      <4> QED BY <3>3, <4>4, <4>5, <4>6, MessageAddressed
    <3>5. \A x \in nxt : Addressed(x) BY <3>4
    <3> HIDE DEF nxt
    <3>6. (\A x \in msgs' : Addressed(x)) /\ initlost' \in BOOLEAN /\ copies' \in 0..MaxCopies
      BY <1>0, <3>1, <3>5, InsertAddressed
    <3> QED BY <1>0, <2>2, <3>2, <3>6 DEF AlwaysInv
  <2> QED BY <2>4, <2>5
<1>3. ASSUME NEW p \in InitPeer, EndInit(p) PROVE AlwaysInv'
  BY <1>0, <1>3 DEF EndInit, AlwaysInv
<1>4. ASSUME UNCHANGED initVars PROVE AlwaysInv' BY <1>0, <1>4 DEF initVars, AlwaysInv
<1>5. InitFinished => UNCHANGED initVars BY DEF InitFinished
<1> QED BY <1>1, <1>2, <1>3, <1>4, <1>5 DEF InitNext

\* Replicas are never taken back.
LEMMA CopiesGrow ==
    ASSUME InitAssumption, AlwaysInv, [InitNext]_initVars, copies' = 0
    PROVE  copies = 0
<1>1. copies \in Nat BY DEF AlwaysInv, InitAssumption
<1>2. ASSUME NEW M, NEW R, Insert(M, R) PROVE copies = 0 BY <1>1, <1>2, InsertAlone
<1>3. ASSUME NEW p \in InitPeer, lshsig(p) PROVE copies = 0 BY <1>2, <1>3 DEF lshsig
<1>4. ASSUME NEW p \in InitPeer, Receive(p) PROVE copies = 0
  <2>1. PICK m \in msgs : initgossiprecv(p, m) BY <1>4 DEF Receive
  <2>2. CASE initphase[p] BY <1>2, <2>1, <2>2 DEF initgossiprecv
  <2>3. CASE ~initphase[p] BY <2>1, <2>3 DEF initgossiprecv
  <2> QED BY <2>2, <2>3
<1> QED BY <1>3, <1>4 DEF InitNext, EndInit, InitFinished, initVars

LEMMA PhaseInvNext ==
    ASSUME InitAssumption, ListAssumption, PhaseInv, [InitNext]_initVars
    PROVE  PhaseInv'
<1>1. AlwaysInv /\ AlwaysInv' BY AlwaysNext DEF PhaseInv
<1>2. ASSUME copies' = 0 PROVE StartInv'
  <2>1. copies \in Nat BY <1>1 DEF AlwaysInv, InitAssumption
  <2>2. StartInv BY <1>1, <1>2, CopiesGrow DEF PhaseInv
  <2> QED BY <1>2, <2>1, <2>2, InitNextInv
<1> QED BY <1>1, <1>2 DEF PhaseInv

\* The invariant gives the three parts of InitRight.  Nobody is left out: the IDs
\* whose owners hold a list are closed under the next, so they are the whole ring.
LEMMA PhaseInvRight == ASSUME InitAssumption, ListAssumption, PhaseInv PROVE InitRight
<1>0. /\ FitTables(initT) /\ SentOK(sent) /\ (\A m \in msgs : Addressed(m))
      /\ initphase \in [InitPeer -> BOOLEAN] /\ initlost \in BOOLEAN /\ copies \in 0..MaxCopies
      /\ copies = 0 => StartInv
  BY DEF PhaseInv, AlwaysInv
<1>1. ASSUME copies = 0
      PROVE
      /\ TablesReady(initT) /\ SentOK(sent) /\ Mail(msgs, sent)
      /\ initphase \in [InitPeer -> BOOLEAN] /\ initlost \in BOOLEAN
      /\ \A t \in InitTeam, s \in Sig : AtMost(initT, msgs, sent, t, s)
      /\ ~initlost => /\ \A t \in InitTeam, s \in Sig : Exactly(initT, msgs, sent, t, s)
                      /\ Informed(initT, msgs)
  BY <1>0, <1>1 DEF StartInv
<1>2. InitTypeOK
  <2>1. \A p \in InitPeer : sent[p] \in 0..Len(Todo[p])
    <3> TAKE p \in InitPeer
    <3>1. sent[p] \in Nat /\ sent[p] <= Len(Todo[p]) /\ Len(Todo[p]) \in Nat BY <1>0, Inputs DEF SentOK
    <3> QED BY <3>1
  <2>2. ASSUME NEW m \in msgs
        PROVE  /\ m.to \in InitPeer /\ m.team \in InitTeam
               /\ m.k \in DOMAIN RingIDs[m.team] /\ m.sig \in Sig \cup {Dummy}
    BY <1>0, Inputs DEF Addressed
  <2>3. \A p \in InitPeer : DOMAIN initT[p] \subseteq InitTeam BY <1>0 DEF FitTables
  <2> QED BY <1>0, <2>1, <2>2, <2>3 DEF InitTypeOK
<1>3. ListsReady
  <2>1. ASSUME NEW p \in InitPeer, NEW t \in DOMAIN initT[p], copies = 0 PROVE p \in Owners(t)
    BY <1>1, <2>1 DEF TablesReady
  <2> QED BY <1>0, <1>2, <2>1 DEF ListsReady, FitTables, Fit
<1>4. FreqConserved
  <2>1. ASSUME copies = 0, NEW t \in InitTeam, NEW s \in Sig
        PROVE  /\ HeldFreq(t, s) + FlyingFreq(t, s) <= SentFreq(t, s)
               /\ ~initlost => HeldFreq(t, s) + FlyingFreq(t, s) = SentFreq(t, s)
    <3>1. /\ SentFreq(t, s) = Twice(sent, SentTable(t, s))
          /\ FlyingFreq(t, s) = Twice(sent, FlyTable(msgs, t, s))
          /\ HeldFreq(t, s) = SumTo(Len(Todo), HeldTable(initT, t, s))
      BY <1>0, <2>1, SumsAre
    <3>2. AtMost(initT, msgs, sent, t, s) /\ (~initlost => Exactly(initT, msgs, sent, t, s)) BY <1>1, <2>1
    <3> QED BY <3>1, <3>2 DEF AtMost, Exactly
  <2> QED BY <2>1 DEF FreqConserved
<1>5. AllInformed
  <2>1. SUFFICES ASSUME ~initlost, copies = 0, msgs = {}, NEW t \in InitTeam, Injective(t),
                        NEW q \in InitPeer, HeldBy(q, t), NEW p \in Owners(t)
                 PROVE  HeldBy(p, t)
    BY DEF AllInformed
  <2> DEFINE n == Len(RingIDs[t])
             Y == {k \in 1..n : t \in DOMAIN initT[RingIDs[t][k]]}
  <2>2. n \in Nat \ {0} /\ DOMAIN RingIDs[t] = 1..n BY Inputs
  <2>3. Owners(t) = {RingIDs[t][k] : k \in 1..n} BY <2>2 DEF Owners, Range
  <2>4. q \in Owners(t) BY <1>1, <2>1 DEF TablesReady, HeldBy
  <2>5. Y # {}
    <3>1. PICK k \in 1..n : RingIDs[t][k] = q BY <2>3, <2>4
    <3>2. k \in Y BY <2>1, <3>1 DEF HeldBy
    <3> QED BY <3>2
  <2>6. ASSUME NEW k \in Y PROVE (k % n) + 1 \in Y
    <3>1. k \in 1..n /\ t \in DOMAIN initT[RingIDs[t][k]] BY <2>6
    <3>2. Told(initT, msgs, t, Succ(t, k)) BY <1>1, <2>1, <3>1 DEF Informed
    <3>3. t \in DOMAIN initT[RingIDs[t][Succ(t, k)]] BY <2>1, <3>2 DEF Told
    <3>4. Succ(t, k) = (k % n) + 1 BY DEF Succ
    <3>5. (k % n) + 1 \in 1..n
      <4> HIDE DEF n
      <4>1. k \in Nat BY <2>2, <3>1
      <4>2. k % n \in 0..(n - 1) BY <2>2, <4>1
      <4> QED BY <2>2, <4>2
    <3> QED BY <3>3, <3>4, <3>5
  <2>7. Y \in SUBSET (1..n) OBVIOUS
  <2> HIDE DEF n, Y
  <2>8. Y = 1..n BY <2>2, <2>5, <2>6, <2>7, RingClosed
  <2>9. PICK k \in 1..n : RingIDs[t][k] = p BY <2>3
  <2>10. k \in Y BY <2>8
  <2> QED BY <2>9, <2>10 DEF HeldBy, Y
<1> QED BY <1>3, <1>4, <1>5 DEF InitRight

\* The init phase, whatever is sent, however the messages of lshsig,
\* initgossiprecv and informteam are ordered, copied or lost: every list is fit for
\* the exec phase.  As long as no replica is delivered to a further successor, no
\* frequency is counted twice or lost unnoticed, only members of a team hold its
\* list, and when nothing was lost and nothing is under way all of them do.
THEOREM InitSafe == ASSUME InitAssumption PROVE InitSpec => []InitRight
<1>0. ListAssumption BY ListAssumption
<1>1. InitInit => PhaseInv
  <2>1. SUFFICES ASSUME InitInit PROVE PhaseInv OBVIOUS
  <2>2. StartInv BY <2>1, StartInvInit
  <2>3. FitTables(initT) BY <2>2 DEF StartInv, TablesReady, FitTables
  <2>4. copies \in 0..MaxCopies BY <2>1 DEF InitInit, InitAssumption
  <2> QED BY <2>1, <2>2, <2>3, <2>4 DEF PhaseInv, AlwaysInv, StartInv, InitInit
<1>2. PhaseInv /\ [InitNext]_initVars => PhaseInv' BY <1>0, PhaseInvNext
<1>3. PhaseInv => InitRight BY <1>0, PhaseInvRight
<1> QED BY <1>1, <1>2, <1>3, PTL DEF InitSpec
===============================================================================
