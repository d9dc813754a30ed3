------------------------------ MODULE PeerProofs ------------------------------
(* Proofs about what a peer does with the mass it exchanges: PushSum, which   *)
(* promises its conservation, InsertDHT, GossipSock and StpManager, which     *)
(* carry its messages, MergeLoop, which adds the received lists up, Retrieve, *)
(* which fetches the blocks of the index, and LocationTable, which finds the  *)
(* node to send to; each on its own.                                          *)
EXTENDS PushSum, InsertDHT, GossipSock, StpManager, MergeLoop, Retrieve,
        LocationTable, DataLemmas

-------------------------------------------------------------------------------
(* PushSum: mass conservation of the push-sum exchange, for any number of     *)
(* peers, any initial masses and any interleaving of rounds, failures and     *)
(* deliveries.                                                                *)

\* Changing one entry of a function changes its sum by the same amount.
LEMMA SumExcept ==
    ASSUME NEW f \in [Peer -> Nat], NEW p \in Peer, NEW v \in Nat
    PROVE  /\ SumTo(N, [f EXCEPT ![p] = v]) = SumTo(N, f) + (v - f[p])
           /\ SumTo(N, f) \in Int
<1> DEFINE g == [f EXCEPT ![p] = v]
<1>1. N \in Nat /\ p \in 1..N BY NAssumption DEF Peer
<1>2. \A i \in 1..N : f[i] \in Int /\ g[i] \in Int BY DEF Peer
<1>3. \A i \in 1..N : i # p => g[i] = f[i] BY DEF Peer
<1>5. g[p] = v OBVIOUS
<1> HIDE DEF g
<1>4. SumTo(N, g) = SumTo(N, f) + (g[p] - f[p]) BY <1>1, <1>2, <1>3, SumPoint
<1>6. SumTo(N, f) \in Int BY <1>1, <1>2, SumType
<1> QED BY <1>4, <1>5, <1>6 DEF g

\* Initially all the mass is kept.
LEMMA InitTotal == Init => Inv
<1> SUFFICES ASSUME Init PROVE Inv OBVIOUS
<1> USE NAssumption, StartAssumption
<1>1. TypeOK BY DEF Init, TypeOK
<1>2. KeptHalf BY DEF Init, KeptHalf
<1>3. SumTo(N, wire) = 0 /\ SumTo(N, sock) = 0 /\ SumTo(N, inbox) = 0
  <2>1. \A i \in 1..N : wire[i] = 0 /\ sock[i] = 0 /\ inbox[i] = 0 BY DEF Init, Peer
  <2> QED BY <2>1, SumZero
<1>4. SumTo(N, kept) = SumTo(N, Start) BY DEF Init
<1>5. SumTo(N, Start) \in Int
  <2>1. \A i \in 1..N : Start[i] \in Int BY DEF Peer
  <2> QED BY <2>1, SumType
<1>6. Total = SumTo(N, Start) BY <1>3, <1>4, <1>5 DEF Total
<1>7. MassConserved BY <1>5, <1>6 DEF MassConserved
<1> QED BY <1>1, <1>2, <1>7 DEF Inv

\* Every step keeps the masses natural numbers and the phases in range.
LEMMA TypeStep == TypeOK /\ [Next]_vars => TypeOK'
<1> SUFFICES ASSUME TypeOK, [Next]_vars PROVE TypeOK' OBVIOUS
<1> USE DEF TypeOK
<1>1. ASSUME NEW p \in Peer, Split(p) PROVE TypeOK'
  <2>1. kept[p] \in Nat /\ inbox[p] \in Nat OBVIOUS
  <2>2. \A h \in 0..(kept[p] + inbox[p]) : h \in Nat BY <2>1
  <2>3. PICK h \in Nat : /\ kept' = [kept EXCEPT ![p] = h]
                         /\ wire' = [wire EXCEPT ![p] = h]
    BY <1>1, <2>2 DEF Split
  <2> QED BY <1>1, <2>3 DEF Split
<1>2. ASSUME NEW p \in Peer, Consume(p) PROVE TypeOK' BY <1>2 DEF Consume
<1>3. ASSUME NEW p \in Peer, Read(p) PROVE TypeOK'
  <2>1. PICK m \in 0..sock[p] :
            /\ sock' = [sock EXCEPT ![p] = @ - m]
            /\ inbox' = [inbox EXCEPT ![p] = @ + m]
    BY <1>3 DEF Read
  <2>2. sock[p] \in Nat /\ sock[p] - m \in Nat /\ inbox[p] + m \in Nat BY <2>1
  <2> QED BY <1>3, <2>1, <2>2 DEF Read
<1>4. ASSUME NEW p \in Peer, Drop(p) PROVE TypeOK' BY <1>4 DEF Drop
<1>5. ASSUME NEW p \in Peer, NEW q \in Peer, Accept(p, q) PROVE TypeOK'
  BY <1>5 DEF Accept
<1>6. CASE UNCHANGED vars BY <1>6 DEF vars
<1> QED BY <1>1, <1>2, <1>3, <1>4, <1>5, <1>6 DEF Next

\* Every step keeps wire and kept in agreement.
LEMMA KeptHalfStep == TypeOK /\ KeptHalf /\ [Next]_vars => KeptHalf'
<1> SUFFICES ASSUME TypeOK, KeptHalf, [Next]_vars PROVE KeptHalf' OBVIOUS
<1> USE DEF TypeOK, KeptHalf
<1>1. ASSUME NEW p \in Peer, Split(p) PROVE KeptHalf' BY <1>1 DEF Split
<1>2. ASSUME NEW p \in Peer, Consume(p) PROVE KeptHalf' BY <1>2 DEF Consume
<1>3. ASSUME NEW p \in Peer, Read(p) PROVE KeptHalf' BY <1>3 DEF Read
<1>4. ASSUME NEW p \in Peer, Drop(p) PROVE KeptHalf' BY <1>4 DEF Drop
<1>5. ASSUME NEW p \in Peer, NEW q \in Peer, Accept(p, q) PROVE KeptHalf'
  BY <1>5 DEF Accept
<1>6. CASE UNCHANGED vars BY <1>6 DEF vars
<1> QED BY <1>1, <1>2, <1>3, <1>4, <1>5, <1>6 DEF Next

\* A step keeps the total, or is a Drop, which marks its peer done and can
\* only lower the total.
LEMMA TotalStep ==
    TypeOK /\ KeptHalf /\ [Next]_vars =>
        /\ Total \in Int
        /\ \/ Total' = Total /\ done' = done
           \/ Total' <= Total /\ \E p \in Peer : done'[p]
<1> DEFINE Goal == /\ Total \in Int
                   /\ \/ Total' = Total /\ done' = done
                      \/ Total' <= Total /\ \E p \in Peer : done'[p]
<1> SUFFICES ASSUME TypeOK, KeptHalf, [Next]_vars PROVE Goal OBVIOUS
<1>t. \A f \in [Peer -> Nat] : SumTo(N, f) \in Int
  <2>1. ASSUME NEW f \in [Peer -> Nat] PROVE SumTo(N, f) \in Int
    <3>1. \A i \in 1..N : f[i] \in Int BY DEF Peer
    <3> QED BY <3>1, NAssumption, SumType
  <2> QED BY <2>1
<1>u. Total \in Int BY <1>t DEF Total, TypeOK
<1>v. /\ kept \in [Peer -> Nat] /\ wire \in [Peer -> Nat]
      /\ sock \in [Peer -> Nat] /\ inbox \in [Peer -> Nat]
  BY DEF TypeOK
<1>w. /\ SumTo(N, kept) \in Int /\ SumTo(N, wire) \in Int
      /\ SumTo(N, sock) \in Int /\ SumTo(N, inbox) \in Int
  BY <1>t, <1>v
<1>1. ASSUME NEW p \in Peer, Split(p) PROVE Goal
  <2>0. kept[p] \in Nat /\ inbox[p] \in Nat BY <1>v
  <2>a. \A h \in 0..(kept[p] + inbox[p]) : h \in Nat BY <2>0
  <2>1. PICK h \in Nat : /\ h + h = kept[p] + inbox[p]
                         /\ kept' = [kept EXCEPT ![p] = h]
                         /\ wire' = [wire EXCEPT ![p] = h]
    BY <1>1, <2>a DEF Split
  <2>2. inbox' = [inbox EXCEPT ![p] = 0] /\ sock' = sock /\ done' = done
    BY <1>1 DEF Split
  <2>3. wire[p] = 0 BY <1>1 DEF Split, KeptHalf
  <2>4. SumTo(N, kept') = SumTo(N, kept) + (h - kept[p])
    <3>1. SumTo(N, [kept EXCEPT ![p] = h]) = SumTo(N, kept) + (h - kept[p])
      BY <1>v, SumExcept
    <3> QED BY <2>1, <3>1
  <2>5. SumTo(N, wire') = SumTo(N, wire) + (h - wire[p])
    <3>1. SumTo(N, [wire EXCEPT ![p] = h]) = SumTo(N, wire) + (h - wire[p])
      BY <1>v, SumExcept
    <3> QED BY <2>1, <3>1
  <2>6. SumTo(N, inbox') = SumTo(N, inbox) + (0 - inbox[p])
    <3>1. SumTo(N, [inbox EXCEPT ![p] = 0]) = SumTo(N, inbox) + (0 - inbox[p])
      BY <1>v, SumExcept
    <3> QED BY <2>2, <3>1
  <2>7. SumTo(N, sock') = SumTo(N, sock) BY <2>2
  <2>8. h + h = kept[p] + inbox[p] BY <2>1
  <2>9. Total' = Total
    BY <1>w, <2>0, <2>3, <2>4, <2>5, <2>6, <2>7, <2>8 DEF Total
  <2> QED BY <2>2, <2>9, <1>u
<1>2. ASSUME NEW p \in Peer, Consume(p) PROVE Goal
  <2>1. /\ kept' = [kept EXCEPT ![p] = 2 * kept[p]]
        /\ wire' = [wire EXCEPT ![p] = 0]
        /\ sock' = sock /\ inbox' = inbox /\ done' = done
    BY <1>2 DEF Consume
  <2>2. wire[p] = kept[p] BY <1>2 DEF Consume, KeptHalf
  <2>3. kept[p] \in Nat /\ 2 * kept[p] \in Nat BY <1>v
  <2>4. SumTo(N, kept') = SumTo(N, kept) + (2 * kept[p] - kept[p])
    <3>1. \A v \in Nat : SumTo(N, [kept EXCEPT ![p] = v]) = SumTo(N, kept) + (v - kept[p])
      BY <1>v, SumExcept
    <3> QED BY <2>1, <2>3, <3>1
  <2>5. SumTo(N, wire') = SumTo(N, wire) + (0 - wire[p])
    <3>1. SumTo(N, [wire EXCEPT ![p] = 0]) = SumTo(N, wire) + (0 - wire[p])
      BY <1>v, SumExcept
    <3> QED BY <2>1, <3>1
  <2>6. SumTo(N, sock') = SumTo(N, sock) /\ SumTo(N, inbox') = SumTo(N, inbox) BY <2>1
  <2>7. Total' = Total BY <1>w, <2>2, <2>3, <2>4, <2>5, <2>6 DEF Total
  <2> QED BY <2>1, <2>7, <1>u
<1>3. ASSUME NEW p \in Peer, Read(p) PROVE Goal
  <2>1. PICK m \in 0..sock[p] :
            /\ sock' = [sock EXCEPT ![p] = sock[p] - m]
            /\ inbox' = [inbox EXCEPT ![p] = inbox[p] + m]
    BY <1>3 DEF Read
  <2>2. kept' = kept /\ wire' = wire /\ done' = done BY <1>3 DEF Read
  <2>3. sock[p] \in Nat /\ inbox[p] \in Nat BY <1>v
  <2>4. sock[p] - m \in Nat /\ inbox[p] + m \in Nat /\ m \in Int BY <2>1, <2>3
  <2>5. SumTo(N, sock') = SumTo(N, sock) + ((sock[p] - m) - sock[p])
    <3>1. \A v \in Nat : SumTo(N, [sock EXCEPT ![p] = v]) = SumTo(N, sock) + (v - sock[p])
      BY <1>v, SumExcept
    <3> QED BY <2>1, <2>4, <3>1
  <2>6. SumTo(N, inbox') = SumTo(N, inbox) + ((inbox[p] + m) - inbox[p])
    <3>1. \A v \in Nat : SumTo(N, [inbox EXCEPT ![p] = v]) = SumTo(N, inbox) + (v - inbox[p])
      BY <1>v, SumExcept
    <3> QED BY <2>1, <2>4, <3>1
  <2>7. SumTo(N, kept') = SumTo(N, kept) /\ SumTo(N, wire') = SumTo(N, wire) BY <2>2
  <2>8. Total' = Total BY <1>w, <2>3, <2>4, <2>5, <2>6, <2>7 DEF Total
  <2> QED BY <2>2, <2>8, <1>u
<1>4. ASSUME NEW p \in Peer, Drop(p) PROVE Goal
  <2>1. /\ inbox' = [inbox EXCEPT ![p] = 0]
        /\ kept' = kept /\ wire' = wire /\ sock' = sock
    BY <1>4 DEF Drop
  <2>2. done'[p] BY <1>4 DEF Drop, TypeOK
  <2>3. inbox[p] \in Nat BY <1>v
  <2>4. SumTo(N, inbox') = SumTo(N, inbox) + (0 - inbox[p])
    <3>1. SumTo(N, [inbox EXCEPT ![p] = 0]) = SumTo(N, inbox) + (0 - inbox[p])
      BY <1>v, SumExcept
    <3> QED BY <2>1, <3>1
  <2>5. /\ SumTo(N, kept') = SumTo(N, kept) /\ SumTo(N, wire') = SumTo(N, wire)
        /\ SumTo(N, sock') = SumTo(N, sock)
    BY <2>1
  <2>6. Total' <= Total BY <1>w, <2>3, <2>4, <2>5 DEF Total
  <2> QED BY <2>2, <2>6, <1>u
<1>5. ASSUME NEW p \in Peer, NEW q \in Peer, Accept(p, q) PROVE Goal
  <2>1. /\ sock' = [sock EXCEPT ![q] = sock[q] + wire[p]]
        /\ wire' = [wire EXCEPT ![p] = 0]
        /\ kept' = kept /\ inbox' = inbox /\ done' = done
    BY <1>5 DEF Accept
  <2>2. wire[p] \in Nat /\ sock[q] \in Nat /\ sock[q] + wire[p] \in Nat BY <1>v
  <2>3. SumTo(N, sock') = SumTo(N, sock) + ((sock[q] + wire[p]) - sock[q])
    <3>1. \A v \in Nat : SumTo(N, [sock EXCEPT ![q] = v]) = SumTo(N, sock) + (v - sock[q])
      BY <1>v, SumExcept
    <3> QED BY <2>1, <2>2, <3>1
  <2>4. SumTo(N, wire') = SumTo(N, wire) + (0 - wire[p])
    <3>1. SumTo(N, [wire EXCEPT ![p] = 0]) = SumTo(N, wire) + (0 - wire[p])
      BY <1>v, SumExcept
    <3> QED BY <2>1, <3>1
  <2>5. SumTo(N, kept') = SumTo(N, kept) /\ SumTo(N, inbox') = SumTo(N, inbox) BY <2>1
  <2>6. Total' = Total BY <1>w, <2>2, <2>3, <2>4, <2>5 DEF Total
  <2> QED BY <2>1, <2>6, <1>u
<1>6. CASE UNCHANGED vars BY <1>6, <1>u DEF vars, Total
<1> QED BY <1>1, <1>2, <1>3, <1>4, <1>5, <1>6 DEF Next

\* Inv is inductive.
LEMMA InvStep == Inv /\ [Next]_vars => Inv'
<1> SUFFICES ASSUME Inv, [Next]_vars PROVE Inv' OBVIOUS
<1>1. TypeOK' /\ KeptHalf' BY TypeStep, KeptHalfStep DEF Inv
<1>2. MassConserved'
  <2>1. SumTo(N, Start) \in Int
    <3>1. \A i \in 1..N : Start[i] \in Int BY StartAssumption DEF Peer
    <3> QED BY <3>1, NAssumption, SumType
  <2>2. /\ Total \in Int
        /\ \/ Total' = Total /\ done' = done
           \/ Total' <= Total /\ \E p \in Peer : done'[p]
    BY TotalStep DEF Inv
  <2>3. Total' \in Int
    <3>1. \A f \in [Peer -> Nat] : SumTo(N, f) \in Int
      <4>1. ASSUME NEW f \in [Peer -> Nat] PROVE SumTo(N, f) \in Int
        <5>1. \A i \in 1..N : f[i] \in Int BY DEF Peer
        <5> QED BY <5>1, NAssumption, SumType
      <4> QED BY <4>1
    <3> QED BY <3>1, <1>1 DEF Total, TypeOK
  <2>4. CASE Total' = Total /\ done' = done
    BY <2>4 DEF Inv, MassConserved
  <2>5. CASE Total' <= Total /\ \E p \in Peer : done'[p]
    <3>1. Total <= SumTo(N, Start) BY DEF Inv, MassConserved
    <3>2. Total' <= SumTo(N, Start) BY <2>1, <2>2, <2>3, <2>5, <3>1
    <3> QED BY <2>5, <3>2 DEF MassConserved
  <2> QED BY <2>2, <2>4, <2>5
<1> QED BY <1>1, <1>2 DEF Inv

\* Every reachable state conserves mass, and the sender of an awaited message
\* still holds the half it sent: for every number of peers and every Start.
THEOREM PushSumSafe == Spec => [](TypeOK /\ KeptHalf /\ MassConserved)
<1>1. Init => Inv BY InitTotal
<1>2. Inv /\ [Next]_vars => Inv' BY InvStep
<1>3. Inv => TypeOK /\ KeptHalf /\ MassConserved BY DEF Inv
<1> QED BY <1>1, <1>2, <1>3, PTL DEF Spec

-------------------------------------------------------------------------------
(* InsertDHT: what a call of insertDHT that is alone returns, for any number  *)
(* of calls and of attempts per call, whatever other calls have left behind   *)
(* before it.                                                                 *)

\* The statuses insertDHT may return.
Status == {"SUCC", "NOTFIRST", "FULL", "RETRY", "CORRUPTHDR"}

\* The types of the sequences, which InsertTypeOK leaves to their entries.
Typed ==
    /\ stack \in Seq([call : Nat, numTries : Nat])
    /\ answer \in Seq(Seq(DhashStat))
    /\ returned \in Seq(Status \cup {"none", "FAIL"})
    /\ InsertTypeOK

\* The call c runs alone.
Alone(c) == c \in DOMAIN answer /\ c \notin mixed /\ returned[c] = "none"

\* A call alone is the whole stack, and the shared variables are about its
\* current attempt: either the request is under way and they are as Attempt has
\* left them, or store_cb has counted the one answer there is.
AloneState(c) ==
    /\ Len(stack) = 1 /\ stack[1].call = c
    /\ \/ /\ outstanding = {[call |-> c, try |-> stack[1].numTries]}
          /\ out = 0 /\ ~insertError /\ insertStatus = "SUCC"
          /\ Len(answer[c]) = stack[1].numTries
       \/ /\ outstanding = {}
          /\ Len(answer[c]) = stack[1].numTries + 1
          /\ insertError = (Last(answer[c]) = "ERR")
          /\ ~insertError => insertStatus = DHTStatus(Last(answer[c]))

\* The inductive invariant: whatever is active or outstanding belongs to a call that
\* has mixed with others or to one that is alone, and that one has the state above.
InsertInv ==
    /\ Typed
    /\ \A c \in DOMAIN answer : Alone(c) => AloneState(c)
    /\ \A i \in DOMAIN stack : stack[i].call \in mixed \/ Alone(stack[i].call)
    /\ \A r \in outstanding : r.call \in mixed \/ Alone(r.call)
    /\ OwnStatusAlone

\* What an answer of dhash is turned into.
LEMMA StatusOf == \A stat \in DhashStat : DHTStatus(stat) \in Status \cup {"ERR"}
BY DEF DhashStat, DHTStatus, Status

\* store_cb writes nothing else into insertStatus.
LEMMA StatusType == InsertStatus \subseteq Status
BY DEF InsertStatus, DhashStat, DHTStatus, Status

\* The status a call starts from is one of them.
LEMMA SuccType == "SUCC" \in InsertStatus
<1>1. "OK" \in DhashStat \ {"ERR"} /\ DHTStatus("OK") = "SUCC" BY DEF DHTStatus, DhashStat
<1> QED BY <1>1 DEF InsertStatus

\* No call has been made.
LEMMA InsertInitInv == ASSUME InsertAssumption, InsertInit PROVE InsertInv
<1>1. InsertTypeOK
  <2>1. DOMAIN stack = {} /\ DOMAIN answer = {} /\ DOMAIN returned = {} BY DEF InsertInit
  <2>2. out \in Nat /\ insertError \in BOOLEAN BY DEF InsertInit
  <2>3. insertStatus \in InsertStatus BY SuccType DEF InsertInit
  <2>4. outstanding = {} /\ mixed = {} BY DEF InsertInit
  <2> QED BY <2>1, <2>2, <2>3, <2>4 DEF InsertTypeOK
<1>2. Typed BY <1>1 DEF InsertInit, Typed
<1> QED BY <1>2 DEF InsertInit, InsertInv, OwnStatusAlone, Alone

\* A call on an empty stack is alone; on any other it mixes with the calls there,
\* and the shared variables are about neither any more.
LEMMA CallStep == ASSUME InsertAssumption, InsertInv, Call PROVE InsertInv'
<1>0. PICK c : c = Len(answer) + 1 OBVIOUS
<1> DEFINE e == [call |-> c, numTries |-> 0]
<1>1. /\ Typed /\ InsertTypeOK /\ OwnStatusAlone
      /\ Len(answer) \in Nat /\ DOMAIN answer = 1..Len(answer) /\ DOMAIN returned = DOMAIN answer
      /\ Len(returned) = Len(answer) /\ c \in Nat /\ c \notin DOMAIN answer
  BY <1>0 DEF InsertInv, Typed, InsertTypeOK
<1>2. /\ answer' = Append(answer, <<>>) /\ returned' = Append(returned, "none")
      /\ stack' = Append(stack, e) /\ outstanding' = outstanding \cup {[call |-> c, try |-> 0]}
      /\ out' = 0 /\ insertError' = FALSE /\ insertStatus' = "SUCC"
  BY <1>0 DEF Call, Attempt
<1>3. /\ answer' \in Seq(Seq(DhashStat)) /\ DOMAIN answer' = DOMAIN answer \cup {c}
      /\ answer'[c] = <<>> /\ \A d \in DOMAIN answer : answer'[d] = answer[d]
  BY <1>0, <1>1, <1>2 DEF Typed
<1>4. /\ returned' \in Seq(Status \cup {"none", "FAIL"}) /\ DOMAIN returned' = DOMAIN answer \cup {c}
      /\ returned'[c] = "none" /\ \A d \in DOMAIN answer : returned'[d] = returned[d]
  BY <1>0, <1>1, <1>2 DEF Typed
<1>5. /\ stack' \in Seq([call : Nat, numTries : Nat])
      /\ Len(stack') = Len(stack) + 1 /\ Len(stack) \in Nat
      /\ DOMAIN stack = 1..Len(stack) /\ DOMAIN stack' = 1..(Len(stack) + 1)
      /\ stack'[Len(stack) + 1] = e /\ \A i \in DOMAIN stack : stack'[i] = stack[i]
  BY <1>1, <1>2 DEF Typed
<1>6. mixed' = mixed \/ mixed' = mixed \cup {c} \cup {x.call : x \in Range(stack)}
  BY <1>0 DEF Call
<1>7. {x.call : x \in Range(stack)} \subseteq DOMAIN answer
  BY <1>1 DEF InsertTypeOK, Range
<1>8. InsertTypeOK'
  <2>1. \A i \in DOMAIN stack' : stack'[i].call \in DOMAIN answer' /\ stack'[i].numTries \in 0..(STOPCOUNT - 1)
    <3>1. \A i \in DOMAIN stack : stack'[i].call \in DOMAIN answer /\ stack'[i].numTries \in 0..(STOPCOUNT - 1)
      BY <1>1, <1>5 DEF InsertTypeOK
    <3>2. \A i \in DOMAIN stack' : i \in DOMAIN stack \/ stack'[i] = e BY <1>5
    <3>3. e.call = c /\ e.numTries = 0 /\ 0 \in 0..(STOPCOUNT - 1) BY DEF InsertAssumption
    <3> QED BY <1>3, <3>1, <3>2, <3>3
  <2>2. \A r \in outstanding' : r.call \in DOMAIN answer' /\ r.try \in 0..(STOPCOUNT - 1)
    BY <1>1, <1>2, <1>3 DEF InsertTypeOK, InsertAssumption
  <2>3. \A d \in DOMAIN answer' : \A i \in DOMAIN answer'[d] : answer'[d][i] \in DhashStat
    <3>1. answer' \in Seq(Seq(DhashStat)) BY <1>3
    <3> QED BY <3>1
  <2>4. mixed' \subseteq DOMAIN answer'
    BY <1>1, <1>3, <1>6, <1>7 DEF InsertTypeOK
  <2> QED BY <1>2, <1>3, <1>4, <2>1, <2>2, <2>3, <2>4, SuccType DEF InsertTypeOK
<1>9. Typed' BY <1>3, <1>4, <1>5, <1>8 DEF Typed
<1>10. OwnStatusAlone'
  BY <1>1, <1>3, <1>4, <1>6 DEF OwnStatusAlone, ReturnedOwn
<1>11. CASE stack = <<>> /\ outstanding = {}
  <2>1. mixed' = mixed BY <1>11 DEF Call
  <2>2. \A d \in DOMAIN answer : ~Alone(d)
    BY <1>11 DEF InsertInv, AloneState
  <2>3. \A d \in DOMAIN answer' : Alone(d)' => d = c
    BY <1>3, <1>4, <2>1, <2>2 DEF Alone
  <2>4. Alone(c)' BY <1>1, <1>3, <1>4, <2>1 DEF Alone, InsertTypeOK
  <2>5. AloneState(c)' BY <1>2, <1>3, <1>5, <1>11 DEF AloneState
  <2>6. \A i \in DOMAIN stack' : stack'[i].call = c BY <1>5, <1>11
  <2>7. \A r \in outstanding' : r.call = c BY <1>2, <1>11
  <2> QED BY <1>9, <1>10, <2>3, <2>4, <2>5, <2>6, <2>7 DEF InsertInv
<1>12. CASE ~(stack = <<>> /\ outstanding = {})
  <2>1. mixed' = mixed \cup {c} \cup {x.call : x \in Range(stack)}
    BY <1>0, <1>12 DEF Call
  <2>2. \A i \in DOMAIN stack : stack[i].call \in mixed' BY <2>1 DEF Range
  <2>3. \A d \in DOMAIN answer : Alone(d) => d \in mixed'
    BY <1>5, <2>2 DEF InsertInv, AloneState
  <2>4. \A d \in DOMAIN answer' : ~Alone(d)'
    BY <1>3, <1>4, <2>1, <2>3 DEF Alone
  <2>5. \A i \in DOMAIN stack' : stack'[i].call \in mixed'
    <3>1. \A i \in DOMAIN stack' : i \in DOMAIN stack \/ stack'[i] = e BY <1>5
    <3>2. e.call = c /\ c \in mixed' BY <2>1
    <3>3. \A i \in DOMAIN stack : stack'[i].call \in mixed' BY <1>5, <2>2
    <3> QED BY <3>1, <3>2, <3>3
  <2>6. \A r \in outstanding' : r.call \in mixed'
    <3>1. \A r \in outstanding : r.call \in DOMAIN answer /\ (r.call \in mixed \/ Alone(r.call))
      BY <1>1 DEF InsertInv, InsertTypeOK
    <3>2. \A r \in outstanding : r.call \in mixed' BY <2>1, <2>3, <3>1
    <3>3. PICK r : r = [call |-> c, try |-> 0] OBVIOUS
    <3>4. r.call = c /\ c \in mixed' /\ outstanding' = outstanding \cup {r} BY <1>2, <2>1, <3>3
    <3> QED BY <3>2, <3>4
  <2> QED BY <1>9, <1>10, <2>4, <2>5, <2>6 DEF InsertInv
<1> QED BY <1>11, <1>12

\* A callback: with a call alone there is only its own request it can answer.
LEMMA StoreCbStep == ASSUME InsertAssumption, InsertInv, store_cb PROVE InsertInv'
<1>1. /\ Typed /\ InsertTypeOK /\ OwnStatusAlone
      /\ DOMAIN answer = 1..Len(answer) /\ Len(answer) \in Nat /\ DOMAIN returned = DOMAIN answer
  BY DEF InsertInv, Typed, InsertTypeOK
<1>2. PICK r \in outstanding, stat \in DhashStat :
        /\ outstanding' = outstanding \ {r}
        /\ out' = out + 1
        /\ insertError' = (insertError \/ stat = "ERR")
        /\ insertStatus' = IF stat \in {"OK", "ERR"} THEN insertStatus ELSE DHTStatus(stat)
        /\ answer' = [answer EXCEPT ![r.call] = Append(@, stat)]
        /\ UNCHANGED <<stack, returned, mixed>>
  BY DEF store_cb
<1> DEFINE a == answer[r.call]
<1>3. r.call \in DOMAIN answer /\ a \in Seq(DhashStat) /\ Len(a) \in Nat
  BY <1>1 DEF InsertTypeOK, Typed
<1>4. /\ DOMAIN answer' = DOMAIN answer /\ answer'[r.call] = Append(a, stat)
      /\ \A d \in DOMAIN answer : d # r.call => answer'[d] = answer[d]
  BY <1>2, <1>3
<1>5. /\ Append(a, stat) \in Seq(DhashStat) /\ Len(Append(a, stat)) = Len(a) + 1
      /\ Append(a, stat)[Len(a) + 1] = stat /\ Last(Append(a, stat)) = stat
      /\ Append(a, stat) # <<>>
  BY <1>3 DEF Last
<1>6. answer' \in Seq(Seq(DhashStat))
  BY <1>1, <1>2, <1>3, <1>5 DEF Typed
<1>7. InsertTypeOK'
  <2>1. insertStatus' \in InsertStatus
    BY <1>1, <1>2 DEF InsertTypeOK, InsertStatus
  <2>2. \A d \in DOMAIN answer' : \A i \in DOMAIN answer'[d] : answer'[d][i] \in DhashStat
    BY <1>6
  <2> QED BY <1>1, <1>2, <1>4, <2>1, <2>2 DEF InsertTypeOK
<1>8. Typed' BY <1>1, <1>2, <1>6, <1>7 DEF Typed
<1>9. CASE Alone(r.call)
  <2> DEFINE c == r.call
  <2>1. AloneState(c) BY <1>3, <1>9 DEF InsertInv
  <2>2. /\ outstanding = {[call |-> c, try |-> stack[1].numTries]}
        /\ ~insertError /\ insertStatus = "SUCC" /\ Len(answer[c]) = stack[1].numTries
        /\ Len(stack) = 1 /\ stack[1].call = c
    BY <2>1 DEF AloneState
  <2>3. /\ outstanding' = {} /\ Len(answer'[c]) = stack'[1].numTries + 1
        /\ insertError' = (Last(answer'[c]) = "ERR")
        /\ Len(stack') = 1 /\ stack'[1].call = c
    BY <1>2, <1>4, <1>5, <2>2
  <2>4. ~insertError' => insertStatus' = DHTStatus(Last(answer'[c]))
    BY <1>2, <1>4, <1>5, <2>2 DEF DHTStatus
  <2>5. AloneState(c)' BY <2>3, <2>4 DEF AloneState
  <2>6. \A d \in DOMAIN answer : Alone(d)' <=> Alone(d)
    BY <1>2, <1>4 DEF Alone
  <2>7. \A d \in DOMAIN answer : Alone(d) => d = c
    BY <2>1 DEF InsertInv, AloneState
  <2>8. (\A i \in DOMAIN stack : stack[i].call \in mixed \/ Alone(stack[i].call))'
    BY <1>2, <1>4 DEF InsertInv, Alone
  <2>9. OwnStatusAlone'
    BY <1>1, <1>2, <1>4, <1>9 DEF OwnStatusAlone, ReturnedOwn, Alone
  <2> QED BY <1>4, <1>8, <2>3, <2>5, <2>6, <2>7, <2>8, <2>9 DEF InsertInv
<1>10. CASE r.call \in mixed
  <2>1. \A d \in DOMAIN answer : ~Alone(d)
    BY <1>10 DEF InsertInv, AloneState, Alone
  <2>2. \A d \in DOMAIN answer' : ~Alone(d)'
    BY <1>2, <1>4, <2>1 DEF Alone
  <2>3. \A i \in DOMAIN stack' : stack'[i].call \in mixed'
    BY <1>1, <1>2, <2>1 DEF InsertInv, InsertTypeOK
  <2>4. \A q \in outstanding' : q.call \in mixed'
    BY <1>1, <1>2, <2>1 DEF InsertInv, InsertTypeOK
  <2>5. OwnStatusAlone'
    BY <1>1, <1>2, <1>4, <1>10 DEF OwnStatusAlone, ReturnedOwn
  <2> QED BY <1>8, <2>2, <2>3, <2>4, <2>5 DEF InsertInv
<1> QED BY <1>2, <1>9, <1>10 DEF InsertInv

\* The innermost call wakes up: when it is alone, what it reads is about its
\* own attempt; when it is mixed, no call is alone.
LEMMA WakeStep == ASSUME InsertAssumption, InsertInv, Wake PROVE InsertInv'
<1>1. /\ Typed /\ InsertTypeOK /\ OwnStatusAlone /\ stack # <<>> /\ out # 0
      /\ DOMAIN answer = 1..Len(answer) /\ Len(answer) \in Nat /\ DOMAIN returned = DOMAIN answer
      /\ answer' = answer /\ mixed' = mixed
  BY DEF InsertInv, Typed, InsertTypeOK, Wake
<1>2. PICK n : n = Len(stack) OBVIOUS
<1>3. PICK top : top = Last(stack) OBVIOUS
<1>4. /\ n \in Nat \ {0} /\ top = stack[n] /\ n \in DOMAIN stack /\ DOMAIN stack = 1..n
      /\ top \in [call : Nat, numTries : Nat]
      /\ top.call \in DOMAIN answer /\ top.numTries \in 0..(STOPCOUNT - 1)
  <2>1. stack \in Seq([call : Nat, numTries : Nat]) BY <1>1 DEF Typed
  <2>2. /\ n \in Nat \ {0} /\ top = stack[n] /\ DOMAIN stack = 1..n
        /\ top \in [call : Nat, numTries : Nat]
    BY <1>1, <1>2, <1>3, <2>1, FrontLast
  <2>3. n \in DOMAIN stack BY <2>2
  <2> QED BY <1>1, <2>2, <2>3 DEF InsertTypeOK
<1>5. PICK c : c = top.call OBVIOUS
<1>6. /\ Front(stack) \in Seq([call : Nat, numTries : Nat]) /\ Len(Front(stack)) = n - 1
      /\ DOMAIN Front(stack) = 1..(n - 1) /\ \A i \in 1..(n - 1) : Front(stack)[i] = stack[i]
  <2>1. stack \in Seq([call : Nat, numTries : Nat]) BY <1>1 DEF Typed
  <2> QED BY <1>1, <1>2, <2>1, FrontLast
<1>7. ASSUME NEW s \in Status \cup {"FAIL"}, Pop(c, s), c \notin mixed => (ReturnedOwn(c))'
      PROVE  InsertInv'
  <2>1. /\ stack' = Front(stack) /\ returned' = [returned EXCEPT ![c] = s]
        /\ UNCHANGED <<out, insertError, insertStatus, outstanding>>
    BY <1>7 DEF Pop
  <2>2. /\ returned' \in Seq(Status \cup {"none", "FAIL"}) /\ DOMAIN returned' = DOMAIN answer
        /\ returned'[c] = s /\ \A d \in DOMAIN answer : d # c => returned'[d] = returned[d]
    BY <1>1, <1>4, <1>5, <2>1 DEF Typed
  <2>3. \A i \in DOMAIN stack' : i \in DOMAIN stack /\ stack'[i] = stack[i]
    BY <1>4, <1>6, <2>1
  <2>4. InsertTypeOK' BY <1>1, <2>1, <2>2, <2>3 DEF InsertTypeOK
  <2>5. Typed' BY <1>1, <1>6, <2>1, <2>2, <2>4 DEF Typed
  <2>6. OwnStatusAlone'
    BY <1>1, <1>7, <2>2 DEF OwnStatusAlone, ReturnedOwn
  <2>7. s # "none" BY DEF Status
  <2>8. CASE Alone(c)
    <3>1. AloneState(c) BY <1>4, <1>5, <2>8 DEF InsertInv
    <3>2. n = 1 /\ outstanding = {} BY <1>1, <1>2, <3>1 DEF AloneState
    <3>3. \A d \in DOMAIN answer : Alone(d) => d = c BY <3>1 DEF InsertInv, AloneState
    <3>4. \A d \in DOMAIN answer' : ~Alone(d)' BY <1>1, <2>2, <2>7, <3>3 DEF Alone
    <3>5. DOMAIN stack' = {} /\ outstanding' = {} BY <1>6, <2>1, <3>2
    <3> QED BY <2>5, <2>6, <3>4, <3>5 DEF InsertInv
  <2>9. CASE c \in mixed
    <3>1. \A d \in DOMAIN answer : ~Alone(d)
      BY <1>2, <1>4, <1>5, <2>9 DEF InsertInv, AloneState, Alone
    <3>2. \A d \in DOMAIN answer' : ~Alone(d)' BY <1>1, <2>2, <2>7, <3>1 DEF Alone
    <3>3. \A i \in DOMAIN stack' : stack'[i].call \in mixed'
      BY <1>1, <2>3, <3>1 DEF InsertInv, InsertTypeOK
    <3>4. \A r \in outstanding' : r.call \in mixed'
      BY <1>1, <2>1, <3>1 DEF InsertInv, InsertTypeOK
    <3> QED BY <2>5, <2>6, <3>2, <3>3, <3>4 DEF InsertInv
  <2> QED BY <1>4, <1>5, <2>8, <2>9 DEF InsertInv
<1>8. c \notin mixed => Alone(c) /\ AloneState(c) BY <1>4, <1>5 DEF InsertInv
<1>9. c \notin mixed => /\ answer[c] \in Seq(DhashStat) /\ answer[c] # <<>>
                        /\ n = 1 /\ Len(answer[c]) = top.numTries + 1
                        /\ insertError = (Last(answer[c]) = "ERR")
                        /\ ~insertError => insertStatus = DHTStatus(Last(answer[c]))
  <2> HAVE c \notin mixed
  <2>1. answer[c] \in Seq(DhashStat) BY <1>1, <1>4, <1>5 DEF Typed
  <2>2. /\ n = 1 /\ Len(answer[c]) = stack[1].numTries + 1
        /\ insertError = (Last(answer[c]) = "ERR")
        /\ ~insertError => insertStatus = DHTStatus(Last(answer[c]))
    BY <1>1, <1>2, <1>8 DEF AloneState
  <2>3. Len(answer[c]) = top.numTries + 1 /\ top.numTries \in Nat BY <1>4, <2>2
  <2>4. answer[c] # <<>> BY <2>1, <2>3
  <2> QED BY <2>1, <2>2, <2>3, <2>4
<1>10. CASE ~insertError
  <2>1. Pop(c, insertStatus) BY <1>3, <1>5, <1>10 DEF Wake
  <2>2. PICK s : s = insertStatus OBVIOUS
  <2>3. s \in Status /\ Pop(c, s) BY <1>1, <2>1, <2>2, StatusType DEF InsertTypeOK
  <2>4. c \notin mixed => (ReturnedOwn(c))'
    BY <1>1, <1>4, <1>5, <1>9, <1>10, <2>2, <2>3 DEF ReturnedOwn, Pop
  <2> QED BY <1>7, <2>3, <2>4
<1>11. CASE insertError /\ top.numTries + 1 = STOPCOUNT
  <2>1. Pop(c, "FAIL") BY <1>3, <1>5, <1>11 DEF Wake
  <2>2. c \notin mixed => (ReturnedOwn(c))'
    BY <1>1, <1>4, <1>5, <1>9, <1>11, <2>1 DEF ReturnedOwn, Pop
  <2> QED BY <1>7, <2>1, <2>2
<1>12. CASE insertError /\ top.numTries + 1 # STOPCOUNT
  <2>1. PICK e : e = [top EXCEPT !.numTries = @ + 1] OBVIOUS
  <2>2. /\ stack' = Append(Front(stack), e) /\ returned' = returned
        /\ out' = 0 /\ insertError' = FALSE /\ insertStatus' = "SUCC"
        /\ outstanding' = outstanding \cup {[call |-> c, try |-> top.numTries + 1]}
    BY <1>3, <1>5, <1>12, <2>1 DEF Wake, Attempt
  <2>3. /\ e \in [call : Nat, numTries : Nat] /\ e.call = c /\ e.numTries = top.numTries + 1
        /\ e.numTries \in 0..(STOPCOUNT - 1)
    BY <1>4, <1>5, <1>12, <2>1 DEF InsertAssumption
  <2>4. /\ stack' \in Seq([call : Nat, numTries : Nat]) /\ Len(stack') = n
        /\ DOMAIN stack' = DOMAIN stack /\ stack'[n] = e /\ \A i \in 1..(n - 1) : stack'[i] = stack[i]
    BY <1>4, <1>6, <2>2, <2>3
  <2>5. \A i \in DOMAIN stack' : stack'[i].call = stack[i].call
    BY <1>4, <1>5, <2>3, <2>4
  <2>6. InsertTypeOK'
    <3>1. \A i \in DOMAIN stack' : stack'[i].numTries \in 0..(STOPCOUNT - 1)
      <4>1. \A i \in DOMAIN stack : stack[i].numTries \in 0..(STOPCOUNT - 1) BY <1>1 DEF InsertTypeOK
      <4>2. \A i \in DOMAIN stack' : i \in DOMAIN stack /\ (stack'[i] = e \/ stack'[i] = stack[i])
        BY <1>4, <2>4
      <4> QED BY <2>3, <4>1, <4>2
    <3>2. \A i \in DOMAIN stack' : stack'[i].call \in DOMAIN answer'
      BY <1>1, <2>4, <2>5 DEF InsertTypeOK
    <3>3. \A r \in outstanding' : r.call \in DOMAIN answer' /\ r.try \in 0..(STOPCOUNT - 1)
      BY <1>1, <1>4, <1>5, <2>2, <2>3 DEF InsertTypeOK
    <3> QED BY <1>1, <2>2, <3>1, <3>2, <3>3, SuccType DEF InsertTypeOK
  <2>7. Typed' BY <1>1, <2>2, <2>4, <2>6 DEF Typed
  <2>8. OwnStatusAlone' BY <1>1, <2>2 DEF OwnStatusAlone, ReturnedOwn
  <2>9. \A d \in DOMAIN answer : Alone(d)' <=> Alone(d) BY <1>1, <2>2 DEF Alone
  <2>10. (\A i \in DOMAIN stack : stack[i].call \in mixed \/ Alone(stack[i].call))'
    BY <1>1, <2>2, <2>4, <2>5 DEF InsertInv, Alone
  <2>11. CASE c \notin mixed
    <3>1. outstanding = {} /\ n = 1 BY <1>1, <1>2, <1>8, <2>11 DEF AloneState
    <3>2. /\ outstanding' = {[call |-> c, try |-> stack'[1].numTries]}
          /\ Len(stack') = 1 /\ stack'[1].call = c /\ Len(answer'[c]) = stack'[1].numTries
      BY <1>1, <1>9, <2>2, <2>3, <2>4, <2>11, <3>1
    <3>3. AloneState(c)' BY <2>2, <3>2 DEF AloneState
    <3>4. \A d \in DOMAIN answer : Alone(d) => d = c BY <1>8, <2>11 DEF InsertInv, AloneState
    <3>5. \A d \in DOMAIN answer' : Alone(d)' => AloneState(d)' BY <1>1, <2>9, <3>3, <3>4
    <3>6. \A r \in outstanding' : r.call = c BY <3>2
    <3>7. Alone(c)' BY <1>4, <1>5, <1>8, <2>9, <2>11
    <3> QED BY <2>7, <2>8, <2>10, <3>5, <3>6, <3>7 DEF InsertInv
  <2>12. CASE c \in mixed
    <3>1. \A d \in DOMAIN answer : ~Alone(d)
      BY <1>2, <1>4, <1>5, <2>12 DEF InsertInv, AloneState, Alone
    <3>2. \A d \in DOMAIN answer' : ~Alone(d)' BY <1>1, <2>9, <3>1
    <3>3. \A r \in outstanding' : r.call \in mixed'
      BY <1>1, <2>2, <2>12, <3>1 DEF InsertInv, InsertTypeOK
    <3> QED BY <2>7, <2>8, <2>10, <3>2, <3>3 DEF InsertInv
  <2> QED BY <2>11, <2>12
<1> QED BY <1>10, <1>11, <1>12

\* Every step of the specification keeps the invariant.
LEMMA InsertNextInv == ASSUME InsertAssumption, InsertInv, [InsertNext]_insertVars PROVE InsertInv'
<1>1. CASE UNCHANGED insertVars
  BY <1>1 DEF InsertInv, Typed, InsertTypeOK, Alone, AloneState, OwnStatusAlone, ReturnedOwn, insertVars
<1> QED BY <1>1, CallStep, StoreCbStep, WakeStep DEF InsertNext, InsertFinished

\* A call of insertDHT that was alone returns what dhash answered to its own
\* last attempt and leaves no callback behind: for any number of calls, any
\* number of attempts, and whatever the nested calls before it have left in the
\* variables that all calls share.
THEOREM CallsSafe == ASSUME InsertAssumption PROVE InsertSpec => []CallsRight
<1>1. InsertInit => InsertInv BY InsertInitInv
<1>2. InsertInv /\ [InsertNext]_insertVars => InsertInv' BY InsertNextInv
<1>3. InsertInv => CallsRight
  <2> HAVE InsertInv
  <2>1. InsertTypeOK /\ OwnStatusAlone BY DEF InsertInv, Typed
  <2>2. ASSUME NEW r \in outstanding, r.call \notin mixed
        PROVE  /\ returned[r.call] = "none"
               /\ \A q \in outstanding : q.call = r.call => q = r
    <3>1. Alone(r.call) /\ AloneState(r.call) BY <2>1, <2>2 DEF InsertInv, InsertTypeOK
    <3>2. \A p, q \in outstanding : p = q BY <3>1 DEF AloneState
    <3> QED BY <3>1, <3>2, <2>2 DEF Alone
  <2> QED BY <2>1, <2>2 DEF CallsRight, NoStrayCallback
<1> QED BY <1>1, <1>2, <1>3, PTL DEF InsertSpec

-------------------------------------------------------------------------------
(* GossipSock: the descriptors of gpsi's socket, for any number of messages   *)
(* of any kinds, any size of the queue and of the descriptor table, with and  *)
(* without write errors.                                                      *)

\* Where a message can be, as lsd sees it: what it has written, and that a
\* connection is queued once, before gpsi has a descriptor for it.
LsdInv ==
    /\ backlog \in Seq(Msg) /\ IsInjective(backlog)
    /\ \A m \in Msg :
          /\ recvlen[m] <= written[m]
          /\ wr[m] = "none" => written[m] = 0
          /\ wr[m] = "writing" => written[m] < Parts
          /\ resStatus[m] # "OK" => wr[m] = "none" /\ fd[m] = "none" /\ m \notin Range(backlog)
          /\ m \in Range(backlog) => fd[m] = "none"

\* Where it can be, as gpsi sees it.  readgossip does not come back to the event
\* loop with a complete message that was not handled, and is not entered again
\* for one that was: a handler that waits is the only one to close its descriptor.
GpsiInv ==
    /\ suspended \in Seq(Msg) /\ IsInjective(suspended)
    /\ \A m, n \in reading : m = n
    /\ \A m \in Msg :
          /\ fd[m] = "none" => recvlen[m] = 0
          /\ m \in reading => m \in selread /\ handled[m] = "no"
          /\ handled[m] # "no" => recvlen[m] = Parts
          /\ recvlen[m] = Parts /\ m \notin reading => handled[m] # "no"
          /\ m \in Range(suspended) => fd[m] = "open" /\ handled[m] = "taken"
          /\ fd[m] = "open" /\ handled[m] = "taken" => m \in Range(suspended)
          /\ m \in Leaked /\ handled[m] # "discarded" => wr[m] = "closed"

SockInv == FdsRight /\ LsdInv /\ GpsiInv

\* Opening a descriptor adds one to those that are open.
LEMMA OpenOne ==
    ASSUME SockAssumption, fd \in [Msg -> {"none", "open", "closed"}],
           NEW m \in Msg, fd[m] # "open", fd' = [fd EXCEPT ![m] = "open"]
    PROVE  Cardinality(Open') = Cardinality(Open) + 1 /\ Cardinality(Open) \in Nat
<1>1. IsFiniteSet(Open) BY FS_Subset DEF Open, SockAssumption
<1>2. Open' = Open \cup {m} BY DEF Open
<1>3. m \notin Open BY DEF Open
<1> QED BY <1>1, <1>2, <1>3, FS_AddElement, FS_CardinalityType

\* Closing one takes one away.
LEMMA CloseOne ==
    ASSUME SockAssumption, fd \in [Msg -> {"none", "open", "closed"}],
           NEW m \in Msg, fd[m] = "open", fd' = [fd EXCEPT ![m] = "closed"]
    PROVE  Cardinality(Open') = Cardinality(Open) - 1 /\ Cardinality(Open) \in Nat
<1>1. IsFiniteSet(Open) BY FS_Subset DEF Open, SockAssumption
<1>2. Open' = Open \ {m} BY DEF Open
<1>3. m \in Open BY DEF Open
<1> QED BY <1>1, <1>2, <1>3, FS_RemoveElement, FS_CardinalityType

\* Initially nothing is open.
LEMMA SockInitInv == ASSUME SockAssumption, SockInit PROVE SockInv
<1> USE DEF SockInit
<1>1. Open = {} /\ Leaked = {} BY DEF Open, Leaked
<1>2. SockTypeOK BY FS_EmptySet DEF SockTypeOK, SockAssumption
<1>3. FdsRight BY <1>1, <1>2, FS_EmptySet DEF FdsRight, FdAccounting, OnlyDiscardsLeak
<1>4. LsdInv BY DEF LsdInv, Range, IsInjective, SockAssumption
<1>5. GpsiInv BY <1>1 DEF GpsiInv, Range, IsInjective, SockAssumption
<1> QED BY <1>3, <1>4, <1>5 DEF SockInv

\* What the steps of lsd keep.
LEMMA LsdStep ==
    ASSUME SockAssumption, SockInv, NEW m \in Msg, adjust_data(m) \/ write_gossip(m)
    PROVE  SockInv'
<1> USE DEF SockInv, FdsRight, FdAccounting
<1>1. CASE adjust_data(m)
  <2> USE <1>1 DEF adjust_data, connvars
  <2>1. Open' = Open /\ Leaked' = Leaked BY DEF Open, Leaked
  <2>2. SockTypeOK' BY DEF SockTypeOK
  <2>3. FdsRight' BY <2>1, <2>2 DEF OnlyDiscardsLeak
  <2>4. LsdInv'
    <3>1. CASE UNCHANGED backlog BY <3>1 DEF LsdInv, SockTypeOK
    <3>2. CASE backlog' = Append(backlog, m) /\ resStatus' = [resStatus EXCEPT ![m] = "OK"]
      <4>1. m \notin Range(backlog) BY DEF LsdInv
      <4>2. /\ backlog' \in Seq(Msg) /\ IsInjective(backlog')
            /\ Range(backlog') = Range(backlog) \cup {m}
        BY <3>2, <4>1, RangeAppend DEF LsdInv
      <4>3. wr' = [wr EXCEPT ![m] = "writing"] BY <3>2 DEF SockTypeOK
      <4> QED BY <3>2, <4>2, <4>3 DEF LsdInv, SockTypeOK, SockAssumption
    <3> QED BY <3>1, <3>2
  <2>5. GpsiInv' BY <2>1 DEF GpsiInv, LsdInv, SockTypeOK, Leaked, Open
  <2> QED BY <2>3, <2>4, <2>5
<1>2. CASE write_gossip(m)
  <2> USE <1>2 DEF write_gossip, connvars
  <2>1. Open' = Open /\ Leaked' = Leaked BY DEF Open, Leaked
  <2>7. written[m] + 1 \in 0..Parts BY DEF SockTypeOK, LsdInv, SockAssumption
  <2>2. SockTypeOK' BY <2>7 DEF SockTypeOK
  <2>6. /\ m \in Leaked => handled[m] = "discarded"
        /\ \A n \in Msg : n # m => written'[n] = written[n] /\ wr'[n] = wr[n]
    BY DEF GpsiInv, SockTypeOK
  <2>3. OnlyDiscardsLeak' BY <2>1, <2>6 DEF OnlyDiscardsLeak, Leaked, Open
  <2>4. LsdInv'
    <3>1. /\ written[m] \in Nat /\ recvlen[m] \in Nat /\ recvlen[m] <= written[m]
          /\ written[m] + 1 <= Parts
      BY DEF LsdInv, SockTypeOK, SockAssumption
    <3> QED BY <3>1 DEF LsdInv, SockTypeOK, SockAssumption
  <2>5. GpsiInv' BY <2>1, <2>6 DEF GpsiInv, Leaked, Open
  <2> QED BY <2>1, <2>2, <2>3, <2>4, <2>5
<1> QED BY <1>1, <1>2

\* What the steps of gpsi's read loop keep.
LEMMA ReadStep ==
    ASSUME SockAssumption, SockInv, NEW m \in Msg, ReadPart(m) \/ ReadEOF(m)
    PROVE  SockInv'
<1> USE DEF SockInv, FdsRight, FdAccounting
<1>0. /\ m \in selread /\ fd[m] = "open" /\ \A n \in Msg : n # m => n \notin reading
      /\ Cardinality({}) <= 1 /\ Cardinality({m}) <= 1
  <2>1. reading = {m} \/ (reading = {} /\ m \in selread) BY DEF ReadPart, ReadEOF, notreading
  <2>2. m \in selread BY <2>1 DEF GpsiInv
  <2>3. Cardinality({}) = 0 /\ Cardinality({m}) = 1 BY FS_EmptySet, FS_Singleton
  <2>4. fd[m] = "open" BY <2>2 DEF Open
  <2>5. \A n \in Msg : n # m => n \notin reading BY <2>1
  <2> QED BY <2>2, <2>3, <2>4, <2>5
<1>a. recvlen[m] \in Nat /\ written[m] \in Nat /\ written[m] <= Parts /\ Parts \in Nat
  BY DEF SockTypeOK, SockAssumption
<1>1. CASE ReadPart(m)
  <2> USE <1>1 DEF ReadPart, lsdvars, data
  <2>1. Open' = Open BY DEF Open
  <2>2. recvlen[m] + 1 \in 0..Parts /\ recvlen[m] # Parts BY <1>a
  <2>3. handled[m] = "no" BY <2>2 DEF GpsiInv
  <2>4. SockTypeOK' BY <1>0, <2>2 DEF SockTypeOK
  <2>9. reading \subseteq reading' BY DEF notreading
  <2>5. Leaked' \subseteq Leaked BY <2>1, <2>9 DEF Leaked
  <2>6. OnlyDiscardsLeak' BY <2>5 DEF OnlyDiscardsLeak, Leaked, Open
  <2>7. LsdInv' BY <1>a DEF LsdInv, SockTypeOK
  <2>8. GpsiInv' BY <1>0, <2>3, <2>5 DEF GpsiInv, SockTypeOK
  <2> QED BY <2>1, <2>4, <2>6, <2>7, <2>8
<1>2. CASE ReadEOF(m)
  <2> USE <1>2 DEF ReadEOF, lsdvars, EOF, data, Return
  <2>1. Open' = Open BY DEF Open
  <2>2. wr[m] = "closed" /\ recvlen[m] = written[m] BY <1>a DEF LsdInv
  <2>3. written[m] < Parts \/ handled[m] = "discarded" \/ m \in Range(suspended)
    <3>1. CASE reading = {m} BY <1>a, <2>2, <3>1
    <3>2. CASE reading # {m}
      <4>1. m \notin reading BY <3>2 DEF notreading
      <4>2. written[m] = Parts => handled[m] # "no" BY <2>2, <4>1 DEF GpsiInv
      <4> QED BY <1>0, <1>a, <4>2 DEF GpsiInv, SockTypeOK
    <3> QED BY <3>1, <3>2
  <2>4. SockTypeOK' BY <1>0 DEF SockTypeOK
  <2>5. Leaked' \subseteq Leaked \cup {m} /\ (m \in Range(suspended) => m \notin Leaked')
    BY <1>0, <2>1 DEF Leaked, notreading
  <2>6. OnlyDiscardsLeak' BY <2>3, <2>5 DEF OnlyDiscardsLeak, Leaked, Open
  <2>7. LsdInv' BY DEF LsdInv
  <2>8. \A n \in reading' : FALSE BY DEF notreading
  <2>10. recvlen[m] = Parts => handled[m] # "no" BY <1>a, <2>2 DEF GpsiInv, notreading
  <2>9. GpsiInv' BY <1>0, <2>2, <2>5, <2>8, <2>10 DEF GpsiInv
  <2> QED BY <1>0, <2>1, <2>4, <2>6, <2>7, <2>9
<1> QED BY <1>1, <1>2

\* What closing m keeps, when nobody else has to close it.
LEMMA CloseStep ==
    ASSUME SockAssumption, SockInv, NEW m \in Msg, Close(m), fd[m] = "open",
           UNCHANGED <<wr, written, recvlen, resStatus, connecting, backlog, listening, openfd, initphase>>,
           reading' = {},
           \A n \in Msg : n # m => n \notin reading /\ handled'[n] = handled[n],
           handled' \in [Msg -> {"no", "taken", "discarded"}],
           handled'[m] # "no" => recvlen[m] = Parts,
           recvlen[m] = Parts => handled'[m] # "no",
           suspended' \in Seq(Msg), IsInjective(suspended'),
           Range(suspended') = Range(suspended) \ {m}
    PROVE  SockInv'
<1> USE DEF SockInv, FdsRight, FdAccounting, Close
<1>1. fd' = [fd EXCEPT ![m] = "closed"] /\ fd \in [Msg -> {"none", "open", "closed"}] BY DEF SockTypeOK
<1>2. Cardinality(Open') = Cardinality(Open) - 1 /\ Cardinality(Open) \in Nat BY <1>1, CloseOne
<1>3. SockTypeOK'
  <2>1. Cardinality(reading') <= 1 /\ reading' \subseteq Msg BY FS_EmptySet
  <2>2. fd' \in [Msg -> {"none", "open", "closed"}] BY <1>1
  <2> QED BY <2>1, <2>2 DEF SockTypeOK
<1>4. Open' = Open \ {m} BY <1>1 DEF Open
<1>5. openfd' - closefd' = Cardinality(Open') BY <1>2 DEF SockTypeOK
<1>6. Leaked' \subseteq Leaked /\ m \notin Leaked'
  <2>1. ASSUME NEW n \in Leaked' PROVE n \in Leaked /\ n # m
    <3>1. n \in Open /\ n # m /\ n \in Msg BY <1>4 DEF Leaked, Open
    <3>2. n \notin selread /\ n \notin Range(suspended) BY <3>1 DEF Leaked
    <3> QED BY <3>1, <3>2 DEF Leaked
  <2> QED BY <2>1
<1>7. OnlyDiscardsLeak' BY <1>6 DEF OnlyDiscardsLeak, Leaked, Open
<1>8. LsdInv' BY <1>1 DEF LsdInv
<1>9. GpsiInv'
  <2>1. ASSUME NEW n \in Msg, n # m
        PROVE  /\ fd'[n] = "none" => recvlen'[n] = 0
               /\ n \in reading' => n \in selread' /\ handled'[n] = "no"
               /\ handled'[n] # "no" => recvlen'[n] = Parts
               /\ recvlen'[n] = Parts /\ n \notin reading' => handled'[n] # "no"
               /\ n \in Range(suspended') => fd'[n] = "open" /\ handled'[n] = "taken"
               /\ fd'[n] = "open" /\ handled'[n] = "taken" => n \in Range(suspended')
               /\ n \in Leaked' /\ handled'[n] # "discarded" => wr'[n] = "closed"
    BY <1>1, <1>6, <2>1 DEF GpsiInv
  <2> QED BY <1>1, <1>6, <2>1 DEF GpsiInv
<1> QED BY <1>3, <1>4, <1>5, <1>7, <1>8, <1>9

\* What the end of readgossip keeps: an error, a message handled, a handler that
\* comes back from the event loop.
LEMMA EndStep ==
    ASSUME SockAssumption, SockInv, NEW m \in Msg, ReadError(m) \/ Handle(m)
    PROVE  SockInv'
<1> USE DEF SockInv, FdsRight, FdAccounting
<1>0. /\ m \in selread /\ fd[m] = "open" /\ \A n \in Msg : n # m => n \notin reading
      /\ m \notin reading => reading = {}
  <2>1. reading = {m} \/ (reading = {} /\ m \in selread) BY DEF ReadError, Handle, notreading
  <2>2. m \in selread BY <2>1 DEF GpsiInv
  <2> QED BY <2>1, <2>2 DEF Open
<1>a. recvlen[m] \in Nat /\ written[m] \in Nat /\ recvlen[m] <= written[m] /\ Parts \in Nat
  BY DEF SockTypeOK, LsdInv, SockAssumption
<1>s. suspended \in Seq(Msg) /\ IsInjective(suspended) BY DEF GpsiInv
<1>1. CASE ReadError(m)
  <2> USE <1>1 DEF ReadError, lsdvars, Return
  <2>1. recvlen[m] # Parts BY <1>a
  <2>2. handled[m] = "no" /\ m \notin Range(suspended) BY <2>1 DEF GpsiInv
  <2>3. Range(suspended') = Range(suspended) \ {m} BY <2>2
  <2>4. handled \in [Msg -> {"no", "taken", "discarded"}] BY DEF SockTypeOK
  <2> QED BY <1>0, <1>s, <2>1, <2>2, <2>3, <2>4, CloseStep
<1>2. CASE Handle(m)
  <2> USE <1>2 DEF Handle, lsdvars, Return
  <2>1. handled[m] = "no" /\ m \notin Range(suspended) BY DEF GpsiInv
  <2>2. handled' \in [Msg -> {"no", "taken", "discarded"}] /\ handled'[m] # "no"
        /\ \A n \in Msg : n # m => handled'[n] = handled[n]
    BY DEF SockTypeOK
  <2>3. CASE Close(m) /\ UNCHANGED suspended
    <3>1. Range(suspended') = Range(suspended) \ {m} BY <2>1, <2>3
    <3> QED BY <1>0, <1>s, <2>2, <2>3, <3>1, CloseStep
  <2>4. CASE /\ UNCHANGED <<fd, selread, closefd>>
             /\ \/ handled'[m] = "taken" /\ suspended' = Append(suspended, m)
                \/ handled'[m] = "discarded" /\ UNCHANGED suspended
    <3>1. Open' = Open BY <2>4 DEF Open
    <3>2. SockTypeOK' BY <2>2, <2>4, FS_EmptySet DEF SockTypeOK
    <3>a. /\ Append(suspended, m) \in Seq(Msg) /\ IsInjective(Append(suspended, m))
          /\ Range(Append(suspended, m)) = Range(suspended) \cup {m}
      BY <1>s, <2>1, RangeAppend
    <3>3. Leaked' \subseteq Leaked /\ m \notin Leaked'
      <4>1. Range(suspended) \subseteq Range(suspended') BY <2>4, <3>a
      <4> QED BY <1>0, <2>4, <3>1, <4>1 DEF Leaked, Open
    <3>4. OnlyDiscardsLeak' BY <2>2, <3>3 DEF OnlyDiscardsLeak, Leaked, Open
    <3>5. LsdInv' BY <2>4 DEF LsdInv
    <3>6. /\ suspended' \in Seq(Msg) /\ IsInjective(suspended')
          /\ Range(suspended') = IF handled'[m] = "taken" THEN Range(suspended) \cup {m} ELSE Range(suspended)
      BY <1>s, <2>4, <3>a
    <3>7. GpsiInv' BY <1>0, <2>1, <2>2, <2>4, <3>3, <3>6 DEF GpsiInv
    <3> QED BY <2>4, <3>1, <3>2, <3>4, <3>5, <3>7
  <2> QED BY <2>2, <2>3, <2>4 DEF SockTypeOK
<1> QED BY <1>1, <1>2

\* What gpsi's loop does between messages: accept a connection, resume the last
\* handler that waits, end the init phase.
LEMMA LoopStep ==
    ASSUME SockAssumption, SockInv, acceptconn \/ Resume \/ EndInit
    PROVE  SockInv'
<1> USE DEF SockInv, FdsRight, FdAccounting
<1>1. CASE acceptconn
  <2> USE <1>1 DEF acceptconn, lsdvars
  <2> DEFINE m == Head(backlog)
  <2>0. /\ m \in Msg /\ m \in Range(backlog) /\ Tail(backlog) \in Seq(Msg)
        /\ IsInjective(Tail(backlog)) /\ Range(Tail(backlog)) = Range(backlog) \ {m}
    BY RangeTail DEF LsdInv
  <2>1. fd[m] = "none" /\ resStatus[m] = "OK" /\ m \notin selread
    <3>1. fd[m] = "none" BY <2>0 DEF LsdInv
    <3>2. m \notin Open BY <3>1 DEF Open
    <3> QED BY <2>0, <3>1, <3>2 DEF LsdInv, SockTypeOK
  <2> HIDE DEF m
  <2>2. CASE backlog' = Tail(backlog) /\ fd' = [fd EXCEPT ![m] = "open"] /\ selread' = selread \cup {m}
             /\ openfd' = openfd + 1 /\ UNCHANGED listening
    <3>1. Cardinality(Open') = Cardinality(Open) + 1 /\ Cardinality(Open) \in Nat
      BY <2>0, <2>1, <2>2, OpenOne DEF SockTypeOK
    <3>2. Open' = Open \cup {m} BY <2>0, <2>2 DEF Open, SockTypeOK
    <3>3. SockTypeOK' BY <2>0, <2>2 DEF SockTypeOK
    <3>4. openfd' - closefd' = Cardinality(Open') BY <2>2, <3>1 DEF SockTypeOK
    <3>5. Leaked' \subseteq Leaked /\ m \notin Leaked' BY <2>2, <3>2 DEF Leaked
    <3>6. OnlyDiscardsLeak' BY <3>5 DEF OnlyDiscardsLeak, Leaked, Open
    <3>7. LsdInv' BY <2>0, <2>1, <2>2 DEF LsdInv, SockTypeOK
    <3>8. handled[m] # "taken" BY <2>0, <2>1 DEF GpsiInv, SockTypeOK, LsdInv, SockAssumption
    <3>9. GpsiInv' BY <2>0, <2>1, <2>2, <3>5, <3>8 DEF GpsiInv, SockTypeOK
    <3> QED BY <2>2, <3>2, <3>3, <3>4, <3>6, <3>7, <3>9
  <2>3. CASE UNCHANGED <<fd, selread, backlog, openfd>> /\ listening' = FALSE
    <3>1. Open' = Open /\ Leaked' = Leaked BY <2>3 DEF Open, Leaked
    <3> QED BY <2>3, <3>1 DEF SockTypeOK, LsdInv, GpsiInv, OnlyDiscardsLeak
  <2> QED BY <2>2, <2>3 DEF m
<1>2. CASE Resume
  <2> USE <1>2 DEF Resume, lsdvars, notreading
  <2> DEFINE m == Last(suspended)
  <2>1. /\ m \in Msg /\ m \in Range(suspended) /\ Front(suspended) \in Seq(Msg)
        /\ IsInjective(Front(suspended)) /\ Range(Front(suspended)) = Range(suspended) \ {m}
    BY RangeFront DEF GpsiInv
  <2>2. fd[m] = "open" /\ handled[m] = "taken" BY <2>1 DEF GpsiInv
  <2> HIDE DEF m
  <2>3. handled \in [Msg -> {"no", "taken", "discarded"}] BY DEF SockTypeOK
  <2>4. recvlen[m] = Parts BY <2>1, <2>2 DEF GpsiInv
  <2>5. Close(m) /\ suspended' = Front(suspended) BY DEF m
  <2> QED BY <2>1, <2>2, <2>3, <2>4, <2>5, CloseStep
<1>3. CASE EndInit
  <2> USE <1>3 DEF EndInit, lsdvars, connvars
  <2>1. Open' = Open /\ Leaked' = Leaked BY DEF Open, Leaked
  <2> QED BY <2>1 DEF SockTypeOK, LsdInv, GpsiInv, OnlyDiscardsLeak
<1> QED BY <1>1, <1>2, <1>3

\* Every step of either process keeps the accounts.
LEMMA SockNextInv == ASSUME SockAssumption, SockInv, [SockNext]_sockVars PROVE SockInv'
<1>1. CASE UNCHANGED sockVars
  <2> USE <1>1 DEF sockVars, lsdvars, connvars, SockInv, FdsRight, FdAccounting
  <2>1. Open' = Open /\ Leaked' = Leaked BY DEF Open, Leaked
  <2> QED BY <2>1 DEF SockTypeOK, LsdInv, GpsiInv, OnlyDiscardsLeak
<1>2. CASE SockFinished BY <1>1, <1>2 DEF SockFinished
<1> QED BY <1>1, <1>2, LsdStep, ReadStep, EndStep, LoopStep DEF SockNext, Gpsi

\* Every descriptor that gpsi opens is accounted for, and closed at most once,
\* also when readgossip is entered again while a handler waits in informteam;
\* the only ones that stay open for ever are those of messages that readgossip
\* discards and of messages that lsd failed to write.
THEOREM FdsSafe == ASSUME SockAssumption PROVE SockSpec => []FdsRight
<1>1. SockInit => SockInv BY SockInitInv
<1>2. SockInv /\ [SockNext]_sockVars => SockInv' BY SockNextInv
<1>3. SockInv => FdsRight BY DEF SockInv
<1> QED BY <1>1, <1>2, <1>3, PTL DEF SockSpec

\* readgossip applies or discards a message once: one that a phase discards is
\* never applied later, and one of the current phase is never discarded.
THEOREM PhaseSafe == ASSUME SockAssumption PROVE SockSpec => PhaseRespected
<1>1. SockInit => SockInv BY SockInitInv
<1>2. SockInv /\ [SockNext]_sockVars => SockInv' BY SockNextInv
<1>3. SockInv /\ [SockNext]_sockVars => [DecidedOnce]_sockVars
  <2> SUFFICES ASSUME SockInv, SockNext PROVE DecidedOnce OBVIOUS
  <2>1. CASE UNCHANGED handled BY <2>1 DEF DecidedOnce
  <2>2. ASSUME NEW m \in Msg, Handle(m) PROVE DecidedOnce
    <3>1. handled[m] = "no" BY <2>2 DEF SockInv, GpsiInv, Handle
    <3>2. \A n \in Msg : n # m => handled'[n] = handled[n]
      BY <2>2 DEF Handle, SockInv, FdsRight, FdAccounting, SockTypeOK
    <3>3. (handled'[m] = "taken") = (InPhase(m) /\ Kind[m] # "bad")
      BY <2>2 DEF Handle, SockInv, FdsRight, FdAccounting, SockTypeOK, InPhase
    <3> QED BY <3>1, <3>2, <3>3 DEF DecidedOnce
  <2> QED BY <2>1, <2>2 DEF SockNext, Gpsi, adjust_data, write_gossip, ReadPart, ReadEOF, ReadError,
            acceptconn, Resume, EndInit, SockFinished, sockVars, connvars
<1> QED BY <1>1, <1>2, <1>3, PTL DEF SockSpec, PhaseRespected

-------------------------------------------------------------------------------
(* StpManager: the window of the RPC transport, for any calls, hosts and      *)
(* limits, and whatever calls the callbacks issue.                            *)

StpState ==
    [st : [Rpc -> {"new", "queued", "pending", "done"}], inw : [Rpc -> BOOLEAN],
     rex : [Rpc -> Nat], ncb : [Rpc -> Nat], pending : Seq(Rpc), Q : Seq(Rpc),
     inflight : Int, win : Nat, kick : BOOLEAN]

InWindow(s, X) == {r \in Rpc \ X : s.st[r] = "pending" /\ s.inw[r]}

\* The lists hold what they should, but for the calls in X, which are on their way
\* from one to the other, and inflight counts n calls too many: in doRPCcb, the one
\* whose callback is running.
Books(s, n, X) ==
    /\ s \in StpState
    /\ s.inflight = Cardinality(InWindow(s, X)) + n
    /\ IsInjective(s.pending) /\ IsInjective(s.Q)
    /\ Range(s.pending) = {r \in Rpc \ X : s.st[r] = "pending"}
    /\ Range(s.Q) = {r \in Rpc \ X : s.st[r] = "queued"}
    /\ \A r \in Rpc : s.ncb[r] = IF s.st[r] = "done" THEN 1 ELSE 0

\* Calls that t has not sent away from where they were in s.
Kept(s, t, X) == \A q \in Rpc \ X : s.st[q] = "pending" => t.st[q] = "pending"

StpInv ==
    /\ Books(Now, 0, {})
    /\ reap # None =>
          /\ reap \in [for : Rpc, at : Rpc \cup {None}]
          /\ st[reap.for] = "pending"
          /\ reap.at # None => st[reap.at] = "pending"

LEMMA WindowFinite ==
    ASSUME StpAssumption, NEW s, NEW X
    PROVE  IsFiniteSet(InWindow(s, X)) /\ Cardinality(InWindow(s, X)) \in Nat
<1>1. InWindow(s, X) \subseteq Rpc BY DEF InWindow
<1> QED BY <1>1, FS_Subset, FS_CardinalityType DEF StpAssumption

\* doRPC sends or queues a call that is in neither list.
LEMMA DoRPCRight ==
    ASSUME StpAssumption, NEW s, NEW n \in Int, NEW r \in Rpc,
           Books(s, n, {r}), s.st[r] # "done"
    PROVE  /\ Books(doRPC(s, r), n, {})
           /\ Kept(s, doRPC(s, r), {r})
           /\ \A q \in Rpc \ {r} : doRPC(s, r).inw[q] = s.inw[q]
<1> USE DEF StpState
<1>0. s \in StpState BY DEF Books
<1>1. CASE room_in_window(s.inflight, s.win)
  <2> DEFINE t == Send(s, r)
  <2>1. t = doRPC(s, r) BY <1>1 DEF doRPC
  <2>2. /\ t.st = [s.st EXCEPT ![r] = "pending"] /\ t.inw = [s.inw EXCEPT ![r] = TRUE]
        /\ t.ncb = s.ncb /\ t.Q = s.Q /\ t.pending = Append(s.pending, r)
        /\ t.inflight = s.inflight + 1 /\ t \in StpState
    <3> DEFINE a == [s.st EXCEPT ![r] = "pending"]
               b == [s.inw EXCEPT ![r] = TRUE]
               c == [s.rex EXCEPT ![r] = 0]
               d == Append(s.pending, r)
               e == s.inflight + 1
    <3>1. /\ a \in [Rpc -> {"new", "queued", "pending", "done"}] /\ b \in [Rpc -> BOOLEAN]
          /\ c \in [Rpc -> Nat] /\ d \in Seq(Rpc) /\ e \in Int
      BY <1>0
    <3>2. t = [s EXCEPT !.st = a, !.inw = b, !.rex = c, !.pending = d, !.inflight = e]
      BY <1>0 DEF Send
    <3> HIDE DEF a, b, c, d, e, t
    <3>3. /\ t \in StpState /\ t.st = a /\ t.inw = b /\ t.ncb = s.ncb /\ t.Q = s.Q
          /\ t.pending = d /\ t.inflight = e
      BY <1>0, <3>1, <3>2
    <3> QED BY <3>3 DEF a, b, d, e
  <2> HIDE DEF t
  <2>3. r \notin Range(s.pending) /\ r \notin Range(s.Q) BY DEF Books
  <2>4. IsInjective(t.pending) /\ Range(t.pending) = Range(s.pending) \cup {r}
    BY SMTT(40), <1>0, <2>2, <2>3, RangeAppend DEF Books
  <2>5. InWindow(t, {}) = InWindow(s, {r}) \cup {r} /\ r \notin InWindow(s, {r})
    BY SMTT(40), <1>0, <2>2 DEF InWindow
  <2>6. Cardinality(InWindow(t, {})) = Cardinality(InWindow(s, {r})) + 1
    BY <2>5, WindowFinite, FS_AddElement
  <2>7. t.inflight = Cardinality(InWindow(t, {})) + n
    BY <2>2, <2>6, WindowFinite DEF Books
  <2>8. Range(t.pending) = {q \in Rpc \ {} : t.st[q] = "pending"}
    BY SMTT(40), <1>0, <2>2, <2>4 DEF Books
  <2>9. Range(t.Q) = {q \in Rpc \ {} : t.st[q] = "queued"}
    BY <1>0, <2>2 DEF Books
  <2>10. \A q \in Rpc : t.ncb[q] = IF t.st[q] = "done" THEN 1 ELSE 0
    BY <1>0, <2>2 DEF Books
  <2>11. Kept(s, t, {r}) /\ \A q \in Rpc \ {r} : t.inw[q] = s.inw[q]
    BY <1>0, <2>2 DEF Kept
  <2> QED BY SMTT(40), <2>1, <2>2, <2>4, <2>7, <2>8, <2>9, <2>10, <2>11 DEF Books
<1>2. CASE ~room_in_window(s.inflight, s.win)
  <2> DEFINE t == enqueue_rpc(s, r)
  <2>1. t = doRPC(s, r) BY <1>2 DEF doRPC
  <2>2. /\ t.st = [s.st EXCEPT ![r] = "queued"] /\ t.inw = s.inw
        /\ t.ncb = s.ncb /\ t.Q = Append(s.Q, r) /\ t.pending = s.pending
        /\ t.inflight = s.inflight /\ t \in StpState
    <3> DEFINE a == [s.st EXCEPT ![r] = "queued"]
               d == Append(s.Q, r)
    <3>1. a \in [Rpc -> {"new", "queued", "pending", "done"}] /\ d \in Seq(Rpc) BY <1>0
    <3>2. t = [s EXCEPT !.st = a, !.Q = d] BY <1>0 DEF enqueue_rpc
    <3> HIDE DEF a, d, t
    <3>3. /\ t \in StpState /\ t.st = a /\ t.inw = s.inw /\ t.ncb = s.ncb /\ t.Q = d
          /\ t.pending = s.pending /\ t.inflight = s.inflight
      BY <1>0, <3>1, <3>2
    <3> QED BY <3>3 DEF a, d
  <2> HIDE DEF t
  <2>3. r \notin Range(s.pending) /\ r \notin Range(s.Q) BY DEF Books
  <2>4. IsInjective(t.Q) /\ Range(t.Q) = Range(s.Q) \cup {r}
    BY <1>0, <2>2, <2>3, RangeAppend DEF Books
  <2>5. InWindow(t, {}) = InWindow(s, {r})
    BY <1>0, <2>2 DEF InWindow
  <2>8. Range(t.pending) = {q \in Rpc \ {} : t.st[q] = "pending"}
    BY <1>0, <2>2 DEF Books
  <2>9. Range(t.Q) = {q \in Rpc \ {} : t.st[q] = "queued"}
    BY <1>0, <2>2, <2>4 DEF Books
  <2>10. \A q \in Rpc : t.ncb[q] = IF t.st[q] = "done" THEN 1 ELSE 0
    BY <1>0, <2>2 DEF Books
  <2>11. Kept(s, t, {r}) /\ \A q \in Rpc \ {r} : t.inw[q] = s.inw[q]
    BY <1>0, <2>2 DEF Kept
  <2> QED BY <2>1, <2>2, <2>4, <2>5, <2>8, <2>9, <2>10, <2>11 DEF Books
<1> QED BY <1>1, <1>2

\* A call in the list is at its place in it.
LEMMA PlaceRight ==
    ASSUME NEW q \in Seq(Rpc), NEW r \in Range(q)
    PROVE  place(q, r) \in DOMAIN q /\ q[place(q, r)] = r
<1>1. \E i \in DOMAIN q : q[i] = r BY DEF Range
<1> QED BY <1>1 DEF place

\* doRPCcb takes the call from the list; it still counts.
LEMMA BackRight ==
    ASSUME StpAssumption, NEW s, NEW c \in Rpc, Books(s, 0, {}), s.st[c] = "pending"
    PROVE  /\ Books(back(s, c), IF s.inw[c] THEN 1 ELSE 0, {})
           /\ Kept(s, back(s, c), {c})
           /\ back(s, c).st[c] = "done" /\ back(s, c).inw = s.inw
           /\ \A q \in Rpc \ {c} : back(s, c).st[q] = s.st[q]
<1> USE DEF StpState
<1>0. s \in StpState BY DEF Books
<1> DEFINE t == back(s, c)
           i == place(s.pending, c)
           a == [s.st EXCEPT ![c] = "done"]
           b == [s.ncb EXCEPT ![c] = @ + 1]
           d == RemoveAt(s.pending, i)
<1>1. c \in Range(s.pending) BY DEF Books
<1>2. i \in DOMAIN s.pending /\ s.pending[i] = c BY <1>0, <1>1, PlaceRight
<1>3. d \in Seq(Rpc) /\ IsInjective(d) /\ Range(d) = Range(s.pending) \ {c}
  <2> HIDE DEF i
  <2>1. s.pending \in Seq(Rpc) /\ IsInjective(s.pending) BY <1>0 DEF Books
  <2> QED BY <1>2, <2>1, RangeRemoveAt
<1>4. a \in [Rpc -> {"new", "queued", "pending", "done"}] /\ b \in [Rpc -> Nat] BY <1>0
<1>5. t = [s EXCEPT !.pending = d, !.st = a, !.ncb = b] BY <1>0 DEF back
<1> HIDE DEF a, b, d, i, t
<1>6. /\ t \in StpState /\ t.st = a /\ t.ncb = b /\ t.pending = d
      /\ t.inw = s.inw /\ t.Q = s.Q /\ t.inflight = s.inflight
  BY <1>0, <1>3, <1>4, <1>5
<1>7. /\ InWindow(s, {}) \ {c} = InWindow(t, {})
      /\ (c \in InWindow(s, {})) = s.inw[c]
  BY <1>0, <1>6 DEF InWindow, a
<1>8. Cardinality(InWindow(s, {})) = Cardinality(InWindow(t, {})) + IF s.inw[c] THEN 1 ELSE 0
  <2>1. CASE s.inw[c]
    <3>1. c \in InWindow(s, {}) BY <1>7, <2>1
    <3>2. Cardinality(InWindow(t, {})) = Cardinality(InWindow(s, {})) - 1
      BY <1>7, <3>1, WindowFinite, FS_RemoveElement
    <3> QED BY <2>1, <3>2, WindowFinite
  <2>2. CASE ~s.inw[c]
    <3>1. InWindow(s, {}) = InWindow(t, {}) BY <1>7, <2>2
    <3> QED BY <2>2, <3>1, WindowFinite
  <2> QED BY <2>1, <2>2
<1>9. t.inflight = Cardinality(InWindow(t, {})) + IF s.inw[c] THEN 1 ELSE 0
  BY <1>6, <1>8, WindowFinite DEF Books
<1>10. Range(t.pending) = {q \in Rpc \ {} : t.st[q] = "pending"} BY <1>0, <1>3, <1>6 DEF Books, a
<1>11. Range(t.Q) = {q \in Rpc \ {} : t.st[q] = "queued"} BY <1>0, <1>6 DEF Books, a
<1>12. \A q \in Rpc : t.ncb[q] = IF t.st[q] = "done" THEN 1 ELSE 0 BY <1>0, <1>6 DEF Books, a, b
<1>13. /\ Kept(s, t, {c}) /\ t.st[c] = "done"
       /\ \A q \in Rpc \ {c} : t.st[q] = s.st[q]
  BY <1>0, <1>6 DEF Kept, a
<1>14. IsInjective(t.pending) /\ IsInjective(t.Q) BY <1>3, <1>6 DEF Books
<1> QED BY <1>6, <1>9, <1>10, <1>11, <1>12, <1>13, <1>14 DEF Books, t

\* Once the callback has returned the call leaves the window.
LEMMA FreeRight ==
    ASSUME StpAssumption, NEW s, NEW c \in Rpc, Books(s, IF s.inw[c] THEN 1 ELSE 0, {})
    PROVE  Books(free(s, c), 0, {}) /\ free(s, c).st = s.st
<1> USE DEF StpState
<1>0. s \in StpState BY DEF Books
<1> DEFINE t == free(s, c)
           e == IF s.inw[c] THEN s.inflight - 1 ELSE s.inflight
<1>1. e \in Int BY <1>0
<1>2. t = [s EXCEPT !.inflight = e] BY <1>0 DEF free
<1>3. e = Cardinality(InWindow(s, {})) BY <1>0, WindowFinite DEF Books
<1> HIDE DEF e, t
<1>4. /\ t \in StpState /\ t.inflight = e /\ t.st = s.st /\ t.inw = s.inw /\ t.ncb = s.ncb
      /\ t.pending = s.pending /\ t.Q = s.Q
  BY <1>0, <1>1, <1>2
<1>5. InWindow(t, {}) = InWindow(s, {}) BY <1>4 DEF InWindow
<1> QED BY <1>3, <1>4, <1>5, WindowFinite DEF Books, t

\* The window's size and the timer of rpc_done are not in the books.
LEMMA OthersRight ==
    ASSUME NEW s, NEW n, NEW w \in Nat, NEW k \in BOOLEAN, Books(s, n, {})
    PROVE  /\ Books([s EXCEPT !.win = w], n, {}) /\ [s EXCEPT !.win = w].st = s.st
           /\ Books([s EXCEPT !.kick = k], n, {}) /\ [s EXCEPT !.kick = k].st = s.st
<1> USE DEF StpState
<1>0. s \in StpState BY DEF Books
<1>1. ASSUME NEW t \in StpState, t.inflight = s.inflight, t.st = s.st, t.inw = s.inw,
             t.ncb = s.ncb, t.pending = s.pending, t.Q = s.Q
      PROVE  Books(t, n, {})
  <2>1. InWindow(t, {}) = InWindow(s, {}) BY <1>1 DEF InWindow
  <2> QED BY <1>1, <2>1 DEF Books
<1> DEFINE t == [s EXCEPT !.win = w]
           u == [s EXCEPT !.kick = k]
<1>2. /\ t \in StpState /\ t.inflight = s.inflight /\ t.st = s.st /\ t.inw = s.inw
      /\ t.ncb = s.ncb /\ t.pending = s.pending /\ t.Q = s.Q
  BY <1>0
<1>3. /\ u \in StpState /\ u.inflight = s.inflight /\ u.st = s.st /\ u.inw = s.inw
      /\ u.ncb = s.ncb /\ u.pending = s.pending /\ u.Q = s.Q
  BY <1>0
<1> HIDE DEF t, u
<1>4. Books(t, n, {}) /\ Books(u, n, {}) BY <1>1, <1>2, <1>3
<1> QED BY <1>2, <1>3, <1>4 DEF t, u

\* The first call in the queue for the same host.
LEMMA FirstRight ==
    ASSUME NEW q \in Seq(Rpc), NEW i \in DOMAIN q
    PROVE  first(q, i) \in DOMAIN q
<1> DEFINE T == {j \in Nat : j \in 1 .. i /\ dest[q[j]] = dest[q[i]]}
<1>0. i \in Nat /\ DOMAIN q = 1 .. Len(q) /\ Len(q) \in Nat /\ 1 <= i OBVIOUS
<1>1. i \in T BY <1>0
<1>2. PICK j \in T : \A k \in T : j <= k BY <1>1, LeastNat
<1>3. \A k \in 1 .. j - 1 : k \in 1 .. i /\ k \in Nat /\ ~(j <= k) BY <1>0, <1>2
<1>4. \A k \in 1 .. j - 1 : dest[q[k]] # dest[q[i]] BY <1>2, <1>3
<1>5. first(q, i) \in 1 .. i BY <1>2, <1>4 DEF first
<1> QED BY <1>0, <1>5

\* rpc_done: a queued call is sent.
LEMMA DoneRight ==
    ASSUME StpAssumption, NEW s, Books(s, 0, {}), NEW t \in rpc_done(s)
    PROVE  Books(t, 0, {}) /\ Kept(s, t, {})
<1> USE DEF StpState
<1>0. s \in StpState BY DEF Books
<1>1. ASSUME NEW i \in DOMAIN s.Q
      PROVE  LET u == doRPC([s EXCEPT !.Q = RemoveAt(@, first(s.Q, i))], s.Q[first(s.Q, i)])
             IN  Books(u, 0, {}) /\ Kept(s, u, {})
  <2> DEFINE j == first(s.Q, i)
             r == s.Q[j]
             d == RemoveAt(s.Q, j)
             u == [s EXCEPT !.Q = d]
  <2>1. j \in DOMAIN s.Q BY <1>0, FirstRight
  <2> HIDE DEF j
  <2>2. /\ d \in Seq(Rpc) /\ r \in Rpc /\ r \in Range(s.Q) /\ IsInjective(d)
        /\ Range(d) = Range(s.Q) \ {r}
    BY <1>0, <2>1, RangeRemoveAt DEF Books
  <2> HIDE DEF d, r
  <2>3. /\ u \in StpState /\ u.inflight = s.inflight /\ u.st = s.st /\ u.inw = s.inw
        /\ u.ncb = s.ncb /\ u.pending = s.pending /\ u.Q = d
    <3>1. d \in Seq(Rpc) BY <2>2
    <3> QED BY <1>0, <3>1
  <2> HIDE DEF u
  <2>4. s.st[r] = "queued" BY <2>2 DEF Books
  <2>5. InWindow(u, {r}) = InWindow(s, {}) BY <2>3, <2>4 DEF InWindow
  <2>6. Range(u.pending) = {q \in Rpc \ {r} : u.st[q] = "pending"} BY <2>3, <2>4 DEF Books
  <2>7. Range(u.Q) = {q \in Rpc \ {r} : u.st[q] = "queued"} BY <2>2, <2>3 DEF Books
  <2>8. Books(u, 0, {r}) BY <2>2, <2>3, <2>5, <2>6, <2>7 DEF Books
  <2>9. Books(doRPC(u, r), 0, {}) /\ Kept(u, doRPC(u, r), {r})
    <3>1. u.st[r] # "done" BY <2>3, <2>4
    <3>2. 0 \in Int OBVIOUS
    <3> QED BY <2>2, <2>8, <3>1, <3>2, DoRPCRight
  <2>10. Kept(s, doRPC(u, r), {}) BY <2>3, <2>4, <2>9 DEF Kept
  <2> QED BY <2>9, <2>10 DEF u, d, r, j
<1>2. Kept(s, s, {}) BY DEF Kept
<1>3. PICK u : Books(u, 0, {}) /\ Kept(s, u, {}) /\ t = again(u)
  <2> DEFINE tried == IF s.Q # <<>> /\ room_in_window(s.inflight, s.win)
                THEN {doRPC([s EXCEPT !.Q = RemoveAt(@, first(s.Q, i))], s.Q[first(s.Q, i)]) :
                         i \in DOMAIN s.Q}
                ELSE {s}
  <2>1. \A u \in tried : Books(u, 0, {}) /\ Kept(s, u, {}) BY <1>1, <1>2
  <2>2. t \in {again(u) : u \in tried} BY DEF rpc_done
  <2> HIDE DEF tried
  <2> QED BY <2>1, <2>2
<1>4. Books([u EXCEPT !.kick = TRUE], 0, {}) /\ [u EXCEPT !.kick = TRUE].st = u.st
  BY <1>3, OthersRight
<1> QED BY <1>3, <1>4 DEF again, Kept

\* doRPCcb: the callback, a call it may make, and the books after it.
LEMMA CallbackRight ==
    ASSUME StpAssumption, NEW s, NEW c \in Rpc, Books(s, 0, {}), s.st[c] = "pending",
           NEW t \in doRPCcb(s, c)
    PROVE  Books(t, 0, {}) /\ Kept(s, t, {c})
<1> DEFINE gone == back(s, c)
           n == IF s.inw[c] THEN 1 ELSE 0
           called == {gone} \cup {doRPC(gone, r) : r \in {q \in Rpc : s.st[q] = "new"}}
           freed == {free(u, c) : u \in called}
           grown == UNION {grow(u) : u \in freed}
<1>0. s \in StpState BY DEF Books
<1>1. /\ Books(gone, n, {}) /\ Kept(s, gone, {c}) /\ gone.inw = s.inw
      /\ \A q \in Rpc \ {c} : gone.st[q] = s.st[q]
  BY BackRight
<1>n. n \in Int OBVIOUS
<1> HIDE DEF gone, n
<1>2. ASSUME NEW u \in called
      PROVE  Books(u, n, {}) /\ Kept(s, u, {c}) /\ u.inw[c] = s.inw[c]
  <2>1. CASE u = gone BY <1>1, <2>1
  <2>2. ASSUME NEW r \in Rpc, s.st[r] = "new", u = doRPC(gone, r)
        PROVE  Books(u, n, {}) /\ Kept(s, u, {c}) /\ u.inw[c] = s.inw[c]
    <3>1. r # c /\ gone.st[r] = "new" BY <1>1, <2>2
    <3>2. Books(gone, n, {r})
      <4>1. InWindow(gone, {r}) = InWindow(gone, {}) BY <3>1 DEF InWindow
      <4> QED BY <1>1, <3>1, <4>1 DEF Books
    <3>3. /\ Books(u, n, {}) /\ Kept(gone, u, {r})
          /\ \A q \in Rpc \ {r} : u.inw[q] = gone.inw[q]
      BY <1>n, <2>2, <3>1, <3>2, DoRPCRight
    <3> QED BY <1>1, <3>1, <3>3 DEF Kept
  <2> QED BY <2>1, <2>2
<1> HIDE DEF called
<1>3. \A u \in freed : Books(u, 0, {}) /\ Kept(s, u, {c})
  BY <1>2, FreeRight DEF Kept, n
<1> HIDE DEF freed
<1>4. ASSUME NEW u \in grown PROVE Books(u, 0, {}) /\ Kept(s, u, {c})
  <2>1. PICK v \in freed : u \in grow(v) OBVIOUS
  <2>2. v \in StpState /\ v.win \in Nat BY <1>3, <2>1 DEF Books, StpState
  <2>3. PICK w \in Nat : u = [v EXCEPT !.win = w] BY <2>1, <2>2 DEF grow
  <2>4. Books(u, 0, {}) /\ u.st = v.st BY <1>3, <2>1, <2>3, OthersRight
  <2> QED BY <1>3, <2>1, <2>4 DEF Kept
<1> HIDE DEF grown
<1>5. t \in UNION {rpc_done(u) : u \in grown}
  BY DEF doRPCcb, grown, freed, called, gone
<1>6. PICK u \in grown : t \in rpc_done(u) BY <1>5
<1>7. Books(t, 0, {}) /\ Kept(u, t, {}) BY <1>4, <1>6, DoneRight
<1> QED BY <1>4, <1>6, <1>7 DEF Kept

\* timeout: the calls in S leave the window, each if it was in it.
LEMMA OutRight ==
    ASSUME StpAssumption, NEW s, NEW S \in SUBSET {q \in Rpc : s.st[q] = "pending"},
           Books(s, 0, {})
    PROVE  Books(Out(s, S), 0, {}) /\ Out(s, S).st = s.st /\ Out(s, S).rex = s.rex
<1> USE DEF StpState
<1>0. s \in StpState BY DEF Books
<1> DEFINE t == Out(s, S)
           G == {r \in S : s.inw[r]}
           a == [r \in Rpc |-> s.inw[r] /\ r \notin S]
           e == s.inflight - Cardinality(G)
<1>1. G \subseteq InWindow(s, {}) /\ IsFiniteSet(InWindow(s, {})) BY WindowFinite DEF InWindow
<1>2. /\ IsFiniteSet(G) /\ Cardinality(G) \in Nat
      /\ Cardinality(InWindow(s, {}) \ G) = Cardinality(InWindow(s, {})) - Cardinality(G)
  <2>1. IsFiniteSet(G) BY <1>1, FS_Subset
  <2>2. InWindow(s, {}) \cap G = G BY <1>1
  <2> HIDE DEF G
  <2>3. Cardinality(InWindow(s, {}) \ G)
           = Cardinality(InWindow(s, {})) - Cardinality(InWindow(s, {}) \cap G)
    BY <1>1, <2>1, FS_Difference
  <2> QED BY <2>1, <2>2, <2>3, FS_CardinalityType
<1>3. a \in [Rpc -> BOOLEAN] /\ e \in Int
  <2> HIDE DEF G
  <2> QED BY <1>0, <1>2
<1>4. t = [s EXCEPT !.inw = a, !.inflight = e] BY <1>0 DEF Out
<1> HIDE DEF t, a, e
<1>5. /\ t \in StpState /\ t.inflight = e /\ t.st = s.st /\ t.inw = a
      /\ t.ncb = s.ncb /\ t.pending = s.pending /\ t.Q = s.Q /\ t.rex = s.rex
  BY <1>0, <1>3, <1>4
<1>6. InWindow(t, {}) = InWindow(s, {}) \ G BY <1>5 DEF InWindow, a
<1>7. t.inflight = Cardinality(InWindow(t, {})) + 0
  <2> HIDE DEF G
  <2>1. s.inflight = Cardinality(InWindow(s, {})) BY WindowFinite DEF Books
  <2>2. Cardinality(InWindow(t, {})) = Cardinality(InWindow(s, {})) - Cardinality(G)
    BY <1>2, <1>6
  <2>3. Cardinality(InWindow(t, {})) \in Nat BY WindowFinite
  <2> QED BY <1>5, <2>1, <2>2, <2>3 DEF e
<1>8. Books(t, 0, {}) BY <1>5, <1>7 DEF Books
<1> QED BY <1>5, <1>8 DEF t

LEMMA StpInitInv == ASSUME StpAssumption, StpInit PROVE StpInv
<1> USE DEF StpInit, StpState
<1>1. Now \in StpState
  <2>1. /\ st \in [Rpc -> {"new", "queued", "pending", "done"}] /\ in_window \in [Rpc -> BOOLEAN]
        /\ rexmits \in [Rpc -> Nat] /\ ncb \in [Rpc -> Nat]
    OBVIOUS
  <2>2. pending \in Seq(Rpc) /\ Q \in Seq(Rpc) /\ inflight \in Int /\ win \in Nat
    OBVIOUS
  <2>3. kick \in BOOLEAN OBVIOUS
  <2> HIDE DEF StpInit
  <2> QED BY <2>1, <2>2, <2>3 DEF Now
<1>2. InWindow(Now, {}) = {} BY DEF InWindow, Now
<1>3. Now.inflight = Cardinality(InWindow(Now, {})) + 0
  <2>1. Now.inflight = 0 BY DEF Now
  <2>2. Cardinality(InWindow(Now, {})) = 0 BY <1>2, FS_EmptySet
  <2> QED BY <2>1, <2>2
<1>4. Range(Now.pending) = {} /\ Range(Now.Q) = {} BY DEF Now, Range
<1>5. Range(Now.pending) = {r \in Rpc \ {} : Now.st[r] = "pending"}
  BY <1>4 DEF Now
<1>6. Range(Now.Q) = {r \in Rpc \ {} : Now.st[r] = "queued"} BY <1>4 DEF Now
<1>7. IsInjective(Now.pending) /\ IsInjective(Now.Q) BY DEF Now, IsInjective
<1>8. \A r \in Rpc : Now.ncb[r] = IF Now.st[r] = "done" THEN 1 ELSE 0 BY DEF Now
<1>9. Books(Now, 0, {}) BY <1>1, <1>3, <1>5, <1>6, <1>7, <1>8 DEF Books
<1> QED BY <1>9 DEF StpInv

\* A step that ends in s, with the walk of timeout as it was or over.
LEMMA BecomesRight ==
    ASSUME NEW s, Books(s, 0, {}), Becomes(s)
    PROVE  Books(Now', 0, {}) /\ st' = s.st
<1>1. s \in StpState BY DEF Books
<1>2. Now' = s BY <1>1 DEF Becomes, Now, StpState
<1> QED BY <1>2 DEF Becomes

\* The walk goes on behind the call it is at.
LEMMA NextRight ==
    ASSUME NEW q \in Seq(Rpc), NEW r \in Range(q), nextin(q, r) # None, IsInjective(q)
    PROVE  nextin(q, r) \in Range(q) /\ nextin(q, r) # r
<1> DEFINE k == place(q, r)
<1>1. k \in DOMAIN q /\ q[k] = r BY PlaceRight
<1> HIDE DEF k
<1>2. nextin(q, r) = q[k + 1] /\ k # Len(q) BY DEF nextin, k
<1>3. k + 1 \in DOMAIN q /\ k + 1 # k BY <1>1, <1>2
<1> QED BY <1>1, <1>2, <1>3 DEF Range, IsInjective

LEMMA StpNextInv == ASSUME StpAssumption, StpInv, [StpNext]_stpVars PROVE StpInv'
<1>0. /\ Books(Now, 0, {}) /\ Now \in StpState /\ Now.st = st /\ Now.pending = pending
      /\ Now.rex = rexmits /\ Now.win = win /\ Now.kick = kick
  BY DEF StpInv, Books, Now
<1>a. /\ pending \in Seq(Rpc) /\ IsInjective(pending) /\ rexmits \in [Rpc -> Nat] /\ win \in Nat
      /\ st \in [Rpc -> {"new", "queued", "pending", "done"}]
      /\ Range(pending) = {r \in Rpc : st[r] = "pending"}
  <2>1. /\ Now.pending \in Seq(Rpc) /\ Now.rex \in [Rpc -> Nat] /\ Now.win \in Nat
        /\ Now.st \in [Rpc -> {"new", "queued", "pending", "done"}]
    BY <1>0 DEF StpState
  <2> QED BY <1>0, <2>1 DEF Books
<1>b. ASSUME Books(Now', 0, {}), reap' = None PROVE StpInv'
  BY <1>b DEF StpInv
<1>1. ASSUME NEW r \in Rpc, Issue(r) PROVE StpInv'
  <2>1. Books(Now, 0, {r})
    <3>1. Now.st[r] = "new" BY <1>0, <1>1 DEF Issue
    <3>2. InWindow(Now, {r}) = InWindow(Now, {}) BY <3>1 DEF InWindow
    <3> QED BY <1>0, <3>1, <3>2 DEF Books
  <2>2. Books(doRPC(Now, r), 0, {})
    BY <1>0, <1>1, <2>1, DoRPCRight DEF Issue
  <2> QED BY <1>1, <1>b, <2>2, BecomesRight DEF Issue
<1>2. ASSUME NEW r \in Rpc, Answer(r) PROVE StpInv'
  <2>1. PICK s \in doRPCcb(Now, r) : Becomes(s) BY <1>2 DEF Answer
  <2>2. Books(s, 0, {}) BY <1>0, <1>2, <2>1, CallbackRight DEF Answer
  <2> QED BY <1>2, <1>b, <2>1, <2>2, BecomesRight DEF Answer
<1>3. ASSUME NEW r \in Rpc, timeout(r) PROVE StpInv'
  <2> DEFINE others == {o \in Range(pending) : dest[o] = dest[r] /\ o # r}
             S == others \cup IF rexmits[r] > 1 THEN {r} ELSE {}
             s == Out(Now, S)
             t == [s EXCEPT !.rex[r] = @ + 1]
             u == IF rexmits[r] = 0 THEN shrink(t) ELSE t
  <2>1. S \in SUBSET {q \in Rpc : Now.st[q] = "pending"} BY <1>0, <1>a, <1>3 DEF timeout
  <2> HIDE DEF S
  <2>2. Books(s, 0, {}) /\ s.st = st BY <1>0, <2>1, OutRight
  <2> HIDE DEF s
  <2>3. Books(t, 0, {}) /\ t.st = st
    <3> DEFINE a == [s.rex EXCEPT ![r] = @ + 1]
    <3>1. s \in StpState BY <2>2 DEF Books
    <3>2. a \in [Rpc -> Nat] BY <3>1 DEF StpState
    <3>3. t = [s EXCEPT !.rex = a] BY <3>1 DEF StpState
    <3> HIDE DEF a, t
    <3>4. /\ t \in StpState /\ t.inflight = s.inflight /\ t.st = s.st /\ t.inw = s.inw
          /\ t.ncb = s.ncb /\ t.pending = s.pending /\ t.Q = s.Q
      BY <3>1, <3>2, <3>3 DEF StpState
    <3>5. InWindow(t, {}) = InWindow(s, {}) BY <3>4 DEF InWindow
    <3> QED BY <2>2, <3>4, <3>5 DEF Books
  <2> HIDE DEF t
  <2>4. Books(u, 0, {}) /\ u.st = st
    <3>1. CASE rexmits[r] = 0
      <4>1. t \in StpState /\ t.win \in Nat BY <2>3 DEF Books, StpState
      <4> DEFINE w == (t.win + 1) \div 2
      <4>2. w \in Nat BY <4>1
      <4>3. u = [t EXCEPT !.win = w] BY <3>1, <4>1 DEF shrink
      <4> HIDE DEF u, w
      <4>4. TRUE \in BOOLEAN OBVIOUS
      <4> QED BY <2>3, <4>2, <4>3, <4>4, OthersRight
    <3>2. CASE rexmits[r] # 0 BY <2>3, <3>2
    <3> QED BY <3>1, <3>2
  <2>5. Becomes(u) BY <1>3 DEF timeout, t, s, S
  <2> HIDE DEF u
  <2>6. Books(Now', 0, {}) /\ st' = st BY <2>4, <2>5, BecomesRight
  <2>7. r \in Range(pending) /\ st[r] = "pending" BY <1>3, <1>a DEF timeout
  <2>8. Head(pending) \in Rpc /\ st[Head(pending)] = "pending"
    <3>1. pending # <<>> BY <2>7 DEF Range
    <3>2. Head(pending) \in Range(pending) BY <1>a, <3>1, RangeTail
    <3> QED BY <1>a, <3>2
  <2>9. reap' = [for |-> r, at |-> Head(pending)] \/ reap' = None BY <1>3 DEF timeout
  <2> QED BY <2>6, <2>7, <2>8, <2>9 DEF StpInv
<1>4. ASSUME Reap PROVE StpInv'
  <2>1. /\ reap # None /\ reap \in [for : Rpc, at : Rpc \cup {None}]
        /\ reap.for \in Rpc /\ st[reap.for] = "pending"
    BY <1>4 DEF Reap, StpInv
  <2>2. CASE reap.at = None
    <3>1. PICK s \in doRPCcb(Now, reap.for) : Becomes(s) BY <1>4, <2>2 DEF Reap
    <3>2. Books(s, 0, {}) BY <1>0, <2>1, <3>1, CallbackRight
    <3>3. reap' = None BY <1>4, <2>2 DEF Reap
    <3> QED BY <1>b, <3>1, <3>2, <3>3, BecomesRight
  <2>3. CASE reap.at # None
    <3> DEFINE c == reap.at
               x == nextin(pending, c)
    <3>1. c \in Rpc /\ st[c] = "pending" /\ c \in Range(pending)
      BY <1>a, <2>1, <2>3 DEF StpInv
    <3>2. x # None => x \in Rpc /\ st[x] = "pending" /\ x # c
      BY <1>a, <3>1, NextRight
    <3>3. reap' = [reap EXCEPT !.at = x] BY <1>4, <2>3 DEF Reap
    <3>4. CASE dest[c] = dest[reap.for] /\ c # reap.for
      <4>1. PICK s \in doRPCcb(Now, c) : Becomes(s) BY <1>4, <2>3, <3>4 DEF Reap
      <4>2. Books(s, 0, {}) /\ Kept(Now, s, {c}) BY <1>0, <3>1, <4>1, CallbackRight
      <4>3. Books(Now', 0, {}) /\ st' = s.st BY <4>1, <4>2, BecomesRight
      <4>4. st'[reap.for] = "pending" /\ (x # None => st'[x] = "pending")
        BY <1>0, <2>1, <3>2, <3>4, <4>2, <4>3 DEF Kept
      <4> QED BY <2>1, <3>2, <3>3, <4>3, <4>4 DEF StpInv
    <3>5. CASE ~(dest[c] = dest[reap.for] /\ c # reap.for)
      <4>1. Now' = Now /\ st' = st BY <1>4, <2>3, <3>5 DEF Reap, Now
      <4> QED BY <2>1, <3>2, <3>3, <4>1 DEF StpInv
    <3> QED BY <3>4, <3>5
  <2> QED BY <2>2, <2>3
<1>5. ASSUME Kick PROVE StpInv'
  <2>1. PICK s \in rpc_done([Now EXCEPT !.kick = FALSE]) : Becomes(s) BY <1>5 DEF Kick
  <2>2. Books([Now EXCEPT !.kick = FALSE], 0, {}) BY <1>0, OthersRight
  <2>3. Books(s, 0, {}) BY <2>1, <2>2, DoneRight
  <2> QED BY <1>5, <1>b, <2>1, <2>3, BecomesRight DEF Kick
<1>6. ASSUME idle PROVE StpInv'
  <2>1. Now' = [Now EXCEPT !.win = 1] BY <1>6 DEF idle, Now
  <2>2. Books(Now', 0, {}) BY <1>0, <2>1, OthersRight
  <2> QED BY <1>6, <1>b, <2>2 DEF idle
<1>7. ASSUME NEW h \in Host, HostDies(h) PROVE StpInv'
  <2>1. Now' = Now /\ reap' = reap /\ st' = st BY <1>7 DEF HostDies, Now
  <2> QED BY <2>1 DEF StpInv
<1>8. ASSUME UNCHANGED stpVars PROVE StpInv'
  <2>1. Now' = Now /\ reap' = reap /\ st' = st BY <1>8 DEF stpVars, Now
  <2> QED BY <2>1 DEF StpInv
<1> QED BY <1>1, <1>2, <1>3, <1>4, <1>5, <1>6, <1>7, <1>8 DEF StpNext

\* The congestion window counts the pending calls that are in it, no more and no
\* less, every call that waits is in one list exactly once, and its callback is
\* made once: for any number of calls and hosts, whatever answers, times out or
\* is given up, and whatever calls the callbacks make in the middle of it.
THEOREM WindowSafe == ASSUME StpAssumption PROVE StpSpec => []WindowRight
<1>1. StpInit => StpInv BY StpInitInv
<1>2. StpInv /\ [StpNext]_stpVars => StpInv' BY StpNextInv
<1>3. StpInv => WindowRight
  <2> HAVE StpInv
  <2>1. Books(Now, 0, {}) BY DEF StpInv
  <2>2. InWindow(Now, {}) = {r \in Rpc : st[r] = "pending" /\ in_window[r]}
    BY DEF InWindow, Now
  <2>3. inflight = Cardinality(InWindow(Now, {})) BY <2>1, WindowFinite DEF Books, Now
  <2> QED BY <2>1, <2>2, <2>3 DEF Books, Now, WindowRight
<1> QED BY <1>1, <1>2, <1>3, PTL DEF StpSpec

-------------------------------------------------------------------------------
(* MergeLoop: the walk over the lists computes what GossipLists says of the   *)
(* merge, for any number of lists over any finite set of signatures.          *)

Entry == [f : Nat, w : Nat]

\* Map m is a list: a dummy, known keys, an entry for each.
Map(m) == DOMAIN m \subseteq Key /\ Dummy \in DOMAIN m /\ m \in [DOMAIN m -> Entry]

Passed(c, s) == \A i \in DOMAIN c : s < c[i]

\* Where the walk stands: in are the lists as they were, T as they are, and c the
\* iterators.  Only the first list differs, and only in signatures that all
\* iterators have passed; an iterator never passes a signature of its list that
\* another has not passed as well.
Unwalked(in, T) ==
    /\ T = [i \in 1..Len(in) |-> T[i]] /\ Map(T[1]) /\ \A i \in 2..Len(in) : T[i] = in[i]
    /\ \A k \in Holders \cup {Dummy} :
           /\ (k \in DOMAIN T[1]) = (k \in DOMAIN in[1])
           /\ k \in DOMAIN in[1] => T[1][k] = in[1][k]
Iterators(in, c) ==
    /\ c \in [1..Len(in) -> Sig \cup {End}]
    /\ \A i \in 1..Len(in) : c[i] # End => c[i] \in DOMAIN in[i]
    /\ \A i \in 1..Len(in) : \A s \in Sig : s \in DOMAIN in[i] /\ s < c[i] => Passed(c, s)
SettledAt(in, T, c, s) ==
    IF Passed(c, s)
    THEN IF \E i \in 1..Len(in) : s \in DOMAIN in[i]
         THEN s \in DOMAIN T[1] /\ T[1][s] = merged(in, s)
         ELSE s \notin DOMAIN T[1]
    ELSE /\ (s \in DOMAIN T[1]) = (s \in DOMAIN in[1])
         /\ s \in DOMAIN in[1] => T[1][s] = in[1][s]
Walk(in, T, c) ==
    Len(in) # 1 /\ Unwalked(in, T) /\ Iterators(in, c) /\ \A s \in Sig : SettledAt(in, T, c, s)

MergeInv ==
    /\ input \in Inputs /\ stage \in {"start", "loop", "done"}
    /\ stage = "start" => teamvecomap = input
    /\ stage = "loop" => Walk(input, teamvecomap, citr)
    /\ stage = "done" => teamvecomap = mergelists(input)

\* The end of a map is behind every key, and the keys are in their order.
LEMMA KeyOrder ==
    ASSUME OrderAssumption
    PROVE  /\ End \in Nat /\ \A k \in Key : k \in Nat /\ k < End
           /\ Dummy \in Nat /\ Dummy \in Key /\ Sig \subseteq Key /\ Holders \subseteq Key
           /\ \A s \in Sig : s \in Nat /\ Dummy < s
           /\ \A h \in Holders : h \in Nat /\ h < Dummy /\ \A g \in Holders : g = h
<1>1. Key # {} /\ Key \in SUBSET Nat /\ IsFiniteSet(Key) BY DEF OrderAssumption, Key
<1>2. Max(Key) \in Key /\ \A k \in Key : k <= Max(Key) BY <1>1, MaxFinite
<1>3. Max(Key) \in Nat /\ \A k \in Key : k \in Nat BY <1>1, <1>2
<1>4. \A k \in Key : k < Max(Key) + 1 BY <1>2, <1>3
<1>5. Dummy \in Key /\ Sig \subseteq Key /\ Holders \subseteq Key BY DEF Key
<1>6. (\A s \in Sig : Dummy < s) /\ \A h \in Holders : h < Dummy /\ \A g \in Holders : g = h
  BY DEF OrderAssumption
<1>7. End \in Nat /\ \A k \in Key : k < End BY <1>3, <1>4 DEF End
<1> QED BY <1>3, <1>5, <1>6, <1>7

\* The lists to merge, one by one.
LEMMA InputLists ==
    ASSUME InputAssumption, NEW in \in Inputs
    PROVE  /\ Len(in) \in Nat /\ 1 <= Len(in) /\ DOMAIN in = 1..Len(in)
           /\ in = [i \in 1..Len(in) |-> in[i]]
           /\ \A i \in 1..Len(in) : Map(in[i])
           /\ \A i \in 1..Len(in) : DOMAIN in[i] \cap Holders = DOMAIN in[1] \cap Holders
<1>1. in # <<>> /\ in \in Seq({in[i] : i \in DOMAIN in}) BY DEF InputAssumption
<1>2. PICK H : Mergeable(in, H) BY DEF InputAssumption
<1> DEFINE R == {in[i] : i \in DOMAIN in}
<1>3. in \in Seq(R) BY <1>1
<1> HIDE DEF R
<1>4. Len(in) \in Nat /\ DOMAIN in = 1..Len(in) /\ in = [i \in 1..Len(in) |-> in[i]] BY <1>3
<1>5. Len(in) # 0 BY <1>1, <1>3
<1>6. 1 \in DOMAIN in BY <1>4, <1>5
<1>7. \A i \in DOMAIN in : Map(in[i]) BY <1>2 DEF Mergeable, Map, Entry
<1>8. \A i \in DOMAIN in : DOMAIN in[i] \cap Holders = H BY <1>2 DEF Mergeable
<1>9. \A i \in DOMAIN in : DOMAIN in[i] \cap Holders = DOMAIN in[1] \cap Holders BY <1>6, <1>8
<1> QED BY <1>4, <1>5, <1>7, <1>9

\* The next iterator of a map is its least key behind the given one, or the end.
LEMMA FollowingIs ==
    ASSUME OrderAssumption, NEW m, Map(m), NEW k \in Key
    PROVE  /\ following(m, k) = End \/ following(m, k) \in DOMAIN m
           /\ following(m, k) > k
           /\ \A x \in DOMAIN m : x > k => following(m, k) <= x
<1> DEFINE X == {x \in DOMAIN m : x > k}
<1>1. \A x \in DOMAIN m : x \in Key BY DEF Map
<1>2. (\A x \in Key : x \in Nat /\ x < End) /\ End \in Nat BY KeyOrder
<1>3. CASE X = {}
  <2>1. following(m, k) = End BY <1>3 DEF following
  <2> QED BY <1>2, <1>3, <2>1
<1>4. CASE X # {}
  <2>1. X \in SUBSET Nat BY <1>1, <1>2
  <2>2. Min(X) \in X /\ \A y \in X : Min(X) <= y
    <3> HIDE DEF X
    <3> QED BY <1>4, <2>1, MinNat
  <2>3. following(m, k) = Min(X) BY <1>4 DEF following
  <2> QED BY <2>2, <2>3
<1> QED BY <1>3, <1>4

\* The iterators skip exactly the dummy and the placeholder: they start at the
\* first signature.
LEMMA SkippedIs ==
    ASSUME OrderAssumption, ListAssumption, NEW m, Map(m)
    PROVE  /\ skipped(m) = End \/ (skipped(m) \in Sig /\ skipped(m) \in DOMAIN m)
           /\ \A s \in Sig : s \in DOMAIN m => skipped(m) <= s
<1> DEFINE b == begin(m)
           c == following(m, b)
           d == following(m, c)
<1>1. DOMAIN m \in SUBSET Nat /\ DOMAIN m # {} /\ Dummy \in DOMAIN m /\ DOMAIN m \subseteq Key
  BY KeyOrder DEF Map
<1>2. b \in DOMAIN m /\ \A y \in DOMAIN m : b <= y BY <1>1, MinNat DEF begin
<1>3. \A x \in DOMAIN m : x \in Nat /\ (x \in Sig \/ x \in Holders \/ x = Dummy)
  BY <1>1, KeyOrder DEF Key
<1>4. Dummy \in Nat /\ End \in Nat /\ Dummy < End
      /\ (\A s \in Sig : s \in Nat /\ Dummy < s)
      /\ \A h \in Holders : h \in Nat /\ h < Dummy /\ \A g \in Holders : g = h
  BY KeyOrder
<1> HIDE DEF b
<1>5. ASSUME following(m, Dummy) = skipped(m)
      PROVE  /\ skipped(m) = End \/ (skipped(m) \in Sig /\ skipped(m) \in DOMAIN m)
             /\ \A s \in Sig : s \in DOMAIN m => skipped(m) <= s
  <2> DEFINE e == skipped(m)
  <2>1. /\ e = End \/ e \in DOMAIN m
        /\ e > Dummy
        /\ \A x \in DOMAIN m : x > Dummy => e <= x
    BY <1>1, <1>5, FollowingIs
  <2> HIDE DEF e
  <2>2. \A s \in Sig : s \in DOMAIN m => e <= s BY <1>4, <2>1
  <2>3. e \in DOMAIN m => e \in Sig BY <1>3, <1>4, <2>1
  <2> QED BY <2>1, <2>2, <2>3 DEF e
<1>6. CASE Holders \cap DOMAIN m = {}
  <2>1. b = Dummy BY <1>1, <1>2, <1>3, <1>4, <1>6
  <2>2. skipped(m) = following(m, Dummy) BY <1>6, <2>1 DEF skipped, b
  <2> QED BY <1>5, <2>2
<1>7. CASE Holders \cap DOMAIN m # {}
  <2>1. PICK h \in Holders : h \in DOMAIN m BY <1>7
  <2>2. b = h BY <1>1, <1>2, <1>3, <1>4, <2>1
  <2>3. h \in Key /\ h < Dummy BY <1>1, <1>4, <2>1
  <2>4. /\ c = End \/ c \in DOMAIN m
        /\ c > h
        /\ \A x \in DOMAIN m : x > h => c <= x
    BY <1>1, <2>2, <2>3, FollowingIs
  <2> HIDE DEF c
  <2>5. c <= Dummy BY <1>1, <1>4, <2>1, <2>3, <2>4
  <2>6. c \in DOMAIN m BY <1>4, <2>4, <2>5
  <2>7. c \notin Holders BY <1>4, <2>1, <2>4
  <2>8. c \notin Sig BY <1>4, <2>5
  <2>9. c = Dummy BY <1>3, <2>6, <2>7, <2>8
  <2>10. skipped(m) = following(m, Dummy) BY <1>7, <2>9 DEF skipped, b, c
  <2> QED BY <1>5, <2>10
<1> QED BY <1>6, <1>7

\* When the walk starts nothing is passed that a list holds.
LEMMA StartWalks ==
    ASSUME OrderAssumption, ListAssumption, InputAssumption,
           NEW in \in Inputs, Len(in) # 1, NEW c, c = [i \in 1..Len(in) |-> skipped(in[i])]
    PROVE  Walk(in, in, c)
<1>1. /\ Len(in) \in Nat /\ 1 <= Len(in) /\ in = [i \in 1..Len(in) |-> in[i]]
      /\ \A i \in 1..Len(in) : Map(in[i])
  BY InputLists
<1>2. \A i \in 1..Len(in) :
          /\ c[i] = End \/ (c[i] \in Sig /\ c[i] \in DOMAIN in[i])
          /\ \A s \in Sig : s \in DOMAIN in[i] => c[i] <= s
  BY <1>1, SkippedIs
<1>3. (\A s \in Sig : s \in Nat) /\ End \in Nat BY KeyOrder
<1>4. \A i \in 1..Len(in) : \A s \in Sig : s \in DOMAIN in[i] => ~(s < c[i]) BY <1>2, <1>3
<1>5. DOMAIN c = 1..Len(in) OBVIOUS
<1>6. Iterators(in, c)
  <2>1. c \in [1..Len(in) -> Sig \cup {End}] BY <1>2
  <2> QED BY <1>2, <1>4, <2>1 DEF Iterators
<1>7. 1 \in 1..Len(in) BY <1>1
<1>8. Unwalked(in, in) BY <1>1, <1>7 DEF Unwalked
<1>9. ASSUME NEW s \in Sig PROVE SettledAt(in, in, c, s)
  <2>1. ASSUME Passed(c, s) PROVE \A i \in 1..Len(in) : s \notin DOMAIN in[i]
    BY <1>4, <1>5, <2>1 DEF Passed
  <2> QED BY <1>7, <2>1 DEF SettledAt
<1> QED BY <1>6, <1>8, <1>9 DEF Walk

\* The first list with entry e for m, and the iterators past m.
Entered(T, m, e) == [T EXCEPT ![1] = [k \in DOMAIN T[1] \cup {m} |-> IF k = m THEN e ELSE T[1][k]]]
Advanced(n, T, c, m) == [i \in 1..n |-> IF c[i] = m THEN following(T[i], m) ELSE c[i]]

\* One round: the least signature that an iterator points to.  T1 and c1 are the
\* lists and the iterators after it.
LEMMA RoundWalks ==
    ASSUME OrderAssumption, ListAssumption, InputAssumption,
           NEW in \in Inputs, NEW T, NEW c, NEW m, NEW T1, NEW c1, NEW e, Walk(in, T, c),
           \E i \in 1..Len(in) : c[i] # End /\ c[i] = m,
           \A i \in 1..Len(in) : c[i] # End => m <= c[i],
           e = merged(in, m), e \in Entry,
           T1 = Entered(T, m, e), c1 = Advanced(Len(in), T, c, m)
    PROVE  Walk(in, T1, c1)
<1> DEFINE n == Len(in)
<1>1. /\ n \in Nat /\ 1 <= n
      /\ \A i \in 1..n : Map(in[i])
  BY InputLists
<1>2. (\A s \in Sig : s \in Nat /\ Dummy < s /\ s < End) /\ End \in Nat /\ Dummy \in Nat
      /\ (\A h \in Holders : h \in Nat /\ h < Dummy)
  BY KeyOrder
<1>3. /\ n # 1 /\ T = [i \in 1..n |-> T[i]] /\ Map(T[1]) /\ \A i \in 2..n : T[i] = in[i]
      /\ \A k \in Holders \cup {Dummy} :
           /\ (k \in DOMAIN T[1]) = (k \in DOMAIN in[1])
           /\ k \in DOMAIN in[1] => T[1][k] = in[1][k]
  BY DEF Walk, Unwalked
<1>4. /\ c \in [1..n -> Sig \cup {End}]
      /\ \A i \in 1..n : c[i] # End => c[i] \in DOMAIN in[i]
      /\ \A i \in 1..n : \A s \in Sig : s \in DOMAIN in[i] /\ s < c[i] => Passed(c, s)
  BY DEF Walk, Iterators
<1>5. \A s \in Sig : SettledAt(in, T, c, s) BY DEF Walk
<1> HIDE DEF n
<1>6. PICK p \in 1..n : c[p] = m /\ m \in Sig /\ m \in DOMAIN in[p] BY <1>4 DEF n
<1>7. \A i \in 1..n : m <= c[i] /\ c[i] \in Nat BY <1>2, <1>4, <1>6 DEF n
<1>8. m \in Nat /\ m \in Key /\ m \notin Holders \cup {Dummy} BY <1>2, <1>6, KeyOrder
<1>9. 1 \in 1..n /\ \A i \in 1..n : i = 1 \/ i \in 2..n BY <1>1
<1>10. DOMAIN c = 1..n /\ DOMAIN c1 = 1..n /\ \A i \in 1..n : c1[i] = IF c[i] = m THEN following(T[i], m) ELSE c[i]
  BY <1>4 DEF n, Advanced
\* Before: what is behind m is passed by nobody, what is before m by everybody.
<1>11. \A s \in Sig : s < m => Passed(c, s) BY <1>2, <1>7, <1>8, <1>10 DEF Passed
<1>12. \A s \in Sig : s >= m => ~Passed(c, s) BY <1>2, <1>6, <1>8, <1>10 DEF Passed
<1>13. \A s \in Sig : s >= m => /\ (s \in DOMAIN T[1]) = (s \in DOMAIN in[1])
                                /\ s \in DOMAIN in[1] => T[1][s] = in[1][s]
  BY <1>5, <1>12 DEF SettledAt
\* The iterators that move go to the next signature of their list.
<1>14. ASSUME NEW i \in 1..n
       PROVE  /\ c1[i] = End \/ (c1[i] \in Sig /\ c1[i] \in DOMAIN in[i])
              /\ m < c1[i]
              /\ \A s \in Sig : s \in DOMAIN in[i] /\ m < s => c1[i] <= s
  <2>1. CASE c[i] = m
    <3> DEFINE y == following(T[i], m)
    <3>1. Map(T[i]) BY <1>1, <1>3, <1>9
    <3>2. /\ y = End \/ y \in DOMAIN T[i]
          /\ y > m
          /\ \A x \in DOMAIN T[i] : x > m => y <= x
      BY <1>8, <3>1, FollowingIs
    <3>3. c1[i] = y BY <1>10, <2>1
    <3> HIDE DEF y
    <3>4. \A x \in Key : x > m => x \in Sig BY <1>2, <1>6, <1>8 DEF Key
    <3>5. ASSUME NEW s \in Sig, s > m PROVE s \in DOMAIN T[i] <=> s \in DOMAIN in[i]
      <4>1. CASE i = 1
        <5>1. s >= m BY <1>2, <1>8, <3>5
        <5>2. (s \in DOMAIN T[1]) = (s \in DOMAIN in[1]) BY <1>13, <5>1
        <5> QED BY <4>1, <5>2
      <4>2. CASE i \in 2..n BY <1>3, <4>2
      <4> QED BY <1>9, <4>1, <4>2
    <3>6. y = End \/ (y \in Sig /\ y \in DOMAIN in[i])
      <4>1. CASE y \in DOMAIN T[i]
        <5>1. y \in Key BY <3>1, <4>1 DEF Map
        <5>2. y \in Sig BY <3>2, <3>4, <5>1
        <5> QED BY <3>2, <3>5, <4>1, <5>2
      <4> QED BY <3>2, <4>1
    <3>7. \A s \in Sig : s \in DOMAIN in[i] /\ s > m => y <= s BY <3>2, <3>5
    <3>8. m < y BY <1>2, <1>8, <3>2, <3>6
    <3> QED BY <1>2, <1>8, <3>3, <3>6, <3>7, <3>8
  <2>2. CASE c[i] # m
    <3>1. c1[i] = c[i] BY <1>10, <2>2
    <3>2. c[i] = End \/ (c[i] \in Sig /\ c[i] \in DOMAIN in[i]) BY <1>4
    <3>3. m < c[i] BY <1>7, <1>8, <2>2
    <3>4. ASSUME NEW s \in Sig, s \in DOMAIN in[i], m < s PROVE c[i] <= s
      <4>1. ~Passed(c, s) BY <1>2, <1>8, <1>12, <3>4
      <4>2. ~(s < c[i]) BY <1>4, <3>4, <4>1
      <4> QED BY <1>2, <1>7, <4>2
    <3> QED BY <3>1, <3>2, <3>3, <3>4
  <2> QED BY <2>1, <2>2
<1>15. \A i \in 1..n : c1[i] \in Nat BY <1>2, <1>14
\* After: m is passed as well.
<1>16. ASSUME NEW s \in Sig, s <= m PROVE Passed(c1, s)
  <2>1. ASSUME NEW i \in 1..n PROVE s < c1[i]
    <3>1. m < c1[i] /\ c1[i] \in Nat /\ s \in Nat BY <1>2, <1>14, <1>15
    <3> QED BY <1>8, <1>16, <3>1
  <2> QED BY <1>10, <2>1 DEF Passed
<1>17. ASSUME NEW s \in Sig, s > m, Passed(c1, s) PROVE \A i \in 1..n : s \notin DOMAIN in[i]
  <2> SUFFICES ASSUME NEW i \in 1..n, s \in DOMAIN in[i] PROVE FALSE OBVIOUS
  <2>1. s \in Nat /\ c1[i] \in Nat BY <1>2, <1>15
  <2>2. m < s BY <1>8, <1>17, <2>1
  <2>3. c1[i] <= s BY <1>14, <2>2
  <2>4. s < c1[i] BY <1>10, <1>17 DEF Passed
  <2> QED BY <2>1, <2>3, <2>4
<1>18. Iterators(in, c1)
  <2>3. c1 = [i \in 1..n |-> c1[i]] BY DEF Advanced, n
  <2>4. \A i \in 1..n : c1[i] \in Sig \cup {End} BY <1>14
  <2>1. c1 \in [1..n -> Sig \cup {End}] BY <2>3, <2>4
  <2>2. ASSUME NEW i \in 1..n, NEW s \in Sig, s \in DOMAIN in[i], s < c1[i] PROVE Passed(c1, s)
    <3>2. s \in Nat /\ c1[i] \in Nat BY <1>2, <1>15
    <3>3. m < s => c1[i] <= s BY <1>14, <2>2
    <3>1. ~(m < s) BY <2>2, <3>2, <3>3
    <3> QED BY <1>2, <1>8, <1>16, <3>1
  <2> QED BY <1>14, <2>1, <2>2 DEF Iterators, n
\* The lists: the first has e for m.
<1>19. /\ T1 = [i \in 1..n |-> T1[i]] /\ DOMAIN T1[1] = DOMAIN T[1] \cup {m} /\ T1[1][m] = e
       /\ \A k \in DOMAIN T[1] : k # m => T1[1][k] = T[1][k]
       /\ \A i \in 2..n : T1[i] = in[i]
  <2>1. \A i \in 2..n : i # 1 /\ i \in 1..n BY <1>1
  <2>2. T1 = [i \in 1..n |-> T1[i]] BY <1>3, <1>9 DEF Entered
  <2>3. \A i \in 2..n : T1[i] = in[i] BY <1>3, <1>9, <2>1 DEF Entered
  <2>4. T1[1] = [k \in DOMAIN T[1] \cup {m} |-> IF k = m THEN e ELSE T[1][k]] BY <1>3, <1>9 DEF Entered
  <2> QED BY <2>2, <2>3, <2>4
<1>20. Unwalked(in, T1)
  <2>1. Map(T1[1])
    <3>1. T1[1] = [k \in DOMAIN T[1] \cup {m} |-> IF k = m THEN e ELSE T[1][k]] BY <1>3, <1>9 DEF Entered
    <3>2. DOMAIN T1[1] = DOMAIN T[1] \cup {m} BY <3>1
    <3>3. \A k \in DOMAIN T[1] : T[1][k] \in Entry BY <1>3 DEF Map
    <3>4. T1[1] \in [DOMAIN T[1] \cup {m} -> Entry] BY <3>1, <3>3
    <3> QED BY <1>3, <1>8, <3>2, <3>4 DEF Map
  <2>2. \A k \in Holders \cup {Dummy} : k # m BY <1>8
  <2>3. \A k \in Holders \cup {Dummy} :
           /\ (k \in DOMAIN T1[1]) = (k \in DOMAIN in[1])
           /\ k \in DOMAIN in[1] => T1[1][k] = in[1][k]
    <3> TAKE k \in Holders \cup {Dummy}
    <3>1. k # m BY <2>2
    <3>2. k \in DOMAIN T1[1] <=> k \in DOMAIN T[1] BY <1>19, <3>1
    <3>3. k \in DOMAIN T[1] => T1[1][k] = T[1][k] BY <1>19, <3>1
    <3>4. /\ (k \in DOMAIN T[1]) = (k \in DOMAIN in[1])
          /\ k \in DOMAIN in[1] => T[1][k] = in[1][k]
      BY <1>3
    <3> QED BY <3>2, <3>3, <3>4
  <2> QED BY <1>19, <2>1, <2>3 DEF Unwalked, n
<1>21. ASSUME NEW s \in Sig PROVE SettledAt(in, T1, c1, s)
  <2>1. CASE s = m
    <3>1. Passed(c1, s) BY <1>8, <1>16, <2>1
    <3>2. \E i \in 1..Len(in) : s \in DOMAIN in[i] BY <1>6, <2>1 DEF n
    <3> QED BY <1>19, <2>1, <3>1, <3>2 DEF SettledAt
  <2>2. CASE s < m
    <3>1. Passed(c1, s) /\ Passed(c, s) /\ s # m BY <1>2, <1>8, <1>11, <1>16, <2>2
    <3>2. (s \in DOMAIN T1[1]) = (s \in DOMAIN T[1]) BY <1>19, <3>1
    <3>3. s \in DOMAIN T[1] => T1[1][s] = T[1][s] BY <1>19, <3>1
    <3>4. SettledAt(in, T, c, s) BY <1>5
    <3> QED BY <3>1, <3>2, <3>3, <3>4 DEF SettledAt
  <2>3. CASE s > m
    <3>1. /\ (s \in DOMAIN T[1]) = (s \in DOMAIN in[1])
          /\ s \in DOMAIN in[1] => T[1][s] = in[1][s]
      BY <1>2, <1>8, <1>13, <2>3
    <3>2. s # m BY <1>2, <1>8, <2>3
    <3>3. /\ (s \in DOMAIN T1[1]) = (s \in DOMAIN in[1])
          /\ s \in DOMAIN in[1] => T1[1][s] = in[1][s]
      <4>1. s \in DOMAIN T1[1] <=> s \in DOMAIN T[1] BY <1>19, <3>2
      <4>2. s \in DOMAIN T[1] => T1[1][s] = T[1][s] BY <1>19, <3>2
      <4> QED BY <3>1, <4>1, <4>2
    <3>4. Passed(c1, s) => \A i \in 1..Len(in) : s \notin DOMAIN in[i] BY <1>17, <2>3 DEF n
    <3>5. 1 \in 1..Len(in) BY <1>9 DEF n
    <3> QED BY <3>3, <3>4, <3>5 DEF SettledAt
  <2> QED BY <1>2, <1>8, <2>1, <2>2, <2>3
<1> QED BY <1>3, <1>18, <1>20, <1>21 DEF Walk, n

\* The length of a sequence given by its elements.
LEMMA LenIs == ASSUME NEW n \in Nat, NEW T, T = [i \in 1..n |-> T[i]] PROVE Len(T) = n
<1>1. T \in [1..n -> {T[i] : i \in 1..n}] OBVIOUS
<1>2. T \in Seq({T[i] : i \in 1..n}) BY <1>1
<1>3. DOMAIN T = 1..n BY <1>1
<1> HIDE <1>1
<1>4. Len(T) \in Nat /\ 1..n = 1..Len(T) BY <1>2, <1>3, LenProperties
<1> QED BY <1>4

\* What a list contributes for its key is an entry.
LEMMA AtEntry == ASSUME NEW m, Map(m), NEW k PROVE At(m, k) \in Entry
BY DEF At, Map

\* The sums over the lists as they are, of the addends a, are those of merged.
LEMMA SumsMerged ==
    ASSUME InputAssumption, NEW in \in Inputs, NEW k, k \notin Holders, NEW a,
           \A i \in 1..Len(in) : a[i] = At(in[i], k)
    PROVE  /\ SumTo(Len(in), [i \in 1..Len(in) |-> a[i].f]) = sumf(in, k)
           /\ SumTo(Len(in), [i \in 1..Len(in) |-> a[i].w]) = sumw(in, k)
           /\ sumf(in, k) \in Nat /\ sumw(in, k) \in Nat
<1> DEFINE n == Len(in)
<1>1. n \in Nat /\ \A i \in 1..n : Map(in[i]) BY InputLists
<1>2. \A i \in 1..n : At(in[i], k).f \in Nat /\ At(in[i], k).w \in Nat
  <2> TAKE i \in 1..n
  <2>1. At(in[i], k) \in Entry BY <1>1, AtEntry
  <2> QED BY <2>1 DEF Entry
<1>3. [i \in 1..n |-> a[i].f] = [i \in 1..n |-> At(in[i], k).f] OBVIOUS
<1>4. [i \in 1..n |-> a[i].w] = [i \in 1..n |-> At(in[i], k).w] OBVIOUS
<1> DEFINE g == [i \in 1..n |-> At(in[i], k).f]
           h == [i \in 1..n |-> At(in[i], k).w]
<1>5. \A i \in 1..n : g[i] \in Nat /\ h[i] \in Nat BY <1>2
<1>6. sumf(in, k) = SumTo(n, g) /\ sumw(in, k) = SumTo(n, h) BY DEF sumf, sumw
<1> HIDE DEF n, g, h
<1>7. SumTo(n, g) \in Nat /\ SumTo(n, h) \in Nat BY <1>1, <1>5, SumNat
<1> QED BY <1>3, <1>4, <1>6, <1>7 DEF n, g, h

\* When every iterator is at the end the first list lacks only the weight of the
\* dummy.
LEMMA WalkDone ==
    ASSUME OrderAssumption, ListAssumption, InputAssumption,
           NEW in \in Inputs, NEW T, NEW c, Walk(in, T, c),
           \A i \in 1..Len(in) : c[i] = End
    PROVE  <<[T[1] EXCEPT ![Dummy].w =
                 SumTo(Len(in), [i \in 1..Len(in) |-> T[i][Dummy].w]) \div 2]>> = mergelists(in)
<1> DEFINE n == Len(in)
           U == UNION {DOMAIN in[i] : i \in 1..n}
           q == SumTo(n, [i \in 1..n |-> T[i][Dummy].w])
<1>1. /\ n \in Nat /\ 1 <= n /\ 1 \in 1..n
      /\ \A i \in 1..n : Map(in[i])
      /\ \A i \in 1..n : DOMAIN in[i] \cap Holders = DOMAIN in[1] \cap Holders
  BY InputLists
<1>2. /\ n # 1 /\ Map(T[1]) /\ \A i \in 2..n : T[i] = in[i]
      /\ \A k \in Holders \cup {Dummy} :
           /\ (k \in DOMAIN T[1]) = (k \in DOMAIN in[1])
           /\ k \in DOMAIN in[1] => T[1][k] = in[1][k]
  BY DEF Walk, Unwalked
<1>3. \A s \in Sig : Passed(c, s)
  <2>1. DOMAIN c = 1..n BY DEF Walk, Iterators
  <2>2. \A s \in Sig : s < End BY KeyOrder
  <2> QED BY <2>1, <2>2 DEF Passed
<1>4. \A s \in Sig : /\ s \in DOMAIN T[1] <=> s \in U
                     /\ s \in U => T[1][s] = merged(in, s)
  <2> TAKE s \in Sig
  <2>1. SettledAt(in, T, c, s) /\ Passed(c, s) BY <1>3 DEF Walk
  <2>2. s \in U <=> \E i \in 1..Len(in) : s \in DOMAIN in[i] OBVIOUS
  <2> HIDE DEF U
  <2> QED BY <2>1, <2>2 DEF SettledAt
<1>5. \A h \in Holders : /\ h \in DOMAIN T[1] <=> h \in U
                         /\ h \in U => T[1][h] = merged(in, h)
  <2> TAKE h \in Holders
  <2>1. h \in U <=> h \in DOMAIN in[1] BY <1>1
  <2>2. merged(in, h) = in[1][h] BY DEF merged
  <2> HIDE DEF U
  <2> QED BY <1>2, <2>1, <2>2
<1>6. Dummy \in DOMAIN in[1] /\ Dummy \in DOMAIN T[1] /\ T[1][Dummy] = in[1][Dummy] /\ Dummy \in U
  BY <1>1, <1>2 DEF Map
<1>7. DOMAIN T[1] = U
  <2>1. DOMAIN T[1] \subseteq Key BY <1>2 DEF Map
  <2>2. U \subseteq Key BY <1>1 DEF Map
  <2> HIDE DEF U
  <2> QED BY <1>4, <1>5, <1>6, <2>1, <2>2 DEF Key
<1>8. q = sumw(in, Dummy)
  <2> DEFINE a == [i \in 1..n |-> T[i][Dummy]]
  <2>1. \A i \in 1..n : i = 1 \/ i \in 2..n BY <1>1
  <2>2. \A i \in 1..n : T[i][Dummy] = in[i][Dummy] /\ Dummy \in DOMAIN in[i]
    BY <1>1, <1>2, <1>6, <2>1 DEF Map
  <2>3. \A i \in 1..n : a[i] = At(in[i], Dummy) BY <2>2 DEF At
  <2>4. Dummy \notin Holders BY ListAssumption
  <2>5. [i \in 1..n |-> a[i].w] = [i \in 1..n |-> T[i][Dummy].w] OBVIOUS
  <2> HIDE DEF a
  <2>6. SumTo(n, [i \in 1..n |-> a[i].w]) = sumw(in, Dummy) BY <2>3, <2>4, SumsMerged
  <2> QED BY <2>5, <2>6
<1>9. merged(in, Dummy) = [in[1][Dummy] EXCEPT !.w = q \div 2]
  <2>1. Dummy \notin Holders BY ListAssumption
  <2>2. in[1][Dummy] \in Entry BY <1>1, <1>6 DEF Map
  <2>3. merged(in, Dummy) = [f |-> in[1][Dummy].f, w |-> sumw(in, Dummy) \div 2] BY <2>1 DEF merged
  <2> HIDE DEF q
  <2> QED BY <1>8, <2>2, <2>3 DEF Entry
<1> DEFINE R == [T[1] EXCEPT ![Dummy].w = q \div 2]
           M == [s \in U |-> merged(in, s)]
<1> HIDE DEF U, q
<1>10. R = M
  <2>1. T[1] = [k \in U |-> T[1][k]] BY <1>2, <1>7 DEF Map
  <2>2. DOMAIN R = U /\ \A k \in U : R[k] = IF k = Dummy THEN [T[1][Dummy] EXCEPT !.w = q \div 2] ELSE T[1][k]
    BY <1>6, <2>1
  <2>3. ASSUME NEW k \in U PROVE R[k] = merged(in, k)
    <3>1. k \in Sig \/ k \in Holders \/ k = Dummy BY <1>2, <1>7 DEF Map, Key
    <3>2. CASE k = Dummy BY <1>6, <1>9, <2>2, <3>2
    <3>3. CASE k # Dummy
      <4>1. R[k] = T[1][k] BY <2>2, <3>3
      <4> QED BY <1>4, <1>5, <3>1, <3>3, <4>1
    <3> QED BY <3>2, <3>3
  <2>4. R = [k \in U |-> R[k]] BY <2>1, <2>2
  <2> HIDE DEF R
  <2> QED BY <2>3, <2>4
<1> HIDE DEF R
<1>11. mergelists(in) = <<M>> BY <1>2 DEF mergelists, U
<1> QED BY <1>10, <1>11 DEF R, q

\* A round of the loop keeps the walk in order.
LEMMA StepWalks ==
    ASSUME OrderAssumption, ListAssumption, InputAssumption,
           input \in Inputs, Walk(input, teamvecomap, citr), Live # {},
           NEW T1, T1 = [teamvecomap EXCEPT ![1] = updated(@)],
           NEW c1, c1 = [i \in 1..nlists |-> IF citr[i] = minsig THEN following(teamvecomap[i], minsig)
                                             ELSE citr[i]]
    PROVE  Walk(input, T1, c1)
<1> DEFINE n == Len(input)
           m == minsig
           a == [i \in 1..n |-> addend(i)]
<1>1. /\ n \in Nat /\ 1 <= n /\ 1 \in 1..n
      /\ \A i \in 1..n : Map(input[i])
  BY InputLists
<1>2. /\ teamvecomap = [i \in 1..n |-> teamvecomap[i]] /\ Map(teamvecomap[1])
      /\ \A i \in 2..n : teamvecomap[i] = input[i]
      /\ \A k \in Holders \cup {Dummy} : k \in DOMAIN input[1] => teamvecomap[1][k] = input[1][k]
  BY DEF Walk, Unwalked
<1>3. /\ citr \in [1..n -> Sig \cup {End}]
      /\ \A i \in 1..n : citr[i] # End => citr[i] \in DOMAIN input[i]
      /\ \A i \in 1..n : \A s \in Sig : s \in DOMAIN input[i] /\ s < citr[i] => Passed(citr, s)
  BY DEF Walk, Iterators
<1>4. \A s \in Sig : SettledAt(input, teamvecomap, citr, s) BY DEF Walk
<1>5. nlists = n BY <1>1, <1>2, LenIs DEF nlists
<1>6. (\A s \in Sig : s \in Nat /\ s < End) /\ End \in Nat BY KeyOrder
<1> DEFINE X == {citr[i] : i \in Live}
<1>23. \A i \in 1..n : citr[i] \in Nat
  <2> TAKE i \in 1..n
  <2>1. citr[i] \in Sig \/ citr[i] = End BY <1>3
  <2> QED BY <1>6, <2>1
<1>7. X \in SUBSET Nat /\ X # {}
  <2>1. \A i \in Live : i \in 1..n BY <1>5 DEF Live
  <2> QED BY <1>23, <2>1
<1>8. m \in X /\ \A y \in X : m <= y
  <2>1. m = Min(X) BY DEF minsig
  <2> HIDE DEF X, m
  <2> QED BY <1>7, <2>1, MinNat
<1>9. PICK p \in 1..n : citr[p] # End /\ citr[p] = m BY <1>5, <1>8 DEF Live
<1>10. \A i \in 1..n : citr[i] # End => m <= citr[i] BY <1>5, <1>8 DEF Live
<1> HIDE DEF X
<1>11. m \in Sig /\ m \in Nat /\ m \in DOMAIN input[p] BY <1>3, <1>6, <1>9
<1>12. m \notin Holders BY <1>11, ListAssumption
<1>13. ~Passed(citr, m)
  <2>1. DOMAIN citr = 1..n BY <1>3
  <2>2. ~(m < citr[p]) BY <1>9, <1>11
  <2> QED BY <2>1, <2>2 DEF Passed
\* What each list adds is what it had for m.
<1>14. ASSUME NEW i \in 1..n PROVE a[i] = At(input[i], m)
  <2>1. a[i] = IF citr[i] = m THEN teamvecomap[i][m] ELSE teamvecomap[i][Dummy] BY DEF addend
  <2>2. i = 1 \/ i \in 2..n BY <1>1
  <2>3. CASE citr[i] = m
    <3>1. m \in DOMAIN input[i] BY <1>3, <1>9, <2>3
    <3>2. teamvecomap[i][m] = input[i][m]
      <4>1. SettledAt(input, teamvecomap, citr, m) BY <1>4, <1>11
      <4>2. m \in DOMAIN input[1] => teamvecomap[1][m] = input[1][m] BY <1>13, <4>1 DEF SettledAt
      <4> QED BY <1>2, <2>2, <3>1, <4>2
    <3> QED BY <2>1, <2>3, <3>1, <3>2 DEF At
  <2>4. CASE citr[i] # m
    <3>5. citr[i] \in Nat BY <1>23
    <3>6. m <= citr[i]
      <4>1. CASE citr[i] = End BY <1>6, <1>11, <4>1
      <4>2. CASE citr[i] # End BY <1>10, <4>2
      <4> QED BY <4>1, <4>2
    <3>1. m < citr[i] BY <1>11, <2>4, <3>5, <3>6
    <3>2. m \notin DOMAIN input[i] BY <1>3, <1>11, <1>13, <3>1
    <3>3. Dummy \in DOMAIN input[i] BY <1>1 DEF Map
    <3>4. teamvecomap[i][Dummy] = input[i][Dummy] BY <1>2, <2>2, <3>3
    <3> QED BY <2>1, <2>4, <3>2, <3>4 DEF At
  <2> QED BY <2>3, <2>4
<1> DEFINE e == [f |-> total("f") \div 2, w |-> total("w") \div 2]
<1>15. /\ total("f") = sumf(input, m) /\ total("w") = sumw(input, m)
       /\ sumf(input, m) \in Nat /\ sumw(input, m) \in Nat
  <2>1. [i \in 1..n |-> a[i].f] = [i \in 1..n |-> addend(i)["f"]] OBVIOUS
  <2>2. [i \in 1..n |-> a[i].w] = [i \in 1..n |-> addend(i)["w"]] OBVIOUS
  <2>3. total("f") = SumTo(n, [i \in 1..n |-> a[i].f]) BY <1>5, <2>1 DEF total
  <2>4. total("w") = SumTo(n, [i \in 1..n |-> a[i].w]) BY <1>5, <2>2 DEF total
  <2> HIDE DEF a, m
  <2> QED BY <1>12, <1>14, <2>3, <2>4, SumsMerged
<1>16. m # Dummy /\ m \notin Holders BY <1>11, ListAssumption
<1>17. e = merged(input, m) BY <1>15, <1>16 DEF merged
<1>18. e \in Entry
  <2>1. \A x \in Nat : x \div 2 \in Nat OBVIOUS
  <2> QED BY <1>15, <2>1 DEF Entry
<1>19. T1 = Entered(teamvecomap, m, e) BY <1>1, <1>2 DEF updated, Entered
<1>20. c1 = Advanced(Len(input), teamvecomap, citr, m) BY <1>5 DEF Advanced
<1> HIDE DEF e, m
<1>21. \E i \in 1..Len(input) : citr[i] # End /\ citr[i] = m BY <1>9
<1>22. \A i \in 1..Len(input) : citr[i] # End => m <= citr[i] BY <1>10
<1> QED BY <1>17, <1>18, <1>19, <1>20, <1>21, <1>22, RoundWalks

\* Every step keeps the invariant.
LEMMA MergeNextInv ==
    ASSUME OrderAssumption, ListAssumption, InputAssumption, MergeInv, [MergeNext]_mergeVars
    PROVE  MergeInv'
<1>1. input \in Inputs /\ stage \in {"start", "loop", "done"} BY DEF MergeInv
<1>2. CASE MergeStart
  <2>1. teamvecomap = input /\ stage = "start" /\ input' = input BY <1>2 DEF MergeStart, MergeInv
  <2>2. nlists = Len(input) BY <2>1 DEF nlists
  <2>3. CASE nlists = 1
    <3>1. teamvecomap' = <<dividefreq(input[1])>> /\ stage' = "done" BY <1>2, <2>1, <2>3 DEF MergeStart
    <3> QED BY <1>1, <2>1, <2>2, <2>3, <3>1 DEF MergeInv, mergelists
  <2>4. CASE nlists # 1
    <3>1. citr' = [i \in 1..Len(input) |-> skipped(input[i])] /\ stage' = "loop" /\ teamvecomap' = input
      BY <1>2, <2>1, <2>2, <2>4 DEF MergeStart
    <3>2. Walk(input, input, citr') BY <1>1, <2>2, <2>4, <3>1, StartWalks
    <3> QED BY <1>1, <2>1, <3>1, <3>2 DEF MergeInv
  <2> QED BY <2>3, <2>4
<1>3. CASE MergeStep
  <2>1. Walk(input, teamvecomap, citr) /\ Live # {} /\ stage' = "loop" /\ input' = input
    BY <1>3 DEF MergeStep, MergeInv
  <2>2. Walk(input, teamvecomap', citr') BY <1>1, <1>3, <2>1, StepWalks DEF MergeStep
  <2> QED BY <1>1, <2>1, <2>2 DEF MergeInv
<1>4. CASE MergeDummy
  <2>1. Walk(input, teamvecomap, citr) /\ Live = {} /\ stage' = "done" /\ input' = input
    BY <1>4 DEF MergeDummy, MergeInv
  <2>2. Len(input) \in Nat BY <1>1, InputLists
  <2>3. nlists = Len(input) BY <2>1, <2>2, LenIs DEF nlists, Walk, Unwalked
  <2>4. \A i \in 1..Len(input) : citr[i] = End BY <2>1, <2>3 DEF Live
  <2>5. teamvecomap' = <<[teamvecomap[1] EXCEPT ![Dummy].w =
           SumTo(Len(input), [i \in 1..Len(input) |-> teamvecomap[i][Dummy].w]) \div 2]>>
    BY <1>4, <2>3 DEF MergeDummy
  <2>6. teamvecomap' = mergelists(input) BY <1>1, <2>1, <2>4, <2>5, WalkDone
  <2> QED BY <1>1, <2>1, <2>6 DEF MergeInv
<1>5. CASE UNCHANGED mergeVars BY <1>5 DEF mergeVars, MergeInv
<1> QED BY <1>2, <1>3, <1>4, <1>5 DEF MergeNext, MergeFinished

\* The invariant says what MergeCorrect says.
LEMMA MergeInvCorrect ==
    ASSUME InputAssumption, MergeInv PROVE MergeCorrect
<1>1. ASSUME stage = "loop" PROVE SumsSettled
  <2>1. Walk(input, teamvecomap, citr) /\ input \in Inputs BY <1>1 DEF MergeInv
  <2>2. Len(input) \in Nat /\ 1 \in 1..Len(input) /\ \A i \in 1..Len(input) : Map(input[i])
    BY <2>1, InputLists
  <2>3. nlists = Len(input) BY <2>1, <2>2, LenIs DEF nlists, Walk, Unwalked
  <2>4. DOMAIN citr = 1..Len(input) BY <2>1 DEF Walk, Iterators
  <2>5. teamvecomap[1][Dummy] = input[1][Dummy] /\ \A i \in 2..Len(input) : teamvecomap[i] = input[i]
    BY <2>1, <2>2 DEF Walk, Unwalked, Map
  <2>6. \A i \in 1..Len(input) : i = 1 \/ i \in 2..Len(input) BY <2>2
  <2> SUFFICES ASSUME NEW s \in Sig
               PROVE  IF \A i \in 1..nlists : s < citr[i]
                      THEN IF \E i \in 1..nlists : s \in DOMAIN input[i]
                           THEN s \in DOMAIN teamvecomap[1] /\ teamvecomap[1][s] = merged(input, s)
                           ELSE s \notin DOMAIN teamvecomap[1]
                      ELSE \A i \in 1..nlists : /\ (s \in DOMAIN teamvecomap[i]) = (s \in DOMAIN input[i])
                                                /\ At(teamvecomap[i], s) = At(input[i], s)
    BY DEF SumsSettled
  <2>7. SettledAt(input, teamvecomap, citr, s) BY <2>1 DEF Walk
  <2>8. (\A i \in 1..nlists : s < citr[i]) <=> Passed(citr, s) BY <2>3, <2>4 DEF Passed
  <2>9. CASE Passed(citr, s) BY <2>3, <2>7, <2>8, <2>9 DEF SettledAt
  <2>10. CASE ~Passed(citr, s)
    <3>1. /\ (s \in DOMAIN teamvecomap[1]) = (s \in DOMAIN input[1])
          /\ s \in DOMAIN input[1] => teamvecomap[1][s] = input[1][s]
      BY <2>7, <2>10 DEF SettledAt
    <3>2. At(teamvecomap[1], s) = At(input[1], s) BY <2>5, <3>1 DEF At
    <3>3. \A i \in 1..nlists : /\ (s \in DOMAIN teamvecomap[i]) = (s \in DOMAIN input[i])
                               /\ At(teamvecomap[i], s) = At(input[i], s)
      BY <2>3, <2>5, <2>6, <3>1, <3>2
    <3> QED BY <2>8, <2>10, <3>3
  <2> QED BY <2>9, <2>10
<1> QED BY <1>1 DEF MergeInv, MergeCorrect

\* The walk of mergelists leaves in the first list what GossipLists!mergelists
\* says, and on the way every signature is settled that all iterators have
\* passed: for any number of lists, with any signatures, of any numbers.
THEOREM MergeRight ==
    ASSUME OrderAssumption, InputAssumption
    PROVE  MergeSpec => []MergeCorrect
<1>1. MergeInit => MergeInv BY DEF MergeInit, MergeInv
<1>2. MergeInv /\ [MergeNext]_mergeVars => MergeInv' BY ListAssumption, MergeNextInv
<1>3. MergeInv => MergeCorrect BY MergeInvCorrect
<1> QED BY <1>1, <1>2, <1>3, PTL DEF MergeSpec

-------------------------------------------------------------------------------
(* Retrieve: what a retrieve answers, for any number of successors, fragments *)
(* and chunks, whatever is lost, late or out of order.  A step of the client  *)
(* works on a state s = [rs, dl]; the lemmas follow the calls the code nests: *)
(* fetch_frag, retrieve_fetch_cb, check_finish, and the handlers.             *)

\* The types of a download and of rcv_state.
Downloads == [live : BOOLEAN, asked : BOOLEAN, served : BOOLEAN, tmo : BOOLEAN,
              acked : BOOLEAN, called : BOOLEAN, error : BOOLEAN, read : Nat]
RcvStates == [succs : 0..NSUCC, next : 0..NSUCC, incoming : Int, frags : SUBSET (0..NSUCC),
              ends : {0, 1}, status : {"no", "OK", "NOENT", "CHORDERR"}]
\* The downloads that are waited for.
Wait(s) == {i \in Succ : s.dl[i].asked /\ ~s.dl[i].called}
\* Too few fragments, or one of F failures to blame.
Few(s, F, enough) == Cardinality(s.rs.frags) < enough \/ F > 0
\* The type of the client's state.
ClientType(s) == s \in [rs : RcvStates, dl : [Succ -> Downloads]]

\* The state of the client: the first next of the succs successors have been
\* asked, those of X are about to be handed over, and the other outstanding
\* requests are the ones that are counted.
RequestsOK(s, X) ==
    /\ s.rs.next <= s.rs.succs
    /\ \A i \in Succ : s.dl[i].asked <=> i <= s.rs.next
    /\ \A i \in Succ : s.dl[i].called => s.dl[i].asked
    /\ X \subseteq Wait(s)
    /\ s.rs.incoming = Cardinality(Wait(s) \ X)
\* The answer to the caller.
AnswerOK(s, X, F, enough) ==
    /\ s.rs.ends = 0 <=> s.rs.status = "no"
    /\ s.rs.ends = 0 => Few(s, F, enough)
    /\ s.rs.status = "OK" => Cardinality(s.rs.frags) >= enough
    /\ s.rs.status = "NOENT" => Wait(s) \ X = {} /\ s.rs.next = s.rs.succs /\ Few(s, F, enough)
ClientOK(s, X, F, enough) == ClientType(s) /\ RequestsOK(s, X) /\ AnswerOK(s, X, F, enough)

\* A client that has not answered waits for somebody or has a fragment.
Hope(s) == s.rs.ends = 0 /\ s.rs.succs > 0 /\ Wait(s) = {} => s.rs.frags # {}

\* A download and the messages for it.
FlagOK(d, m) ==
    /\ ~d.served => ~d.called /\ d.read = 0 /\ m = {} /\ ~d.error
    /\ d.served \/ d.live => d.asked
    /\ d.called => d.read = CHUNKS \/ d.error
    /\ d.error => d.called
    /\ d.called /\ d.acked => ~d.live
    /\ "chunk" \in m /\ d.live => ~d.called /\ d.read < CHUNKS
    /\ "noent" \in m => "chunk" \notin m

\* e is d, or d was not asked yet and is now.
Opened(d, e) == e = d \/ (~d.asked /\ e = [d EXCEPT !.live = TRUE, !.asked = TRUE])
Same(s, t) == \A k \in Succ : Opened(s.dl[k], t.dl[k])

\* The downloads that are waited for are finitely many.
LEMMA WaitFinite ==
    ASSUME RetrieveAssumption, NEW s, NEW X
    PROVE  IsFiniteSet(Wait(s) \ X) /\ Cardinality(Wait(s) \ X) \in Nat
           /\ (Cardinality(Wait(s) \ X) = 0 <=> Wait(s) \ X = {})
<1>1. NSUCC \in Nat BY DEF RetrieveAssumption
<1>2. IsFiniteSet(1..NSUCC) BY <1>1, FS_Interval
<1>3. (Wait(s) \ X) \subseteq 1..NSUCC BY DEF Wait, Succ
<1>4. IsFiniteSet(Wait(s) \ X) BY <1>2, <1>3, FS_Subset
<1> QED BY <1>4, FS_CardinalityType, FS_EmptySet

\* So are the fragments.
LEMMA FragsFinite ==
    ASSUME RetrieveAssumption, NEW S \in SUBSET (0..NSUCC)
    PROVE  IsFiniteSet(S) /\ Cardinality(S) \in Nat
<1>1. NSUCC \in Nat /\ 0 \in Nat BY DEF RetrieveAssumption
<1>2. IsFiniteSet(0..NSUCC) BY <1>1, FS_Interval
<1>3. IsFiniteSet(S) BY <1>2, FS_Subset
<1> QED BY <1>3, FS_CardinalityType

\* A request more.
LEMMA AskOne ==
    ASSUME RetrieveAssumption, NEW s, NEW X, NEW F \in Nat, NEW enough \in Nat,
           ClientOK(s, X, F, enough), s.rs.ends = 0, s.rs.next < s.rs.succs
    PROVE  /\ ClientOK(Ask(s), X, F, enough) /\ Same(s, Ask(s)) /\ Wait(Ask(s)) \ X # {}
           /\ Ask(s).rs.frags = s.rs.frags
<1> DEFINE j == s.rs.next + 1
           d == s.dl[j]
<1>0. NSUCC \in Nat /\ Succ = 1..NSUCC BY DEF RetrieveAssumption, Succ
<1>1. s.rs \in RcvStates /\ s.dl \in [Succ -> Downloads] /\ s.rs.next \in 0..NSUCC /\ s.rs.succs \in 0..NSUCC
      /\ s.rs.incoming \in Int
  BY DEF ClientOK, ClientType, RcvStates
<1>2. j \in Succ BY <1>0, <1>1
<1>3. PICK e : e = [d EXCEPT !.live = TRUE, !.asked = TRUE] OBVIOUS
<1>4. d \in Downloads BY <1>1, <1>2
<1>5. e \in Downloads /\ e.asked /\ e.called = d.called BY <1>3, <1>4 DEF Downloads
<1>6. PICK r : r = [s.rs EXCEPT !.incoming = @ + 1, !.next = @ + 1] OBVIOUS
<1>7. /\ r \in RcvStates /\ r.next = j /\ r.incoming = s.rs.incoming + 1 /\ r.succs = s.rs.succs
      /\ r.ends = s.rs.ends /\ r.status = s.rs.status /\ r.frags = s.rs.frags
  <2>1. j \in 0..NSUCC BY <1>0, <1>2
  <2>2. PICK q : q = s.rs OBVIOUS
  <2>3. PICK i0 \in Int : i0 = q.incoming + 1 BY <1>1, <2>2
  <2>4. q.next + 1 = j BY <2>2
  <2> HIDE DEF j
  <2>5. r = [q EXCEPT !.incoming = i0, !.next = j] BY <1>6, <2>2, <2>3, <2>4
  <2>6. q \in RcvStates BY <1>1, <2>2
  <2>7. r \in RcvStates /\ r.next = j /\ r.incoming = i0 /\ r.succs = q.succs
        /\ r.ends = q.ends /\ r.status = q.status /\ r.frags = q.frags
    BY <2>1, <2>5, <2>6 DEF RcvStates
  <2> QED BY <2>2, <2>3, <2>7
<1>8. PICK f : f = [s.dl EXCEPT ![j] = e] OBVIOUS
<1>9. f \in [Succ -> Downloads] /\ f[j] = e /\ \A k \in Succ : k # j => f[k] = s.dl[k]
  BY <1>1, <1>2, <1>5, <1>8
<1>10. PICK t : t = Ask(s) OBVIOUS
<1>11. t = [rs |-> r, dl |-> f] BY <1>3, <1>6, <1>8, <1>10 DEF Ask
<1>12. t.rs = r /\ t.dl = f /\ ClientType(t) BY <1>7, <1>9, <1>11 DEF ClientType
<1>13. ~d.asked /\ ~d.called BY <1>0, <1>1, <1>2 DEF ClientOK, RequestsOK
<1> HIDE DEF j, d
<1>14. Wait(t) = Wait(s) \cup {j} BY <1>2, <1>5, <1>9, <1>12, <1>13 DEF Wait, d
<1>15. j \notin Wait(s) BY <1>13 DEF Wait, d
<1>16. X \subseteq Wait(s) BY DEF ClientOK, RequestsOK
<1>17. Wait(t) \ X = (Wait(s) \ X) \cup {j} /\ j \notin Wait(s) \ X /\ j \notin X
  BY <1>14, <1>15, <1>16
<1>18. Cardinality(Wait(t) \ X) = Cardinality(Wait(s) \ X) + 1 BY <1>17, WaitFinite, FS_AddElement
<1>19. RequestsOK(t, X)
  <2>1. t.rs.next <= t.rs.succs BY <1>1, <1>7, <1>12 DEF j
  <2>2. ASSUME NEW i \in Succ PROVE (t.dl[i].asked <=> i <= t.rs.next) /\ (t.dl[i].called => t.dl[i].asked)
    <3>1. (s.dl[i].asked <=> i <= s.rs.next) /\ (s.dl[i].called => s.dl[i].asked)
      BY DEF ClientOK, RequestsOK
    <3>2. CASE i = j
      <4>1. t.dl[i].asked BY <1>5, <1>9, <1>12, <3>2
      <4>2. i <= t.rs.next BY <1>0, <1>7, <1>12, <3>2
      <4> QED BY <4>1, <4>2
    <3>3. CASE i # j
      <4>1. t.dl[i] = s.dl[i] BY <1>9, <1>12, <3>3
      <4>2. i <= t.rs.next <=> i <= s.rs.next BY <1>0, <1>1, <1>7, <1>12, <3>3 DEF j
      <4> QED BY <3>1, <4>1, <4>2
    <3> QED BY <3>2, <3>3
  <2>3. X \subseteq Wait(t) BY <1>14, <1>16
  <2>4. t.rs.incoming = Cardinality(Wait(t) \ X) BY <1>7, <1>12, <1>18 DEF ClientOK, RequestsOK
  <2> QED BY <2>1, <2>2, <2>3, <2>4 DEF RequestsOK
<1>20. AnswerOK(t, X, F, enough) BY <1>7, <1>12 DEF AnswerOK, ClientOK, Few
<1>21. Same(s, t)
  <2> SUFFICES ASSUME NEW k \in Succ PROVE Opened(s.dl[k], t.dl[k]) BY DEF Same
  <2>1. CASE k = j BY <1>3, <1>9, <1>12, <1>13, <2>1 DEF Opened, d
  <2>2. CASE k # j BY <1>9, <1>12, <2>2 DEF Opened
  <2> QED BY <2>1, <2>2
<1>22. ClientOK(t, X, F, enough) BY <1>12, <1>19, <1>20 DEF ClientOK
<1>23. Wait(t) \ X # {} BY <1>17
<1> QED BY <1>7, <1>10, <1>12, <1>21, <1>22, <1>23

\* What complete changes.
LEMMA CompleteIs ==
    ASSUME NEW s, ClientType(s), s.rs.ends = 0, NEW status \in {"OK", "NOENT", "CHORDERR"}
    PROVE  /\ ClientType(complete(s, status)) /\ complete(s, status).dl = s.dl
           /\ complete(s, status).rs.ends = 1 /\ complete(s, status).rs.status = status
           /\ complete(s, status).rs.next = s.rs.next /\ complete(s, status).rs.succs = s.rs.succs
           /\ complete(s, status).rs.incoming = s.rs.incoming /\ complete(s, status).rs.frags = s.rs.frags
<1>1. s.rs \in RcvStates /\ s.dl \in [Succ -> Downloads] BY DEF ClientType
<1>2. PICK r : r = [s.rs EXCEPT !.ends = @ + 1, !.status = status] OBVIOUS
<1>3. /\ r \in RcvStates /\ r.ends = 1 /\ r.status = status /\ r.next = s.rs.next /\ r.succs = s.rs.succs
      /\ r.incoming = s.rs.incoming /\ r.frags = s.rs.frags
  <2>2. PICK q : q = s.rs OBVIOUS
  <2>5. r = [q EXCEPT !.ends = 1, !.status = status] BY <1>2, <2>2
  <2>6. q \in RcvStates BY <1>1, <2>2
  <2>7. r \in RcvStates /\ r.next = q.next /\ r.incoming = q.incoming /\ r.succs = q.succs
        /\ r.ends = 1 /\ r.status = status /\ r.frags = q.frags
    BY <2>5, <2>6 DEF RcvStates
  <2> QED BY <2>2, <2>7
<1>4. PICK t : t = complete(s, status) OBVIOUS
<1>5. t = [s EXCEPT !.rs = r] BY <1>2, <1>4 DEF complete, ClientType
<1>6. t.rs = r /\ t.dl = s.dl /\ ClientType(t) BY <1>1, <1>3, <1>5 DEF ClientType
<1> QED BY <1>3, <1>4, <1>6

\* Answering keeps the requests.
LEMMA CompleteOK ==
    ASSUME NEW s, NEW X, NEW F \in Nat, NEW enough \in Nat, ClientType(s), RequestsOK(s, X), s.rs.ends = 0,
           NEW status \in {"OK", "NOENT", "CHORDERR"},
           status = "OK" => Cardinality(s.rs.frags) >= enough,
           status = "NOENT" => Wait(s) \ X = {} /\ s.rs.next = s.rs.succs /\ Few(s, F, enough)
    PROVE  ClientOK(complete(s, status), X, F, enough) /\ Same(s, complete(s, status)) /\ complete(s, status).rs.ends = 1
<1>1. PICK t : t = complete(s, status) OBVIOUS
<1>2. /\ ClientType(t) /\ t.dl = s.dl /\ t.rs.ends = 1 /\ t.rs.status = status
      /\ t.rs.next = s.rs.next /\ t.rs.succs = s.rs.succs
      /\ t.rs.incoming = s.rs.incoming /\ t.rs.frags = s.rs.frags
  BY <1>1, CompleteIs
<1>3. Wait(t) = Wait(s) BY <1>2 DEF Wait
<1>4. RequestsOK(t, X) BY <1>2, <1>3 DEF RequestsOK
<1>5. AnswerOK(t, X, F, enough) BY <1>2, <1>3 DEF AnswerOK, Few
<1>6. Same(s, t) BY <1>2 DEF Same, Opened
<1> QED BY <1>1, <1>2, <1>4, <1>5, <1>6 DEF ClientOK

\* fetch_frag asks, answers or leaves the client as it is; unless the caller has
\* an answer, somebody else is waited for afterwards.
LEMMA FetchOne ==
    ASSUME RetrieveAssumption, NEW s, NEW X, NEW F \in Nat, NEW enough \in Nat, ClientOK(s, X, F, enough)
    PROVE  /\ ClientOK(fetch_frag(s), X, F, enough) /\ Same(s, fetch_frag(s))
           /\ fetch_frag(s).rs.ends = 0 => Wait(fetch_frag(s)) \ X # {}
<1>0. Same(s, s) BY DEF Same, Opened
<1>1. s.rs.ends \in {0, 1} /\ s.rs.next \in 0..NSUCC /\ s.rs.succs \in 0..NSUCC
  BY DEF ClientOK, ClientType, RcvStates
<1>2. s.rs.next <= s.rs.succs /\ s.rs.incoming = Cardinality(Wait(s) \ X)
  BY DEF ClientOK, RequestsOK
<1>3. CASE s.rs.ends > 0
  <2>1. fetch_frag(s) = s BY <1>3 DEF fetch_frag, completed
  <2> QED BY <1>0, <1>3, <2>1
<1>4. CASE s.rs.ends = 0 /\ s.rs.next >= s.rs.succs /\ s.rs.incoming > 0
  <2>1. fetch_frag(s) = s BY <1>4 DEF fetch_frag, completed
  <2>2. Wait(s) \ X # {} BY <1>2, <1>4, WaitFinite
  <2> QED BY <1>0, <2>1, <2>2
<1>5. CASE s.rs.ends = 0 /\ s.rs.next >= s.rs.succs /\ ~(s.rs.incoming > 0)
  <2>1. fetch_frag(s) = complete(s, "NOENT") BY <1>5 DEF fetch_frag, completed
  <2>2. Cardinality(Wait(s) \ X) = 0
    <3>1. Cardinality(Wait(s) \ X) \in Nat BY WaitFinite
    <3> QED BY <1>2, <1>5, <3>1
  <2>3. Wait(s) \ X = {} BY <2>2, WaitFinite
  <2>4. s.rs.next = s.rs.succs BY <1>1, <1>2, <1>5
  <2>5. Few(s, F, enough) BY <1>5 DEF ClientOK, AnswerOK
  <2>6. ClientType(s) /\ RequestsOK(s, X) BY DEF ClientOK
  <2> QED BY <1>5, <2>1, <2>3, <2>4, <2>5, <2>6, CompleteOK
<1>6. CASE s.rs.ends = 0 /\ ~(s.rs.next >= s.rs.succs)
  <2>1. fetch_frag(s) = Ask(s) BY <1>6 DEF fetch_frag, completed
  <2>2. s.rs.next < s.rs.succs BY <1>1, <1>6
  <2> QED BY <1>6, <2>1, <2>2, AskOne
<1> QED BY <1>1, <1>3, <1>4, <1>5, <1>6

\* One request less.
LEMMA CountDown ==
    ASSUME RetrieveAssumption, NEW s, NEW i \in Wait(s), NEW F \in Nat, NEW enough \in Nat, ClientOK(s, {}, F, enough)
    PROVE  \E t : /\ t = [s EXCEPT !.rs.incoming = @ - 1] /\ ClientOK(t, {i}, F, enough)
                 /\ t.dl = s.dl /\ t.rs.frags = s.rs.frags /\ t.rs.ends = s.rs.ends
<1>1. ClientType(s) /\ s.rs \in RcvStates /\ s.dl \in [Succ -> Downloads]
  BY DEF ClientOK, ClientType
<1>2. PICK q : q = s.rs OBVIOUS
<1>3. q \in RcvStates /\ q.incoming \in Int BY <1>1, <1>2 DEF RcvStates
<1>4. PICK i0 \in Int : i0 = q.incoming - 1 BY <1>3
<1>5. PICK r : r = [q EXCEPT !.incoming = i0] OBVIOUS
<1>6. r \in RcvStates /\ r.next = q.next /\ r.incoming = i0 /\ r.succs = q.succs
      /\ r.ends = q.ends /\ r.status = q.status /\ r.frags = q.frags
  BY <1>3, <1>5 DEF RcvStates
<1>7. PICK t : t = [s EXCEPT !.rs = r] OBVIOUS
<1>8. t.rs = r /\ t.dl = s.dl /\ ClientType(t) BY <1>1, <1>6, <1>7 DEF ClientType
<1>9. t = [s EXCEPT !.rs.incoming = @ - 1] BY <1>2, <1>4, <1>5, <1>7
<1>10. Wait(t) = Wait(s) BY <1>8 DEF Wait
<1>11. /\ IsFiniteSet(Wait(s)) /\ Wait(s) \ {} = Wait(s)
  <2>1. IsFiniteSet(Wait(s) \ {}) BY WaitFinite
  <2>2. Wait(s) \ {} = Wait(s) OBVIOUS
  <2> QED BY <2>1, <2>2
<1>12. Cardinality(Wait(s) \ {i}) = Cardinality(Wait(s)) - 1 BY <1>11, FS_RemoveElement
<1>13. q.incoming = Cardinality(Wait(s)) BY <1>2, <1>11 DEF ClientOK, RequestsOK
<1>14. RequestsOK(t, {i}) BY <1>2, <1>4, <1>6, <1>8, <1>10, <1>12, <1>13 DEF ClientOK, RequestsOK
<1>15. AnswerOK(t, {i}, F, enough) BY <1>2, <1>6, <1>8, <1>10 DEF ClientOK, AnswerOK, Few
<1> QED BY <1>2, <1>6, <1>8, <1>9, <1>14, <1>15 DEF ClientOK

\* A fragment more.
Plus(s, f) == [s EXCEPT !.rs.frags = @ \cup {f}]
LEMMA AddFragment ==
    ASSUME RetrieveAssumption, NEW s, NEW X, NEW F \in Nat, NEW enough \in Nat, NEW f \in 0..NSUCC,
           ClientOK(s, X, F, enough), s.rs.ends = 0
    PROVE  /\ ClientType(Plus(s, f)) /\ RequestsOK(Plus(s, f), X)
           /\ Plus(s, f).dl = s.dl /\ Plus(s, f).rs.frags = s.rs.frags \cup {f}
           /\ Plus(s, f).rs.ends = 0 /\ Cardinality(Plus(s, f).rs.frags) \in Nat
           /\ Few(Plus(s, f), F, enough) => ClientOK(Plus(s, f), X, F, enough)
<1>1. ClientType(s) /\ s.rs \in RcvStates /\ s.dl \in [Succ -> Downloads]
  BY DEF ClientOK, ClientType
<1>2. PICK q : q = s.rs OBVIOUS
<1>3. q \in RcvStates /\ q.frags \in SUBSET (0..NSUCC) BY <1>1, <1>2 DEF RcvStates
<1>4. PICK g \in SUBSET (0..NSUCC) : g = q.frags \cup {f} BY <1>3
<1>5. PICK r : r = [q EXCEPT !.frags = g] OBVIOUS
<1>6. r \in RcvStates /\ r.next = q.next /\ r.incoming = q.incoming /\ r.succs = q.succs
      /\ r.ends = q.ends /\ r.status = q.status /\ r.frags = g
  BY <1>3, <1>4, <1>5 DEF RcvStates
<1>7. PICK t : t = [s EXCEPT !.rs = r] OBVIOUS
<1>8. t.rs = r /\ t.dl = s.dl /\ ClientType(t) BY <1>1, <1>6, <1>7 DEF ClientType
<1>9. t = Plus(s, f) BY <1>2, <1>4, <1>5, <1>7 DEF Plus
<1>10. Wait(t) = Wait(s) BY <1>8 DEF Wait
<1>11. RequestsOK(t, X) BY <1>2, <1>6, <1>8, <1>10 DEF ClientOK, RequestsOK
<1>12. Cardinality(g) \in Nat BY FragsFinite
<1>13. t.rs.status = "no" /\ t.rs.ends = 0 BY <1>2, <1>6, <1>8 DEF ClientOK, AnswerOK
<1>14. Few(t, F, enough) => ClientOK(t, X, F, enough) BY <1>8, <1>11, <1>13 DEF ClientOK, AnswerOK
<1> QED BY <1>2, <1>4, <1>6, <1>8, <1>9, <1>11, <1>12, <1>13, <1>14

\* Same is about the downloads only.
LEMMA SameTrans ==
    ASSUME NEW s, NEW t, NEW u, Same(s, t)
    PROVE  (u.dl = t.dl => Same(s, u)) /\ (u.dl = s.dl => Same(u, t)) /\ (s.dl = u.dl => Same(u, t))
BY DEF Same

\* A download is handed over: the client takes the fragment, asks for another
\* one or answers.
Handed(s, i, u, F) ==
    /\ ClientOK(u, {i}, F, need) /\ Same(s, u)
    /\ u.rs.ends = 0 => Wait(u) \ {i} # {} \/ u.rs.frags # {}
LEMMA HandOver ==
    ASSUME RetrieveAssumption, NEW s0, NEW i \in Wait(s0), NEW F \in Nat, need \in Nat,
           ClientOK(s0, {}, F, need), NEW block \in BOOLEAN, NEW f \in 0..NSUCC,
           NEW decodes \in BOOLEAN, decodes \/ F > 0
    PROVE  Handed(s0, i, retrieve_fetch_cb(s0, block, f, decodes), F)
<1>1. PICK s : /\ s = [s0 EXCEPT !.rs.incoming = @ - 1] /\ ClientOK(s, {i}, F, need)
               /\ s.dl = s0.dl /\ s.rs.frags = s0.rs.frags /\ s.rs.ends = s0.rs.ends
  BY CountDown
<1>2. Same(s, s) BY DEF Same, Opened
<1>3. PICK u : u = retrieve_fetch_cb(s0, block, f, decodes) OBVIOUS
<1> DEFINE p == process_download(s, f, decodes)
           t == IF p.err THEN fetch_frag(p.s) ELSE p.s
<1>4. u = IF completed(s) THEN s
          ELSE IF ~block THEN fetch_frag(s)
          ELSE IF p.done THEN complete(t, "OK")
          ELSE IF t.rs.incoming = 0 /\ t.rs.next > t.rs.succs THEN complete(t, "NOENT")
          ELSE t
  BY <1>1, <1>3 DEF retrieve_fetch_cb
<1>5. SUFFICES /\ ClientOK(u, {i}, F, need) /\ Same(s, u)
               /\ u.rs.ends = 0 => Wait(u) \ {i} # {} \/ u.rs.frags # {}
  BY <1>1, <1>3, SameTrans DEF Handed
<1>6. CASE s.rs.ends > 0
  <2>1. u = s BY <1>4, <1>6 DEF completed
  <2> QED BY <1>1, <1>2, <1>6, <2>1
<1>7. CASE ~(s.rs.ends > 0) /\ ~block
  <2>1. u = fetch_frag(s) BY <1>4, <1>7 DEF completed
  <2> QED BY <1>1, <2>1, FetchOne
<1>8. CASE ~(s.rs.ends > 0) /\ block
  <2>0. s.rs.ends = 0 BY <1>1, <1>8 DEF ClientOK, ClientType, RcvStates
  <2>1. u = IF p.done THEN complete(t, "OK")
            ELSE IF t.rs.incoming = 0 /\ t.rs.next > t.rs.succs THEN complete(t, "NOENT")
            ELSE t
    BY <1>4, <1>8 DEF completed
  <2>2. ASSUME ClientOK(t, {i}, F, need) PROVE ~(t.rs.next > t.rs.succs)
    <3> HIDE DEF t
    <3>1. t.rs.next \in 0..NSUCC /\ t.rs.succs \in 0..NSUCC /\ t.rs.next <= t.rs.succs
      BY <2>2 DEF ClientOK, ClientType, RcvStates, RequestsOK
    <3> QED BY <3>1
  <2>3. CASE ~replicated /\ f \in s.rs.frags
    <3>1. p = [s |-> s, err |-> TRUE, done |-> FALSE] BY <2>3 DEF process_download
    <3>2. t = fetch_frag(s) /\ ~p.done BY <3>1
    <3>3. ClientOK(t, {i}, F, need) BY <1>1, <3>2, FetchOne
    <3>4. u = t BY <2>1, <2>2, <3>2, <3>3
    <3> HIDE DEF t
    <3> QED BY <1>1, <3>2, <3>4, FetchOne
  <2>4. CASE ~(~replicated /\ f \in s.rs.frags)
    <3>1. PICK n : /\ n = Plus(s, f) /\ ClientType(n) /\ RequestsOK(n, {i})
                   /\ n.dl = s.dl /\ n.rs.frags = s.rs.frags \cup {f} /\ n.rs.ends = 0
                   /\ Cardinality(n.rs.frags) \in Nat
                   /\ Few(n, F, need) => ClientOK(n, {i}, F, need)
      <4>1. ClientOK(s, {i}, F, need) BY <1>1
      <4>2. PICK n : n = Plus(s, f) OBVIOUS
      <4> QED BY <2>0, <4>1, <4>2, AddFragment
    <3> DEFINE k == Cardinality(n.rs.frags)
    <3>2. p = [s |-> n, err |-> k >= min_fetch /\ ~decodes, done |-> k >= need /\ decodes]
      BY <2>4, <3>1 DEF process_download, Plus
    <3>9. PICK ee \in BOOLEAN : ee <=> k >= min_fetch /\ ~decodes OBVIOUS
    <3>10. PICK dd \in BOOLEAN : dd <=> k >= need /\ decodes OBVIOUS
    <3>11. p = [s |-> n, err |-> ee, done |-> dd] BY <3>2, <3>9, <3>10
    <3>3. p.s = n /\ (p.err <=> k >= min_fetch /\ ~decodes) /\ (p.done <=> k >= need /\ decodes)
      BY <3>9, <3>10, <3>11
    <3> HIDE DEF p
    <3>4. CASE k >= need /\ decodes
      <4>1. u = complete(n, "OK") BY <2>1, <3>3, <3>4
      <4>2. ClientOK(u, {i}, F, need) /\ Same(n, u) /\ u.rs.ends = 1 BY <3>1, <3>4, <4>1, CompleteOK
      <4> QED BY <3>1, <4>2, SameTrans
    <3>5. CASE ~(k >= need /\ decodes)
      <4>1. Few(n, F, need) BY <3>1, <3>5 DEF Few
      <4>2. ClientOK(n, {i}, F, need) BY <3>1, <4>1
      <4>3. CASE p.err
        <5>1. t = fetch_frag(n) BY <3>3, <4>3
        <5>2. ClientOK(t, {i}, F, need) BY <4>2, <5>1, FetchOne
        <5>3. u = t BY <2>1, <2>2, <3>3, <3>5, <5>2
        <5> HIDE DEF t
        <5>4. /\ ClientOK(u, {i}, F, need) /\ Same(n, u)
              /\ u.rs.ends = 0 => Wait(u) \ {i} # {}
          BY <4>2, <5>1, <5>3, FetchOne
        <5> QED BY <3>1, <5>4, SameTrans
      <4>4. CASE ~p.err
        <5>1. t = n BY <3>3, <4>4
        <5>3. u = n BY <2>1, <2>2, <3>3, <3>5, <4>2, <5>1
        <5> HIDE DEF t
        <5>4. n.rs.frags # {} BY <3>1
        <5>5. Same(s, n) BY <1>2, <3>1, SameTrans
        <5> QED BY <4>2, <5>3, <5>4, <5>5
      <4> QED BY <4>3, <4>4
    <3> QED BY <3>4, <3>5
  <2> QED BY <2>3, <2>4
<1> QED BY <1>6, <1>7, <1>8

\* One download changes.
Put(s, i, e) == [s EXCEPT !.dl = [@ EXCEPT ![i] = e]]
LEMMA PutIs ==
    ASSUME NEW s, ClientType(s), NEW i \in Succ, NEW e \in Downloads
    PROVE  /\ ClientType(Put(s, i, e)) /\ Put(s, i, e).rs = s.rs /\ Put(s, i, e).dl[i] = e
           /\ \A k \in Succ : k # i => Put(s, i, e).dl[k] = s.dl[k]
<1>1. s.rs \in RcvStates /\ s.dl \in [Succ -> Downloads] BY DEF ClientType
<1>2. PICK f : f = [s.dl EXCEPT ![i] = e] OBVIOUS
<1>3. f \in [Succ -> Downloads] /\ f[i] = e /\ \A k \in Succ : k # i => f[k] = s.dl[k] BY <1>1, <1>2
<1>4. PICK t : t = Put(s, i, e) OBVIOUS
<1>5. t = [s EXCEPT !.dl = f] BY <1>2, <1>4 DEF Put
<1>6. t.rs = s.rs /\ t.dl = f /\ ClientType(t) BY <1>1, <1>3, <1>5 DEF ClientType
<1> QED BY <1>3, <1>4, <1>6

\* Neither asked for nor handed over.
LEMMA PutOK ==
    ASSUME NEW s, NEW X, NEW F, NEW enough, ClientOK(s, X, F, enough), NEW i \in Succ, NEW e \in Downloads,
           e.asked = s.dl[i].asked, e.called = s.dl[i].called
    PROVE  ClientOK(Put(s, i, e), X, F, enough) /\ Wait(Put(s, i, e)) = Wait(s)
<1>1. PICK t : t = Put(s, i, e) OBVIOUS
<1>2. /\ ClientType(t) /\ t.rs = s.rs /\ t.dl[i] = e /\ \A k \in Succ : k # i => t.dl[k] = s.dl[k]
  BY <1>1, PutIs DEF ClientOK
<1>3. \A k \in Succ : t.dl[k].asked = s.dl[k].asked /\ t.dl[k].called = s.dl[k].called BY <1>2
<1>4. Wait(t) = Wait(s) BY <1>3 DEF Wait
<1>5. RequestsOK(t, X) BY <1>2, <1>3, <1>4 DEF ClientOK, RequestsOK
<1>6. AnswerOK(t, X, F, enough) BY <1>2, <1>4 DEF ClientOK, AnswerOK, Few
<1> QED BY <1>1, <1>2, <1>4, <1>5, <1>6 DEF ClientOK

\* Handed over.
LEMMA PutCalled ==
    ASSUME NEW s, NEW i \in Succ, NEW F, NEW enough, ClientOK(s, {i}, F, enough), NEW e \in Downloads,
           e.asked, e.called
    PROVE  ClientOK(Put(s, i, e), {}, F, enough) /\ Wait(Put(s, i, e)) = Wait(s) \ {i}
<1>1. PICK t : t = Put(s, i, e) OBVIOUS
<1>2. /\ ClientType(t) /\ t.rs = s.rs /\ t.dl[i] = e /\ \A k \in Succ : k # i => t.dl[k] = s.dl[k]
  BY <1>1, PutIs DEF ClientOK
<1>3. s.dl[i].asked BY DEF ClientOK, RequestsOK, Wait
<1>4. Wait(t) = Wait(s) \ {i} /\ Wait(t) \ {} = Wait(s) \ {i} BY <1>2 DEF Wait
<1>5. RequestsOK(t, {}) BY <1>2, <1>3, <1>4 DEF ClientOK, RequestsOK
<1>6. AnswerOK(t, {}, F, enough) BY <1>2, <1>4 DEF ClientOK, AnswerOK, Few
<1> QED BY <1>1, <1>2, <1>4, <1>5, <1>6 DEF ClientOK

\* What check_finish makes of a download.
Ended(d, e) ==
    /\ e.asked = d.asked /\ e.served = d.served /\ e.acked = d.acked /\ e.error = d.error /\ e.read = d.read
    /\ d.read # CHUNKS /\ ~d.error => e.called = d.called /\ e.live = d.live
    /\ d.read = CHUNKS \/ d.error => e.called /\ (e.live <=> ~d.acked)
Finished(s, i, u, F) ==
    /\ ClientOK(u, {}, F, need) /\ (Hope(s) => Hope(u))
    /\ \A k \in Succ : k # i => Opened(s.dl[k], u.dl[k])
    /\ Ended(s.dl[i], u.dl[i])

\* check_finish hands a download over that is complete or failed.
LEMMA CheckFinish ==
    ASSUME RetrieveAssumption, NEW s, NEW i \in Succ, NEW F \in Nat, need \in Nat,
           ClientOK(s, {}, F, need), s.dl[i].asked, frag[i] \in 0..NSUCC,
           NEW decodes \in BOOLEAN, decodes \/ F > 0
    PROVE  Finished(s, i, check_finish(s, i, decodes), F)
<1>1. PICK u : u = check_finish(s, i, decodes) OBVIOUS
<1> DEFINE d == s.dl[i]
           t == IF d.called THEN s
                ELSE [retrieve_fetch_cb(s, ~d.error, frag[i], decodes) EXCEPT !.dl[i].called = TRUE]
<1>2. u = IF d.read # CHUNKS /\ ~d.error THEN s ELSE [t EXCEPT !.dl[i].live = ~d.acked]
  BY <1>1 DEF check_finish
<1>3. ClientType(s) /\ d \in Downloads BY DEF ClientOK, ClientType
<1>4. CASE d.read # CHUNKS /\ ~d.error
  <2>1. u = s BY <1>2, <1>4
  <2>2. Finished(s, i, s, F) BY <1>4 DEF Finished, Ended, Opened
  <2> QED BY <1>1, <2>1, <2>2
<1>5. CASE ~(d.read # CHUNKS /\ ~d.error) /\ d.called
  <2>1. PICK e : e = [d EXCEPT !.live = ~d.acked] OBVIOUS
  <2>2. u = Put(s, i, e) BY <1>2, <1>5, <2>1 DEF Put
  <2> HIDE DEF d
  <2>3. e \in Downloads /\ e.asked = d.asked /\ e.called = d.called /\ Ended(d, e)
    BY <1>3, <1>5, <2>1 DEF Downloads, Ended
  <2>4. ClientOK(u, {}, F, need) /\ Wait(u) = Wait(s) BY <2>2, <2>3, PutOK DEF d
  <2>5. u.rs = s.rs /\ u.dl[i] = e /\ \A k \in Succ : k # i => u.dl[k] = s.dl[k]
    BY <1>3, <2>2, <2>3, PutIs
  <2>6. Finished(s, i, u, F) BY <2>3, <2>4, <2>5 DEF Finished, Hope, Opened, d
  <2> QED BY <1>1, <2>6
<1>6. CASE ~(d.read # CHUNKS /\ ~d.error) /\ ~d.called
  <2>1. i \in Wait(s) BY <1>6 DEF Wait
  <2>2. PICK block \in BOOLEAN : block = ~d.error OBVIOUS
  <2>3. PICK v : v = retrieve_fetch_cb(s, block, frag[i], decodes) /\ Handed(s, i, v, F)
    <3>1. PICK f \in 0..NSUCC : f = frag[i] OBVIOUS
    <3>2. Handed(s, i, retrieve_fetch_cb(s, block, f, decodes), F) BY <2>1, HandOver
    <3> QED BY <3>1, <3>2
  <2>4. v.dl[i] = d BY <2>3 DEF Handed, Same, Opened
  <2>5. PICK e1 : e1 = [d EXCEPT !.called = TRUE] OBVIOUS
  <2>6. t = Put(v, i, e1) BY <1>6, <2>2, <2>3, <2>4, <2>5 DEF Put
  <2>7. e1 \in Downloads /\ ClientType(v) BY <1>3, <2>3, <2>5 DEF Downloads, ClientOK, Handed
  <2>8. PICK t1 : t1 = t OBVIOUS
  <2>9. ClientType(t1) /\ t1.dl[i] = e1 /\ t1.rs = v.rs /\ \A k \in Succ : k # i => t1.dl[k] = v.dl[k]
    <3> HIDE DEF t
    <3>1. t1 = Put(v, i, e1) BY <2>6, <2>8
    <3> QED BY <2>7, <3>1, PutIs
  <2>10. PICK e : e = [e1 EXCEPT !.live = ~d.acked] OBVIOUS
  <2>11. u = Put(t1, i, e) BY <1>2, <1>6, <2>8, <2>9, <2>10 DEF Put
  <2> HIDE DEF t, d
  <2>12. e1.asked /\ e1.called BY <1>3, <2>5 DEF Downloads, d
  <2>13. e \in Downloads /\ e.asked = e1.asked /\ e.called = e1.called /\ Ended(d, e)
    <3>1. /\ e1.asked = d.asked /\ e1.served = d.served /\ e1.acked = d.acked /\ e1.error = d.error
          /\ e1.read = d.read
      BY <1>3, <2>5 DEF Downloads
    <3>2. PICK l \in BOOLEAN : l = ~d.acked OBVIOUS
    <3>3. e = [e1 EXCEPT !.live = l] BY <2>10, <3>2
    <3>4. /\ e \in Downloads /\ e.asked = e1.asked /\ e.called = e1.called /\ e.served = e1.served
          /\ e.acked = e1.acked /\ e.error = e1.error /\ e.read = e1.read /\ e.live = l
      BY <2>7, <3>3 DEF Downloads
    <3> QED BY <1>6, <2>12, <3>1, <3>2, <3>4 DEF Ended
  <2>14. ClientOK(t1, {}, F, need) /\ Wait(t1) = Wait(v) \ {i}
    BY <2>3, <2>6, <2>7, <2>8, <2>12, PutCalled DEF Handed
  <2>15. ClientOK(u, {}, F, need) /\ Wait(u) = Wait(t1) BY <2>9, <2>11, <2>13, <2>14, PutOK
  <2>16. u.rs = t1.rs /\ u.dl[i] = e /\ \A k \in Succ : k # i => u.dl[k] = t1.dl[k]
    BY <2>9, <2>11, <2>13, PutIs
  <2>17. Hope(u) BY <2>3, <2>9, <2>14, <2>15, <2>16 DEF Hope, Handed
  <2>18. \A k \in Succ : k # i => Opened(s.dl[k], u.dl[k]) BY <2>3, <2>9, <2>16 DEF Same, Handed
  <2>19. Finished(s, i, u, F) BY <2>13, <2>15, <2>16, <2>17, <2>18 DEF Finished, d
  <2> QED BY <1>1, <2>19
<1> QED BY <1>4, <1>5, <1>6

Messages == {"ack", "chunk", "noent"}
\* The inductive invariant.
RetrieveInv ==
    /\ replicated \in BOOLEAN /\ need \in Nat /\ frag \in [Succ -> 0..NSUCC]
    /\ sent \in [Succ -> SUBSET Messages] /\ failures \in Nat
    /\ ClientOK(Client, {}, failures, need) /\ Hope(Client)
    /\ \A k \in Succ : FlagOK(dl[k], sent[k])

\* The client is in state u and the messages are those of m.
Reached(u, m, F) ==
    /\ ClientOK(u, {}, F, need) /\ Hope(u)
    /\ m \in [Succ -> SUBSET Messages]
    /\ \A k \in Succ : FlagOK(u.dl[k], m[k])

\* A step that leaves the client in such a state keeps the invariant.
LEMMA Reaches ==
    ASSUME RetrieveInv, NEW u, failures' \in Nat, Reached(u, sent', failures'), rs' = u.rs, dl' = u.dl,
           UNCHANGED <<replicated, need, frag>>
    PROVE  RetrieveInv'
<1>1. ClientType(u) BY DEF Reached, ClientOK
<1>2. u = [rs |-> u.rs, dl |-> u.dl] BY <1>1 DEF ClientType
<1>3. Client' = u BY <1>2 DEF Client
<1>4. ClientOK(Client', {}, failures', need') /\ Hope(Client') BY <1>3 DEF Reached
<1>5. \A k \in Succ : FlagOK(dl'[k], sent'[k]) BY DEF Reached
<1> QED BY <1>4, <1>5 DEF RetrieveInv, Reached

\* The client as one state.
LEMMA ClientIs ==
    ASSUME RetrieveInv
    PROVE  /\ ClientType(Client) /\ Client.rs = rs /\ Client.dl = dl /\ rs \in RcvStates
           /\ dl \in [Succ -> Downloads] /\ sent \in [Succ -> SUBSET Messages]
BY DEF RetrieveInv, ClientOK, ClientType, Client

\* A download that is opened keeps what holds of it and its messages.
LEMMA OpenedFlag ==
    ASSUME NEW d \in Downloads, NEW e, NEW m, Opened(d, e), FlagOK(d, m)
    PROVE  FlagOK(e, m)
<1>1. CASE e = d BY <1>1
<1>2. CASE ~d.asked /\ e = [d EXCEPT !.live = TRUE, !.asked = TRUE]
  <2>1. e.asked /\ e.served = d.served /\ e.called = d.called /\ e.error = d.error /\ e.read = d.read
    BY <1>2 DEF Downloads
  <2>2. ~d.served BY <1>2 DEF FlagOK
  <2> QED BY <2>1, <2>2 DEF FlagOK
<1> QED BY <1>1, <1>2 DEF Opened

\* More failures.
LEMMA FailsMore ==
    ASSUME NEW s, NEW X, NEW F \in Nat, NEW G \in Nat, NEW enough, ClientOK(s, X, F, enough), G >= F
    PROVE  ClientOK(s, X, G, enough)
BY DEF ClientOK, AnswerOK, Few

\* The download of i becomes e, and check_finish looks at it.
Moved(u, i, G) ==
    /\ ClientOK(u, {}, G, need) /\ Hope(u)
    /\ \A k \in Succ : k # i => FlagOK(u.dl[k], sent[k])
Stepped(u, i, e, G) == Moved(u, i, G) /\ Ended(e, u.dl[i])
LEMMA FinishStep ==
    ASSUME RetrieveAssumption, RetrieveInv, NEW i \in Succ, NEW e \in Downloads, NEW G \in Nat, G >= failures,
           e.asked, dl[i].asked, e.called = dl[i].called, NEW decodes \in BOOLEAN, decodes \/ G > 0
    PROVE  Stepped(check_finish(Put(Client, i, e), i, decodes), i, e, G)
<1>1. PICK s : s = Put(Client, i, e) OBVIOUS
<1>2. failures \in Nat /\ need \in Nat /\ frag[i] \in 0..NSUCC BY DEF RetrieveInv
<1>3. ClientOK(Client, {}, G, need) BY <1>2, FailsMore DEF RetrieveInv
<1>4. Client.dl = dl /\ ClientType(Client) /\ Client.rs = rs /\ dl \in [Succ -> Downloads]
  BY ClientIs
<1>5. dl[i] \in Downloads BY <1>4
<1>6. e.asked = Client.dl[i].asked /\ e.called = Client.dl[i].called BY <1>4, <1>5 DEF Downloads
<1>7. ClientOK(s, {}, G, need) /\ Wait(s) = Wait(Client) BY <1>1, <1>3, <1>6, PutOK
<1>8. s.rs = Client.rs /\ s.dl[i] = e /\ \A k \in Succ : k # i => s.dl[k] = dl[k]
  BY <1>1, <1>4, PutIs, SMTT(30)
<1>9. PICK u : u = check_finish(s, i, decodes) OBVIOUS
<1>10. Finished(s, i, u, G) BY <1>2, <1>7, <1>8, <1>9, CheckFinish
<1>11. Hope(s) BY <1>7, <1>8 DEF RetrieveInv, Hope
<1>12. ASSUME NEW k \in Succ, k # i PROVE FlagOK(u.dl[k], sent[k])
  <2>1. Opened(dl[k], u.dl[k]) BY <1>8, <1>10, <1>12 DEF Finished
  <2>2. FlagOK(dl[k], sent[k]) BY DEF RetrieveInv
  <2>3. dl[k] \in Downloads BY <1>4
  <2> QED BY <2>1, <2>2, <2>3, OpenedFlag
<1>13. Stepped(u, i, e, G) BY <1>8, <1>10, <1>11, <1>12 DEF Finished, Stepped, Moved
<1> QED BY <1>1, <1>9, <1>13

\* The download of i becomes e.
LEMMA PutStep ==
    ASSUME RetrieveInv, NEW i \in Succ, NEW e \in Downloads,
           e.asked = dl[i].asked, e.called = dl[i].called
    PROVE  /\ Moved(Put(Client, i, e), i, failures) /\ Put(Client, i, e).dl[i] = e
           /\ Wait(Put(Client, i, e)) = Wait(Client)
<1>1. PICK s : s = Put(Client, i, e) OBVIOUS
<1>2. Client.dl = dl /\ ClientType(Client) /\ Client.rs = rs BY ClientIs
<1>3. ClientOK(s, {}, failures, need) /\ Wait(s) = Wait(Client) BY <1>1, <1>2, PutOK DEF RetrieveInv
<1>4. s.rs = Client.rs /\ s.dl[i] = e /\ \A k \in Succ : k # i => s.dl[k] = dl[k]
  BY <1>1, <1>2, PutIs
<1>5. Hope(s) BY <1>3, <1>4 DEF RetrieveInv, Hope
<1>6. Moved(s, i, failures) BY <1>3, <1>4, <1>5 DEF Moved, RetrieveInv
<1> QED BY <1>1, <1>3, <1>4, <1>6

\* The client has moved, and the messages for i are m.
LEMMA Arrives ==
    ASSUME RetrieveInv, NEW i \in Succ, NEW u, NEW m \in SUBSET Messages, failures' \in Nat,
           Moved(u, i, failures'), FlagOK(u.dl[i], m), sent' = [sent EXCEPT ![i] = m],
           rs' = u.rs, dl' = u.dl, UNCHANGED <<replicated, need, frag>>
    PROVE  RetrieveInv'
<1>1. sent \in [Succ -> SUBSET Messages] BY ClientIs
<1>2. sent' \in [Succ -> SUBSET Messages] /\ sent'[i] = m /\ \A k \in Succ : k # i => sent'[k] = sent[k]
  BY <1>1
<1>3. \A k \in Succ : FlagOK(u.dl[k], sent'[k]) BY <1>2 DEF Moved
<1>4. Reached(u, sent', failures') BY <1>2, <1>3 DEF Reached, Moved
<1> QED BY <1>4, Reaches

\* One lemma per handler: each keeps the invariant.
LEMMA ServeKeeps ==
    ASSUME RetrieveAssumption, RetrieveInv, NEW i \in Succ, ServeFetch(i)
    PROVE  RetrieveInv'
<1>1. /\ ClientType(Client) /\ Client.rs = rs /\ Client.dl = dl /\ dl \in [Succ -> Downloads]
      /\ sent \in [Succ -> SUBSET Messages]
  BY ClientIs
<1>2. PICK d : d = dl[i] OBVIOUS
<1>3. d \in Downloads /\ d.asked /\ ~d.served /\ FlagOK(d, sent[i])
  BY <1>1, <1>2 DEF ServeFetch, RetrieveInv
<1>4. PICK e : e = [d EXCEPT !.served = TRUE] OBVIOUS
<1>5. e \in Downloads /\ e.asked = d.asked /\ e.called = d.called /\ e.served /\ e.live = d.live
      /\ e.read = d.read /\ e.error = d.error
  BY <1>3, <1>4 DEF Downloads
<1>6. PICK u : u = Put(Client, i, e) OBVIOUS
<1>7. rs' = u.rs /\ dl' = u.dl
  BY <1>1, <1>2, <1>4, <1>6 DEF ServeFetch, Put, ClientType
<1>8. ClientOK(u, {}, failures, need) /\ Wait(u) = Wait(Client)
  BY <1>1, <1>2, <1>5, <1>6, PutOK DEF RetrieveInv
<1>9. u.rs = Client.rs /\ u.dl[i] = e /\ \A k \in Succ : k # i => u.dl[k] = dl[k]
  BY <1>1, <1>5, <1>6, PutIs, SMTT(30)
<1>10. Hope(u) BY <1>8, <1>9 DEF RetrieveInv, Hope
<1>11. PICK m : m = {"ack"} \cup (IF frag[i] = 0 THEN {"noent"} ELSE {"chunk"}) OBVIOUS
<1>12. sent' = [sent EXCEPT ![i] = m] BY <1>11 DEF ServeFetch
<1>13. m \in SUBSET Messages /\ ("noent" \in m => "chunk" \notin m) BY <1>11 DEF Messages
<1>14. FlagOK(e, m)
  <2>1. CHUNKS \in Nat \ {0} BY DEF RetrieveAssumption
  <2> QED BY <1>3, <1>5, <1>13, <2>1 DEF FlagOK
<1>15. sent' \in [Succ -> SUBSET Messages] /\ sent'[i] = m /\ \A k \in Succ : k # i => sent'[k] = sent[k]
  BY <1>1, <1>12, <1>13
<1>16. \A k \in Succ : FlagOK(u.dl[k], sent'[k]) BY <1>9, <1>14, <1>15 DEF RetrieveInv
<1>17. failures' = failures /\ failures \in Nat BY DEF ServeFetch, RetrieveInv
<1>18. Reached(u, sent', failures') BY <1>8, <1>10, <1>15, <1>16, <1>17 DEF Reached
<1> QED BY <1>7, <1>17, <1>18, Reaches DEF ServeFetch

LEMMA SilentKeeps ==
    ASSUME RetrieveAssumption, RetrieveInv, NEW i \in Succ, Silent(i)
    PROVE  RetrieveInv'
<1>1. Client.rs = rs /\ Client.dl = dl /\ sent \in [Succ -> SUBSET Messages] BY ClientIs
<1>2. failures \in Nat /\ failures' = failures + 1 BY DEF Silent, RetrieveInv
<1>3. ClientOK(Client, {}, failures', need) BY <1>2, FailsMore DEF RetrieveInv
<1>4. PICK m : m = sent[i] \cap {"ack"} OBVIOUS
<1>5. m \in SUBSET Messages /\ sent' = [sent EXCEPT ![i] = m] BY <1>1, <1>4 DEF Silent, Messages
<1>6. sent' \in [Succ -> SUBSET Messages] /\ sent'[i] = m /\ \A k \in Succ : k # i => sent'[k] = sent[k]
  BY <1>1, <1>5
<1>7. FlagOK(dl[i], sent[i]) BY DEF RetrieveInv
<1>8. "chunk" \notin m /\ "noent" \notin m /\ (sent[i] = {} => m = {}) BY <1>4
<1>9. FlagOK(dl[i], m) BY <1>7, <1>8 DEF FlagOK
<1>10. \A k \in Succ : FlagOK(Client.dl[k], sent'[k]) BY <1>1, <1>6, <1>9 DEF RetrieveInv
<1>11. Reached(Client, sent', failures') BY <1>3, <1>6, <1>10 DEF Reached, RetrieveInv
<1>12. rs' = Client.rs /\ dl' = Client.dl /\ failures' \in Nat /\ UNCHANGED <<replicated, need, frag>>
  BY <1>1, <1>2 DEF Silent
<1>13. PICK u : u = Client OBVIOUS
<1>14. rs' = u.rs /\ dl' = u.dl /\ Reached(u, sent', failures') BY <1>11, <1>12, <1>13
<1> QED BY <1>12, <1>14, Reaches

LEMMA SentKeeps ==
    ASSUME RetrieveAssumption, RetrieveInv, NEW i \in Succ, sent_request(i)
    PROVE  RetrieveInv'
<1>1. /\ ClientType(Client) /\ Client.rs = rs /\ Client.dl = dl
      /\ dl \in [Succ -> Downloads] /\ sent \in [Succ -> SUBSET Messages]
  BY ClientIs
<1>2. PICK d : d = dl[i] OBVIOUS
<1>3. d \in Downloads /\ FlagOK(d, sent[i]) /\ "ack" \in sent[i]
  BY <1>1, <1>2 DEF sent_request, RetrieveInv
<1>4. d.served /\ d.asked BY <1>3 DEF FlagOK
<1>5. PICK e : e = [d EXCEPT !.acked = TRUE] OBVIOUS
<1>6. e \in Downloads /\ e.asked = d.asked /\ e.called = d.called /\ e.served = d.served /\ e.live = d.live
      /\ e.read = d.read /\ e.error = d.error /\ e.acked
  BY <1>3, <1>5 DEF Downloads
<1>7. PICK s : s = Put(Client, i, e) OBVIOUS
<1>8. Moved(s, i, failures) /\ s.dl[i] = e BY <1>2, <1>6, <1>7, PutStep
<1>9. PICK u : u = IF e.called \/ e.error THEN check_finish(s, i, TRUE) ELSE s OBVIOUS
<1>10. rs' = u.rs /\ dl' = u.dl
  <2>1. s = [Client EXCEPT !.dl[i].acked = TRUE] BY <1>1, <1>2, <1>5, <1>7 DEF Put
  <2> QED BY <1>8, <1>9, <2>1 DEF sent_request, Set
<1>11. PICK m : m = sent[i] \ {"ack"} OBVIOUS
<1>12. m \in SUBSET Messages /\ sent' = [sent EXCEPT ![i] = m] BY <1>1, <1>11 DEF sent_request
<1>13. failures' = failures /\ failures \in Nat /\ UNCHANGED <<replicated, need, frag>>
  BY DEF sent_request, RetrieveInv
<1>14. ("chunk" \in m <=> "chunk" \in sent[i]) /\ ("noent" \in m <=> "noent" \in sent[i]) BY <1>11
<1>15. CASE e.called \/ e.error
  <2>1. u = check_finish(s, i, TRUE) BY <1>9, <1>15
  <2>2. Stepped(u, i, e, failures)
    <3>1. PICK G \in Nat : G = failures /\ G >= failures BY <1>13
    <3>2. Stepped(u, i, e, G) BY <1>2, <1>4, <1>6, <1>7, <2>1, <3>1, FinishStep
    <3> QED BY <3>1, <3>2
  <2>3. PICK v : v = u.dl[i] OBVIOUS
  <2>4. Ended(e, v) BY <2>2, <2>3 DEF Stepped
  <2>5. FlagOK(v, m) BY <1>3, <1>4, <1>6, <1>14, <1>15, <2>4 DEF FlagOK, Ended
  <2> QED BY <1>10, <1>12, <1>13, <2>2, <2>3, <2>5, Arrives DEF Stepped
<1>16. CASE ~(e.called \/ e.error)
  <2>1. u = s BY <1>9, <1>16
  <2>2. FlagOK(e, m) BY <1>3, <1>4, <1>6, <1>14, <1>16 DEF FlagOK
  <2> QED BY <1>8, <1>10, <1>12, <1>13, <2>1, <2>2, Arrives
<1> QED BY <1>15, <1>16

LEMMA FailsKeeps ==
    ASSUME RetrieveAssumption, RetrieveInv, NEW i \in Succ, RequestFails(i)
    PROVE  RetrieveInv'
<1>1. /\ ClientType(Client) /\ Client.rs = rs /\ Client.dl = dl
      /\ dl \in [Succ -> Downloads] /\ sent \in [Succ -> SUBSET Messages]
  BY ClientIs
<1>2. PICK d : d = dl[i] OBVIOUS
<1>3. d \in Downloads /\ FlagOK(d, sent[i]) /\ d.asked /\ ~d.acked
  BY <1>1, <1>2 DEF RequestFails, RetrieveInv
<1>5. PICK e : e = [d EXCEPT !.acked = TRUE, !.error = TRUE, !.served = TRUE] OBVIOUS
<1>6. e \in Downloads /\ e.asked = d.asked /\ e.called = d.called /\ e.served /\ e.live = d.live
      /\ e.read = d.read /\ e.error /\ e.acked
  BY <1>3, <1>5 DEF Downloads
<1>7. PICK s : s = Put(Client, i, e) OBVIOUS
<1>9. PICK u : u = check_finish(s, i, TRUE) OBVIOUS
<1>10. rs' = u.rs /\ dl' = u.dl
  <2>1. s = [Client EXCEPT !.dl[i].acked = TRUE, !.dl[i].error = TRUE, !.dl[i].served = TRUE]
    BY <1>1, <1>2, <1>5, <1>7 DEF Put, ClientType
  <2> QED BY <1>9, <2>1 DEF RequestFails, Set
<1>11. PICK m : m = sent[i] \ {"ack"} OBVIOUS
<1>12. m \in SUBSET Messages /\ sent' = [sent EXCEPT ![i] = m] BY <1>1, <1>11 DEF RequestFails
<1>13. failures' = failures + 1 /\ failures \in Nat /\ UNCHANGED <<replicated, need, frag>>
  BY DEF RequestFails, RetrieveInv
<1>14. ("chunk" \in m <=> "chunk" \in sent[i]) /\ ("noent" \in m <=> "noent" \in sent[i]) BY <1>11
<1>15. PICK G \in Nat : G = failures' BY <1>13
<1>16. G >= failures BY <1>13, <1>15
<1>17. Stepped(u, i, e, G) BY <1>2, <1>3, <1>6, <1>7, <1>9, <1>16, FinishStep
<1>18. PICK v : v = u.dl[i] OBVIOUS
<1>19. Ended(e, v) BY <1>17, <1>18 DEF Stepped
<1>20. FlagOK(v, m) BY <1>3, <1>6, <1>14, <1>19 DEF FlagOK, Ended
<1> QED BY <1>10, <1>12, <1>13, <1>15, <1>17, <1>18, <1>20, Arrives DEF Stepped

LEMMA NotFoundKeeps ==
    ASSUME RetrieveAssumption, RetrieveInv, NEW i \in Succ, notfound(i)
    PROVE  RetrieveInv'
<1>1. /\ ClientType(Client) /\ Client.rs = rs /\ Client.dl = dl
      /\ dl \in [Succ -> Downloads] /\ sent \in [Succ -> SUBSET Messages]
  BY ClientIs
<1>2. PICK d : d = dl[i] OBVIOUS
<1>3. d \in Downloads /\ FlagOK(d, sent[i]) /\ "noent" \in sent[i]
  BY <1>1, <1>2 DEF notfound, RetrieveInv
<1>4. d.served /\ d.asked /\ "chunk" \notin sent[i] BY <1>3 DEF FlagOK
<1>11. PICK m : m = sent[i] \ {"noent"} OBVIOUS
<1>12. m \in SUBSET Messages /\ sent' = [sent EXCEPT ![i] = m] BY <1>1, <1>11 DEF notfound
<1>13. failures' = failures /\ failures \in Nat /\ UNCHANGED <<replicated, need, frag>>
  BY DEF notfound, RetrieveInv
<1>14. "chunk" \notin m /\ "noent" \notin m BY <1>4, <1>11
<1>15. CASE d.live
  <2>5. PICK e : e = [d EXCEPT !.error = TRUE] OBVIOUS
  <2>6. e \in Downloads /\ e.asked = d.asked /\ e.called = d.called /\ e.served = d.served /\ e.live = d.live
        /\ e.read = d.read /\ e.error /\ e.acked = d.acked
    BY <1>3, <2>5 DEF Downloads
  <2>7. PICK s : s = Put(Client, i, e) OBVIOUS
  <2>9. PICK u : u = check_finish(s, i, TRUE) OBVIOUS
  <2>10. rs' = u.rs /\ dl' = u.dl
    <3>1. s = [Client EXCEPT !.dl[i].error = TRUE] BY <1>1, <1>2, <2>5, <2>7 DEF Put
    <3> QED BY <1>2, <1>15, <2>9, <3>1 DEF notfound, Set
  <2>17. Stepped(u, i, e, failures)
    <3>1. PICK G \in Nat : G = failures /\ G >= failures BY <1>13
    <3>2. Stepped(u, i, e, G) BY <1>2, <1>4, <2>6, <2>7, <2>9, <3>1, FinishStep
    <3> QED BY <3>1, <3>2
  <2>18. PICK v : v = u.dl[i] OBVIOUS
  <2>19. Ended(e, v) BY <2>17, <2>18 DEF Stepped
  <2>20. FlagOK(v, m) BY <1>3, <1>4, <1>14, <2>6, <2>19 DEF FlagOK, Ended
  <2> QED BY <1>12, <1>13, <2>10, <2>17, <2>18, <2>20, Arrives DEF Stepped
<1>16. CASE ~d.live
  <2>1. PICK u : u = Client OBVIOUS
  <2>2. rs' = u.rs /\ dl' = u.dl BY <1>1, <1>2, <1>16, <2>1 DEF notfound
  <2>3. Moved(u, i, failures') BY <1>1, <1>13, <2>1 DEF Moved, RetrieveInv
  <2>4. FlagOK(d, m) BY <1>3, <1>4, <1>14 DEF FlagOK
  <2>5. FlagOK(u.dl[i], m) BY <1>1, <1>2, <2>1, <2>4
  <2> QED BY <1>12, <1>13, <2>2, <2>3, <2>5, Arrives
<1> QED BY <1>15, <1>16

LEMMA GotChunkKeeps ==
    ASSUME RetrieveAssumption, RetrieveInv, NEW i \in Succ, gotchunk(i)
    PROVE  RetrieveInv'
<1>1. /\ ClientType(Client) /\ Client.rs = rs /\ Client.dl = dl
      /\ dl \in [Succ -> Downloads] /\ sent \in [Succ -> SUBSET Messages]
  BY ClientIs
<1>2. PICK d : d = dl[i] OBVIOUS
<1>3. d \in Downloads /\ FlagOK(d, sent[i]) /\ "chunk" \in sent[i]
  BY <1>1, <1>2 DEF gotchunk, RetrieveInv
<1>4. d.served /\ d.asked /\ "noent" \notin sent[i] /\ d.read \in Nat BY <1>3 DEF FlagOK, Downloads
<1>0. CHUNKS \in Nat BY DEF RetrieveAssumption
<1>13. failures \in Nat /\ UNCHANGED <<replicated, need, frag>> BY DEF gotchunk, RetrieveInv
<1>15. CASE d.live
  <2>4. ~d.called /\ d.read < CHUNKS /\ ~d.error BY <1>3, <1>15 DEF FlagOK
  <2>1. PICK n \in Nat : n = d.read + 1 BY <1>4
  <2>5. PICK e : e = [d EXCEPT !.read = n] OBVIOUS
  <2>6. e \in Downloads /\ e.asked = d.asked /\ e.called = d.called /\ e.served = d.served /\ e.live = d.live
        /\ e.read = n /\ e.error = d.error /\ e.acked = d.acked
    BY <1>3, <2>5 DEF Downloads
  <2>7. PICK s : s = Put(Client, i, e) OBVIOUS
  <2>11. PICK m : m = IF n = CHUNKS THEN sent[i] \ {"chunk"} ELSE sent[i] OBVIOUS
  <2>12. m \in SUBSET Messages /\ sent' = [sent EXCEPT ![i] = m]
    BY <1>1, <1>2, <1>15, <2>1, <2>11 DEF gotchunk
  <2>14. ("chunk" \in m => n # CHUNKS) /\ "noent" \notin m BY <1>4, <2>11
  <2>10. PICK decodes \in BOOLEAN :
            /\ Set(check_finish(s, i, decodes))
            /\ (decodes /\ failures' = failures) \/ failures' = failures + 1
    <3>1. s = [Client EXCEPT !.dl[i].read = @ + 1] BY <1>1, <1>2, <2>1, <2>5, <2>7 DEF Put
    <3>2. Finish(s, i) BY <1>2, <1>15, <3>1 DEF gotchunk
    <3> QED BY <3>2 DEF Finish
  <2>15. PICK u : u = check_finish(s, i, decodes) OBVIOUS
  <2>16. rs' = u.rs /\ dl' = u.dl BY <2>10, <2>15 DEF Set
  <2>2. PICK G \in Nat : G = failures' /\ G >= failures /\ (decodes \/ G > 0) BY <1>13, <2>10
  <2>17. Stepped(u, i, e, G) BY <1>2, <1>4, <2>2, <2>6, <2>7, <2>15, FinishStep
  <2>18. PICK v : v = u.dl[i] OBVIOUS
  <2>19. Ended(e, v) BY <2>17, <2>18 DEF Stepped
  <2>20. FlagOK(v, m) BY <1>0, <1>3, <1>4, <2>1, <2>4, <2>6, <2>14, <2>19 DEF FlagOK, Ended
  <2> QED BY <1>13, <2>2, <2>12, <2>16, <2>17, <2>18, <2>20, Arrives DEF Stepped
<1>16. CASE ~d.live
  <2>0. PICK m : m = sent[i] \ {"chunk"} OBVIOUS
  <2>7. m \in SUBSET Messages /\ sent' = [sent EXCEPT ![i] = m] /\ failures' = failures
    BY <1>1, <1>2, <1>16, <2>0 DEF gotchunk
  <2>1. PICK u : u = Client OBVIOUS
  <2>2. rs' = u.rs /\ dl' = u.dl BY <1>1, <1>2, <1>16, <2>1 DEF gotchunk
  <2>3. Moved(u, i, failures') BY <1>1, <2>7, <2>1 DEF Moved, RetrieveInv
  <2>4. FlagOK(d, m) BY <1>3, <1>4, <1>16, <2>0 DEF FlagOK
  <2>5. FlagOK(u.dl[i], m) BY <1>1, <1>2, <2>1, <2>4
  <2> QED BY <1>13, <2>2, <2>3, <2>5, <2>7, Arrives
<1> QED BY <1>15, <1>16

LEMMA TimeoutKeeps ==
    ASSUME RetrieveAssumption, RetrieveInv, NEW i \in Succ, on_timeout(i)
    PROVE  RetrieveInv'
<1>1. /\ ClientType(Client) /\ Client.rs = rs /\ Client.dl = dl
      /\ dl \in [Succ -> Downloads] /\ sent \in [Succ -> SUBSET Messages]
  BY ClientIs
<1>2. PICK d : d = dl[i] OBVIOUS
<1>3. d \in Downloads /\ FlagOK(d, sent[i]) BY <1>1, <1>2 DEF RetrieveInv
<1>4. PICK e : e = [d EXCEPT !.tmo = TRUE] OBVIOUS
<1>5. e \in Downloads /\ e.asked = d.asked /\ e.called = d.called /\ e.served = d.served /\ e.live = d.live
      /\ e.read = d.read /\ e.error = d.error /\ e.acked = d.acked
  BY <1>3, <1>4 DEF Downloads
<1>6. PICK s : s = Put(Client, i, e) OBVIOUS
<1>7. Moved(s, i, failures) /\ s.dl[i] = e BY <1>2, <1>5, <1>6, PutStep
<1>8. FlagOK(e, sent[i]) BY <1>3, <1>5 DEF FlagOK
<1>9. \A k \in Succ : FlagOK(s.dl[k], sent[k]) BY <1>7, <1>8 DEF Moved
<1>10. PICK u : u = fetch_frag(s) OBVIOUS
<1>11. rs' = u.rs /\ dl' = u.dl
  <2>1. s = [Client EXCEPT !.dl[i].tmo = TRUE] BY <1>1, <1>2, <1>4, <1>6 DEF Put
  <2> QED BY <1>10, <2>1 DEF on_timeout, Set
<1>12. failures \in Nat /\ need \in Nat /\ failures' = failures /\ sent' = sent /\ UNCHANGED <<replicated, need, frag>>
  BY DEF RetrieveInv, on_timeout
<1>13. ClientOK(s, {}, failures, need) /\ ClientType(s) /\ s.dl \in [Succ -> Downloads]
  BY <1>7 DEF Moved, ClientOK, ClientType
<1>14. ClientOK(u, {}, failures, need) /\ Same(s, u) /\ (u.rs.ends = 0 => Wait(u) \ {} # {})
  BY <1>10, <1>12, <1>13, FetchOne
<1>15. Hope(u) BY <1>14 DEF Hope
<1>16. ASSUME NEW k \in Succ PROVE FlagOK(u.dl[k], sent[k])
  <2>1. s.dl[k] \in Downloads /\ Opened(s.dl[k], u.dl[k]) BY <1>13, <1>14 DEF Same
  <2> QED BY <1>9, <2>1, OpenedFlag
<1>17. Reached(u, sent', failures') BY <1>1, <1>12, <1>14, <1>15, <1>16 DEF Reached
<1> QED BY <1>11, <1>12, <1>17, Reaches

\* a is what one request after the other makes of s.
Asking(s, n, a) ==
    /\ DOMAIN a = 0..n
    /\ \A i \in 0..n : a[i] = IF i = 0 THEN s ELSE fetch_frag(a[i - 1])

\* There is such an a.
LEMMA AskingExists ==
    ASSUME NEW n \in Nat, NEW s PROVE \E a : Asking(s, n, a)
<1> DEFINE T == {k \in Nat : ~ \E a : Asking(s, k, a)}
<1>1. SUFFICES ASSUME T # {} PROVE FALSE OBVIOUS
<1>2. PICK k \in T : \A y \in T : k <= y BY <1>1, LeastNat
<1>3. k # 0
  <2>1. Asking(s, 0, [i \in 0..0 |-> s]) BY DEF Asking
  <2> QED BY <2>1
<1>4. PICK a : Asking(s, k - 1, a) BY <1>2, <1>3
<1>5. PICK u : u = [i \in 0..k |-> IF i = k THEN fetch_frag(a[k - 1]) ELSE a[i]] OBVIOUS
<1>6. k \in Nat /\ k >= 1 BY <1>2, <1>3
<1>7. DOMAIN u = 0..k /\ u[k] = fetch_frag(a[k - 1]) /\ \A i \in 0..(k - 1) : u[i] = a[i]
  BY <1>5, <1>6
<1>8. ASSUME NEW i \in 0..k PROVE u[i] = IF i = 0 THEN s ELSE fetch_frag(u[i - 1])
  <2>1. i = k \/ i \in 0..(k - 1) BY <1>6
  <2>2. i # 0 => i - 1 \in 0..(k - 1) BY <1>6
  <2>3. i \in 0..(k - 1) => a[i] = IF i = 0 THEN s ELSE fetch_frag(a[i - 1]) BY <1>4 DEF Asking
  <2> QED BY <1>3, <1>7, <2>1, <2>2, <2>3
<1>9. Asking(s, k, u) BY <1>7, <1>8 DEF Asking
<1> QED BY <1>2, <1>9

\* The requests of doassemble.
LEMMA AskingChosen ==
    ASSUME NEW n \in Nat, NEW s
    PROVE  Asking(s, n, CHOOSE a : a = [k \in 0..n |-> IF k = 0 THEN s ELSE fetch_frag(a[k - 1])])
<1> DEFINE Eqn(a) == a = [k \in 0..n |-> IF k = 0 THEN s ELSE fetch_frag(a[k - 1])]
<1> DEFINE c == CHOOSE a : Eqn(a)
<1>1. PICK a0 : Asking(s, n, a0) BY AskingExists
<1>2. \E a : Eqn(a)
  <2>0. PICK a1 : a1 = [i \in 0..n |-> a0[i]] OBVIOUS
  <2>1. DOMAIN a1 = 0..n /\ \A i \in 0..n : a1[i] = a0[i] BY <2>0
  <2>2. \A i \in 0..n : i # 0 => i - 1 \in 0..n OBVIOUS
  <2>3. \A i \in 0..n : a1[i] = IF i = 0 THEN s ELSE fetch_frag(a1[i - 1])
    BY <1>1, <2>1, <2>2 DEF Asking
  <2>4. a1 = [i \in 0..n |-> a1[i]] BY <2>0, <2>1
  <2>5. Eqn(a1) BY <2>3, <2>4
  <2> QED BY <2>5
<1>3. Eqn(c) BY <1>2
<1> QED BY <1>3 DEF Asking

\* Every request keeps the client right, and the last one is waited for.
LEMMA AskingKeeps ==
    ASSUME RetrieveAssumption, NEW n \in Nat, NEW s, NEW a, Asking(s, n, a), NEW k \in 1..n,
           NEW F \in Nat, NEW enough \in Nat, NEW m, ClientOK(s, {}, F, enough),
           \A j \in Succ : FlagOK(s.dl[j], m[j])
    PROVE  ClientOK(a[k], {}, F, enough) /\ Hope(a[k]) /\ \A j \in Succ : FlagOK(a[k].dl[j], m[j])
<1> DEFINE Fine(t) == ClientOK(t, {}, F, enough) /\ \A j \in Succ : FlagOK(t.dl[j], m[j])
           T == {i \in Nat : i <= n /\ ~Fine(a[i])}
<1>1. ASSUME NEW t, Fine(t)
      PROVE  Fine(fetch_frag(t)) /\ Hope(fetch_frag(t))
  <2>1. PICK u : u = fetch_frag(t) OBVIOUS
  <2>2. ClientOK(u, {}, F, enough) /\ Same(t, u) /\ (u.rs.ends = 0 => Wait(u) \ {} # {})
    BY <1>1, <2>1, FetchOne
  <2>3. Hope(u) BY <2>2 DEF Hope
  <2>4. t.dl \in [Succ -> Downloads] BY <1>1 DEF ClientOK, ClientType
  <2>5. ASSUME NEW j \in Succ PROVE FlagOK(u.dl[j], m[j])
    <3>1. t.dl[j] \in Downloads /\ Opened(t.dl[j], u.dl[j]) BY <2>2, <2>4 DEF Same
    <3> QED BY <1>1, <3>1, OpenedFlag
  <2> QED BY <2>1, <2>2, <2>3, <2>5
<1>2. a[0] = s /\ \A i \in 1..n : a[i] = fetch_frag(a[i - 1]) BY DEF Asking
<1>3. Fine(a[0]) BY <1>2
<1> HIDE DEF Fine
<1>4. ASSUME T # {} PROVE FALSE
  <2>1. PICK i \in T : \A y \in T : i <= y BY <1>4, LeastNat
  <2>2. i # 0 BY <1>3, <2>1
  <2>3. i - 1 \in Nat /\ i - 1 <= n /\ i - 1 \notin T /\ i \in 1..n BY <2>1, <2>2
  <2>4. Fine(a[i - 1]) BY <2>3
  <2>5. Fine(a[i]) BY <1>1, <1>2, <2>3, <2>4
  <2> QED BY <2>1, <2>5
<1>5. k - 1 \in Nat /\ k - 1 <= n /\ k - 1 \notin T BY <1>4
<1>6. Fine(a[k - 1]) BY <1>5
<1>7. Fine(a[k]) /\ Hope(a[k]) BY <1>1, <1>2, <1>6
<1> QED BY <1>7 DEF Fine

LEMMA AssembleKeeps ==
    ASSUME RetrieveAssumption, RetrieveInv, NEW n \in 0..NSUCC, doassemble(n)
    PROVE  RetrieveInv'
<1>1. ClientType(Client) /\ Client.rs = rs /\ Client.dl = dl /\ dl \in [Succ -> Downloads] /\ rs \in RcvStates
  BY ClientIs
<1>2. PICK r : r = [rs EXCEPT !.succs = n] OBVIOUS
<1>3. r \in RcvStates /\ r.next = rs.next /\ r.incoming = rs.incoming /\ r.succs = n
      /\ r.ends = rs.ends /\ r.status = rs.status /\ r.frags = rs.frags
  BY <1>1, <1>2 DEF RcvStates
<1>4. PICK s : s = [Client EXCEPT !.rs.succs = n] OBVIOUS
<1>5. s.rs = r /\ s.dl = dl /\ ClientType(s)
  <2>1. s = [rs |-> r, dl |-> dl] BY <1>2, <1>4 DEF Client
  <2> QED BY <1>1, <1>3, <2>1 DEF ClientType
<1>6. rs.succs = 0 /\ rs.ends = 0 BY DEF doassemble
<1>0. ClientOK(Client, {}, failures, need) /\ failures \in Nat /\ need \in Nat BY DEF RetrieveInv
<1>7. Wait(s) = Wait(Client) BY <1>1, <1>5 DEF Wait
<1>8. RequestsOK(s, {})
  <2>1. s.rs.next <= s.rs.succs
    <3>1. rs.next \in 0..NSUCC /\ rs.next <= rs.succs
      BY <1>0, <1>1 DEF RcvStates, ClientOK, RequestsOK
    <3> QED BY <1>3, <1>5, <1>6, <3>1
  <2> QED BY <1>0, <1>1, <1>3, <1>5, <1>7, <2>1 DEF ClientOK, RequestsOK
<1>9. AnswerOK(s, {}, failures, need) BY <1>0, <1>1, <1>3, <1>5, <1>6 DEF ClientOK, AnswerOK, Few
<1>10. ClientOK(s, {}, failures, need) BY <1>5, <1>8, <1>9 DEF ClientOK
<1>11. NSUCC \in Nat /\ min_fetch \in Nat \ {0}
  BY DEF RetrieveAssumption, min_fetch
<1>12. \A k \in Succ : FlagOK(s.dl[k], sent[k]) BY <1>5 DEF RetrieveInv
<1> DEFINE ask == CHOOSE ask : ask = [k \in 0..NSUCC |-> IF k = 0 THEN s ELSE fetch_frag(ask[k - 1])]
<1>13. Asking(s, NSUCC, ask) BY <1>11, AskingChosen
<1>14. Set(IF n < min_fetch THEN complete(s, "CHORDERR") ELSE ask[min_fetch])
  BY <1>4 DEF doassemble
<1> HIDE DEF ask
<1>15. PICK u : u = IF n < min_fetch THEN complete(s, "CHORDERR") ELSE ask[min_fetch] OBVIOUS
<1>16. rs' = u.rs /\ dl' = u.dl BY <1>14, <1>15 DEF Set
<1>17. failures' = failures /\ sent' = sent /\ sent \in [Succ -> SUBSET Messages] /\ UNCHANGED <<replicated, need, frag>>
  BY DEF doassemble, RetrieveInv
<1>18. CASE n < min_fetch
  <2>1. u = complete(s, "CHORDERR") /\ s.rs.ends = 0 BY <1>3, <1>5, <1>6, <1>15, <1>18
  <2>2. ClientOK(u, {}, failures, need) /\ u.rs.ends = 1 BY <1>0, <1>5, <1>8, <2>1, CompleteOK
  <2>3. u.dl = s.dl BY <1>5, <2>1, CompleteIs
  <2>4. Hope(u) BY <2>2 DEF Hope
  <2>5. Reached(u, sent', failures') BY <1>12, <1>17, <2>2, <2>3, <2>4 DEF Reached
  <2> QED BY <1>0, <1>16, <1>17, <2>5, Reaches
<1>19. CASE ~(n < min_fetch)
  <2>1. PICK k \in 1..NSUCC : k = min_fetch BY <1>11, <1>19
  <2>2. u = ask[k] BY <1>15, <1>19, <2>1
  <2>3. ClientOK(u, {}, failures, need) /\ Hope(u) /\ \A j \in Succ : FlagOK(u.dl[j], sent[j])
    BY <1>0, <1>10, <1>11, <1>12, <1>13, <2>2, AskingKeeps
  <2>4. Reached(u, sent', failures') BY <1>17, <2>3 DEF Reached
  <2> QED BY <1>0, <1>16, <1>17, <2>4, Reaches
<1> QED BY <1>18, <1>19

\* The invariant holds before the lookup.
LEMMA RetrieveInitially ==
    ASSUME RetrieveAssumption, RetrieveInit PROVE RetrieveInv
<1>1. NSUCC \in Nat BY DEF RetrieveAssumption
<1>2. replicated \in BOOLEAN /\ need \in Nat /\ frag \in [Succ -> 0..NSUCC] /\ failures \in Nat /\ failures = 0
      /\ need >= 1 /\ sent \in [Succ -> SUBSET Messages]
  BY DEF RetrieveInit, min_fetch, RetrieveAssumption
<1>3. /\ rs \in RcvStates /\ rs.succs = 0 /\ rs.next = 0 /\ rs.incoming = 0 /\ rs.frags = {}
      /\ rs.ends = 0 /\ rs.status = "no"
  BY <1>1 DEF RetrieveInit, RcvStates
<1>4. PICK d : d = NoDownload OBVIOUS
<1>5. /\ d \in Downloads /\ ~d.live /\ ~d.asked /\ ~d.served /\ ~d.called /\ ~d.error /\ d.read = 0
  BY <1>4 DEF NoDownload, Downloads
<1>6. dl \in [Succ -> Downloads] /\ \A k \in Succ : dl[k] = d /\ sent[k] = {}
  BY <1>4, <1>5 DEF RetrieveInit
<1>7. Client.rs = rs /\ Client.dl = dl /\ ClientType(Client) BY <1>3, <1>6 DEF Client, ClientType
<1>8. Wait(Client) = {} /\ Wait(Client) \ {} = {} BY <1>5, <1>6, <1>7 DEF Wait
<1>9. Cardinality({}) = 0 BY FS_EmptySet
<1>10. RequestsOK(Client, {})
  <2>1. \A k \in Succ : ~(k <= 0) BY <1>1 DEF Succ
  <2> QED BY <1>3, <1>5, <1>6, <1>7, <1>8, <1>9, <2>1 DEF RequestsOK
<1>11. AnswerOK(Client, {}, failures, need)
  <2>1. Cardinality(Client.rs.frags) < need BY <1>2, <1>3, <1>7, <1>9
  <2> QED BY <1>3, <1>7, <2>1 DEF AnswerOK, Few
<1>12. Hope(Client) BY <1>3, <1>7 DEF Hope
<1>13. FlagOK(d, {}) BY <1>5 DEF FlagOK
<1>14. ClientOK(Client, {}, failures, need) BY <1>7, <1>10, <1>11 DEF ClientOK
<1> QED BY <1>2, <1>6, <1>12, <1>13, <1>14 DEF RetrieveInv

\* Every step keeps it.
LEMMA RetrieveStep ==
    ASSUME RetrieveAssumption, RetrieveInv, [RetrieveNext]_retrieve PROVE RetrieveInv'
<1>1. ASSUME NEW n \in 0..NSUCC, doassemble(n) PROVE RetrieveInv' BY <1>1, AssembleKeeps
<1>2. ASSUME NEW i \in Succ, ServeFetch(i) PROVE RetrieveInv' BY <1>2, ServeKeeps
<1>3. ASSUME NEW i \in Succ, sent_request(i) PROVE RetrieveInv' BY <1>3, SentKeeps
<1>4. ASSUME NEW i \in Succ, RequestFails(i) PROVE RetrieveInv' BY <1>4, FailsKeeps
<1>5. ASSUME NEW i \in Succ, gotchunk(i) PROVE RetrieveInv' BY <1>5, GotChunkKeeps
<1>6. ASSUME NEW i \in Succ, notfound(i) PROVE RetrieveInv' BY <1>6, NotFoundKeeps
<1>7. ASSUME NEW i \in Succ, on_timeout(i) PROVE RetrieveInv' BY <1>7, TimeoutKeeps
<1>8. ASSUME NEW i \in Succ, Silent(i) PROVE RetrieveInv' BY <1>8, SilentKeeps
<1>9. CASE UNCHANGED retrieve
  <2>1. Client' = Client BY <1>9 DEF retrieve, Client
  <2> QED BY <1>9, <2>1 DEF retrieve, RetrieveInv
<1> QED BY <1>1, <1>2, <1>3, <1>4, <1>5, <1>6, <1>7, <1>8, <1>9 DEF RetrieveNext

\* It implies the property.
LEMMA RetrieveInvRight ==
    ASSUME RetrieveAssumption, RetrieveInv PROVE RetrieveRight
<1>1. ClientType(Client) /\ Client.rs = rs /\ Client.dl = dl /\ rs \in RcvStates BY ClientIs
<1>2. Wait(Client) = Waiting /\ Wait(Client) \ {} = Waiting BY <1>1 DEF Wait, Waiting
<1>3. rs.ends \in {0, 1} BY <1>1 DEF RcvStates
<1>4. AnswerOK(Client, {}, failures, need) /\ RequestsOK(Client, {}) /\ Hope(Client)
  BY DEF RetrieveInv, ClientOK
<1>5. rs.ends <= 1 BY <1>3
<1>6. rs.status = "OK" => Cardinality(rs.frags) >= need BY <1>1, <1>4 DEF AnswerOK
<1>7. rs.status = "NOENT" => /\ Waiting = {} /\ rs.next = rs.succs
                             /\ Cardinality(rs.frags) < need \/ failures > 0
  BY <1>1, <1>2, <1>4 DEF AnswerOK, Few
<1>8. rs.incoming = Cardinality(Waiting) BY <1>1, <1>2, <1>4 DEF RequestsOK
<1>9. (rs.ends = 0 /\ rs.succs > 0 /\ Waiting = {}) => rs.frags # {} BY <1>1, <1>2, <1>4 DEF Hope
<1>10. \A i \in Succ : (dl[i].called /\ dl[i].acked) => ~dl[i].live BY DEF RetrieveInv, FlagOK
<1> QED BY <1>5, <1>6, <1>7, <1>8, <1>9, <1>10 DEF RetrieveRight

\* A retrieve answers its caller at most once, and rightly; its count of
\* requests that are out is the number of downloads it waits for.
THEOREM RetrieveSafe == ASSUME RetrieveAssumption PROVE RetrieveSpec => []RetrieveRight
<1>1. RetrieveInit => RetrieveInv BY RetrieveInitially
<1>2. RetrieveInv /\ [RetrieveNext]_retrieve => RetrieveInv' BY RetrieveStep
<1>3. RetrieveInv => RetrieveRight BY RetrieveInvRight
<1> QED BY <1>1, <1>2, <1>3, PTL DEF RetrieveSpec

-------------------------------------------------------------------------------
(* LocationTable: searching and evicting, for any number of locations, in any *)
(* order of insertions, deaths and evictions.                                 *)

\* r orders the identifiers.
Rank(r) == r \in [ID -> Nat] /\ \A a, b \in ID : r[a] = r[b] => a = b
Nearer(r, S, k) == {j \in S : r[j] < r[k]}
Nearest(r, S, k) == k \in S /\ \A j \in S : r[k] <= r[j]
\* m comes after k in S, if anything does.
Follows(r, S, k, m) ==
    /\ m \in S
    /\ (\E j \in S : r[k] < r[j]) =>
           r[k] < r[m] /\ \A j \in S : r[k] < r[j] => r[m] <= r[j]
\* The first n of S.
PinSet(r, S, n) == {k \in S : Cardinality(Nearer(r, S, k)) < n}

\* The identifiers counted from x upwards, and from x - 1 downwards.
Up(x) == [k \in ID |-> distance(decID(x), k)]
Down(x) == [k \in ID |-> distance(k, x)]

\* There are identifiers, finitely many.
LEMMA IdFinite ==
    ASSUME TableAssumption, NEW S \in SUBSET ID
    PROVE  /\ Size \in Nat \ {0} /\ IsFiniteSet(S) /\ Cardinality(S) \in Nat
           /\ (Cardinality(S) = 0 <=> S = {}) /\ S \in SUBSET Nat
<1>1. Size \in Nat \ {0} BY DEF TableAssumption, Size
<1>2. 0 \in Int /\ Size - 1 \in Int BY <1>1
<1>3. IsFiniteSet(ID) BY <1>2, FS_Interval DEF ID
<1>4. IsFiniteSet(S) BY <1>3, FS_Subset
<1>5. ID \in SUBSET Nat BY <1>1 DEF ID
<1> QED BY <1>1, <1>4, <1>5, FS_CardinalityType, FS_EmptySet

\* The nearer ones are finitely many.
LEMMA NearerFinite ==
    ASSUME TableAssumption, NEW r, NEW S \in SUBSET ID, NEW k
    PROVE  IsFiniteSet(Nearer(r, S, k)) /\ Cardinality(Nearer(r, S, k)) \in Nat
<1>1. Nearer(r, S, k) \in SUBSET ID BY DEF Nearer
<1> QED BY <1>1, IdFinite

\* A nearest one has none nearer.
LEMMA NearestNone ==
    ASSUME TableAssumption, NEW r, Rank(r), NEW S \in SUBSET ID, NEW k, Nearest(r, S, k)
    PROVE  Nearer(r, S, k) = {} /\ Cardinality(Nearer(r, S, k)) = 0
<1>1. \A j \in S : r[j] \in Nat /\ r[k] \in Nat BY DEF Rank, Nearest
<1>2. Nearer(r, S, k) = {} BY <1>1 DEF Nearer, Nearest
<1> QED BY <1>2, FS_EmptySet

\* Of two, the nearer has fewer that are nearer still.
LEMMA NearerFewer ==
    ASSUME TableAssumption, NEW r, Rank(r), NEW S \in SUBSET ID, NEW j \in S, NEW k \in S,
           r[j] < r[k]
    PROVE  Cardinality(Nearer(r, S, j)) < Cardinality(Nearer(r, S, k))
<1>1. \A i \in S : r[i] \in Nat BY DEF Rank
<1>2. Nearer(r, S, j) \cup {j} \in SUBSET Nearer(r, S, k) /\ j \notin Nearer(r, S, j)
  BY <1>1 DEF Nearer
<1>3. /\ IsFiniteSet(Nearer(r, S, j)) /\ Cardinality(Nearer(r, S, j)) \in Nat
      /\ IsFiniteSet(Nearer(r, S, k)) /\ Cardinality(Nearer(r, S, k)) \in Nat
  BY NearerFinite
<1>4. PICK A : A = Nearer(r, S, j) \cup {j} OBVIOUS
<1>5. Cardinality(A) = Cardinality(Nearer(r, S, j)) + 1 BY <1>2, <1>3, <1>4, FS_AddElement
<1>6. Cardinality(A) <= Cardinality(Nearer(r, S, k)) BY <1>2, <1>3, <1>4, FS_Subset
<1> QED BY <1>3, <1>5, <1>6

\* at lists S in the order of r, from the nearest on.
Lists(r, S, at) ==
    /\ DOMAIN at = 0 .. Cardinality(S) - 1
    /\ Nearest(r, S, at[0])
    /\ \A i \in DOMAIN at : i # 0 /\ at[i - 1] \in S => Follows(r, S, at[i - 1], at[i])

\* What follows has one more that is nearer.
LEMMA FollowsOne ==
    ASSUME TableAssumption, NEW r, Rank(r), NEW S \in SUBSET ID, NEW k \in S, NEW m,
           Follows(r, S, k, m), Cardinality(Nearer(r, S, k)) + 1 < Cardinality(S)
    PROVE  m \in S /\ Cardinality(Nearer(r, S, m)) = Cardinality(Nearer(r, S, k)) + 1
<1>1. \A i \in S : r[i] \in Nat /\ (r[i] = r[k] => i = k) BY DEF Rank
<1>2. IsFiniteSet(Nearer(r, S, k)) /\ Cardinality(Nearer(r, S, k)) \in Nat BY NearerFinite
<1>3. PICK A : A = Nearer(r, S, k) \cup {k} OBVIOUS
<1>4. Cardinality(A) = Cardinality(Nearer(r, S, k)) + 1
  <2>1. k \notin Nearer(r, S, k) BY <1>1 DEF Nearer
  <2> QED BY <1>2, <1>3, <2>1, FS_AddElement
<1>5. \E j \in S : r[k] < r[j]
  <2>1. SUFFICES ASSUME ~\E j \in S : r[k] < r[j] PROVE S = A
    BY <1>2, <1>4, IdFinite
  <2>2. \A j \in S : j = k \/ r[j] < r[k] BY <1>1, <2>1
  <2> QED BY <1>3, <2>2 DEF Nearer
<1>6. m \in S /\ r[k] < r[m] /\ \A j \in S : r[k] < r[j] => r[m] <= r[j] BY <1>5 DEF Follows
<1>7. Nearer(r, S, m) = A
  <2>1. \A j \in S : r[j] < r[m] <=> (j = k \/ r[j] < r[k]) BY <1>1, <1>6
  <2> QED BY <1>3, <2>1 DEF Nearer
<1> QED BY <1>4, <1>6, <1>7

\* So every place of the list has as many nearer ones as its number.
LEMMA ListsCount ==
    ASSUME TableAssumption, NEW r, Rank(r), NEW S \in SUBSET ID, NEW at, Lists(r, S, at),
           NEW i \in DOMAIN at
    PROVE  at[i] \in S /\ Cardinality(Nearer(r, S, at[i])) = i
<1> DEFINE Right(k) == at[k] \in S /\ Cardinality(Nearer(r, S, at[k])) = k
           T == {k \in Nat : k < Cardinality(S) /\ ~Right(k)}
<1>0. Cardinality(S) \in Nat BY IdFinite
<1>1. Right(0)
  <2>1. Nearest(r, S, at[0]) BY DEF Lists
  <2>2. Cardinality(Nearer(r, S, at[0])) = 0 BY <2>1, NearestNone
  <2> QED BY <2>1, <2>2 DEF Nearest
<1> HIDE DEF Right
<1>2. ASSUME T # {} PROVE FALSE
  <2>1. PICK k \in T : \A y \in T : k <= y BY <1>2, LeastNat
  <2>2. k # 0 BY <1>1, <2>1
  <2>3. k \in Nat /\ k < Cardinality(S) /\ k - 1 \in Nat /\ k - 1 < Cardinality(S) /\ k - 1 \notin T
    BY <1>0, <2>1, <2>2
  <2>4. at[k - 1] \in S /\ Cardinality(Nearer(r, S, at[k - 1])) = k - 1 BY <2>3 DEF Right
  <2>5. k \in DOMAIN at BY <1>0, <2>3 DEF Lists
  <2>6. Follows(r, S, at[k - 1], at[k]) BY <2>2, <2>4, <2>5 DEF Lists
  <2>7. Cardinality(Nearer(r, S, at[k - 1])) + 1 < Cardinality(S) BY <1>0, <2>3, <2>4
  <2>8. at[k] \in S /\ Cardinality(Nearer(r, S, at[k])) = Cardinality(Nearer(r, S, at[k - 1])) + 1
    BY <2>4, <2>6, <2>7, FollowsOne
  <2>9. Right(k) BY <2>3, <2>4, <2>8 DEF Right
  <2> QED BY <2>1, <2>9
<1>3. i \in Nat /\ i < Cardinality(S) BY <1>0 DEF Lists
<1>4. Right(i) BY <1>2, <1>3
<1> QED BY <1>4 DEF Right

\* It is all of S, in order.
LEMMA ListsAll ==
    ASSUME TableAssumption, NEW r, Rank(r), NEW S \in SUBSET ID, NEW at, Lists(r, S, at)
    PROVE  /\ \A i \in DOMAIN at : at[i] \in S
           /\ \A i, j \in DOMAIN at : (i < j <=> r[at[i]] < r[at[j]])
           /\ \A k \in S : \E i \in DOMAIN at : at[i] = k
<1>0. Cardinality(S) \in Nat /\ DOMAIN at = 0 .. Cardinality(S) - 1 BY IdFinite DEF Lists
<1>1. \A i \in DOMAIN at : at[i] \in S /\ Cardinality(Nearer(r, S, at[i])) = i BY ListsCount
<1>2. \A i \in S : r[i] \in Nat BY DEF Rank
<1>3. ASSUME NEW j \in S, NEW k \in S,
             Cardinality(Nearer(r, S, j)) <= Cardinality(Nearer(r, S, k))
      PROVE  r[j] <= r[k]
  <2>1. /\ Cardinality(Nearer(r, S, j)) \in Nat /\ Cardinality(Nearer(r, S, k)) \in Nat
    BY NearerFinite
  <2>2. r[k] < r[j] => Cardinality(Nearer(r, S, k)) < Cardinality(Nearer(r, S, j)) BY NearerFewer
  <2> QED BY <1>2, <1>3, <2>1, <2>2
<1>4. ASSUME NEW i \in DOMAIN at, NEW j \in DOMAIN at PROVE i < j <=> r[at[i]] < r[at[j]]
  <2>1. /\ i \in Nat /\ j \in Nat /\ at[i] \in S /\ at[j] \in S
        /\ r[at[i]] \in Nat /\ r[at[j]] \in Nat
        /\ Cardinality(Nearer(r, S, at[i])) = i /\ Cardinality(Nearer(r, S, at[j])) = j
    BY <1>0, <1>1, <1>2
  <2>2. r[at[i]] < r[at[j]] => i < j BY <2>1, NearerFewer
  <2>4. i \in Nat /\ j \in Nat /\ r[at[i]] \in Nat /\ r[at[j]] \in Nat BY <2>1
  <2>7. i < j => r[at[i]] < r[at[j]]
    <3>1. i < j => i <= j /\ i # j BY <2>4
    <3>2. i <= j => r[at[i]] <= r[at[j]] BY <1>3, <2>1
    <3>3. r[at[i]] = r[at[j]] => at[i] = at[j] BY <2>1 DEF Rank
    <3>4. at[i] = at[j] => i = j BY <2>1
    <3> QED BY <2>4, <3>1, <3>2, <3>3, <3>4
  <2> QED BY <2>2, <2>7
<1>5. ASSUME NEW k \in S PROVE \E i \in DOMAIN at : at[i] = k
  <2>1. PICK c : c = Cardinality(Nearer(r, S, k)) OBVIOUS
  <2>2. c \in Nat BY <2>1, NearerFinite
  <2>3. c < Cardinality(S)
    <3>1. Nearer(r, S, k) \in SUBSET S /\ Nearer(r, S, k) # S BY <1>2 DEF Nearer
    <3>2. IsFiniteSet(S) BY IdFinite
    <3> QED BY <1>0, <2>1, <2>2, <3>1, <3>2, FS_Subset
  <2>4. c \in DOMAIN at BY <1>0, <2>2, <2>3
  <2>5. at[c] \in S /\ Cardinality(Nearer(r, S, at[c])) = c BY <1>1, <2>4
  <2>6. c <= c BY <2>2
  <2>7. r[at[c]] <= r[k] /\ r[k] <= r[at[c]] BY <1>3, <2>1, <2>5, <2>6
  <2>8. r[at[c]] = r[k] BY <1>2, <2>5, <2>7
  <2>9. at[c] = k BY <2>5, <2>8 DEF Rank
  <2> QED BY <2>4, <2>9
<1> QED BY <1>1, <1>4, <1>5

\* The first good one of the list is the nearest good one.
LEMMA FirstNearest ==
    ASSUME TableAssumption, NEW r, Rank(r), NEW S \in SUBSET ID, NEW at, Lists(r, S, at),
           NEW G \in SUBSET S, G # {}
    PROVE  Nearest(r, G, FirstGood(at, G))
<1> DEFINE sz == {i \in DOMAIN at : at[i] \in G}
<1>0. Cardinality(S) \in Nat /\ DOMAIN at = 0 .. Cardinality(S) - 1 BY IdFinite DEF Lists
<1>1. \A i, j \in DOMAIN at : (i < j <=> r[at[i]] < r[at[j]]) BY ListsAll
<1>2. \A k \in S : \E i \in DOMAIN at : at[i] = k BY ListsAll
<1>3. sz \in SUBSET Nat /\ sz # {} BY <1>0, <1>2
<1>4. PICK m : m = firstKey(sz) OBVIOUS
<1>5. m \in sz /\ \A j \in sz : m <= j BY <1>3, <1>4, LeastNat DEF firstKey
<1>6. FirstGood(at, G) = at[m] BY <1>3, <1>4 DEF FirstGood
<1>7. ASSUME NEW k \in G PROVE r[at[m]] <= r[k]
  <2>1. PICK i \in DOMAIN at : at[i] = k BY <1>2
  <2>2. m <= i /\ i \in Nat /\ m \in DOMAIN at /\ m \in Nat BY <1>0, <1>5, <2>1
  <2>3. ~(r[at[i]] < r[at[m]]) BY <1>1, <2>1, <2>2
  <2>4. r[at[i]] \in Nat /\ r[at[m]] \in Nat BY <1>5, <2>1 DEF Rank
  <2> QED BY <2>1, <2>3, <2>4
<1>8. at[m] \in G BY <1>5
<1> QED BY <1>6, <1>7, <1>8 DEF Nearest

\* The least and the greatest key.
LEMMA FirstLast ==
    ASSUME TableAssumption, NEW S \in SUBSET ID, S # {}
    PROVE  /\ firstKey(S) \in S /\ \A j \in S : firstKey(S) <= j
           /\ lastKey(S) \in S /\ \A j \in S : j <= lastKey(S)
<1>1. Size \in Nat \ {0} /\ S \in SUBSET Nat BY IdFinite
<1>2. \E k \in S : \A j \in S : k <= j BY <1>1, LeastNat
<1>3. \E k \in S : \A j \in S : k >= j
  <2>1. Size - 1 \in Nat /\ S \in SUBSET (0 .. Size - 1) BY <1>1 DEF ID
  <2>2. Max(S) \in S /\ \A y \in S : y <= Max(S) BY <2>1, MaxNat
  <2> QED BY <1>1, <2>2
<1>4. firstKey(S) \in S /\ \A j \in S : firstKey(S) <= j BY <1>2 DEF firstKey
<1>5. lastKey(S) \in S /\ \A j \in S : lastKey(S) >= j BY <1>3 DEF lastKey
<1> QED BY <1>1, <1>4, <1>5

\* Counting up and counting down.
LEMMA UpIs ==
    ASSUME TableAssumption, NEW x \in ID, NEW k \in ID
    PROVE  /\ Up(x)[k] = IF x <= k THEN k - x + 1 ELSE Size - x + k + 1
           /\ Down(x)[k] = IF k < x THEN x - k ELSE Size - k + x
           /\ Up(x)[k] \in 1..Size /\ Down(x)[k] \in 1..Size
           /\ Size \in Nat \ {0} /\ x \in 0 .. Size - 1 /\ k \in 0 .. Size - 1
<1>1. Size \in Nat \ {0} BY IdFinite
<1>2. x \in 0 .. Size - 1 /\ k \in 0 .. Size - 1 BY DEF ID
<1>3. Up(x)[k] = IF x <= k THEN k - x + 1 ELSE Size - x + k + 1
  <2>1. Up(x)[k] = distance(decID(x), k) BY DEF Up
  <2>2. CASE x = 0
    <3>1. decID(x) = Size - 1 BY <2>2 DEF decID
    <3> QED BY <1>1, <1>2, <2>1, <2>2, <3>1 DEF distance
  <2>3. CASE x # 0
    <3>1. decID(x) = x - 1 BY <2>3 DEF decID
    <3> QED BY <1>1, <1>2, <2>1, <2>3, <3>1 DEF distance
  <2> QED BY <2>2, <2>3
<1>4. Down(x)[k] = IF k < x THEN x - k ELSE Size - k + x BY DEF Down, distance
<1> QED BY <1>1, <1>2, <1>3, <1>4

\* Both order the identifiers.
LEMMA RankUp == ASSUME TableAssumption, NEW x \in ID PROVE Rank(Up(x)) /\ Rank(Down(x))
<1>1. /\ \A k \in ID : Up(x)[k] \in Nat /\ Down(x)[k] \in Nat
      /\ \A a, b \in ID : Up(x)[a] = Up(x)[b] => a = b
      /\ \A a, b \in ID : Down(x)[a] = Down(x)[b] => a = b
  <2>1. ASSUME NEW k \in ID PROVE Up(x)[k] \in Nat /\ Down(x)[k] \in Nat
    <3>1. Size \in Nat /\ Up(x)[k] \in 1..Size /\ Down(x)[k] \in 1..Size BY UpIs
    <3> QED BY <3>1
  <2>2. ASSUME NEW a \in ID, NEW b \in ID
        PROVE  (Up(x)[a] = Up(x)[b] => a = b) /\ (Down(x)[a] = Down(x)[b] => a = b)
    <3>1. /\ Up(x)[a] = IF x <= a THEN a - x + 1 ELSE Size - x + a + 1
          /\ Down(x)[a] = IF a < x THEN x - a ELSE Size - a + x
          /\ Size \in Nat \ {0} /\ x \in 0 .. Size - 1 /\ a \in 0 .. Size - 1
      BY UpIs
    <3>2. /\ Up(x)[b] = IF x <= b THEN b - x + 1 ELSE Size - x + b + 1
          /\ Down(x)[b] = IF b < x THEN x - b ELSE Size - b + x
          /\ b \in 0 .. Size - 1
      BY UpIs
    <3> QED BY <3>1, <3>2
  <2> QED BY <2>1, <2>2
<1>2. DOMAIN Up(x) = ID /\ DOMAIN Down(x) = ID /\ Up(x) = [k \in ID |-> Up(x)[k]]
      /\ Down(x) = [k \in ID |-> Down(x)[k]]
  BY DEF Up, Down
<1> QED BY <1>1, <1>2 DEF Rank

\* The keys of the skip list that a search starts from.
LEMMA ClosestNearest ==
    ASSUME TableAssumption, NEW S \in SUBSET ID, S # {}, NEW x \in ID
    PROVE  Nearest(Up(x), S, closestsucc(S, x)) /\ Nearest(Down(x), S, closestpred(S, x))
<1>0. /\ Size \in Nat \ {0} /\ x \in 0 .. Size - 1 /\ S \in SUBSET (0 .. Size - 1)
      /\ \A k \in S : k \in Nat
  BY IdFinite DEF ID
<1>1. /\ \A k \in S : Up(x)[k] = IF x <= k THEN k - x + 1 ELSE Size - x + k + 1
      /\ \A k \in S : Down(x)[k] = IF k < x THEN x - k ELSE Size - k + x
  BY UpIs
<1>2. PICK A \in SUBSET ID : A = {k \in S : k >= x} OBVIOUS
<1>3. PICK B \in SUBSET ID : B = {k \in S : k < x} OBVIOUS
<1>4. Nearest(Up(x), S, closestsucc(S, x))
  <2>1. CASE A # {}
    <3>1. closestsucc(S, x) = firstKey(A) BY <1>2, <2>1 DEF closestsucc
    <3>2. firstKey(A) \in A /\ \A j \in A : firstKey(A) <= j BY <2>1, FirstLast
    <3>3. PICK m : m = firstKey(A) OBVIOUS
    <3>4. m \in S /\ m >= x /\ \A j \in S : j >= x => m <= j BY <1>2, <3>2, <3>3
    <3>5. ASSUME NEW j \in S PROVE Up(x)[m] <= Up(x)[j] BY <1>0, <1>1, <3>4
    <3> QED BY <3>1, <3>3, <3>4, <3>5 DEF Nearest
  <2>2. CASE A = {}
    <3>1. closestsucc(S, x) = firstKey(S) BY <1>2, <2>2 DEF closestsucc
    <3>3. PICK m : m = firstKey(S) OBVIOUS
    <3>4. m \in S /\ \A j \in S : m <= j BY <3>3, FirstLast
    <3>5. \A j \in S : j < x BY <1>0, <1>2, <2>2
    <3>6. ASSUME NEW j \in S PROVE Up(x)[m] <= Up(x)[j] BY <1>0, <1>1, <3>4, <3>5
    <3> QED BY <3>1, <3>3, <3>4, <3>6 DEF Nearest
  <2> QED BY <2>1, <2>2
<1>5. Nearest(Down(x), S, closestpred(S, x))
  <2>1. CASE B # {}
    <3>1. closestpred(S, x) = lastKey(B) BY <1>3, <2>1 DEF closestpred
    <3>2. lastKey(B) \in B /\ \A j \in B : j <= lastKey(B) BY <2>1, FirstLast
    <3>3. PICK m : m = lastKey(B) OBVIOUS
    <3>4. m \in S /\ m < x /\ \A j \in S : j < x => j <= m BY <1>3, <3>2, <3>3
    <3>5. ASSUME NEW j \in S PROVE Down(x)[m] <= Down(x)[j] BY <1>0, <1>1, <3>4
    <3> QED BY <3>1, <3>3, <3>4, <3>5 DEF Nearest
  <2>2. CASE B = {}
    <3>1. closestpred(S, x) = lastKey(S) BY <1>3, <2>2 DEF closestpred
    <3>3. PICK m : m = lastKey(S) OBVIOUS
    <3>4. m \in S /\ \A j \in S : j <= m BY <3>3, FirstLast
    <3>5. \A j \in S : ~(j < x) BY <1>0, <1>3, <2>2
    <3>6. ASSUME NEW j \in S PROVE Down(x)[m] <= Down(x)[j] BY <1>0, <1>1, <3>4, <3>5
    <3> QED BY <3>1, <3>3, <3>4, <3>6 DEF Nearest
  <2> QED BY <2>1, <2>2
<1> QED BY <1>4, <1>5

\* A step along the skip list is a step in the order of the search.
LEMMA StepFollows ==
    ASSUME TableAssumption, NEW S \in SUBSET ID, NEW x \in ID, NEW k \in S
    PROVE  Follows(Up(x), S, k, Step(S, k, TRUE)) /\ Follows(Down(x), S, k, Step(S, k, FALSE))
<1>0. /\ Size \in Nat \ {0} /\ x \in 0 .. Size - 1 /\ S \in SUBSET (0 .. Size - 1)
      /\ \A j \in S : j \in Nat
  BY IdFinite DEF ID
<1>1. /\ \A j \in S : Up(x)[j] = IF x <= j THEN j - x + 1 ELSE Size - x + j + 1
      /\ \A j \in S : Down(x)[j] = IF j < x THEN x - j ELSE Size - j + x
  BY UpIs
<1>2. PICK A \in SUBSET ID : A = {j \in S : j > k} OBVIOUS
<1>3. PICK B \in SUBSET ID : B = {j \in S : j < k} OBVIOUS
<1>4. ASSUME NEW m, m = Step(S, k, TRUE) PROVE Follows(Up(x), S, k, m)
  <2>0. m = next(S, k) BY <1>4 DEF Step
  <2>1. CASE A # {}
    <3>1. m = firstKey(A) BY <1>2, <2>0, <2>1 DEF next
    <3>2. m \in A /\ \A j \in A : m <= j BY <2>1, <3>1, FirstLast
    <3>3. m \in S /\ m > k /\ \A j \in S : j > k => m <= j BY <1>2, <3>2
    <3>4. ASSUME NEW j \in S, Up(x)[k] < Up(x)[j]
          PROVE  Up(x)[k] < Up(x)[m] /\ Up(x)[m] <= Up(x)[j]
      BY <1>0, <1>1, <3>3, <3>4
    <3> QED BY <3>3, <3>4 DEF Follows
  <2>2. CASE A = {}
    <3>1. m = firstKey(S) BY <1>2, <2>0, <2>2 DEF next
    <3>2. m \in S /\ \A j \in S : m <= j BY <3>1, FirstLast
    <3>3. \A j \in S : j <= k BY <1>0, <1>2, <2>2
    <3>4. ASSUME NEW j \in S, Up(x)[k] < Up(x)[j]
          PROVE  Up(x)[k] < Up(x)[m] /\ Up(x)[m] <= Up(x)[j]
      BY <1>0, <1>1, <3>2, <3>3, <3>4
    <3> QED BY <3>2, <3>4 DEF Follows
  <2> QED BY <2>1, <2>2
<1>5. ASSUME NEW m, m = Step(S, k, FALSE) PROVE Follows(Down(x), S, k, m)
  <2>0. m = closestpred(S, k) BY <1>5 DEF Step, prev
  <2>1. CASE B # {}
    <3>1. m = lastKey(B) BY <1>3, <2>0, <2>1 DEF closestpred
    <3>2. m \in B /\ \A j \in B : j <= m BY <2>1, <3>1, FirstLast
    <3>3. m \in S /\ m < k /\ \A j \in S : j < k => j <= m BY <1>3, <3>2
    <3>4. ASSUME NEW j \in S, Down(x)[k] < Down(x)[j]
          PROVE  Down(x)[k] < Down(x)[m] /\ Down(x)[m] <= Down(x)[j]
      BY <1>0, <1>1, <3>3, <3>4
    <3> QED BY <3>3, <3>4 DEF Follows
  <2>2. CASE B = {}
    <3>1. m = lastKey(S) BY <1>3, <2>0, <2>2 DEF closestpred
    <3>2. m \in S /\ \A j \in S : j <= m BY <3>1, FirstLast
    <3>3. \A j \in S : k <= j BY <1>0, <1>3, <2>2
    <3>4. ASSUME NEW j \in S, Down(x)[k] < Down(x)[j]
          PROVE  Down(x)[k] < Down(x)[m] /\ Down(x)[m] <= Down(x)[j]
      BY <1>0, <1>1, <3>2, <3>3, <3>4
    <3> QED BY <3>2, <3>4 DEF Follows
  <2> QED BY <2>1, <2>2
<1> QED BY <1>4, <1>5

Stays(S, up) == \A k \in S : Step(S, k, up) \in S
Turned(S, l, up, at) ==
    /\ DOMAIN at = 0 .. Cardinality(S) - 1 /\ at[0] = l
    /\ \A i \in 0 .. Cardinality(S) - 1 : i # 0 => at[i] = Step(S, at[i - 1], up)

\* A turn goes from location to location.
LEMMA TurnSteps ==
    ASSUME TableAssumption, NEW S \in SUBSET ID, NEW l \in S, NEW up, Stays(S, up)
    PROVE  Turned(S, l, up, Turn(S, l, up))
<1>0. PICK n \in Nat : n = Cardinality(S) - 1
  <2>1. Cardinality(S) \in Nat /\ Cardinality(S) # 0 BY IdFinite
  <2> QED BY <2>1
<1> DEFINE Eqn(a) == a = [i \in 0 .. Cardinality(S) - 1 |-> IF i = 0 THEN l ELSE Step(S, a[i - 1], up)]
           c == CHOOSE a : Eqn(a)
<1>1. \E a : Eqn(a)
  <2>1. PICK g : g = [k \in S |-> Step(S, k, up)] OBVIOUS
  <2>2. g \in [S -> S] /\ \A k \in S : g[k] = Step(S, k, up) BY <2>1 DEF Stays
  <2>3. PICK h : h = [i \in 1..n |-> g] OBVIOUS
  <2>4. h \in [1..n -> [S -> S]] /\ \A i \in 1..n : h[i] = g BY <2>2, <2>3
  <2>9. PICK a : Steps(S, n, l, h, a) BY <2>4, StepsExist
  <2>5. a \in [0..n -> S] /\ a[0] = l /\ \A i \in 1..n : a[i] = h[i][a[i - 1]]
    BY <2>9 DEF Steps
  <2>6. ASSUME NEW i \in 0..n PROVE a[i] = IF i = 0 THEN l ELSE Step(S, a[i - 1], up)
    <3>1. CASE i = 0 BY <2>5, <3>1
    <3>2. CASE i # 0
      <4>1. i \in 1..n /\ i - 1 \in 0..n /\ a[i - 1] \in S BY <2>5, <3>2
      <4>2. a[i] = g[a[i - 1]] BY <2>4, <2>5, <4>1
      <4> QED BY <2>2, <3>2, <4>1, <4>2
    <3> QED BY <3>1, <3>2
  <2>7. a = [i \in 0..n |-> a[i]] BY <2>5
  <2>8. Eqn(a) BY <1>0, <2>6, <2>7
  <2> QED BY <2>8
<1>2. Eqn(c) BY <1>1
<1>3. Turn(S, l, up) = c BY DEF Turn
<1> HIDE DEF c
<1>4. DOMAIN c = 0 .. Cardinality(S) - 1 BY <1>2
<1>5. c[0] = l
  <2>1. 0 \in 0 .. Cardinality(S) - 1 BY <1>0
  <2> QED BY <1>2, <2>1
<1>6. \A i \in 0 .. Cardinality(S) - 1 : i # 0 => c[i] = Step(S, c[i - 1], up) BY <1>2
<1> QED BY <1>3, <1>4, <1>5, <1>6 DEF Turned

\* A turn up lists the locations in the order they are met going up, a turn down
\* going down.
LEMMA TurnLists ==
    ASSUME TableAssumption, NEW S \in SUBSET ID, S # {}, NEW x \in ID
    PROVE  /\ Lists(Up(x), S, Turn(S, closestsucc(S, x), TRUE))
           /\ Lists(Down(x), S, Turn(S, closestpred(S, x), FALSE))
<1>1. Nearest(Up(x), S, closestsucc(S, x)) /\ Nearest(Down(x), S, closestpred(S, x))
  BY ClosestNearest
<1>2. \A k \in S : Follows(Up(x), S, k, Step(S, k, TRUE)) /\ Follows(Down(x), S, k, Step(S, k, FALSE))
  BY StepFollows
<1>3. \A k \in S : Step(S, k, TRUE) \in S /\ Step(S, k, FALSE) \in S BY <1>2 DEF Follows
<1>4. Lists(Up(x), S, Turn(S, closestsucc(S, x), TRUE))
  <2>1. PICK l : l = closestsucc(S, x) OBVIOUS
  <2>2. l \in S BY <1>1, <2>1 DEF Nearest
  <2>0. PICK up : up = TRUE OBVIOUS
  <2>3. PICK at : at = Turn(S, l, up) OBVIOUS
  <2>6. \A k \in S : Step(S, k, up) = Step(S, k, TRUE) BY <2>0
  <2>7. Stays(S, up) BY <1>3, <2>6 DEF Stays
  <2>4. Turned(S, l, up, at) BY <2>2, <2>3, <2>7, TurnSteps
  <2>5. Lists(Up(x), S, at) BY <1>1, <1>2, <2>1, <2>4, <2>6 DEF Lists, Turned
  <2> QED BY <2>0, <2>1, <2>3, <2>5
<1>5. Lists(Down(x), S, Turn(S, closestpred(S, x), FALSE))
  <2>1. PICK l : l = closestpred(S, x) OBVIOUS
  <2>2. l \in S BY <1>1, <2>1 DEF Nearest
  <2>0. PICK up : up = FALSE OBVIOUS
  <2>3. PICK at : at = Turn(S, l, up) OBVIOUS
  <2>6. \A k \in S : Step(S, k, up) = Step(S, k, FALSE) BY <2>0
  <2>7. Stays(S, up) BY <1>3, <2>6 DEF Stays
  <2>4. Turned(S, l, up, at) BY <2>2, <2>3, <2>7, TurnSteps
  <2>5. Lists(Down(x), S, at) BY <1>1, <1>2, <2>1, <2>4, <2>6 DEF Lists, Turned
  <2> QED BY <2>0, <2>1, <2>3, <2>5
<1> QED BY <1>4, <1>5

\* A table has each location once, and its own node among them, alive.
TableOK(t) ==
    /\ t \in [lru : Seq(ID), dead : SUBSET ID]
    /\ IsInjective(t.lru)
    /\ Me \in Good(t) /\ t.dead \subseteq Locs(t)

LEMMA TableLocs ==
    ASSUME TableAssumption, NEW t, TableOK(t)
    PROVE  /\ Locs(t) \in SUBSET ID /\ Good(t) \in SUBSET ID /\ Good(t) \in SUBSET Locs(t)
           /\ Locs(t) # {} /\ Good(t) # {} /\ Me \in ID /\ Me \in Good(t)
<1>1. t.lru \in Seq(ID) BY DEF TableOK
<1>2. \A i \in DOMAIN t.lru : t.lru[i] \in ID BY <1>1
<1>3. Locs(t) \in SUBSET ID BY <1>2 DEF Locs, Range
<1> QED BY <1>3 DEF TableOK, Good

\* A search finds the nearest good location.
LEMMA SearchRight ==
    ASSUME TableAssumption, NEW t, TableOK(t), NEW x \in ID
    PROVE  /\ Nearest(Up(x), Good(t), closestsuccloc(t, x))
           /\ Nearest(Down(x), Good(t), closestpredloc(t, x, {}))
<1>1. PICK S \in SUBSET ID : S = Locs(t) BY TableLocs
<1>2. PICK G \in SUBSET S : G = Good(t) BY <1>1, TableLocs
<1>3. S # {} /\ G # {} BY <1>1, <1>2, TableLocs
<1>4. Rank(Up(x)) /\ Rank(Down(x)) BY RankUp
<1>5. /\ Lists(Up(x), S, Turn(S, closestsucc(S, x), TRUE))
      /\ Lists(Down(x), S, Turn(S, closestpred(S, x), FALSE))
  BY <1>3, TurnLists
<1>6. closestsuccloc(t, x) = FirstGood(Turn(S, closestsucc(S, x), TRUE), G)
  BY <1>1, <1>2 DEF closestsuccloc
<1>7. closestpredloc(t, x, {}) = FirstGood(Turn(S, closestpred(S, x), FALSE), G)
  <2>1. (IF x \in S THEN prev(S, x) ELSE closestpred(S, x)) = closestpred(S, x) BY DEF prev
  <2>2. G \ {} = G OBVIOUS
  <2> QED BY <1>1, <1>2, <2>1, <2>2 DEF closestpredloc
<1>8. Nearest(Up(x), G, FirstGood(Turn(S, closestsucc(S, x), TRUE), G))
  BY <1>3, <1>4, <1>5, FirstNearest
<1>9. Nearest(Down(x), G, FirstGood(Turn(S, closestpred(S, x), FALSE), G))
  BY <1>3, <1>4, <1>5, FirstNearest
<1> QED BY <1>2, <1>6, <1>7, <1>8, <1>9

\* What a search promises.
LEMMA TableOKFound ==
    ASSUME TableAssumption, TableOK(lt) PROVE NearestFound
<1>1. ASSUME NEW x \in ID
      PROVE  /\ closestsuccloc(lt, x) \in Good(lt)
             /\ \A k \in Good(lt) :
                    distance(decID(x), k) >= distance(decID(x), closestsuccloc(lt, x))
             /\ closestpredloc(lt, x, {}) \in Good(lt)
             /\ \A k \in Good(lt) : distance(k, x) >= distance(closestpredloc(lt, x, {}), x)
  <2>1. PICK a : a = closestsuccloc(lt, x) OBVIOUS
  <2>2. PICK b : b = closestpredloc(lt, x, {}) OBVIOUS
  <2>3. Nearest(Up(x), Good(lt), a) /\ Nearest(Down(x), Good(lt), b) BY <2>1, <2>2, SearchRight
  <2>4. Good(lt) \in SUBSET ID BY TableLocs
  <2>5. \A k \in Good(lt) : /\ Up(x)[k] = distance(decID(x), k) /\ Down(x)[k] = distance(k, x)
                            /\ Up(x)[k] \in Int /\ Down(x)[k] \in Int
    <3>1. ASSUME NEW k \in Good(lt) PROVE Up(x)[k] \in Int /\ Down(x)[k] \in Int
      <4>1. k \in ID BY <2>4
      <4>2. Size \in Nat /\ Up(x)[k] \in 1..Size /\ Down(x)[k] \in 1..Size BY <4>1, UpIs
      <4> QED BY <4>2
    <3> QED BY <2>4, <3>1 DEF Up, Down
  <2>6. a \in Good(lt) /\ b \in Good(lt) BY <2>3 DEF Nearest
  <2>7. \A k \in Good(lt) : distance(decID(x), k) >= distance(decID(x), a)
    <3> TAKE k \in Good(lt)
    <3>1. Up(x)[a] <= Up(x)[k] BY <2>3 DEF Nearest
    <3>2. Up(x)[k] >= Up(x)[a] BY <2>5, <2>6, <3>1
    <3> QED BY <2>5, <2>6, <3>2
  <2>8. \A k \in Good(lt) : distance(k, x) >= distance(b, x)
    <3> TAKE k \in Good(lt)
    <3>1. Down(x)[b] <= Down(x)[k] BY <2>3 DEF Nearest
    <3>2. Down(x)[k] >= Down(x)[b] BY <2>5, <2>6, <3>1
    <3> QED BY <2>5, <2>6, <3>2
  <2> QED BY <2>1, <2>2, <2>6, <2>7, <2>8
<1>2. IsInjective(lt.lru) BY DEF TableOK
<1> QED BY <1>1, <1>2 DEF NearestFound

\* Of the good ones before the i-th of the list, there are as many as are nearer.
LEMMA GoodBefore ==
    ASSUME TableAssumption, NEW r, Rank(r), NEW S \in SUBSET ID, NEW at, Lists(r, S, at),
           NEW G \in SUBSET S, NEW i \in DOMAIN at
    PROVE  Cardinality({j \in 0 .. i - 1 : at[j] \in G}) = Cardinality(Nearer(r, G, at[i]))
<1>0. Cardinality(S) \in Nat /\ DOMAIN at = 0 .. Cardinality(S) - 1 BY IdFinite DEF Lists
<1>1. /\ \A j, k \in DOMAIN at : (j < k <=> r[at[j]] < r[at[k]])
      /\ \A k \in S : \E j \in DOMAIN at : at[j] = k
  BY ListsAll
<1>2. PICK J : J = {j \in 0 .. i - 1 : at[j] \in G} OBVIOUS
<1>3. PICK H : H = Nearer(r, G, at[i]) OBVIOUS
<1>4. \A j \in J : j \in DOMAIN at /\ j < i /\ at[j] \in G BY <1>0, <1>2
<1>5. \A j \in DOMAIN at : j < i /\ at[j] \in G => j \in J BY <1>0, <1>2
<1>6. PICK b : b = [j \in J |-> at[j]] OBVIOUS
<1>7. \A j \in J : at[j] \in H BY <1>1, <1>3, <1>4 DEF Nearer
<1>8. ASSUME NEW k \in H PROVE \E j \in J : at[j] = k
  <2>1. k \in G /\ r[k] < r[at[i]] BY <1>3 DEF Nearer
  <2>2. PICK j \in DOMAIN at : at[j] = k BY <1>1, <2>1
  <2>3. j \in J BY <1>1, <1>5, <2>1, <2>2
  <2> QED BY <2>2, <2>3
<1>9. ASSUME NEW j \in J, NEW k \in J, at[j] = at[k] PROVE j = k
  <2>1. /\ j \in Nat /\ k \in Nat /\ j \in DOMAIN at /\ k \in DOMAIN at
        /\ r[at[j]] \in Nat /\ r[at[k]] \in Nat
    BY <1>0, <1>4 DEF Rank
  <2>2. ~(r[at[j]] < r[at[k]]) /\ ~(r[at[k]] < r[at[j]]) BY <1>9, <2>1
  <2>3. ~(j < k) /\ ~(k < j) BY <1>1, <2>1, <2>2
  <2> QED BY <2>1, <2>3
<1>10. b \in Bijection(J, H)
  <2>1. b \in [J -> H] /\ \A j \in J : b[j] = at[j] BY <1>6, <1>7
  <2>2. \A j, k \in J : b[j] = b[k] => j = k BY <1>9, <2>1
  <2>3. \A k \in H : \E j \in J : b[j] = k BY <1>8, <2>1
  <2> QED BY <2>1, <2>2, <2>3 DEF Bijection, Injection, Surjection, IsInjective
<1>11. IsFiniteSet(J)
  <2>1. 0 \in Int /\ i - 1 \in Int BY <1>0
  <2>2. IsFiniteSet(0 .. i - 1) BY <2>1, FS_Interval
  <2>3. J \in SUBSET (0 .. i - 1) BY <1>2
  <2> QED BY <2>2, <2>3, FS_Subset
<1>12. ExistsBijection(J, H) BY <1>10 DEF ExistsBijection
<1>13. Cardinality(J) = Cardinality(H) BY <1>11, <1>12, FS_Bijection
<1> QED BY <1>2, <1>3, <1>13

\* A pin holds the nearest good locations.
LEMMA PinRight ==
    ASSUME TableAssumption, NEW t, TableOK(t), NEW r, Rank(r), NEW l, NEW up,
           Lists(r, Locs(t), Turn(Locs(t), l, up)), NEW n
    PROVE  process_pin(t, l, n, up) = PinSet(r, Good(t), n)
<1>1. PICK S \in SUBSET ID : S = Locs(t) BY TableLocs
<1>2. PICK G \in SUBSET S : G = Good(t) BY <1>1, TableLocs
<1>3. PICK at : at = Turn(S, l, up) OBVIOUS
<1>4. Lists(r, S, at) BY <1>1, <1>3
<1>5. \A i \in DOMAIN at : at[i] \in S BY <1>4, ListsAll
<1>6. \A k \in S : \E i \in DOMAIN at : at[i] = k BY <1>4, ListsAll
<1>7. \A k \in S : good(t, k) <=> k \in G BY <1>1, <1>2 DEF Good
<1>8. DOMAIN at = 0 .. Cardinality(S) - 1 /\ Cardinality(S) \in Nat BY <1>4, IdFinite DEF Lists
<1>9. ASSUME NEW i \in DOMAIN at
      PROVE  Cardinality({j \in 0 .. i - 1 : good(t, at[j])}) = Cardinality(Nearer(r, G, at[i]))
  <2>1. \A j \in 0 .. i - 1 : j \in DOMAIN at BY <1>8
  <2>2. {j \in 0 .. i - 1 : good(t, at[j])} = {j \in 0 .. i - 1 : at[j] \in G} BY <1>5, <1>7, <2>1
  <2>3. Cardinality({j \in 0 .. i - 1 : at[j] \in G}) = Cardinality(Nearer(r, G, at[i]))
    BY <1>4, GoodBefore
  <2> QED BY <2>2, <2>3
<1>10. process_pin(t, l, n, up) =
          {at[i] : i \in {j \in DOMAIN at : good(t, at[j])
                                /\ Cardinality({m \in 0 .. j - 1 : good(t, at[m])}) < n}}
  BY <1>1, <1>3 DEF process_pin
<1>11. ASSUME NEW k PROVE k \in process_pin(t, l, n, up) <=> k \in PinSet(r, G, n)
  <2>1. ASSUME k \in process_pin(t, l, n, up) PROVE k \in PinSet(r, G, n)
    <3>1. PICK i \in DOMAIN at : /\ k = at[i] /\ good(t, at[i])
                                 /\ Cardinality({m \in 0 .. i - 1 : good(t, at[m])}) < n
      BY <1>10, <2>1
    <3>2. k \in G /\ Cardinality(Nearer(r, G, k)) < n BY <1>5, <1>7, <1>9, <3>1
    <3> QED BY <3>2 DEF PinSet
  <2>2. ASSUME k \in PinSet(r, G, n) PROVE k \in process_pin(t, l, n, up)
    <3>1. k \in G /\ Cardinality(Nearer(r, G, k)) < n BY <2>2 DEF PinSet
    <3>2. PICK i \in DOMAIN at : at[i] = k BY <1>6, <3>1
    <3>3. good(t, at[i]) /\ Cardinality({m \in 0 .. i - 1 : good(t, at[m])}) < n
      BY <1>7, <1>9, <3>1, <3>2
    <3> QED BY <1>10, <3>2, <3>3
  <2> QED BY <2>1, <2>2
<1> QED BY <1>2, <1>11

\* The pins of successors and predecessors.
LEMMA PinsNearest ==
    ASSUME TableAssumption, NEW t, TableOK(t), NEW x \in ID, NEW n
    PROVE  /\ process_pin(t, closestsucc(Locs(t), x), n, TRUE) = PinSet(Up(x), Good(t), n)
           /\ process_pin(t, closestpred(Locs(t), x), n, FALSE) = PinSet(Down(x), Good(t), n)
<1>1. Rank(Up(x)) /\ Rank(Down(x)) BY RankUp
<1>2. /\ Lists(Up(x), Locs(t), Turn(Locs(t), closestsucc(Locs(t), x), TRUE))
      /\ Lists(Down(x), Locs(t), Turn(Locs(t), closestpred(Locs(t), x), FALSE))
  BY TableLocs, TurnLists
<1>3. process_pin(t, closestsucc(Locs(t), x), n, TRUE) = PinSet(Up(x), Good(t), n)
  <2>1. PICK up : up = TRUE OBVIOUS
  <2>2. Lists(Up(x), Locs(t), Turn(Locs(t), closestsucc(Locs(t), x), up)) BY <1>2, <2>1
  <2>3. process_pin(t, closestsucc(Locs(t), x), n, up) = PinSet(Up(x), Good(t), n)
    BY <1>1, <2>2, PinRight
  <2> QED BY <2>1, <2>3
<1>4. process_pin(t, closestpred(Locs(t), x), n, FALSE) = PinSet(Down(x), Good(t), n)
  <2>1. PICK up : up = FALSE OBVIOUS
  <2>2. Lists(Down(x), Locs(t), Turn(Locs(t), closestpred(Locs(t), x), up)) BY <1>2, <2>1
  <2>3. process_pin(t, closestpred(Locs(t), x), n, up) = PinSet(Down(x), Good(t), n)
    BY <1>1, <2>2, PinRight
  <2> QED BY <2>1, <2>3
<1> QED BY <1>3, <1>4

\* A finger starts somewhere on the circle.
LEMMA StartID == ASSUME TableAssumption, NEW i \in 0 .. NBIT - 1 PROVE successorID(Me, i) \in ID
<1>1. Size \in Nat \ {0} /\ Me \in Nat BY IdFinite DEF TableAssumption, ID
<1>2. i \in 0 .. NBIT BY DEF TableAssumption
<1>3. Me + 2^i \in Nat BY <1>1, <1>2 DEF TableAssumption
<1>4. \A a \in Nat : a % Size \in 0 .. Size - 1 BY <1>1
<1> QED BY <1>3, <1>4 DEF successorID, ID

\* The pinned locations: NSucc successors, the predecessor and the fingers, alive,
\* and the predecessor, alive or not.
Pinned(t) ==
    PinSet(Up(Me), Good(t), NSucc) \cup PinSet(Down(Me), Good(t), 1)
    \cup {closestpred(Locs(t), Me)}
    \cup (UNION {PinSet(Up(successorID(Me, i)), Good(t), 1) : i \in 0 .. NBIT - 1})

LEMMA PinsAre ==
    ASSUME TableAssumption, NEW t, TableOK(t)
    PROVE  figure_pins(t) = Pinned(t)
<1>0. Me \in ID /\ NSucc \in Nat \ {0} BY DEF TableAssumption
<1>1. PICK mine : mine = [at |-> Me, succ |-> NSucc, pred |-> 1] OBVIOUS
<1>2. mine.at = Me /\ mine.succ = NSucc /\ mine.pred = 1 BY <1>1
<1>3. PICK fin : fin = [i \in 0 .. NBIT - 1 |-> [at |-> successorID(Me, i), succ |-> 1, pred |-> 0]]
  OBVIOUS
<1>4. \A i \in 0 .. NBIT - 1 : fin[i].at = successorID(Me, i) /\ fin[i].succ = 1 /\ fin[i].pred = 0
  BY <1>3
<1>5. Pins = {mine} \cup {fin[i] : i \in {j \in 0 .. NBIT - 1 : successorID(Me, j) # Me}}
  BY <1>1, <1>3 DEF Pins
<1>6. mine \in Pins /\ \A i \in 0 .. NBIT - 1 : successorID(Me, i) # Me => fin[i] \in Pins
  BY <1>5
<1>7. \A p \in Pins : p = mine \/ \E i \in 0 .. NBIT - 1 : p = fin[i] BY <1>5
<1>8. \A p \in Pins : p.pred > 0 <=> p = mine BY <1>2, <1>4, <1>7
<1>9. \A n : \A x \in ID :
                       /\ process_pin(t, closestsucc(Locs(t), x), n, TRUE) = PinSet(Up(x), Good(t), n)
                       /\ process_pin(t, closestpred(Locs(t), x), n, FALSE) = PinSet(Down(x), Good(t), n)
  BY PinsNearest
<1>10. \A i \in 0 .. NBIT - 1 : successorID(Me, i) \in ID BY StartID
<1>11. \A p \in Pins : p.at \in ID BY <1>0, <1>2, <1>4, <1>7, <1>10
<1>18. \A k : k \in figure_pins(t) <=> (\E p \in Pins : k \in succPins(t, p)) \/ k \in predPins(t, mine)
  <2>1. PICK Preds : Preds = {q \in Pins : q.pred > 0} OBVIOUS
  <2>2. PICK P : P = Pins OBVIOUS
  <2>3. \A k : k \in figure_pins(t) <=> \/ \E p \in P : k \in succPins(t, p)
                                      \/ \E p \in Preds : k \in predPins(t, p)
    BY <2>1, <2>2 DEF figure_pins
  <2>4. \A p : p \in Preds <=> p = mine BY <1>6, <1>8, <2>1
  <2> QED BY <2>2, <2>3, <2>4
<1>13. /\ succPins(t, mine) = PinSet(Up(Me), Good(t), NSucc)
       /\ predPins(t, mine) = {closestpred(Locs(t), Me)} \cup PinSet(Down(Me), Good(t), 1)
  <2>1. process_pin(t, closestsucc(Locs(t), Me), NSucc, TRUE) = PinSet(Up(Me), Good(t), NSucc)
    BY <1>0, <1>9
  <2>2. process_pin(t, closestpred(Locs(t), Me), 1, FALSE) = PinSet(Down(Me), Good(t), 1)
    BY <1>0, <1>9
  <2>3. succPins(t, mine) = process_pin(t, closestsucc(Locs(t), Me), NSucc, TRUE)
    BY <1>2 DEF succPins
  <2>4. predPins(t, mine) = {closestpred(Locs(t), Me)} \cup process_pin(t, closestpred(Locs(t), Me), 1, FALSE)
    BY <1>2 DEF predPins
  <2> QED BY <2>1, <2>2, <2>3, <2>4
<1>14. \A i \in 0 .. NBIT - 1 : succPins(t, fin[i]) = PinSet(Up(successorID(Me, i)), Good(t), 1)
  BY <1>4, <1>9, <1>10 DEF succPins
<1>15. PinSet(Up(Me), Good(t), 1) \subseteq PinSet(Up(Me), Good(t), NSucc)
  <2>1. \A k : Cardinality(Nearer(Up(Me), Good(t), k)) \in Nat
    <3> TAKE k
    <3>1. Good(t) \in SUBSET ID BY TableLocs
    <3> QED BY <3>1, NearerFinite
  <2> QED BY <1>0, <2>1 DEF PinSet
<1>16. ASSUME NEW k, k \in figure_pins(t) PROVE k \in Pinned(t)
  <2>1. CASE \E p \in Pins : k \in succPins(t, p)
    <3>1. PICK p \in Pins : k \in succPins(t, p) BY <2>1
    <3>2. CASE p = mine BY <1>13, <3>1, <3>2 DEF Pinned
    <3>3. CASE \E i \in 0 .. NBIT - 1 : p = fin[i]
      <4>1. PICK i \in 0 .. NBIT - 1 : p = fin[i] BY <3>3
      <4>2. k \in PinSet(Up(successorID(Me, i)), Good(t), 1) BY <1>14, <3>1, <4>1
      <4> QED BY <4>2 DEF Pinned
    <3> QED BY <1>7, <3>2, <3>3
  <2>2. CASE k \in predPins(t, mine) BY <1>13, <2>2 DEF Pinned
  <2> QED BY <1>16, <1>18, <2>1, <2>2
<1>17. ASSUME NEW k, k \in Pinned(t) PROVE k \in figure_pins(t)
  <2>1. \A p \in Pins : succPins(t, p) \subseteq figure_pins(t) BY <1>18
  <2>2. predPins(t, mine) \subseteq figure_pins(t) BY <1>18
  <2>3. CASE k \in succPins(t, mine) BY <1>6, <2>1, <2>3
  <2>4. CASE k \in predPins(t, mine) BY <2>2, <2>4
  <2>5. CASE \E i \in 0 .. NBIT - 1 : k \in PinSet(Up(successorID(Me, i)), Good(t), 1)
    <3>1. PICK i \in 0 .. NBIT - 1 : k \in PinSet(Up(successorID(Me, i)), Good(t), 1) BY <2>5
    <3>2. CASE successorID(Me, i) = Me BY <1>13, <1>15, <2>3, <3>1, <3>2
    <3>3. CASE successorID(Me, i) # Me BY <1>6, <1>14, <2>1, <3>1, <3>3
    <3> QED BY <3>2, <3>3
  <2> QED BY <1>13, <1>17, <2>3, <2>4, <2>5 DEF Pinned
<1> QED BY <1>16, <1>17

\* The pins are locations, the node's own among them.
LEMMA PinsLocs ==
    ASSUME TableAssumption, NEW t, TableOK(t)
    PROVE  figure_pins(t) \subseteq Locs(t) /\ Me \in figure_pins(t)
<1>1. figure_pins(t) = Pinned(t) BY PinsAre
<1>2. /\ Locs(t) \in SUBSET ID /\ Good(t) \in SUBSET ID /\ Good(t) \in SUBSET Locs(t)
      /\ Locs(t) # {} /\ Me \in ID /\ Me \in Good(t)
  BY TableLocs
<1>3. closestpred(Locs(t), Me) \in Locs(t)
  <2>1. Nearest(Down(Me), Locs(t), closestpred(Locs(t), Me)) BY <1>2, ClosestNearest
  <2> QED BY <2>1 DEF Nearest
<1>4. Pinned(t) \subseteq Locs(t) BY <1>2, <1>3 DEF Pinned, PinSet
<1>5. Me \in PinSet(Up(Me), Good(t), NSucc)
  <2>1. Rank(Up(Me)) BY <1>2, RankUp
  <2>2. ASSUME NEW j \in Good(t) PROVE Up(Me)[Me] <= Up(Me)[j]
    <3>1. j \in ID BY <1>2
    <3>2. Size \in Nat /\ Up(Me)[j] \in 1..Size BY <1>2, <3>1, UpIs
    <3>3. Up(Me)[Me] = 1
      <4>1. Up(Me)[Me] = (IF Me <= Me THEN Me - Me + 1 ELSE Size - Me + Me + 1) /\ Me \in Int
        BY <1>2, UpIs
      <4> QED BY <4>1
    <3> QED BY <3>2, <3>3
  <2>3. Nearest(Up(Me), Good(t), Me) BY <1>2, <2>2 DEF Nearest
  <2>4. Cardinality(Nearer(Up(Me), Good(t), Me)) = 0 BY <1>2, <2>1, <2>3, NearestNone
  <2> QED BY <1>2, <2>4 DEF PinSet, TableAssumption
<1> QED BY <1>1, <1>4, <1>5 DEF Pinned

\* Where one more is good, one of the first n stays so, or the new one takes its
\* place.
LEMMA PinOrNearer ==
    ASSUME TableAssumption, NEW r, Rank(r), NEW G \in SUBSET ID, NEW H \in SUBSET ID, NEW x,
           G \subseteq H, H \subseteq G \cup {x}, NEW k \in G, NEW n \in Nat,
           Cardinality(Nearer(r, G, k)) < n
    PROVE  \/ k \in PinSet(r, H, n)
           \/ x \in PinSet(r, H, n) /\ x \notin G /\ r[x] < r[k]
<1>1. \A j \in H : r[j] \in Nat BY DEF Rank
<1>2. /\ IsFiniteSet(Nearer(r, G, k)) /\ Cardinality(Nearer(r, G, k)) \in Nat
      /\ Cardinality(Nearer(r, H, x)) \in Nat
  BY NearerFinite
<1>3. CASE x \in H /\ x \notin G /\ r[x] < r[k]
  <2>1. Nearer(r, H, x) \in SUBSET Nearer(r, G, k) BY <1>1, <1>3 DEF Nearer
  <2>2. Cardinality(Nearer(r, H, x)) <= Cardinality(Nearer(r, G, k)) BY <1>2, <2>1, FS_Subset
  <2> QED BY <1>2, <1>3, <2>2 DEF PinSet
<1>4. CASE ~(x \in H /\ x \notin G /\ r[x] < r[k])
  <2>1. Nearer(r, H, k) = Nearer(r, G, k) BY <1>1, <1>4 DEF Nearer
  <2> QED BY <2>1 DEF PinSet
<1> QED BY <1>3, <1>4

\* Where fewer are good, the first n that are left are among the first n.
LEMMA PinFewer ==
    ASSUME TableAssumption, NEW r, NEW G \in SUBSET ID, NEW H \in SUBSET G,
           NEW n \in Nat, PinSet(r, G, n) \subseteq H
    PROVE  PinSet(r, G, n) \subseteq PinSet(r, H, n)
<1>1. SUFFICES ASSUME NEW k \in PinSet(r, G, n) PROVE k \in PinSet(r, H, n) OBVIOUS
<1>2. k \in H /\ Cardinality(Nearer(r, G, k)) < n BY DEF PinSet
<1>3. /\ IsFiniteSet(Nearer(r, G, k)) /\ Cardinality(Nearer(r, G, k)) \in Nat
      /\ Cardinality(Nearer(r, H, k)) \in Nat
  BY NearerFinite
<1>4. Nearer(r, H, k) \in SUBSET Nearer(r, G, k) BY DEF Nearer
<1>5. Cardinality(Nearer(r, H, k)) <= Cardinality(Nearer(r, G, k)) BY <1>3, <1>4, FS_Subset
<1> QED BY <1>2, <1>3, <1>5 DEF PinSet

\* Nearer on the way up or down is between.
LEMMA NearerBetween ==
    ASSUME TableAssumption, NEW a \in ID, NEW x \in ID, NEW b \in ID
    PROVE  /\ Up(a)[x] < Up(a)[b] => between(decID(a), b, x)
           /\ Up(a)[x] < Up(a)[b] /\ x # a => between(a, b, x)
           /\ Down(a)[x] < Down(a)[b] => between(b, a, x)
<1>1. /\ Up(a)[x] = IF a <= x THEN x - a + 1 ELSE Size - a + x + 1
      /\ Down(a)[x] = IF x < a THEN a - x ELSE Size - x + a
      /\ Size \in Nat \ {0} /\ a \in 0 .. Size - 1 /\ x \in 0 .. Size - 1
  BY UpIs
<1>2. /\ Up(a)[b] = IF a <= b THEN b - a + 1 ELSE Size - a + b + 1
      /\ Down(a)[b] = IF b < a THEN a - b ELSE Size - b + a
      /\ b \in 0 .. Size - 1
  BY UpIs
<1>3. ASSUME Up(a)[x] < Up(a)[b] PROVE between(decID(a), b, x)
  <2>1. CASE a = 0
    <3>1. decID(a) = Size - 1 BY <2>1 DEF decID
    <3> QED BY <1>1, <1>2, <1>3, <2>1, <3>1 DEF between
  <2>2. CASE a # 0
    <3>1. decID(a) = a - 1 BY <2>2 DEF decID
    <3> QED BY <1>1, <1>2, <1>3, <2>2, <3>1 DEF between
  <2> QED BY <2>1, <2>2
<1>4. ASSUME Up(a)[x] < Up(a)[b], x # a PROVE between(a, b, x)
  BY <1>1, <1>2, <1>4 DEF between
<1>5. ASSUME Down(a)[x] < Down(a)[b] PROVE between(b, a, x)
  BY <1>1, <1>2, <1>5 DEF between
<1> QED BY <1>3, <1>4, <1>5

\* One further on the circle.
LEMMA IncIs ==
    ASSUME TableAssumption, NEW a \in ID
    PROVE  incID(a) \in ID /\ incID(a) = IF a = Size - 1 THEN 0 ELSE a + 1
<1>3. Size \in Nat \ {0} /\ a \in 0 .. Size - 1 BY IdFinite DEF ID
<1>0. Size \in Nat \ {0} /\ a \in 0 .. Size - 1 /\ a + 1 \in Nat BY <1>3
<1>1. CASE a = Size - 1
  <2>1. a + 1 = Size /\ Size % Size = 0 BY <1>0, <1>1
  <2> QED BY <1>0, <1>1, <2>1 DEF incID, ID
<1>2. CASE a # Size - 1
  <2>1. a + 1 < Size BY <1>0, <1>2
  <2>2. (a + 1) % Size = a + 1 BY <1>0, <2>1
  <2> QED BY <1>0, <1>2, <2>1, <2>2 DEF incID, ID
<1> QED BY <1>1, <1>2

\* The next good node after a is not beyond another one.
LEMMA NextUp ==
    ASSUME TableAssumption, NEW m \in ID, NEW a \in ID, NEW b \in ID, NEW j \in ID,
           Up(incID(a))[b] <= Up(incID(a))[j], Up(m)[j] < Up(m)[b]
    PROVE  Up(m)[j] <= Up(m)[a]
<1>0. Size \in Nat \ {0} /\ a \in 0 .. Size - 1 BY IdFinite DEF ID
<1>1. incID(a) \in ID /\ incID(a) = IF a = Size - 1 THEN 0 ELSE a + 1 BY IncIs
<1>2. PICK c : c = incID(a) OBVIOUS
<1>3. c \in ID BY <1>1, <1>2
<1>4. /\ Up(c)[b] = IF c <= b THEN b - c + 1 ELSE Size - c + b + 1
      /\ b \in 0 .. Size - 1 /\ c \in 0 .. Size - 1
  BY <1>3, UpIs
<1>5. Up(c)[j] = (IF c <= j THEN j - c + 1 ELSE Size - c + j + 1) /\ j \in 0 .. Size - 1
  BY <1>3, UpIs
<1>6. Up(m)[b] = (IF m <= b THEN b - m + 1 ELSE Size - m + b + 1) /\ m \in 0 .. Size - 1 BY UpIs
<1>7. Up(m)[j] = IF m <= j THEN j - m + 1 ELSE Size - m + j + 1 BY UpIs
<1>8. Up(m)[a] = IF m <= a THEN a - m + 1 ELSE Size - m + a + 1 BY UpIs
<1>9. Up(c)[b] <= Up(c)[j] /\ Up(m)[j] < Up(m)[b] BY <1>2
<1>10. c = (IF a = Size - 1 THEN 0 ELSE a + 1) BY <1>1, <1>2
<1>11. Up(m)[j] <= Up(m)[a]
  BY ONLY <1>0, <1>4, <1>5, <1>6, <1>7, <1>8, <1>9, <1>10
<1> QED BY <1>11

\* succ(t, k) is among the first k + 1 good nodes from Me on.
LEMMA SuccRank ==
    ASSUME TableAssumption, NEW t, TableOK(t), NEW n \in Nat
    PROVE  succ(t, n) \in Good(t) /\ Cardinality(Nearer(Up(Me), Good(t), succ(t, n))) <= n
<1> DEFINE Eqn(a) == a = [i \in 0 .. n |-> IF i = 0 THEN Me ELSE closestsuccloc(t, incID(a[i - 1]))]
           c == CHOOSE a : Eqn(a)
<1>0. Good(t) \in SUBSET ID /\ Me \in ID /\ Me \in Good(t) BY TableLocs
<1>f. Rank(Up(Me)) BY <1>0, RankUp
<1>1. \A k \in Good(t) : /\ incID(k) \in ID
                         /\ Nearest(Up(incID(k)), Good(t), closestsuccloc(t, incID(k)))
  <2> TAKE k \in Good(t)
  <2>1. incID(k) \in ID BY <1>0, IncIs
  <2> QED BY <2>1, SearchRight
<1>2. \A k \in Good(t) : closestsuccloc(t, incID(k)) \in Good(t) BY <1>1 DEF Nearest
<1>3. \E a : Eqn(a)
  <2>1. PICK g : g = [k \in Good(t) |-> closestsuccloc(t, incID(k))] OBVIOUS
  <2>2. g \in [Good(t) -> Good(t)] /\ \A k \in Good(t) : g[k] = closestsuccloc(t, incID(k)) BY <1>2, <2>1
  <2>3. PICK h : h = [i \in 1..n |-> g] OBVIOUS
  <2>4. h \in [1..n -> [Good(t) -> Good(t)]] /\ \A i \in 1..n : h[i] = g BY <2>2, <2>3
  <2>5. PICK a : Steps(Good(t), n, Me, h, a) BY <1>0, <2>4, StepsExist
  <2>6. a \in [0..n -> Good(t)] /\ a[0] = Me /\ \A i \in 1..n : a[i] = h[i][a[i - 1]]
    BY <2>5 DEF Steps
  <2>7. ASSUME NEW i \in 0..n PROVE a[i] = IF i = 0 THEN Me ELSE closestsuccloc(t, incID(a[i - 1]))
    <3>1. CASE i = 0 BY <2>6, <3>1
    <3>2. CASE i # 0
      <4>1. i \in 1..n /\ i - 1 \in 0..n /\ a[i - 1] \in Good(t) BY <2>6, <3>2
      <4>2. a[i] = g[a[i - 1]] BY <2>4, <2>6, <4>1
      <4> QED BY <2>2, <3>2, <4>1, <4>2
    <3> QED BY <3>1, <3>2
  <2>8. a = [i \in 0..n |-> a[i]] BY <2>6
  <2>9. Eqn(a) BY <2>7, <2>8
  <2> QED BY <2>9
<1>4. Eqn(c) BY <1>3
<1>5. succ(t, n) = c[n] BY DEF succ
<1> HIDE DEF c
<1>6. c[0] = Me /\ \A i \in 1..n : c[i] = closestsuccloc(t, incID(c[i - 1]))
  <2>1. 0 \in 0..n /\ \A i \in 1..n : i \in 0..n /\ i # 0 OBVIOUS
  <2> QED BY <1>4, <2>1
<1> DEFINE Right(k) == c[k] \in Good(t) /\ Cardinality(Nearer(Up(Me), Good(t), c[k])) <= k
           T == {k \in Nat : k <= n /\ ~Right(k)}
<1>7. Right(0)
  <2>1. Nearest(Up(Me), Good(t), Me)
    <3>1. ASSUME NEW j \in Good(t) PROVE Up(Me)[Me] <= Up(Me)[j]
      <4>1. Size \in Nat /\ Up(Me)[j] \in 1..Size BY <1>0, UpIs
      <4>2. Up(Me)[Me] = (IF Me <= Me THEN Me - Me + 1 ELSE Size - Me + Me + 1) /\ Me \in Int
        BY <1>0, UpIs
      <4> QED BY <4>1, <4>2
    <3> QED BY <1>0, <3>1 DEF Nearest
  <2>2. Cardinality(Nearer(Up(Me), Good(t), Me)) = 0 BY <1>0, <1>f, <2>1, NearestNone
  <2> QED BY <1>0, <1>6, <2>2
<1>8. ASSUME NEW a \in Good(t), NEW b, b = closestsuccloc(t, incID(a))
      PROVE  /\ b \in Good(t)
             /\ Cardinality(Nearer(Up(Me), Good(t), b)) <= Cardinality(Nearer(Up(Me), Good(t), a)) + 1
  <2>1. Nearest(Up(incID(a)), Good(t), b) /\ b \in Good(t) BY <1>1, <1>2, <1>8
  <2>2. PICK A : A = Nearer(Up(Me), Good(t), a) OBVIOUS
  <2>3. IsFiniteSet(A) /\ Cardinality(A) \in Nat BY <1>0, <2>2, NearerFinite
  <2>4. IsFiniteSet(A \cup {a}) /\ Cardinality(A \cup {a}) <= Cardinality(A) + 1
    BY <2>3, FS_AddElement
  <2>5. ASSUME NEW j \in Nearer(Up(Me), Good(t), b) PROVE j \in A \cup {a}
    <3>1. j \in Good(t) /\ Up(Me)[j] < Up(Me)[b] BY DEF Nearer
    <3>2. Up(incID(a))[b] <= Up(incID(a))[j] BY <2>1, <3>1 DEF Nearest
    <3>3. a \in ID /\ b \in ID /\ j \in ID BY <1>0, <2>1, <3>1
    <3>4. Up(Me)[j] <= Up(Me)[a] BY <1>0, <3>1, <3>2, <3>3, NextUp
    <3>5. Up(Me)[j] \in Nat /\ Up(Me)[a] \in Nat /\ (Up(Me)[j] = Up(Me)[a] => j = a)
      BY <1>f, <3>3 DEF Rank
    <3> QED BY <2>2, <3>1, <3>4, <3>5 DEF Nearer
  <2>6. Nearer(Up(Me), Good(t), b) \in SUBSET (A \cup {a}) BY <2>5
  <2>7. Cardinality(Nearer(Up(Me), Good(t), b)) <= Cardinality(A \cup {a})
        /\ Cardinality(Nearer(Up(Me), Good(t), b)) \in Nat /\ Cardinality(A \cup {a}) \in Nat
    BY <1>0, <2>4, <2>6, FS_Subset, FS_CardinalityType, NearerFinite
  <2> QED BY <2>1, <2>2, <2>3, <2>4, <2>7
<1>9. \A k : Cardinality(Nearer(Up(Me), Good(t), k)) \in Nat BY <1>0, NearerFinite
<1> HIDE DEF Right
<1>10. ASSUME T # {} PROVE FALSE
  <2>1. PICK k \in T : \A y \in T : k <= y BY <1>10, LeastNat
  <2>2. k # 0 BY <1>7, <2>1
  <2>3. k \in 1..n /\ k - 1 \in Nat /\ k - 1 <= n /\ k - 1 \notin T BY <2>1, <2>2
  <2>4. c[k - 1] \in Good(t) /\ Cardinality(Nearer(Up(Me), Good(t), c[k - 1])) <= k - 1
    BY <2>3 DEF Right
  <2>5. c[k] = closestsuccloc(t, incID(c[k - 1])) BY <1>6, <2>3
  <2>6. /\ c[k] \in Good(t)
        /\ Cardinality(Nearer(Up(Me), Good(t), c[k]))
               <= Cardinality(Nearer(Up(Me), Good(t), c[k - 1])) + 1
    BY <1>8, <2>4, <2>5
  <2>7. Right(k) BY <1>9, <2>3, <2>4, <2>6 DEF Right
  <2> QED BY <2>1, <2>7
<1>11. Right(n) BY <1>10
<1> QED BY <1>5, <1>11 DEF Right

\* PinsHeld, of the table before a step and the table after it.
Held(t, u) ==
    /\ \A k \in 1 .. NSucc - 1 :
         \/ succ(t, k) \in Locs(u)
         \/ \E x \in Good(u) \ Locs(t) : between(Me, succ(t, k), x)
    /\ \A i \in 0 .. NBIT - 1 :
         \/ closestsuccloc(t, successorID(Me, i)) \in Locs(u)
         \/ \E k \in Good(u) :
               between(decID(successorID(Me, i)), closestsuccloc(t, successorID(Me, i)), k)
    /\ \/ closestpredloc(t, Me, {}) \in Locs(u)
       \/ \E k \in Good(u) : between(closestpredloc(t, Me, {}), Me, k)
    /\ Locs(u) # Locs(t) /\ Len(u.lru) > MaxCached => Locs(u) \subseteq figure_pins(u)

\* A table that keeps all locations holds them.
LEMMA SameHeld ==
    ASSUME TableAssumption, NEW t, NEW u, TableOK(t), Locs(t) \subseteq Locs(u),
           Locs(u) = Locs(t) \/ Len(u.lru) <= MaxCached, Len(u.lru) \in Nat
    PROVE  Held(t, u)
<1>0. Good(t) \in SUBSET Locs(t) /\ Me \in ID BY TableLocs
<1>1. \A k \in 1 .. NSucc - 1 : succ(t, k) \in Locs(u)
  <2> TAKE k \in 1 .. NSucc - 1
  <2>1. k \in Nat BY DEF TableAssumption
  <2>2. succ(t, k) \in Good(t) BY <2>1, SuccRank
  <2> QED BY <1>0, <2>2
<1>2. \A x \in ID : closestsuccloc(t, x) \in Locs(u) /\ closestpredloc(t, x, {}) \in Locs(u)
  <2> TAKE x \in ID
  <2>1. Nearest(Up(x), Good(t), closestsuccloc(t, x)) /\ Nearest(Down(x), Good(t), closestpredloc(t, x, {}))
    BY SearchRight
  <2> QED BY <1>0, <2>1 DEF Nearest
<1>3. \A i \in 0 .. NBIT - 1 : successorID(Me, i) \in ID BY StartID
<1>4. Locs(u) # Locs(t) /\ Len(u.lru) > MaxCached => Locs(u) \subseteq figure_pins(u)
  BY DEF TableAssumption
<1> QED BY <1>0, <1>1, <1>2, <1>3, <1>4 DEF Held

\* The table t hears of x, if anything, and becomes w; all pins of w stay in u.
Evicts(t, x, w, u) ==
    /\ TableOK(t) /\ TableOK(w) /\ TableOK(u)
    /\ x \in ID /\ (x \in Good(t) \/ x \notin Locs(t))
    /\ Good(t) \subseteq Good(w) /\ Good(w) \subseteq Good(t) \cup {x}
    /\ figure_pins(w) \subseteq Locs(u) /\ Locs(u) \subseteq Locs(w)
    /\ Good(u) = Good(w) \cap Locs(u)
    /\ Len(u.lru) > MaxCached => Locs(u) = figure_pins(w)

\* One of the first n good nodes stays, or a nearer one takes its place.
LEMMA EvictOne ==
    ASSUME TableAssumption, NEW t, NEW x, NEW w, NEW u, Evicts(t, x, w, u),
           NEW r, Rank(r), NEW n \in Nat, PinSet(r, Good(w), n) \subseteq figure_pins(w),
           NEW k \in Good(t), Cardinality(Nearer(r, Good(t), k)) < n
    PROVE  k \in Locs(u) \/ (x \in Good(u) /\ x \notin Locs(t) /\ r[x] < r[k])
<1>1. Good(t) \in SUBSET ID /\ Good(w) \in SUBSET ID BY TableLocs DEF Evicts
<1>2. Good(t) \subseteq Good(w) /\ Good(w) \subseteq Good(t) \cup {x} BY DEF Evicts
<1>3. \/ k \in PinSet(r, Good(w), n)
      \/ x \in PinSet(r, Good(w), n) /\ x \notin Good(t) /\ r[x] < r[k]
  BY <1>1, <1>2, PinOrNearer
<1>4. PinSet(r, Good(w), n) \subseteq Locs(u) /\ PinSet(r, Good(w), n) \subseteq Good(w)
  BY DEF Evicts, PinSet
<1> QED BY <1>3, <1>4 DEF Evicts

LEMMA EvictHeld ==
    ASSUME TableAssumption, NEW t, NEW x, NEW w, NEW u, Evicts(t, x, w, u)
    PROVE  Held(t, u)
<1>0. /\ TableOK(t) /\ TableOK(w) /\ TableOK(u) /\ x \in ID /\ NSucc \in Nat \ {0}
      /\ (x \in Good(t) \/ x \notin Locs(t))
  BY DEF Evicts, TableAssumption
<1>1. /\ Good(t) \in SUBSET ID /\ Good(t) \in SUBSET Locs(t) /\ Me \in ID /\ Me \in Good(t)
  BY <1>0, TableLocs
<1>2. /\ PinSet(Up(Me), Good(w), NSucc) \subseteq figure_pins(w)
      /\ PinSet(Down(Me), Good(w), 1) \subseteq figure_pins(w)
      /\ \A i \in 0 .. NBIT - 1 : PinSet(Up(successorID(Me, i)), Good(w), 1) \subseteq figure_pins(w)
  <2>1. figure_pins(w) = Pinned(w) BY <1>0, PinsAre
  <2> QED BY <2>1 DEF Pinned
<1>3. ASSUME NEW k \in 1 .. NSucc - 1
      PROVE  \/ succ(t, k) \in Locs(u)
             \/ \E y \in Good(u) \ Locs(t) : between(Me, succ(t, k), y)
  <2>1. k \in Nat /\ k < NSucc BY <1>0
  <2>2. PICK s : s = succ(t, k) OBVIOUS
  <2>3. s \in Good(t) /\ Cardinality(Nearer(Up(Me), Good(t), s)) <= k BY <1>0, <2>1, <2>2, SuccRank
  <2>4. Cardinality(Nearer(Up(Me), Good(t), s)) < NSucc
    <3>1. Cardinality(Nearer(Up(Me), Good(t), s)) \in Nat BY <1>1, NearerFinite
    <3> QED BY <1>0, <2>1, <2>3, <3>1
  <2>5. Rank(Up(Me)) /\ NSucc \in Nat BY <1>0, <1>1, RankUp
  <2>6. s \in Locs(u) \/ (x \in Good(u) /\ x \notin Locs(t) /\ Up(Me)[x] < Up(Me)[s])
    BY <1>2, <2>3, <2>4, <2>5, EvictOne
  <2>7. ASSUME x \in Good(u), x \notin Locs(t), Up(Me)[x] < Up(Me)[s] PROVE between(Me, s, x)
    <3>1. x # Me /\ s \in ID BY <1>1, <2>3, <2>7
    <3> QED BY <1>0, <1>1, <2>7, <3>1, NearerBetween
  <2> QED BY <2>2, <2>6, <2>7
<1>4. ASSUME NEW i \in 0 .. NBIT - 1
      PROVE  \/ closestsuccloc(t, successorID(Me, i)) \in Locs(u)
             \/ \E k \in Good(u) :
                   between(decID(successorID(Me, i)), closestsuccloc(t, successorID(Me, i)), k)
  <2>1. PICK a : a = successorID(Me, i) OBVIOUS
  <2>2. a \in ID BY <2>1, StartID
  <2>3. PICK s : s = closestsuccloc(t, a) OBVIOUS
  <2>4. Nearest(Up(a), Good(t), s) BY <1>0, <2>2, <2>3, SearchRight
  <2>5. Rank(Up(a)) /\ 1 \in Nat BY <2>2, RankUp
  <2>6. s \in Good(t) /\ Cardinality(Nearer(Up(a), Good(t), s)) = 0
    BY <1>1, <2>4, <2>5, NearestNone DEF Nearest
  <2>7. Cardinality(Nearer(Up(a), Good(t), s)) < 1 BY <2>6
  <2>8. PinSet(Up(a), Good(w), 1) \subseteq figure_pins(w) BY <1>2, <2>1
  <2>9. s \in Locs(u) \/ (x \in Good(u) /\ x \notin Locs(t) /\ Up(a)[x] < Up(a)[s])
    BY <2>5, <2>6, <2>7, <2>8, EvictOne
  <2>10. Up(a)[x] < Up(a)[s] => between(decID(a), s, x)
    BY <1>0, <1>1, <2>2, <2>6, NearerBetween
  <2> QED BY <2>1, <2>3, <2>9, <2>10
<1>5. \/ closestpredloc(t, Me, {}) \in Locs(u)
      \/ \E k \in Good(u) : between(closestpredloc(t, Me, {}), Me, k)
  <2>3. PICK s : s = closestpredloc(t, Me, {}) OBVIOUS
  <2>4. Nearest(Down(Me), Good(t), s) BY <1>0, <1>1, <2>3, SearchRight
  <2>5. Rank(Down(Me)) /\ 1 \in Nat BY <1>1, RankUp
  <2>6. s \in Good(t) /\ Cardinality(Nearer(Down(Me), Good(t), s)) = 0
    BY <1>1, <2>4, <2>5, NearestNone DEF Nearest
  <2>7. Cardinality(Nearer(Down(Me), Good(t), s)) < 1 BY <2>6
  <2>9. s \in Locs(u) \/ (x \in Good(u) /\ x \notin Locs(t) /\ Down(Me)[x] < Down(Me)[s])
    BY <1>2, <2>5, <2>6, <2>7, EvictOne
  <2>10. Down(Me)[x] < Down(Me)[s] => between(s, Me, x)
    BY <1>0, <1>1, <2>6, NearerBetween
  <2> QED BY <2>3, <2>9, <2>10
<1>6. ASSUME Len(u.lru) > MaxCached PROVE Locs(u) \subseteq figure_pins(u)
  <2>1. /\ Locs(u) = figure_pins(w) /\ Locs(u) \subseteq Locs(w) /\ Good(u) = Good(w) \cap Locs(u)
    BY <1>6 DEF Evicts
  <2>2. figure_pins(w) = Pinned(w) /\ figure_pins(u) = Pinned(u) BY <1>0, PinsAre
  <2>3. Good(w) \in SUBSET ID /\ Locs(w) \in SUBSET ID /\ Locs(w) # {} /\ Locs(u) # {} BY <1>0, TableLocs
  <2>4. ASSUME NEW r, NEW n \in Nat, PinSet(r, Good(w), n) \subseteq figure_pins(w)
        PROVE  PinSet(r, Good(w), n) \subseteq PinSet(r, Good(u), n)
    <3>1. PinSet(r, Good(w), n) \subseteq Good(u) BY <2>1, <2>4 DEF PinSet
    <3>2. Good(u) \in SUBSET Good(w) BY <2>1
    <3> QED BY <2>3, <3>1, <3>2, PinFewer
  <2>5. closestpred(Locs(w), Me) = closestpred(Locs(u), Me)
    <3>1. PICK a : a = closestpred(Locs(w), Me) OBVIOUS
    <3>2. PICK b : b = closestpred(Locs(u), Me) OBVIOUS
    <3>3. Nearest(Down(Me), Locs(w), a) BY <1>1, <2>3, <3>1, ClosestNearest
    <3>4. Locs(u) \in SUBSET ID BY <2>1, <2>3
    <3>5. Nearest(Down(Me), Locs(u), b) BY <1>1, <2>3, <3>2, <3>4, ClosestNearest
    <3>6. a \in Locs(u) BY <2>1, <2>2, <3>1 DEF Pinned
    <3>7. Down(Me)[a] <= Down(Me)[b] /\ Down(Me)[b] <= Down(Me)[a] /\ a \in ID /\ b \in ID
      BY <2>1, <2>3, <3>3, <3>5, <3>6 DEF Nearest
    <3>8. Rank(Down(Me)) BY <1>1, RankUp
    <3>9. Down(Me)[a] = Down(Me)[b] BY <3>7, <3>8 DEF Rank
    <3> QED BY <3>1, <3>2, <3>7, <3>8, <3>9 DEF Rank
  <2>6. /\ PinSet(Up(Me), Good(w), NSucc) \subseteq PinSet(Up(Me), Good(u), NSucc)
        /\ PinSet(Down(Me), Good(w), 1) \subseteq PinSet(Down(Me), Good(u), 1)
    BY <1>0, <1>2, <2>4
  <2>7. \A i \in 0 .. NBIT - 1 :
           PinSet(Up(successorID(Me, i)), Good(w), 1) \subseteq PinSet(Up(successorID(Me, i)), Good(u), 1)
    BY <1>2, <2>4
  <2>8. Pinned(w) \subseteq Pinned(u) BY <2>5, <2>6, <2>7 DEF Pinned
  <2> QED BY <2>1, <2>2, <2>8
<1> QED BY <1>3, <1>4, <1>5, <1>6 DEF Held

\* Keep keeps what is in S, each once.
LEMMA KeepRight ==
    ASSUME NEW s \in Seq(ID), IsInjective(s), NEW S
    PROVE  /\ Keep(s, S) \in Seq(ID) /\ IsInjective(Keep(s, S))
           /\ Range(Keep(s, S)) = Range(s) \cap S
<1>0. PICK n \in Nat : n = Len(s) /\ DOMAIN s = 1..n OBVIOUS
<1> DEFINE Eqn(a) == a = [i \in 0 .. Len(s) |-> IF i = 0 THEN <<>> ELSE AppendIf(a[i - 1], s[i], S)]
           c == CHOOSE a : Eqn(a)
<1>1. \A i \in 1..n : s[i] \in ID BY <1>0
<1>2. \A q \in Seq(ID), i \in 1..n : AppendIf(q, s[i], S) \in Seq(ID) BY <1>1 DEF AppendIf
<1>3. \E a : Eqn(a)
  <2>1. PICK h : h = [i \in 1..n |-> [q \in Seq(ID) |-> AppendIf(q, s[i], S)]] OBVIOUS
  <2>2. h \in [1..n -> [Seq(ID) -> Seq(ID)]] BY <1>2, <2>1
  <2>3. \A i \in 1..n, q \in Seq(ID) : h[i][q] = AppendIf(q, s[i], S) BY <2>1
  <2>4. <<>> \in Seq(ID) OBVIOUS
  <2>5. PICK a : Steps(Seq(ID), n, <<>>, h, a) BY <2>2, <2>4, StepsExist
  <2>6. a \in [0..n -> Seq(ID)] /\ a[0] = <<>> /\ \A i \in 1..n : a[i] = h[i][a[i - 1]]
    BY <2>5 DEF Steps
  <2>7. ASSUME NEW i \in 0..n PROVE a[i] = IF i = 0 THEN <<>> ELSE AppendIf(a[i - 1], s[i], S)
    <3>1. CASE i = 0 BY <2>6, <3>1
    <3>2. CASE i # 0
      <4>1. i \in 1..n /\ i - 1 \in 0..n BY <3>2
      <4>2. a[i - 1] \in Seq(ID) BY <2>6, <4>1
      <4> QED BY <2>3, <2>6, <3>2, <4>1, <4>2
    <3> QED BY <3>1, <3>2
  <2>8. a = [i \in 0..n |-> a[i]] BY <2>6
  <2>9. Eqn(a) BY <1>0, <2>7, <2>8
  <2> QED BY <2>9
<1>4. Eqn(c) BY <1>3
<1>5. Keep(s, S) = c[n] BY <1>0 DEF Keep
<1> HIDE DEF c
<1>6. c[0] = <<>> /\ \A i \in 1..n : c[i] = AppendIf(c[i - 1], s[i], S)
  <2>1. 0 \in 0..n /\ \A i \in 1..n : i \in 0..n /\ i # 0 OBVIOUS
  <2> QED BY <1>0, <1>4, <2>1
<1> DEFINE Kept1(k, q) == /\ q \in Seq(ID) /\ IsInjective(q)
                          /\ \A x : x \in Range(q) <=> x \in S /\ \E i \in 1..k : s[i] = x
           T == {k \in Nat : k <= n /\ ~Kept1(k, c[k])}
<1>7. Kept1(0, c[0])
  <2>1. DOMAIN c[0] = {} /\ c[0] \in Seq(ID) BY <1>6
  <2> QED BY <2>1 DEF IsInjective, Range
<1>8. ASSUME NEW k \in 1..n, NEW q, Kept1(k - 1, q) PROVE Kept1(k, AppendIf(q, s[k], S))
  <2>1. \A i \in 1..k : i = k \/ i \in 1..(k - 1) OBVIOUS
  <2>2. k \in 1..k /\ \A i \in 1..(k - 1) : i \in 1..k /\ i # k OBVIOUS
  <2>3. CASE s[k] \in S
    <3>1. AppendIf(q, s[k], S) = Append(q, s[k]) BY <2>3 DEF AppendIf
    <3>2. s[k] \notin Range(q)
      <4>1. \A i \in 1..(k - 1) : i \in DOMAIN s /\ k \in DOMAIN s /\ i # k BY <1>0
      <4>2. \A i \in 1..(k - 1) : s[i] # s[k] BY <4>1 DEF IsInjective
      <4> QED BY <1>8, <4>2
    <3>3. PICK z : z = Append(q, s[k]) OBVIOUS
    <3>4. z \in Seq(ID) /\ Range(z) = Range(q) \cup {s[k]} /\ IsInjective(z)
      BY <1>1, <1>8, <3>2, <3>3, RangeAppend
    <3>5. ASSUME NEW x PROVE x \in Range(z) <=> x \in S /\ \E i \in 1..k : s[i] = x
      <4>1. x \in Range(q) <=> x \in S /\ \E i \in 1..(k - 1) : s[i] = x BY <1>8
      <4>2. (\E i \in 1..k : s[i] = x) <=> s[k] = x \/ \E i \in 1..(k - 1) : s[i] = x BY <2>1, <2>2
      <4> QED BY <2>3, <3>4, <4>1, <4>2
    <3> QED BY <3>1, <3>3, <3>4, <3>5
  <2>4. CASE s[k] \notin S
    <3>1. AppendIf(q, s[k], S) = q BY <2>4 DEF AppendIf
    <3>2. ASSUME NEW x PROVE x \in Range(q) <=> x \in S /\ \E i \in 1..k : s[i] = x
      <4>1. x \in Range(q) <=> x \in S /\ \E i \in 1..(k - 1) : s[i] = x BY <1>8
      <4>2. (\E i \in 1..k : s[i] = x) <=> s[k] = x \/ \E i \in 1..(k - 1) : s[i] = x BY <2>1, <2>2
      <4> QED BY <2>4, <4>1, <4>2
    <3> QED BY <1>8, <3>1, <3>2
  <2> QED BY <2>3, <2>4
<1> HIDE DEF Kept1
<1>9. ASSUME T # {} PROVE FALSE
  <2>1. PICK k \in T : \A y \in T : k <= y BY <1>9, LeastNat
  <2>2. k # 0 BY <1>7, <2>1
  <2>3. k \in 1..n /\ k - 1 \in Nat /\ k - 1 <= n /\ k - 1 \notin T BY <2>1, <2>2
  <2>4. Kept1(k - 1, c[k - 1]) BY <2>3
  <2>5. Kept1(k, c[k]) BY <1>6, <1>8, <2>3, <2>4
  <2> QED BY <2>1, <2>5
<1>10. Kept1(n, c[n]) BY <1>9
<1>11. \A x : x \in Range(s) <=> \E i \in 1..n : s[i] = x BY <1>0 DEF Range
<1>12. \A x : x \in Range(c[n]) <=> x \in S /\ x \in Range(s) BY <1>10, <1>11 DEF Kept1
<1> QED BY <1>5, <1>10, <1>12 DEF Kept1

\* A list without repetitions is as long as it has elements.
LEMMA LenCount ==
    ASSUME NEW s \in Seq(ID), IsInjective(s), NEW k \in Nat, k <= Len(s)
    PROVE  /\ IsFiniteSet({s[i] : i \in 1..k}) /\ Cardinality({s[i] : i \in 1..k}) = k
           /\ Cardinality(Range(s)) = Len(s) /\ Len(s) \in Nat
<1>0. Len(s) \in Nat /\ DOMAIN s = 1..Len(s) OBVIOUS
<1>1. ASSUME NEW n \in Nat, n <= Len(s), NEW R, R = {s[i] : i \in 1..n}
      PROVE  IsFiniteSet(R) /\ Cardinality(R) = n
  <2>1. PICK b : b = [i \in 1..n |-> s[i]] OBVIOUS
  <2>2. b \in [1..n -> R] /\ \A i \in 1..n : b[i] = s[i] BY <1>1, <2>1
  <2>3. \A i \in 1..n : i \in DOMAIN s BY <1>0, <1>1
  <2>4. \A i, j \in 1..n : b[i] = b[j] => i = j BY <2>2, <2>3 DEF IsInjective
  <2>5. \A y \in R : \E i \in 1..n : b[i] = y BY <1>1, <2>2
  <2>6. b \in Bijection(1..n, R)
    BY <2>2, <2>4, <2>5 DEF Bijection, Injection, Surjection, IsInjective
  <2>7. IsFiniteSet(1..n) /\ Cardinality(1..n) = n
    <3>1. 1 \in Int /\ n \in Int OBVIOUS
    <3> QED BY <3>1, FS_Interval
  <2>8. ExistsBijection(1..n, R) BY <2>6 DEF ExistsBijection
  <2> QED BY <2>7, <2>8, FS_Bijection
<1>2. Range(s) = {s[i] : i \in 1..Len(s)} BY <1>0, SMTT(30) DEF Range
<1>3. Cardinality(Range(s)) = Len(s)
  <2>1. PICK R : R = {s[i] : i \in 1..Len(s)} OBVIOUS
  <2>2. Len(s) <= Len(s) BY <1>0
  <2>3. Cardinality(R) = Len(s) BY <1>0, <1>1, <2>1, <2>2
  <2> QED BY <1>2, <2>1, <2>3
<1>4. PICK R : R = {s[i] : i \in 1..k} OBVIOUS
<1>5. IsFiniteSet(R) /\ Cardinality(R) = k BY <1>1, <1>4
<1> QED BY <1>0, <1>3, <1>4, <1>5

\* Oldest is all of S, or k of it.
LEMMA OldestIs ==
    ASSUME TableAssumption, NEW t, TableOK(t), NEW k \in Nat, NEW S \in SUBSET Locs(t)
    PROVE  /\ Oldest(t, k, S) \in SUBSET S /\ Cardinality(Oldest(t, k, S)) \in Nat
           /\ Cardinality(Oldest(t, k, S)) <= k
           /\ Oldest(t, k, S) = S \/ Cardinality(Oldest(t, k, S)) = k
<1>1. t.lru \in Seq(ID) /\ IsInjective(t.lru) BY DEF TableOK
<1>2. PICK c : c = Keep(t.lru, S) OBVIOUS
<1>3. c \in Seq(ID) /\ IsInjective(c) /\ Range(c) = S
  <2>1. c \in Seq(ID) /\ IsInjective(c) /\ Range(c) = Range(t.lru) \cap S BY <1>1, <1>2, KeepRight
  <2> QED BY <2>1 DEF Locs
<1>4. Len(c) \in Nat /\ DOMAIN c = 1..Len(c) BY <1>3
<1>5. PICK m \in Nat : /\ m = IF Len(c) < k THEN Len(c) ELSE k
                       /\ m <= Len(c) /\ m <= k /\ (m = Len(c) \/ m = k)
  <2>1. CASE Len(c) < k
    <3>1. Len(c) = (IF Len(c) < k THEN Len(c) ELSE k) /\ Len(c) <= Len(c) /\ Len(c) <= k
      BY <1>4, <2>1
    <3> QED BY <1>4, <3>1
  <2>2. CASE ~(Len(c) < k)
    <3>1. k = (IF Len(c) < k THEN Len(c) ELSE k) /\ k <= Len(c) /\ k <= k BY <1>4, <2>2
    <3> QED BY <3>1
  <2> QED BY <2>1, <2>2, SMTT(30)
<1>6. PICK O : O = {c[i] : i \in 1..m} OBVIOUS
<1>7. Oldest(t, k, S) = O BY <1>2, <1>5, <1>6 DEF Oldest
<1>8. m <= Len(c) /\ m <= k BY <1>5
<1>9. Cardinality(O) = m BY <1>3, <1>6, <1>8, LenCount
<1>10. O \in SUBSET S
  <2>1. \A i \in 1..m : i \in DOMAIN c BY <1>4, <1>8
  <2> QED BY <1>3, <1>6, <2>1 DEF Range
<1>11. m = Len(c) => O = S BY <1>3, <1>4, <1>6 DEF Range
<1>12. m = Len(c) \/ m = k BY <1>5
<1> QED BY <1>7, <1>8, <1>9, <1>10, <1>11, <1>12

\* What remove leaves.
LEMMA RemoveRight ==
    ASSUME TableAssumption, NEW t, TableOK(t), NEW gone, Me \notin gone
    PROVE  /\ TableOK(remove(t, gone)) /\ Locs(remove(t, gone)) = Locs(t) \ gone
           /\ Good(remove(t, gone)) = Good(t) \cap Locs(remove(t, gone))
<1>1. t.lru \in Seq(ID) /\ IsInjective(t.lru) /\ t.dead \in SUBSET ID /\ t.dead \subseteq Locs(t)
      /\ Me \in Good(t)
  BY DEF TableOK
<1>2. PICK c : c = Keep(t.lru, Locs(t) \ gone) OBVIOUS
<1>3. c \in Seq(ID) /\ IsInjective(c) /\ Range(c) = Locs(t) \ gone
  <2>1. c \in Seq(ID) /\ IsInjective(c) /\ Range(c) = Range(t.lru) \cap (Locs(t) \ gone)
    BY <1>1, <1>2, KeepRight
  <2> QED BY <2>1 DEF Locs
<1>4. PICK u : u = remove(t, gone) OBVIOUS
<1>5. u = [lru |-> c, dead |-> t.dead \ gone] BY <1>2, <1>4 DEF remove
<1>6. u \in [lru : Seq(ID), dead : SUBSET ID] /\ u.lru = c /\ u.dead = t.dead \ gone BY <1>1, <1>3, <1>5
<1>7. Locs(u) = Locs(t) \ gone BY <1>3, <1>6 DEF Locs
<1>8. Good(u) = Good(t) \cap Locs(u) BY <1>6, <1>7 DEF Good, good
<1>9. Me \in Good(u) BY <1>1, <1>7, <1>8 DEF Good
<1>10. u.dead \subseteq Locs(u) BY <1>1, <1>6, <1>7
<1>11. TableOK(u) BY <1>3, <1>6, <1>9, <1>10 DEF TableOK
<1> QED BY <1>4, <1>7, <1>8, <1>11

\* Evicting keeps the pins, and, if enough could not go, nothing else.
LEMMA EvictRight ==
    ASSUME TableAssumption, NEW t, TableOK(t), NEW k \in Nat
    PROVE  /\ TableOK(evict(t, k)) /\ figure_pins(t) \subseteq Locs(evict(t, k))
           /\ Locs(evict(t, k)) \subseteq Locs(t)
           /\ Good(evict(t, k)) = Good(t) \cap Locs(evict(t, k))
           /\ Locs(evict(t, k)) = figure_pins(t) \/ (k # 0 /\ Len(evict(t, k).lru) = Len(t.lru) - k)
<1>0. figure_pins(t) \subseteq Locs(t) /\ Me \in figure_pins(t) BY PinsLocs
<1>1. PICK pinned : pinned = figure_pins(t) OBVIOUS
<1>2. PICK B \in SUBSET Locs(t) : B = {y \in Locs(t) \ pinned : ~good(t, y)} OBVIOUS
<1>3. PICK bad : bad = Oldest(t, k, B) OBVIOUS
<1>4. bad \in SUBSET B /\ Cardinality(bad) \in Nat /\ Cardinality(bad) <= k BY <1>3, OldestIs
<1>5. k - Cardinality(bad) \in Nat BY <1>4
<1>6. PICK A \in SUBSET Locs(t) : A = Locs(t) \ (pinned \cup bad) OBVIOUS
<1>7. PICK any : any = Oldest(t, k - Cardinality(bad), A) OBVIOUS
<1>8. /\ any \in SUBSET A /\ Cardinality(any) \in Nat
      /\ any = A \/ Cardinality(any) = k - Cardinality(bad)
  BY <1>5, <1>7, OldestIs
<1>9. PICK gone : gone = IF k = 0 THEN Locs(t) \ pinned ELSE bad \cup any OBVIOUS
<1>10. PICK u : u = evict(t, k) OBVIOUS
<1>11. u = remove(t, gone) BY <1>1, <1>2, <1>3, <1>6, <1>7, <1>9, <1>10 DEF evict
<1>12. gone \subseteq Locs(t) \ pinned BY <1>2, <1>4, <1>6, <1>8, <1>9
<1>13. Me \notin gone BY <1>0, <1>1, <1>12
<1>14. TableOK(u) /\ Locs(u) = Locs(t) \ gone /\ Good(u) = Good(t) \cap Locs(u)
  BY <1>11, <1>13, RemoveRight
<1>15. pinned \subseteq Locs(u) /\ Locs(u) \subseteq Locs(t) BY <1>0, <1>1, <1>12, <1>14
<1>16. CASE k = 0 \/ any = A
  <2>1. gone = Locs(t) \ pinned BY <1>2, <1>4, <1>6, <1>9, <1>16
  <2>2. Locs(u) = pinned BY <1>0, <1>1, <1>14, <2>1
  <2> QED BY <1>1, <1>10, <1>14, <1>15, <2>2
<1>17. CASE k # 0 /\ Cardinality(any) = k - Cardinality(bad)
  <2>1. gone = bad \cup any /\ bad \cap any = {} BY <1>4, <1>6, <1>8, <1>9, <1>17
  <2>2. Locs(t) \in SUBSET ID /\ bad \in SUBSET ID /\ any \in SUBSET ID /\ gone \in SUBSET ID
    BY <1>2, <1>4, <1>6, <1>8, <1>12, TableLocs
  <2>3. IsFiniteSet(Locs(t)) /\ IsFiniteSet(bad) /\ IsFiniteSet(any) BY <2>2, IdFinite
  <2>4. Cardinality(bad \cap any) = 0 BY <2>1, FS_EmptySet
  <2>11. Cardinality(bad \cup any) = Cardinality(bad) + Cardinality(any) - Cardinality(bad \cap any)
    BY <2>3, FS_Union
  <2>5. Cardinality(gone) = k BY <1>4, <1>8, <1>17, <2>1, <2>4, <2>11
  <2>6. Locs(t) \cap gone = gone BY <1>12
  <2>12. Cardinality(Locs(t) \ gone) = Cardinality(Locs(t)) - Cardinality(Locs(t) \cap gone)
    BY <2>3, FS_Difference
  <2>7. Cardinality(Locs(u)) = Cardinality(Locs(t)) - k BY <1>14, <2>5, <2>6, <2>12
  <2>8. t.lru \in Seq(ID) /\ IsInjective(t.lru) /\ u.lru \in Seq(ID) /\ IsInjective(u.lru)
    BY <1>14 DEF TableOK
  <2>9. 0 <= Len(t.lru) /\ 0 <= Len(u.lru) /\ 0 \in Nat BY <2>8
  <2>10. Cardinality(Locs(t)) = Len(t.lru) /\ Cardinality(Locs(u)) = Len(u.lru)
    BY <2>8, <2>9, LenCount DEF Locs
  <2> QED BY <1>1, <1>10, <1>14, <1>15, <1>17, <2>7, <2>10
<1> QED BY <1>8, <1>16, <1>17

\* A lookup changes only the order.
LEMMA LookupOK ==
    ASSUME TableAssumption, NEW t, TableOK(t), NEW x \in Locs(t)
    PROVE  /\ TableOK(lookup(t, x)) /\ Locs(lookup(t, x)) = Locs(t)
           /\ lookup(t, x).dead = t.dead
<1>1. t.lru \in Seq(ID) /\ IsInjective(t.lru) /\ t.dead \in SUBSET ID /\ t.dead \subseteq Locs(t)
      /\ Me \in Good(t) /\ t = [lru |-> t.lru, dead |-> t.dead]
  BY DEF TableOK
<1>2. x \in ID BY TableLocs
<1>3. PICK c : c = Keep(t.lru, Locs(t) \ {x}) OBVIOUS
<1>4. c \in Seq(ID) /\ IsInjective(c) /\ Range(c) = Locs(t) \ {x}
  <2>1. c \in Seq(ID) /\ IsInjective(c) /\ Range(c) = Range(t.lru) \cap (Locs(t) \ {x})
    BY <1>1, <1>3, KeepRight
  <2> QED BY <2>1 DEF Locs
<1>5. PICK d : d = Append(c, x) OBVIOUS
<1>6. d \in Seq(ID) /\ Range(d) = Locs(t) /\ IsInjective(d)
  <2>1. x \notin Range(c) BY <1>4
  <2>2. d \in Seq(ID) /\ Range(d) = Range(c) \cup {x} /\ IsInjective(d)
    BY <1>2, <1>4, <1>5, <2>1, RangeAppend
  <2> QED BY <1>4, <2>2
<1>7. PICK u : u = lookup(t, x) OBVIOUS
<1>8. u = [lru |-> d, dead |-> t.dead] BY <1>1, <1>3, <1>5, <1>7 DEF lookup
<1>9. u \in [lru : Seq(ID), dead : SUBSET ID] /\ u.lru = d /\ u.dead = t.dead BY <1>1, <1>6, <1>8
<1>10. Locs(u) = Locs(t) BY <1>6, <1>9 DEF Locs
<1>11. Good(u) = Good(t) BY <1>9, <1>10 DEF Good, good
<1>12. TableOK(u) BY <1>1, <1>6, <1>9, <1>10, <1>11 DEF TableOK
<1> QED BY <1>7, <1>9, <1>10, <1>12

\* So is a change of who is dead, but not the node itself.
LEMMA DeadOK ==
    ASSUME TableAssumption, NEW t, TableOK(t), NEW D \in SUBSET Locs(t), Me \notin D,
           NEW u, u = [lru |-> t.lru, dead |-> D]
    PROVE  TableOK(u) /\ Locs(u) = Locs(t)
<1>1. t.lru \in Seq(ID) /\ IsInjective(t.lru) /\ Me \in Locs(t) BY DEF TableOK, Good
<1>2. D \in SUBSET ID BY TableLocs
<1>3. u \in [lru : Seq(ID), dead : SUBSET ID] /\ u.lru = t.lru /\ u.dead = D BY <1>1, <1>2
<1>4. Locs(u) = Locs(t) BY <1>3 DEF Locs
<1>5. Me \in Good(u) BY <1>1, <1>3, <1>4 DEF Good, good
<1> QED BY <1>1, <1>3, <1>4, <1>5 DEF TableOK

\* An insertion of a new location, which may evict others.
LEMMA InsertNew ==
    ASSUME TableAssumption, NEW t, TableOK(t), NEW x \in Others, x \notin Locs(t), NEW newer
    PROVE  TableOK(realinsert(t, x, newer)) /\ Held(t, realinsert(t, x, newer))
<1>0. x \in ID /\ MaxCached \in Nat BY DEF TableAssumption
<1>1. t.lru \in Seq(ID) /\ IsInjective(t.lru) /\ t.dead \in SUBSET ID /\ t.dead \subseteq Locs(t)
      /\ Me \in Good(t) /\ t = [lru |-> t.lru, dead |-> t.dead]
  BY DEF TableOK
<1>2. PICK d : d = Append(t.lru, x) OBVIOUS
<1>3. d \in Seq(ID) /\ Range(d) = Locs(t) \cup {x} /\ IsInjective(d) /\ Len(d) \in Nat
  <2>1. x \notin Range(t.lru) BY DEF Locs
  <2>2. d \in Seq(ID) /\ Range(d) = Range(t.lru) \cup {x} /\ IsInjective(d)
    BY <1>0, <1>1, <1>2, <2>1, RangeAppend
  <2>3. Len(d) \in Nat BY <2>2
  <2> QED BY <2>2, <2>3 DEF Locs
<1>4. PICK w : w = [t EXCEPT !.lru = Append(@, x)] OBVIOUS
<1>5. w = [lru |-> d, dead |-> t.dead] BY <1>1, <1>2, <1>4
<1>6. w \in [lru : Seq(ID), dead : SUBSET ID] /\ w.lru = d /\ w.dead = t.dead BY <1>1, <1>3, <1>5
<1>7. Locs(w) = Locs(t) \cup {x} BY <1>3, <1>6 DEF Locs
<1>8. Good(w) = Good(t) \cup {x} BY <1>1, <1>6, <1>7 DEF Good, good
<1>9. TableOK(w) BY <1>1, <1>3, <1>6, <1>7, <1>8 DEF TableOK
<1>10. PICK u : u = realinsert(t, x, newer) OBVIOUS
<1>11. u = IF Len(w.lru) > MaxCached THEN evict(w, Len(w.lru) - MaxCached) ELSE w
  BY <1>4, <1>10 DEF realinsert
<1>12. CASE Len(w.lru) > MaxCached
  <2>1. PICK k \in Nat : k = Len(w.lru) - MaxCached /\ k # 0 BY <1>0, <1>3, <1>6, <1>12
  <2>2. u = evict(w, k) BY <1>11, <1>12, <2>1
  <2>3. /\ TableOK(u) /\ figure_pins(w) \subseteq Locs(u) /\ Locs(u) \subseteq Locs(w)
        /\ Good(u) = Good(w) \cap Locs(u)
        /\ Locs(u) = figure_pins(w) \/ Len(u.lru) = Len(w.lru) - k
    BY <1>9, <2>1, <2>2, EvictRight, SMTT(30)
  <2>4. Len(u.lru) > MaxCached => Locs(u) = figure_pins(w) BY <1>0, <1>3, <1>6, <2>1, <2>3
  <2>5. Evicts(t, x, w, u) BY <1>0, <1>8, <1>9, <2>3, <2>4 DEF Evicts
  <2> QED BY <1>10, <2>3, <2>5, EvictHeld
<1>13. CASE ~(Len(w.lru) > MaxCached)
  <2>1. u = w /\ Len(u.lru) <= MaxCached /\ Len(u.lru) \in Nat BY <1>0, <1>3, <1>6, <1>11, <1>13
  <2>2. Locs(t) \subseteq Locs(u) BY <1>7, <2>1
  <2> QED BY <1>9, <1>10, <2>1, <2>2, SameHeld
<1> QED BY <1>12, <1>13

\* One step of the table.
LEMMA TableStep ==
    ASSUME TableAssumption, TableOK(lt), TableNext
    PROVE  TableOK(lt') /\ Held(lt, lt')
<1>0. lt.dead \in SUBSET Locs(lt) /\ Me \in Locs(lt) /\ Me \notin lt.dead
      /\ lt = [lru |-> lt.lru, dead |-> lt.dead]
  BY DEF TableOK, Good, good
<1>1. ASSUME TableOK(lt'), Locs(lt') = Locs(lt) PROVE TableOK(lt') /\ Held(lt, lt')
  <2>1. PICK u : u = lt' OBVIOUS
  <2>2. Len(u.lru) \in Nat
    <3>1. u.lru \in Seq(ID) BY <1>1, <2>1 DEF TableOK
    <3> QED BY <3>1
  <2>3. Held(lt, u) BY <1>1, <2>1, <2>2, SameHeld
  <2> QED BY <1>1, <2>1, <2>3
<1>2. ASSUME NEW x \in Others, NEW newer \in BOOLEAN, lt' = realinsert(lt, x, newer)
      PROVE  TableOK(lt') /\ Held(lt, lt')
  <2>1. CASE x \in Locs(lt)
    <3>1. PICK q : q = lookup(lt, x) OBVIOUS
    <3>2. TableOK(q) /\ Locs(q) = Locs(lt) /\ q.dead = lt.dead BY <2>1, <3>1, LookupOK
    <3>3. PICK D : D = IF newer THEN lt.dead \ {x} ELSE lt.dead OBVIOUS
    <3>4. D \in SUBSET Locs(q) /\ Me \notin D BY <1>0, <3>2, <3>3
    <3>5. q = [lru |-> q.lru, dead |-> q.dead] BY <3>2 DEF TableOK
    <3>6. lt' = [q EXCEPT !.dead = IF newer THEN @ \ {x} ELSE @] BY <1>2, <2>1, <3>1 DEF realinsert
    <3>7. lt' = [lru |-> q.lru, dead |-> D] BY <3>2, <3>3, <3>5, <3>6
    <3>8. TableOK(lt') /\ Locs(lt') = Locs(q) BY <3>2, <3>4, <3>7, DeadOK
    <3> QED BY <1>1, <3>2, <3>8
  <2>2. CASE x \notin Locs(lt)
    <3>1. TableOK(realinsert(lt, x, newer)) /\ Held(lt, realinsert(lt, x, newer)) BY <2>2, InsertNew
    <3> QED BY <1>2, <3>1
  <2> QED BY <2>1, <2>2
<1>3. ASSUME NEW x \in Locs(lt), lt' = lookup(lt, x) PROVE TableOK(lt') /\ Held(lt, lt')
  BY <1>1, <1>3, LookupOK
<1>4. CASE set_alive
  <2>1. PICK x \in Locs(lt) \ {Me}, up \in BOOLEAN :
            lt' = [lt EXCEPT !.dead = IF up THEN @ \ {x} ELSE @ \cup {x}]
    BY <1>4 DEF set_alive
  <2>2. PICK D : D = IF up THEN lt.dead \ {x} ELSE lt.dead \cup {x} OBVIOUS
  <2>3. D \in SUBSET Locs(lt) /\ Me \notin D BY <1>0, <2>1, <2>2
  <2>4. lt' = [lru |-> lt.lru, dead |-> D] BY <1>0, <2>1, <2>2
  <2>5. TableOK(lt') /\ Locs(lt') = Locs(lt) BY <2>3, <2>4, DeadOK
  <2> QED BY <1>1, <2>5
<1>5. CASE flush
  <2>1. PICK u : u = evict(lt, 0) OBVIOUS
  <2>2. 0 \in Nat OBVIOUS
  <2>3. /\ TableOK(u) /\ figure_pins(lt) \subseteq Locs(u) /\ Locs(u) \subseteq Locs(lt)
        /\ Good(u) = Good(lt) \cap Locs(u) /\ Locs(u) = figure_pins(lt)
    BY <2>1, <2>2, EvictRight
  <2>4. Me \in ID /\ Me \in Good(lt) BY TableLocs
  <2>5. Evicts(lt, Me, lt, u) BY <2>3, <2>4 DEF Evicts
  <2>6. Held(lt, u) BY <2>5, EvictHeld
  <2> QED BY <1>5, <2>1, <2>3, <2>6 DEF flush
<1> QED BY <1>2, <1>3, <1>4, <1>5 DEF TableNext, Insert, Lookup

\* A search of the location table finds the nearest good node in its direction,
\* however many dead ones lie between, and no insertion, lookup, death or flush
\* makes a node forget one of its first NSucc - 1 successors, its predecessor or
\* a finger that is alive unless a nearer node took its place; nor does the table
\* keep more than max_cachedlocs locations that are not pinned.
THEOREM TableSafe == ASSUME TableAssumption PROVE TableSpec => TableRight
<1>1. TableInit => TableOK(lt)
  <2> SUFFICES ASSUME TableInit PROVE TableOK(lt) OBVIOUS
  <2>1. Me \in ID BY DEF TableAssumption
  <2>2. lt = [lru |-> <<Me>>, dead |-> {}] BY DEF TableInit
  <2>3. lt.lru = <<Me>> /\ lt.dead = {} /\ lt \in [lru : Seq(ID), dead : SUBSET ID] BY <2>1, <2>2
  <2>4. DOMAIN <<Me>> = {1} /\ <<Me>>[1] = Me OBVIOUS
  <2>5. IsInjective(lt.lru) /\ Locs(lt) = {Me} BY <2>3, <2>4 DEF IsInjective, Locs, Range
  <2> QED BY <2>3, <2>5 DEF TableOK, Good, good
<1>2. TableOK(lt) /\ [TableNext]_lt => TableOK(lt)' /\ [PinsHeld]_lt
  <2> SUFFICES ASSUME TableOK(lt), [TableNext]_lt PROVE TableOK(lt)' /\ [PinsHeld]_lt OBVIOUS
  <2>1. CASE TableNext
    <3>1. TableOK(lt') /\ Held(lt, lt') BY <2>1, TableStep
    <3>2. PinsHeld BY <3>1 DEF Held, PinsHeld
    <3> QED BY <3>1, <3>2
  <2>2. CASE UNCHANGED lt BY <2>2
  <2> QED BY <2>1, <2>2
<1>3. TableOK(lt) => NearestFound BY TableOKFound
<1> QED BY <1>1, <1>2, <1>3, PTL DEF TableSpec, TableRight
===============================================================================
