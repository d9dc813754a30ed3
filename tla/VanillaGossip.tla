---------------------------- MODULE VanillaGossip ----------------------------
(* The exec phase of VanillaXGossip: every peer runs gpsi's gossip loop in a  *)
(* single-threaded event loop.  Received messages are handled only while the  *)
(* loop waits, inside insertDHT or between rounds.  A message travels through *)
(* the DHT: the sender's lsd stores it at the successor of a random ID, whose *)
(* lsd hands it to the local gpsi over a Unix socket; lsd also stores it at   *)
(* NumPut - 1 further successors.                                             *)
EXTENDS GossipLists, FiniteSets

CONSTANTS N,            \* peers 1..N, numbered in ring order
          Docs,         \* Docs[p][s]: documents of peer p with signature s
          rounds,       \* number of gossip rounds
          NumPut,       \* dhash.replica: successors a block is stored at
          consume_failed_msgs,
          LateStores,   \* may a store that timed out at the sender arrive later?
          LostReads,    \* may gpsi fail to read a message lsd accepted for it?
          MaxFaults     \* bound: copied, late and lost messages in a behaviour

Peer == 1..N

ASSUME VanillaAssumption ==
    /\ N \in Nat \ {0} /\ rounds \in Nat /\ NumPut \in 1..N /\ Holders = {}
    /\ Docs \in [Peer -> [Sig -> Nat]]
    /\ consume_failed_msgs \in BOOLEAN /\ LateStores \in BOOLEAN /\ LostReads \in BOOLEAN
    /\ MaxFaults \in Nat

\* Unit can be halved once for every round of every peer, without a remainder:
\* the integers of the model are then as exact as the doubles of the code.
ExactHalving == \E half \in [0..(N * rounds) -> 0..Unit] : Halves(half, N * rounds)

VARIABLES totalT,       \* totalT[p]: the lists of peer p, merged list first
          txseq,        \* the round each peer is in
          gossipdone,
          insert,       \* insert[p]: the store request p awaits in insertDHT, if any
          stores,       \* other DHash store RPCs that may still be delivered
          gsock,        \* gsock[p]: messages accepted for p, not yet read
          faults        \* history: messages copied, delivered late or lost

vars == <<totalT, txseq, gossipdone, insert, stores, gsock, faults>>

\* A request to store a message at a peer.  The message is the merged list of
\* the sender, copied when makeKeyValue builds it.
Request(to, p, list) == [to |-> to, msg |-> [src |-> p, seq |-> txseq[p], list |-> list]]

\* The k-th successor of peer p on the ring.
succ(p, k) == ((p - 1 + k) % N) + 1

Init ==
    /\ totalT = [p \in Peer |-> <<calcfreq(Docs[p])>>]
    /\ txseq = [p \in Peer |-> 0]
    /\ gossipdone = [p \in Peer |-> FALSE]
    /\ insert = [p \in Peer |-> {}]
    /\ stores = {}
    /\ gsock = [p \in Peer |-> {}]
    /\ faults = 0

\* A gossip round up to the wait in insertDHT: merge, then send the merged list
\* to a random ID.
GossipRound(p) ==
    /\ insert[p] = {} /\ ~gossipdone[p] /\ txseq[p] # rounds
    /\ totalT' = [totalT EXCEPT ![p] = mergelists(@)]
    /\ \E q \in Peer : insert' = [insert EXCEPT ![p] = {Request(q, p, totalT'[p][1])}]
    /\ UNCHANGED <<txseq, gossipdone, stores, gsock, faults>>

\* Round `rounds` and the later ones: the peer sends no more, it only runs
\* mergelists_nogossip.  (txseq stops counting one past rounds.)
QuietRound(p) ==
    /\ insert[p] = {} /\ (gossipdone[p] \/ txseq[p] = rounds)
    /\ gossipdone' = [gossipdone EXCEPT ![p] = TRUE]
    /\ totalT' = [totalT EXCEPT ![p] = mergelists_nogossip(@)]
    /\ txseq' = [txseq EXCEPT ![p] = IF @ > rounds THEN @ ELSE @ + 1]
    /\ UNCHANGED <<insert, stores, gsock, faults>>

\* Mutant: the round is not counted.
EndRound_nocount(p) ==
    /\ insert' = [insert EXCEPT ![p] = {}]
    /\ UNCHANGED txseq

\* What is left of the round when insertDHT returns.
EndRound(p) ==
    /\ txseq' = [txseq EXCEPT ![p] = @ + 1]
    /\ insert' = [insert EXCEPT ![p] = {}]

\* One more message is copied, late or lost.
Fault == faults < MaxFaults /\ faults' = faults + 1

\* The RPCs in R will still be served; the others fail, which nobody notices.
Pending(R) ==
    /\ stores' = stores \cup R
    /\ IF R = {} THEN UNCHANGED faults ELSE Fault

\* insert_lookup_cb: the stores issued for the replicas of request r.
ReplicaStores(r) == {[r EXCEPT !.to = succ(@, k)] : k \in 1..(NumPut - 1)}

\* The primary store succeeds: the destination's lsd has written the message to
\* gpsi's socket, the insert reports DHASH_OK and the replica stores follow.
InsertOK(p) ==
    \E r \in insert[p] :
        /\ gsock' = [gsock EXCEPT ![r.to] = @ \cup {r.msg}]
        /\ \E R \in SUBSET ReplicaStores(r) : Pending(R)
        /\ EndRound(p)
        /\ UNCHANGED <<totalT, gossipdone>>

\* Mutant: a failed message is just forgotten.
ConsumeFailed_not(p) == insert[p] # {} /\ UNCHANGED totalT

\* status != SUCC: "send" the message to yourself.
ConsumeFailed(p) ==
    totalT' = IF consume_failed_msgs
              THEN [totalT EXCEPT ![p][1] = multiplyfreq(@)]
              ELSE totalT

\* The insert fails without delivering: lookup error, refused store, no socket.
InsertFail(p) ==
    /\ insert[p] # {}
    /\ ConsumeFailed(p)
    /\ EndRound(p)
    /\ UNCHANGED <<gossipdone, stores, gsock, faults>>

\* dhash_store::timed_out reports the failure while the RPC is still pending.
InsertTimeout(p) ==
    /\ LateStores /\ insert[p] # {}
    /\ ConsumeFailed(p)
    /\ Pending(insert[p])
    /\ EndRound(p)
    /\ UNCHANGED <<gossipdone, gsock>>

\* A pending store RPC reaches its destination.
StoreArrives ==
    \E r \in stores :
        /\ stores' = stores \ {r}
        /\ gsock' = [gsock EXCEPT ![r.to] = @ \cup {r.msg}]
        /\ UNCHANGED <<totalT, txseq, gossipdone, insert, faults>>

\* readgossip: a message becomes one more list to merge.
ReadGossip(p) ==
    \E m \in gsock[p] :
        /\ gsock' = [gsock EXCEPT ![p] = @ \ {m}]
        /\ \/ totalT' = [totalT EXCEPT ![p] = Append(@, m.list)] /\ UNCHANGED faults
           \/ LostReads /\ totalT' = totalT /\ Fault
        /\ UNCHANGED <<txseq, gossipdone, insert, stores>>

Next ==
    \/ \E p \in Peer :
          \/ GossipRound(p) \/ QuietRound(p)
          \/ InsertOK(p) \/ InsertFail(p) \/ InsertTimeout(p)
          \/ ReadGossip(p)
    \/ StoreArrives

\* The event loop keeps running: timers fire, inserts return (STORE_TIMEOUT),
\* readable sockets are read.
Fairness ==
    \A p \in Peer :
        /\ WF_vars(GossipRound(p) \/ QuietRound(p))
        /\ WF_vars(InsertOK(p) \/ InsertFail(p) \/ InsertTimeout(p))
        /\ WF_vars(ReadGossip(p))

Spec == Init /\ [][Next]_vars
FairSpec == Spec /\ Fairness

-------------------------------------------------------------------------------
(* Properties.                                                                *)

\* Every list in the system: held, being inserted, pending or waiting.
Requests == stores \cup UNION {insert[p] : p \in Peer}
Messages == {r.msg : r \in Requests} \cup UNION {gsock[p] : p \in Peer}
Lists == {m.list : m \in Messages} \cup UNION {{totalT[p][i] : i \in DOMAIN totalT[p]} : p \in Peer}

\* Every peer keeps its merged list and awaits one insert at most; every list,
\* held or under way, has its dummy and only known signatures.
TypeOK ==
    /\ \A p \in Peer : totalT[p] # <<>> /\ Cardinality(insert[p]) <= 1
    /\ txseq \in [Peer -> 0..(rounds + 1)]
    /\ gossipdone \in [Peer -> BOOLEAN]
    /\ \A m \in Messages : m.src \in Peer /\ m.seq \in 0..rounds
    /\ \A r \in Requests : r.to \in Peer
    /\ \A T \in Lists : IsList(T)

\* A list is well formed and all its weights equal the weight of its dummy: a
\* signature a peer has never heard of has the weight it would have had, had the
\* peer carried it with frequency zero from the start.
WeightsAgree == TypeOK /\ \A T \in Lists : SameWeights(T)

\* An estimate f/w never leaves the range of the peers' own document counts,
\* whatever is lost, duplicated or delivered late, and wherever its list is:
\* also that of a signature the peer learns of late, whose weight is the dummy's.
EstimateInRange ==
    WeightsAgree /\ \A T \in Lists, s \in Sig :
        \E p, q \in Peer :
            /\ Docs[p][s] * At(T, s).w <= At(T, s).f
            /\ At(T, s).f <= Docs[q][s] * At(T, s).w

\* The mass of component c ("f" or "w") of signature s, by place.
Kept(s, c) == [p \in Peer |-> At(totalT[p][1], s)[c]]
Inbox(s, c) == [p \in Peer |-> SeqMass(Tail(totalT[p]), s, c)]
MsgMass(M, s, c) == SentMass(N, rounds, M, s, c)
Wire(s, c) == [p \in Peer |-> MsgMass({r.msg : r \in insert[p]}, s, c)]
Sock(s, c) == [p \in Peer |-> MsgMass(gsock[p], s, c)]
StartMass(s, c) == [p \in Peer |-> IF c = "w" THEN Unit ELSE Docs[p][s] * Unit]

\* "await" while the peer is inside insertDHT.
Phase == [p \in Peer |-> IF insert[p] = {} THEN "sleep" ELSE "await"]

\* All the mass of component c of signature s.
TotalMass(s, c) ==
    SumTo(N, Kept(s, c)) + SumTo(N, Inbox(s, c)) + SumTo(N, Wire(s, c)) + SumTo(N, Sock(s, c))

\* Mass conservation for every signature, while all peers still gossip and no
\* message has been copied, left on its way by a timeout, or lost.
MassConserved ==
    consume_failed_msgs /\ faults = 0 /\ (\A p \in Peer : ~gossipdone[p]) =>
        \A s \in Sig, c \in {"f", "w"} : TotalMass(s, c) = SumTo(N, StartMass(s, c))

\* What consuming failed messages is for, "to preserve mass conservation": mass
\* is conserved however the DHT delivers what is stored in it.
MassPreserved ==
    (\A p \in Peer : ~gossipdone[p]) =>
        \A s \in Sig, c \in {"f", "w"} : TotalMass(s, c) = SumTo(N, StartMass(s, c))

\* What push-sum is about: the component c of signature s.
PS(s, c) == INSTANCE PushSum WITH pc <- Phase, done <- gossipdone,
    Start <- StartMass(s, c), kept <- Kept(s, c), wire <- Wire(s, c),
    sock <- Sock(s, c), inbox <- Inbox(s, c)

\* The exec loop implements push-sum for the frequency and for the weight of
\* every signature, up to the first fault of the DHT: each step halves, moves,
\* bounces or drops mass as PushSum allows, and does so for the weight of a
\* signature a list does not hold.
ImplementsPushSum ==
    /\ \A s \in Sig, c \in {"f", "w"} : PS(s, c)!Init
    /\ [][\A s \in Sig, c \in {"f", "w"} : faults' > 0 \/ [PS(s, c)!Next]_(PS(s, c)!vars)]_vars

\* Every peer comes to the end of its rounds, also if every insert fails.
AllFinish == <>(\A p \in Peer : gossipdone[p])
===============================================================================
