------------------------------- MODULE XGossip -------------------------------
(* The exec phase of XGossip: signatures are gossiped within teams.  A team   *)
(* is a set of ring IDs; the peer that owns one of them keeps a vector of     *)
(* lists for the team.  In every round a peer merges the lists of all its     *)
(* teams first and then sends, team by team, the merged list to the owner of  *)
(* a random ID of the team, waiting for each insert and a pause after it.     *)
(* lsd also stores every message at NumPut - 1 further successors, which need *)
(* not be of the team.                                                        *)
EXTENDS GossipLists, FiniteSets, Functions

CONSTANTS N,            \* peers 1..N, numbered in ring order
          K,            \* teams 1..K, in the order of their index in totalT
          TeamIDs,      \* TeamIDs[t]: the peers that own the IDs of team t, in order
          Freq,         \* Freq[p][t][s]: frequency of s at member p after the init phase
          rounds,       \* number of gossip rounds
          killround,    \* killround[p]: the round p is killed in (-1: never)
          consume_failed_msgs,  \* consume_failed_msgs[p]: the option peer p was started with
          LateLoad,     \* the peers that read their log.init after others have started
          NumPut,       \* dhash.replica: successors a block is stored at
          LateStores,   \* may a store that timed out at the sender arrive later?
          MaxFaults     \* bound: copied and late messages in a behaviour

Peer == 1..N
Team == 1..K

Members(t) == Range(TeamIDs[t])
TeamsOf(p) == {t \in Team : p \in Members(t)}

ASSUME XGossipAssumption ==
    /\ N \in Nat \ {0} /\ K \in Nat /\ rounds \in Nat
    /\ consume_failed_msgs \in [Peer -> BOOLEAN] /\ LateLoad \subseteq Peer
    /\ NumPut \in Nat \ {0} /\ LateStores \in BOOLEAN /\ MaxFaults \in Nat
    /\ \A t \in Team : Members(t) \subseteq Peer
    /\ killround \in [Peer -> {-1} \cup (1..rounds)]
    /\ Freq \in [Peer -> [Team -> [Sig -> Nat]]]

\* The integers of the model are as exact as the doubles of the code: Unit can be
\* halved once for every round of every peer.
ExactHalving == \E half \in [0..(N * rounds) -> 0..Unit] : Halves(half, N * rounds)

VARIABLES totalT,       \* totalT[p][t]: the lists p keeps for team t, merged list first
          phase,        \* "load", "sleep", "await" (in insertDHT), "group" (pause), "dead"
          cur,          \* index of the team being sent in this round
          txseq,
          gossipdone,
          insert,       \* insert[p]: the store request p awaits, if any
          stores,       \* other DHash store RPCs that may still be delivered
          gsock,        \* gsock[p]: messages accepted for p, not yet read
          lost,         \* history: was gossip lost or discarded, or a peer killed?
          faults        \* history: messages copied or delivered late

vars == <<totalT, phase, cur, txseq, gossipdone, insert, stores, gsock, lost, faults>>

alive(p) == phase[p] # "dead"

\* The peer that owns the ID of an (original) owner: its first live successor.
owner(p) ==
    LET k == CHOOSE i \in 0..(N - 1) :
                 /\ alive(((p - 1 + i) % N) + 1)
                 /\ \A j \in 0..(i - 1) : ~alive(((p - 1 + j) % N) + 1)
    IN  ((p - 1 + k) % N) + 1

\* The list of team t that p holds after the init phase, as read by loadinitstate.
loadinitstate(p, t) ==
    [s \in {Dummy} \cup Holders \cup {x \in Sig : Freq[p][t][x] > 0} |->
        [f |-> IF s \in Sig THEN Freq[p][t][s] * Unit ELSE 0, w |-> Unit]]

InitState(p) == [t \in TeamsOf(p) |-> <<loadinitstate(p, t)>>]

Init ==
    /\ totalT = [p \in Peer |-> IF p \in LateLoad THEN <<>> ELSE InitState(p)]
    /\ phase = [p \in Peer |-> IF p \in LateLoad THEN "load" ELSE "sleep"]
    /\ cur = [p \in Peer |-> 0]
    /\ txseq = [p \in Peer |-> 0]
    /\ gossipdone = [p \in Peer |-> FALSE]
    /\ insert = [p \in Peer |-> {}]
    /\ stores = {}
    /\ gsock = [p \in Peer |-> {}]
    /\ lost = FALSE
    /\ faults = 0

\* The log of the init phase is read only after the peer has been listening.
LoadState(p) ==
    /\ phase[p] = "load"
    /\ totalT' = [totalT EXCEPT ![p] = InitState(p)]
    /\ phase' = [phase EXCEPT ![p] = "sleep"]
    /\ UNCHANGED <<cur, txseq, gossipdone, insert, stores, gsock, lost, faults>>

\* Mutant: the loop over the teams starts one too far.
After_skips(p, i) == {t \in DOMAIN totalT[p] : t > i + 1}

\* Teams of p with an index above i, and the next of them.
After(p, i) == {t \in DOMAIN totalT[p] : t > i}
NextTeam(p, i) == CHOOSE t \in After(p, i) : \A u \in After(p, i) : t <= u

\* make_team, a random ID of it, makeKeyValue and the wait in insertDHT.  Ts is
\* the state of p's teams the message is taken from.
SendTeam(p, t, Ts) ==
    /\ cur' = [cur EXCEPT ![p] = t]
    /\ phase' = [phase EXCEPT ![p] = "await"]
    /\ \E q \in Members(t) : insert' = [insert EXCEPT ![p] =
          {[to |-> owner(q), msg |-> [src |-> p, seq |-> txseq[p], team |-> t, list |-> Ts[t][1]]]}]

\* The end of a round.  In round killround the peer kills lsd and exits.
EndRound(p) ==
    /\ txseq' = [txseq EXCEPT ![p] = @ + 1]
    /\ cur' = [cur EXCEPT ![p] = 0]
    /\ IF txseq[p] + 1 = killround[p]
       THEN /\ phase' = [phase EXCEPT ![p] = "dead"]
            /\ gsock' = [gsock EXCEPT ![p] = {}]
            /\ lost' = TRUE
       ELSE /\ phase' = [phase EXCEPT ![p] = "sleep"]
            /\ UNCHANGED <<gsock, lost>>

\* The start of a round: merge the lists of every team, send the first team.
GossipRound(p) ==
    /\ phase[p] = "sleep" /\ ~gossipdone[p] /\ txseq[p] # rounds
    /\ totalT' = [totalT EXCEPT ![p] = [t \in DOMAIN @ |-> mergelists(@[t])]]
    /\ IF After(p, 0) # {}
       THEN SendTeam(p, NextTeam(p, 0), totalT'[p]) /\ UNCHANGED <<txseq, gsock, lost>>
       ELSE EndRound(p) /\ UNCHANGED insert
    /\ UNCHANGED <<gossipdone, stores, faults>>

\* Rounds from `rounds` on only run mergelists_nogossip, on every team; a list
\* that was received is then gone.  (txseq stops counting one past rounds.)
QuietRound(p) ==
    /\ phase[p] = "sleep" /\ (gossipdone[p] \/ txseq[p] = rounds)
    /\ gossipdone' = [gossipdone EXCEPT ![p] = TRUE]
    /\ totalT' = [totalT EXCEPT ![p] = [t \in DOMAIN @ |-> mergelists_nogossip(@[t])]]
    /\ txseq' = [txseq EXCEPT ![p] = IF @ > rounds THEN @ ELSE @ + 1]
    /\ UNCHANGED <<phase, cur, insert, stores, gsock, lost, faults>>

\* insertDHT returns, and the pause before the next team begins.
Returns(p) ==
    /\ insert' = [insert EXCEPT ![p] = {}]
    /\ phase' = [phase EXCEPT ![p] = "group"]

\* The RPCs in R will still be served; the others fail, which nobody notices.
Issued(R) ==
    /\ stores' = stores \cup R
    /\ IF R = {} THEN UNCHANGED faults ELSE faults < MaxFaults /\ faults' = faults + 1

\* insert_lookup_cb: the stores issued for the replicas of request r, at the peers
\* that follow on the ring.
ReplicaStores(r) ==
    {[r EXCEPT !.to = owner(((@ - 1 + k) % N) + 1)] : k \in 1..(NumPut - 1)} \ {r}

\* insertDHT returns SUCC: the owner's lsd has passed the message on, and the
\* replica stores follow.
InsertOK(p) ==
    \E r \in insert[p] :
        /\ alive(r.to)
        /\ gsock' = [gsock EXCEPT ![r.to] = @ \cup {r.msg}]
        /\ \E R \in SUBSET ReplicaStores(r) : Issued(R)
        /\ Returns(p)
        /\ UNCHANGED <<totalT, cur, txseq, gossipdone, lost>>

\* Mutant: the list of the first team is doubled, whatever team was sent.
ConsumeFailed_first(p) ==
    totalT' = [totalT EXCEPT ![p][NextTeam(p, 0)][1] = multiplyfreq(@)] /\ UNCHANGED lost

\* Mutant: the peer does not go on until the owner has acknowledged the message.
ConsumeFailed_waits(p) ==
    insert[p] = {} /\ UNCHANGED <<totalT, lost>>

\* The list that could not be sent is doubled again, unless the peer was told not
\* to.
ConsumeFailed(p) ==
    \/ /\ consume_failed_msgs[p]
       /\ totalT' = [totalT EXCEPT ![p][cur[p]][1] = multiplyfreq(@)]
       /\ UNCHANGED lost
    \/ /\ ~consume_failed_msgs[p]
       /\ lost' = TRUE
       /\ UNCHANGED totalT

\* insertDHT fails, and the message is not delivered.
InsertFail(p) ==
    /\ insert[p] # {}
    /\ ConsumeFailed(p)
    /\ Returns(p)
    /\ UNCHANGED <<cur, txseq, gossipdone, stores, gsock, faults>>

\* dhash_store::timed_out reports the failure while the RPC is still pending.
InsertTimeout(p) ==
    /\ LateStores /\ insert[p] # {}
    /\ ConsumeFailed(p)
    /\ Issued(insert[p])
    /\ Returns(p)
    /\ UNCHANGED <<cur, txseq, gossipdone, gsock>>

\* A pending store RPC reaches its destination.
StoreArrives ==
    \E r \in stores :
        /\ alive(r.to)
        /\ stores' = stores \ {r}
        /\ gsock' = [gsock EXCEPT ![r.to] = @ \cup {r.msg}]
        /\ UNCHANGED <<totalT, phase, cur, txseq, gossipdone, insert, lost, faults>>

\* The pause between teams is over: send the next team, or end the round.
GroupWake(p) ==
    /\ phase[p] = "group"
    /\ IF After(p, cur[p]) # {}
       THEN SendTeam(p, NextTeam(p, cur[p]), totalT[p]) /\ UNCHANGED <<txseq, gsock, lost>>
       ELSE EndRound(p) /\ UNCHANGED insert
    /\ UNCHANGED <<totalT, gossipdone, stores, faults>>

\* readgossip and add2vecomapx: a list for a team the peer knows is appended,
\* any other is dropped with a warning.
ReadGossip(p) ==
    /\ alive(p)
    /\ \E m \in gsock[p] :
          /\ gsock' = [gsock EXCEPT ![p] = @ \ {m}]
          /\ IF m.team \in DOMAIN totalT[p]
             THEN /\ totalT' = [totalT EXCEPT ![p][m.team] = Append(@, m.list)]
                  /\ UNCHANGED lost
             ELSE /\ UNCHANGED totalT
                  /\ lost' = TRUE
    /\ UNCHANGED <<phase, cur, txseq, gossipdone, insert, stores, faults>>

\* What a peer does by itself and with what it is told.
Turn(p) ==
    \/ LoadState(p) \/ GossipRound(p) \/ QuietRound(p) \/ GroupWake(p)
    \/ InsertOK(p) \/ InsertFail(p) \/ InsertTimeout(p) \/ ReadGossip(p)

Next == (\E p \in Peer : Turn(p)) \/ StoreArrives

Spec == Init /\ [][Next]_vars

-------------------------------------------------------------------------------
(* Properties.                                                                *)

Requests == stores \cup UNION {insert[p] : p \in Peer}
Messages(t) == {m \in {r.msg : r \in Requests} \cup UNION {gsock[p] : p \in Peer} : m.team = t}
Lists(t) == {m.list : m \in Messages(t)} \cup
            UNION {{totalT[p][t][i] : i \in DOMAIN totalT[p][t]} : p \in {q \in Peer : t \in DOMAIN totalT[q]}}

\* A peer holds lists for exactly the teams its log.init names, awaits an insert
\* only while it sends a team, and every list keeps dummy and placeholder.
TypeOK ==
    /\ \A p \in Peer : DOMAIN totalT[p] = IF phase[p] = "load" THEN {} ELSE TeamsOf(p)
    /\ phase \in [Peer -> {"load", "sleep", "await", "group", "dead"}]
    /\ \A p \in Peer : (insert[p] # {}) = (phase[p] = "await")
    /\ \A r \in Requests : r.to \in Peer
    /\ \A p \in Peer : cur[p] # 0 <=> phase[p] \in {"await", "group"}
    /\ txseq \in [Peer -> 0..(rounds + 1)] /\ gossipdone \in [Peer -> BOOLEAN] /\ lost \in BOOLEAN
    /\ faults \in 0..MaxFaults
    /\ \A t \in Team : \A T \in Lists(t) : IsList(T)

\* The estimate of a signature within a team stays in the range of the
\* frequencies the members of the team began with, whatever fails, is copied to
\* other peers or arrives late.
EstimateInRange ==
    TypeOK /\ \A t \in Team : \A T \in Lists(t), s \in Sig :
        \E p, q \in Members(t) :
            /\ Freq[p][t][s] * At(T, s).w <= At(T, s).f
            /\ At(T, s).f <= Freq[q][t][s] * At(T, s).w

\* Has p still to hand on the half of team t that this round's merge split off?
Holds(p, t) == t \in DOMAIN totalT[p]
Pending(p, t) ==
    Holds(p, t) /\ phase[p] \in {"await", "group"} /\ (t > cur[p] \/ (t = cur[p] /\ insert[p] # {}))

\* The mass of component c of signature s in team t, by place.  A half that is
\* split off but not yet sent counts as under way.
MsgMass(M, t, s, c) == SentMass(N, rounds, {m \in M : m.team = t}, s, c)
Kept(t, s, c) == [p \in Peer |-> IF Holds(p, t) THEN At(totalT[p][t][1], s)[c]
                                 ELSE IF p \in Members(t) THEN At(loadinitstate(p, t), s)[c] ELSE 0]
Wire(t, s, c) == [p \in Peer |-> IF ~Pending(p, t) THEN 0
                                 ELSE IF t = cur[p] THEN MsgMass({r.msg : r \in insert[p]}, t, s, c)
                                 ELSE Kept(t, s, c)[p]]
Sock(t, s, c) == [p \in Peer |-> MsgMass(gsock[p], t, s, c)]
Inbox(t, s, c) == [p \in Peer |-> IF Holds(p, t) THEN SeqMass(Tail(totalT[p][t]), s, c) ELSE 0]
StartMass(t, s, c) == [p \in Peer |-> IF p \in Members(t) THEN At(loadinitstate(p, t), s)[c] ELSE 0]
Phase(t) == [p \in Peer |-> IF Pending(p, t) THEN "await" ELSE "sleep"]

TotalMass(t, s, c) == SumTo(N, Kept(t, s, c)) + SumTo(N, Wire(t, s, c)) +
                      SumTo(N, Sock(t, s, c)) + SumTo(N, Inbox(t, s, c))

\* As long as the DHT has not copied a message, nor kept one on its way that it
\* reported as failed: within each team no mass is created, and none is lost
\* while every peer gossips, nobody was killed, no message met a peer that did not
\* know the team and failed messages are consumed, although the halves of later
\* teams wait for earlier ones to be sent.
MassConserved ==
    faults = 0 => \A t \in Team, s \in Sig, c \in {"f", "w"} :
        /\ TotalMass(t, s, c) <= SumTo(N, StartMass(t, s, c))
        /\ ~lost /\ (\A p \in Peer : ~gossipdone[p])
              => TotalMass(t, s, c) = SumTo(N, StartMass(t, s, c))

\* What push-sum is about: the component c of signature s in team t.
PS(t, s, c) == INSTANCE PushSum WITH pc <- Phase(t), done <- gossipdone,
    Start <- StartMass(t, s, c), kept <- Kept(t, s, c), wire <- Wire(t, s, c),
    sock <- Sock(t, s, c), inbox <- Inbox(t, s, c)

\* The gossip loop of each team implements push-sum on its own, although all
\* lists are merged at the start of the round and sent one after the other, up
\* to the first gossip that is lost, copied or late.
ImplementsPushSum ==
    /\ \A t \in Team, s \in Sig, c \in {"f", "w"} : PS(t, s, c)!Init
    /\ [][~lost' /\ faults' = 0 /\ vars' # vars => \A t \in Team, s \in Sig, c \in {"f", "w"} :
              UNCHANGED PS(t, s, c)!vars \/ PS(t, s, c)!Next]_vars

\* Every peer that was not killed has finished its rounds.
Finished == \A p \in Peer : gossipdone[p] \/ ~alive(p)
===============================================================================
