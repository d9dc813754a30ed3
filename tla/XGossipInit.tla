----------------------------- MODULE XGossipInit -----------------------------
(* The init phase of XGossip.  lshsig sends every signature of a peer to a    *)
(* random ID of each team LSH assigns it to; initgossiprecv adds it to the    *)
(* receiver's list for the team and, the first time, passes the dummy on to   *)
(* the next ID of the team (informteam), so that in the end every member has  *)
(* a list with a dummy of weight one.  The replicas that lsd stores of a      *)
(* message are handed to the gpsi of further successors, who take them for    *)
(* their own.                                                                 *)
EXTENDS GossipLists, FiniteSets, Functions

CONSTANTS RingIDs,      \* RingIDs[t]: the peers that own the IDs of team t, in order
          Todo,         \* Todo[p]: the [sig, team, freq] lshsig sends, in order
          InitPut,      \* dhash.replica: successors a message is stored at
          MaxCopies     \* bound: messages that are delivered more than once

InitPeer == 1..Len(Todo)
InitTeam == 1..Len(RingIDs)

InitAssumption ==
    /\ Todo \in Seq(Seq([sig : Sig, team : InitTeam, freq : Nat]))
    /\ RingIDs \in Seq(Seq(InitPeer) \ {<<>>})
    /\ InitPut \in Nat \ {0} /\ MaxCopies \in Nat

VARIABLES initT,        \* initT[p][t] is totalT of p: the list it has built for team t
          sent,         \* sent[p]: entries of Todo[p] that lshsig is done with
          msgs,         \* INITGOSSIP and INFORMTEAM messages under way
          initphase,
          initlost,     \* history: has an insert failed, or a message come too late?
          copies        \* history: messages of which replicas were delivered

initVars == <<initT, sent, msgs, initphase, initlost, copies>>

InitInit ==
    /\ initT = [p \in InitPeer |-> <<>>]
    /\ sent = [p \in InitPeer |-> 0]
    /\ msgs = {}
    /\ initphase = [p \in InitPeer |-> TRUE]
    /\ initlost = FALSE
    /\ copies = 0

\* A message for the k-th ID of team t, to the peer that owns the ID, and its
\* replicas at the successors of that peer.
Message(type, src, t, k, s, f) ==
    [type |-> type, src |-> src, team |-> t, k |-> k, to |-> RingIDs[t][k], sig |-> s, f |-> f]
Replicas(m) == {[m EXCEPT !.to = ((@ - 1 + k) % Len(Todo)) + 1] : k \in 1..(InitPut - 1)} \ {m}

\* insertDHT of the messages M, after those in R have been read: some replicas C
\* are delivered, too.  A failure is logged, the message is not sent again; when
\* it arrives after all, that is no different from a success.
Insert(M, R) ==
    \/ /\ UNCHANGED initlost
       /\ \E C \in SUBSET UNION {Replicas(m) : m \in M} :
             /\ msgs' = ((msgs \ R) \cup M) \cup C
             /\ IF C = {} THEN UNCHANGED copies ELSE copies < MaxCopies /\ copies' = copies + 1
    \/ M # {} /\ msgs' = msgs \ R /\ initlost' = TRUE /\ UNCHANGED copies

\* The loop of lshsig: the next signature, to a random ID of one of its teams.
lshsig(p) ==
    /\ sent[p] < Len(Todo[p])
    /\ sent' = [sent EXCEPT ![p] = @ + 1]
    /\ LET e == Todo[p][sent[p] + 1] IN
       \E k \in DOMAIN RingIDs[e.team] :
           Insert({Message("INITGOSSIP", <<p, sent[p]>>, e.team, k, e.sig, e.freq * Unit)}, {})
    /\ UNCHANGED <<initT, initphase>>

\* Mutant: the owner of the last ID informs nobody.
informteam_stops(p, t, k) ==
    IF k = Len(RingIDs[t]) THEN {}
    ELSE {Message("INFORMTEAM", <<p>>, t, k + 1, Dummy, 0)}

\* informteam: the message for the ID after the k-th, the first after the last.
informteam(p, t, k) ==
    {Message("INFORMTEAM", <<p>>, t, (k % Len(RingIDs[t])) + 1, Dummy, 0)}

\* The list a team starts with: only the placeholder.
NewList == [s \in Holders |-> [f |-> 0, w |-> Unit]]

With(T, s, f) == [x \in DOMAIN T \cup {s} |-> IF x = s THEN [f |-> f, w |-> Unit] ELSE T[x]]

\* What initgossiprecv makes of the list T for signature s with frequency f.  A
\* signature that is there only gains frequency; a new one brings the dummy.
received(T, s, f) ==
    IF s \in DOMAIN T
    THEN IF s = Dummy THEN T ELSE [T EXCEPT ![s].f = @ + f]
    ELSE IF Dummy \in DOMAIN T \cup {s} THEN With(T, s, f)
                                        ELSE With(With(T, s, f), Dummy, 0)

\* initgossiprecv of a message for ID m.k, at its owner or at who has got a
\* replica; a peer that has left the init phase discards the message.
initgossiprecv(p, m) ==
    LET known == m.team \in DOMAIN initT[p]
        old   == IF known THEN initT[p][m.team] ELSE NewList
        new   == received(old, m.sig, m.f)
        first == Dummy \in DOMAIN new /\ Dummy \notin DOMAIN old
        next  == IF first THEN informteam(p, m.team, m.k) ELSE {}
    IN  IF initphase[p]
        THEN /\ initT' = [initT EXCEPT ![p] =
                    [t \in DOMAIN @ \cup {m.team} |-> IF t = m.team THEN new ELSE @[t]]]
             /\ Insert(next, {m})
        ELSE /\ msgs' = msgs \ {m}
             /\ initlost' = TRUE
             /\ UNCHANGED <<initT, copies>>

Receive(p) ==
    /\ \E m \in msgs : m.to = p /\ initgossiprecv(p, m)
    /\ UNCHANGED <<sent, initphase>>

\* All sent, and the wait for the others is over.
AllSent(p) == sent[p] = Len(Todo[p])

EndInit(p) ==
    /\ initphase[p] /\ AllSent(p)
    /\ initphase' = [initphase EXCEPT ![p] = FALSE]
    /\ UNCHANGED <<initT, sent, msgs, initlost, copies>>

\* Everybody has left the init phase and nothing is under way.
InitFinished ==
    /\ msgs = {} /\ \A p \in InitPeer : ~initphase[p]
    /\ UNCHANGED initVars

InitNext == (\E p \in InitPeer : lshsig(p) \/ Receive(p) \/ EndInit(p)) \/ InitFinished

InitSpec == InitInit /\ [][InitNext]_initVars

-------------------------------------------------------------------------------
(* Properties.                                                                *)

Owners(t) == Range(RingIDs[t])
HeldBy(p, t) == t \in DOMAIN initT[p]

\* Lists are built for teams only, and every INITGOSSIP or INFORMTEAM under way
\* is addressed to an ID the team has: informteam wraps around behind the last.
InitTypeOK ==
    /\ \A p \in InitPeer : DOMAIN initT[p] \subseteq InitTeam
    /\ \A p \in InitPeer : sent[p] \in 0..Len(Todo[p])
    /\ initphase \in [InitPeer -> BOOLEAN] /\ initlost \in BOOLEAN /\ copies \in 0..MaxCopies
    /\ \A m \in msgs : /\ m.to \in InitPeer /\ m.team \in InitTeam
                       /\ m.k \in DOMAIN RingIDs[m.team] /\ m.sig \in Sig \cup {Dummy}

\* A list is fit for the exec phase from the moment it exists: placeholder and
\* dummy are present and every weight is one, however often, from however many
\* peers and in whatever order its signatures and the dummy arrived, and whoever
\* got replicas of them.  Without replicas only members of a team hold its list.
ListsReady ==
    InitTypeOK /\ \A p \in InitPeer : \A t \in DOMAIN initT[p] :
        /\ copies = 0 => p \in Owners(t)
        /\ IsList(initT[p][t])
        /\ \A s \in DOMAIN initT[p][t] : initT[p][t][s].w = Unit
        /\ initT[p][t][Dummy].f = 0

\* The frequency of s in team t: what lshsig has sent, what the lists hold, and
\* what is under way from p, whose i-th message has the source <<p, i - 1>>.
SentEntry(p, i, t, s) ==
    IF Todo[p][i].team = t /\ Todo[p][i].sig = s THEN Todo[p][i].freq * Unit ELSE 0
SentFreq(t, s) == SumTo(Len(Todo), [p \in InitPeer |-> SumTo(sent[p], [i \in 1..sent[p] |-> SentEntry(p, i, t, s)])])

HeldFreq(t, s) ==
    SumTo(Len(Todo), [p \in InitPeer |-> IF HeldBy(p, t) /\ s \in DOMAIN initT[p][t] THEN initT[p][t][s].f ELSE 0])

Flying(p, i, t, s) == {m \in msgs : m.src = <<p, i - 1>> /\ m.team = t /\ m.sig = s}
FlyingFreq(t, s) ==
    SumTo(Len(Todo), [p \in InitPeer |-> SumTo(sent[p], [i \in 1..sent[p] |->
        IF Flying(p, i, t, s) = {} THEN 0 ELSE (CHOOSE m \in Flying(p, i, t, s) : TRUE).f])])

\* As long as no replica is delivered, no frequency is counted twice; none is lost
\* unless an insert fails or a peer leaves the init phase before a message for it
\* has come.
FreqConserved ==
    copies = 0 => \A t \in InitTeam, s \in Sig :
        /\ HeldFreq(t, s) + FlyingFreq(t, s) <= SentFreq(t, s)
        /\ ~initlost => HeldFreq(t, s) + FlyingFreq(t, s) = SentFreq(t, s)

\* Do the IDs of t belong to distinct peers?
Injective(t) == Cardinality(Owners(t)) = Len(RingIDs[t])

\* When nothing is under way any more, a team of which anybody holds a list is
\* known to all its members, provided nothing was lost and they are distinct peers:
\* the total weight of each of its signatures is then the team size by which the
\* estimates are scaled.  (Who hears of the team through a replica informs the ID
\* after the one the message was for, and not the one after its own, so that
\* replicas can cut the chain.)
AllInformed ==
    ~initlost /\ copies = 0 /\ msgs = {} =>
        \A t \in InitTeam : Injective(t) /\ (\E p \in InitPeer : HeldBy(p, t)) =>
            \A p \in Owners(t) : HeldBy(p, t)

\* The chain of INFORMTEAM messages has died out, and the init phase is over.
InitEnded == msgs = {} /\ \A p \in InitPeer : ~initphase[p]

\* What the init phase hands to the exec phase (lshsig, initgossiprecv,
\* informteam): lists with placeholder, dummy and weights of one; and, as long as
\* no replica of a message is delivered, lists in which no frequency is counted
\* twice or lost unnoticed, one at every member and nobody else.
InitRight == ListsReady /\ FreqConserved /\ AllInformed
===============================================================================
