----------------------------- MODULE ChordRing -----------------------------
(***************************************************************************)
(* The Chord ring under joins, crashes and false suspicions: every vnode   *)
(* keeps a location table, asks its successor for its predecessor and its  *)
(* successor list, asks its predecessor for its successor, notifies its    *)
(* successor of itself, pings what it doubts and keeps pinging what it     *)
(* holds dead (chord/succ_list.C, pred_list.C, stabilize.C, server.C,      *)
(* chord.C).                                                               *)
(*                                                                         *)
(* tab[p][x] is what p's table says of x: "no" (not in it), "alive", or    *)
(* dead, "soft" if x was running when p declared it dead and "hard" if it  *)
(* had crashed.  Second-hand news of x revives it only when younger than   *)
(* p's own declaration (location::update), which it can be only for soft.  *)
(* An RPC is served when it is issued; its answer waits in the caller's    *)
(* slot and is used later, when both tables may have changed.              *)
(***************************************************************************)
EXTENDS IdUtils, SequencesExt, TLC

CONSTANTS Node,           \* identifiers of the nodes
          NSucc,          \* chord.nsucc
          MaxCalls,       \* bound: no round starts while so many calls are out
          Scenarios       \* [founders, crash, late]: the nodes in the ring at
                          \* the start and bounds on the faults

VARIABLES tab, up, in,    \* tables, running nodes, nodes that have joined
          oldsucc,        \* succ_list::oldsucc
          sq, pq, lq,     \* answers under way: get_predecessor of the
                          \* successor, get_successor of the predecessor,
                          \* get_succlist of the successor
          dead_nodes,     \* nodes to ping until they answer
          pings,          \* pings under way of stabilize_getsucclist_cb
          notes,          \* notify calls under way: <<from, to>>
          sc              \* the scenario, with the faults it has left

ring == <<tab, up, in, oldsucc, sq, pq, lq, dead_nodes, pings, notes, sc>>

None == [to |-> -1]
Err == -1

good(t) == {x \in Node : t[x] = "alive"}
(* closestsuccloc, closestpredloc: the nearest good node at or after x,    *)
(* and before x.                                                           *)
closestsuccloc(t, x) ==
    CHOOSE k \in good(t) :
        \A j \in good(t) : distance(decID(x), k) <= distance(decID(x), j)
closestpredloc(t, x) ==
    CHOOSE k \in good(t) : \A j \in good(t) : distance(k, x) <= distance(j, x)

succ(p) == closestsuccloc(tab[p], incID(p))
pred(p) == closestpredloc(tab[p], p)
num_succ(t) ==
    LET g == Cardinality(good(t)) - 1 IN IF NSucc > g THEN g ELSE NSucc
(* succ_list::succs: at least one entry, the node itself when it is alone. *)
succs(t, p) ==
    LET s[i \in 1 .. NSucc] ==
            IF i = 1 THEN closestsuccloc(t, incID(p))
            ELSE closestsuccloc(t, incID(s[i - 1]))
    IN  [i \in 1 .. IF num_succ(t) = 0 THEN 1 ELSE num_succ(t) |-> s[i]]
(* succ_list::fill_nodelistres: the node itself, then its successors.      *)
fill_nodelistres(p) == <<p>> \o SubSeq(succs(tab[p], p), 1, num_succ(tab[p]))

(* locationtable::insert of news of x, which is younger than what the      *)
(* table has when x is in young.                                           *)
insert(t, x, young) ==
    [t EXCEPT ![x] = CASE @ = "no" -> "alive"
                       [] @ = "soft" /\ x \in young -> "alive"
                       [] OTHER -> @]
(* location::set_alive(false): never of the node itself.                   *)
dead(t, p, x) ==
    [t EXCEPT ![x] = IF x = p THEN @ ELSE IF x \in up THEN "soft" ELSE "hard"]

(* The answer of a running x brings x's own news (doRPC_cb).               *)
Heard(t, x) == insert(t, x, {x})
Serve(x, answer, err) == [to |-> x, rep |-> IF x \in up THEN answer ELSE err]

(* Nodes whose second-hand news may be younger than p's own.               *)
Young(p) == SUBSET {x \in Node : tab[p][x] = "soft"}

Init ==
    /\ up = Node
    /\ sc \in Scenarios
    /\ in = sc.founders
    /\ tab = [p \in Node |->
                [x \in Node |-> IF x = p \/ {p, x} \subseteq sc.founders
                                THEN "alive" ELSE "no"]]
    /\ oldsucc = [p \in Node |-> p]
    /\ sq = [p \in Node |-> None]
    /\ pq = [p \in Node |-> None]
    /\ lq = [p \in Node |-> None]
    /\ dead_nodes = [p \in Node |-> {}]
    /\ pings = [p \in Node |-> {}]
    /\ notes = {}

-----------------------------------------------------------------------------
(* vnode_impl::notify(x, me): refused at once when x is marked dead.       *)
notify(t, p, x) == IF t[x] \in {"alive", "no"} THEN {<<p, x>>} ELSE {}
(* pred_list::update_pred.                                                 *)
update_pred(t, p, x, young) ==
    IF between(closestpredloc(t, p), p, x) THEN insert(t, x, young) ELSE t
(* doRPC_cb on an error: x is dead, and pinged from now on.                *)
RpcError(p, x) ==
    /\ tab' = [tab EXCEPT ![p] = dead(@, p, x)]
    /\ dead_nodes' = [dead_nodes EXCEPT ![p] = @ \cup ({x} \ {p})]

(* The calls that are out; the bound on them is the only thing that keeps  *)
(* the rounds of the nodes, or the two of one node, from overlapping.      *)
Calls ==
    Cardinality({p \in Node : sq[p] # None}) + Cardinality({p \in Node : pq[p] # None})
    + Cardinality({p \in Node : lq[p] # None}) + Cardinality(notes)
    + Cardinality({e \in Node \X Node : e[2] \in pings[e[1]]})

(* stabilize_continuous, when no continuous call is out: stabilize_succ    *)
(* and stabilize_pred.  A changed successor is notified and checked in the *)
(* next round; otherwise it is asked for its predecessor.                  *)
stabilize_continuous(p) ==
    /\ p \in up \cap in
    /\ sq[p] = None /\ pq[p] = None /\ Calls < MaxCalls
    /\ pq' = [pq EXCEPT ![p] = Serve(pred(p), succ(pred(p)), Err)]
    /\ IF succ(p) # oldsucc[p]
       THEN /\ notes' = notes \cup notify(tab[p], p, succ(p))
            /\ oldsucc' = [oldsucc EXCEPT ![p] = succ(p)]
            /\ UNCHANGED sq
       ELSE /\ sq' = [sq EXCEPT ![p] = Serve(succ(p), pred(succ(p)), Err)]
            /\ UNCHANGED <<notes, oldsucc>>
    /\ UNCHANGED <<tab, up, in, lq, dead_nodes, pings, sc>>

(* The successor's predecessor: the node itself; a better successor; or a  *)
(* node behind it, and then the successor is told who is there.            *)
stabilize_getpred_cb(p, young) ==
    /\ p \in up /\ sq[p] # None
    /\ sq' = [sq EXCEPT ![p] = None]
    /\ IF sq[p].rep = Err
       THEN RpcError(p, sq[p].to) /\ UNCHANGED <<oldsucc, notes>>
       ELSE \E t \in {Heard(tab[p], sq[p].to)} :
            LET s == sq[p].to
                x == sq[p].rep
                better == x # p /\ betweenleftincl(p, s, x)
            IN  /\ tab' = [tab EXCEPT ![p] = IF better THEN insert(t, x, young) ELSE t]
                /\ oldsucc' = [oldsucc EXCEPT ![p] =
                                 IF better /\ tab'[p][x] = "alive" THEN x ELSE @]
                /\ notes' = IF x # p /\ ~better
                            THEN notes \cup notify(t, p, s) ELSE notes
                /\ UNCHANGED dead_nodes
    /\ UNCHANGED <<up, in, pq, lq, pings, sc>>

(* The predecessor's successor may be a nearer predecessor.                *)
stabilize_getsucc_cb(p, young) ==
    /\ p \in up /\ pq[p] # None
    /\ pq' = [pq EXCEPT ![p] = None]
    /\ IF pq[p].rep = Err
       THEN RpcError(p, pq[p].to)
       ELSE /\ tab' = [tab EXCEPT ![p] =
                         LET t == Heard(@, pq[p].to)
                         IN  IF pq[p].rep = p THEN t
                             ELSE update_pred(t, p, pq[p].rep, young)]
            /\ UNCHANGED dead_nodes
    /\ UNCHANGED <<up, in, oldsucc, sq, lq, pings, notes, sc>>

(* stabilize_backoff, when no call of the last one is out.                 *)
stabilize_backoff(p) ==
    /\ p \in up \cap in
    /\ lq[p] = None /\ pings[p] = {} /\ Calls < MaxCalls
    /\ lq' = [lq EXCEPT ![p] = Serve(succ(p), fill_nodelistres(succ(p)), <<>>)]
    /\ UNCHANGED <<tab, up, in, oldsucc, sq, pq, dead_nodes, pings, notes, sc>>

(* The walk of stabilize_getsucclist_cb over the own successors and the    *)
(* successor's list: which of the own ones to ping, which of the others to *)
(* insert, and where the successor's list was left.                        *)
mergewalk(p, own, list) ==
    LET w[i \in 1 .. Len(own) + 1, j \in 1 .. Len(list) + 1] ==
            IF i > Len(own) \/ j > Len(list)
            THEN [ping |-> {own[k] : k \in i .. Len(own)}, ins |-> {}, left |-> j]
            ELSE IF own[i] = list[j] THEN w[i + 1, j + 1]
            ELSE IF between(p, list[j], own[i])
                 THEN [w[i + 1, j] EXCEPT !.ping = @ \cup {own[i]}]
                 ELSE [w[i, j + 1] EXCEPT !.ins = @ \cup {list[j]}]
    IN  w[1, 1]

(* What is left of the successor's list is inserted until the node has     *)
(* NSucc live successors.                                                  *)
leftover(t, own, list, j, young) ==
    LET live(k) == list[k] \in good(insert(t, list[k], young))
        room(k) == Len(own) + Cardinality({l \in j .. k - 1 : live(l)}) < NSucc
    IN  {list[k] : k \in {l \in j .. Len(list) : room(l)}}

insertall(t, S, young) == [x \in Node |-> IF x \in S THEN insert(t, x, young)[x] ELSE t[x]]

stabilize_getsucclist_cb(p, young) ==
    /\ p \in up \cap in /\ lq[p] # None
    /\ lq' = [lq EXCEPT ![p] = None]
    /\ IF lq[p].rep = <<>>
       THEN RpcError(p, lq[p].to) /\ UNCHANGED pings
       ELSE \E t \in {Heard(tab[p], lq[p].to)} :
            \E own \in {succs(t, p)}, list \in {Front(lq[p].rep)} :
            \E w \in {mergewalk(p, own, list)} :
               /\ tab' = [tab EXCEPT ![p] =
                            insertall(t, w.ins \cup leftover(t, own, list, w.left, young),
                                      young)]
               /\ pings' = [pings EXCEPT ![p] = w.ping]
               /\ UNCHANGED dead_nodes
    /\ UNCHANGED <<up, in, oldsucc, sq, pq, notes, sc>>

(* ping_cb: a node that does not answer is dead, but no one pings it again. *)
ping_cb(p, x) ==
    /\ p \in up /\ x \in pings[p]
    /\ pings' = [pings EXCEPT ![p] = @ \ {x}]
    /\ tab' = [tab EXCEPT ![p] = IF x \in up THEN [@ EXCEPT ![x] = "alive"]
                                 ELSE dead(@, p, x)]
    /\ UNCHANGED <<up, in, oldsucc, sq, pq, lq, dead_nodes, notes, sc>>

(* check_dead_node and its callback, for a node that answers again: it is  *)
(* alive, and the successor is notified.  A node that does not answer is   *)
(* pinged again later.                                                     *)
check_dead_node(p, x) ==
    /\ p \in up /\ x \in dead_nodes[p] \cap up
    /\ tab' = [tab EXCEPT ![p][x] = "alive"]
    /\ dead_nodes' = [dead_nodes EXCEPT ![p] = @ \ {x}]
    /\ notes' = notes \cup {<<p, closestsuccloc(tab'[p], incID(p))>>}
    /\ UNCHANGED <<up, in, oldsucc, sq, pq, lq, pings, sc>>

(* Mutant: the notified node forgets to look at its predecessor.           *)
donotify_deaf(p, x, young) ==
    /\ <<p, x>> \in notes
    /\ notes' = notes \ {<<p, x>>}
    /\ IF x \in up THEN UNCHANGED <<tab, dead_nodes>> ELSE RpcError(p, x)
    /\ UNCHANGED <<up, in, oldsucc, sq, pq, lq, pings, sc>>

(* donotify at x, and its answer at p.                                     *)
donotify(p, x, young) ==
    /\ <<p, x>> \in notes
    /\ notes' = notes \ {<<p, x>>}
    /\ IF x \in up
       THEN LET heard == [tab EXCEPT ![x] = update_pred(@, x, p, young \cup {p})]
            IN  /\ tab' = [heard EXCEPT ![p] = IF p \in up THEN Heard(@, x) ELSE @]
                /\ UNCHANGED dead_nodes
       ELSE RpcError(p, x)
    /\ UNCHANGED <<up, in, oldsucc, sq, pq, lq, pings, sc>>

-----------------------------------------------------------------------------
(* Joining.  The successors and the path of the lookup of the identifier   *)
(* before p, as the known node w finds them in the tables as they are.     *)
closestpred(z, x) ==
    LET c == {k \in ToSet(succs(tab[z], z)) : between(z, x, k)}
    IN  IF c = {} THEN z
        ELSE CHOOSE k \in c : \A j \in c : distance(k, x) <= distance(j, x)
InRange(z, x) == z \in up /\ betweenrightincl(z, succ(z), x)
find_route(w, x) ==
    LET hop[i \in 0 .. Cardinality(Node)] ==
            IF i = 0 THEN closestpred(w, x)
            ELSE CHOOSE h \in {IF z \notin up \/ InRange(z, x) THEN z
                               ELSE closestpred(z, x) : z \in {hop[i - 1]}} : TRUE
        last == {z \in {hop[Cardinality(Node)]} : InRange(z, x)}
    IN  UNION {ToSet(succs(tab[z], z)) : z \in last}
        \cup UNION {{hop[i] : i \in DOMAIN hop} : z \in last}

join(p, w) ==
    /\ p \in up \ in /\ lq[p] = None
    /\ w \in up \cap in
    /\ lq' = [lq EXCEPT ![p] = [to |-> w, rep |-> SetToSeq(find_route(w, decID(p)))]]
    /\ tab' = [tab EXCEPT ![p] = insert(@, w, {})]
    /\ UNCHANGED <<up, in, oldsucc, sq, pq, dead_nodes, pings, notes, sc>>

(* A failed lookup does not keep the node from running with what it knows. *)
join_getsucc_cb(p) ==
    /\ p \in up \ in /\ lq[p] # None
    /\ lq' = [lq EXCEPT ![p] = None]
    /\ in' = in \cup {p}
    /\ tab' = [tab EXCEPT ![p] = insertall(@, ToSet(lq[p].rep), {})]
    /\ notes' = IF lq[p].rep = <<>> THEN notes
                ELSE notes \cup {<<p, closestsuccloc(tab'[p], incID(p))>>}
    /\ UNCHANGED <<up, oldsucc, sq, pq, dead_nodes, pings, sc>>

-----------------------------------------------------------------------------
(* Faults: a member stops; answers of a running node are late enough for   *)
(* its caller to take it for dead.                                         *)
Crash(x) ==
    /\ x \in up \cap in /\ sc.crash > 0
    /\ sc' = [sc EXCEPT !.crash = @ - 1]
    /\ up' = up \ {x}
    /\ sq' = [sq EXCEPT ![x] = None]
    /\ pq' = [pq EXCEPT ![x] = None]
    /\ lq' = [lq EXCEPT ![x] = None]
    /\ pings' = [pings EXCEPT ![x] = {}]
    /\ notes' = {e \in notes : e[1] # x}
    /\ UNCHANGED <<tab, in, oldsucc, dead_nodes>>

Late(p) ==
    /\ sc.late > 0 /\ sc' = [sc EXCEPT !.late = @ - 1]
    /\ \/ /\ sq[p] # None /\ sq[p].to # p
          /\ sq' = [sq EXCEPT ![p].rep = Err] /\ UNCHANGED <<pq, lq, pings, tab>>
       \/ /\ pq[p] # None /\ pq[p].to # p
          /\ pq' = [pq EXCEPT ![p].rep = Err] /\ UNCHANGED <<sq, lq, pings, tab>>
       \/ /\ p \in in /\ lq[p] # None /\ lq[p].to # p
          /\ lq' = [lq EXCEPT ![p].rep = <<>>] /\ UNCHANGED <<sq, pq, pings, tab>>
       \/ \E x \in pings[p] \ {p} :
          /\ pings' = [pings EXCEPT ![p] = @ \ {x}]
          /\ tab' = [tab EXCEPT ![p] = dead(@, p, x)]
          /\ UNCHANGED <<sq, pq, lq>>
    /\ UNCHANGED <<up, in, oldsucc, dead_nodes, notes>>

(* What a node does by itself and with the answers it gets.                *)
Step(p) ==
    \/ stabilize_continuous(p)
    \/ \E young \in Young(p) : stabilize_getpred_cb(p, young)
    \/ \E young \in Young(p) : stabilize_getsucc_cb(p, young)
    \/ stabilize_backoff(p)
    \/ \E young \in Young(p) : stabilize_getsucclist_cb(p, young)
    \/ \E x \in Node : ping_cb(p, x)
    \/ \E w \in Node : join(p, w)
    \/ join_getsucc_cb(p)

Notified(p, x) == \E young \in Young(x) : donotify(p, x, young)

Next ==
    \/ \E p \in Node : Step(p)
    \/ \E p, x \in Node : Notified(p, x)
    \/ \E p, x \in Node : check_dead_node(p, x)
    \/ \E x \in Node : Crash(x)
    \/ \E p \in Node : Late(p)

-----------------------------------------------------------------------------
Members == up \cap in
NextMember(p) == CHOOSE k \in Members : \A j \in Members : distance(p, k) <= distance(p, j)

(* Once joins, crashes and false suspicions end, every member's successor  *)
(* and predecessor become, and stay, its neighbours among the members      *)
(* (stabilize_succ, stabilize_pred, notify, check_dead_node).              *)
RingRight ==
    \A p \in Members :
        Members # {p} => succ(p) = NextMember(p) /\ pred(NextMember(p)) = p
RingHeals == <>[]RingRight
=============================================================================
