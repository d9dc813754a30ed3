----------------------------- MODULE ChordRoute -----------------------------
(***************************************************************************)
(* Lookups on a ring that stabilisation has settled: the node Me routes a  *)
(* key hop by hop (chord/route_chord.C) over what every node's fingers and *)
(* successors offer (fingerroute.C, finger_table.C, succ_list.C), backs up *)
(* over nodes that have crashed and alerts whoever sent it there, and      *)
(* keeps its own finger table up to date with such lookups.                *)
(*                                                                         *)
(* rtab[p] is the set of nodes p holds alive: its NSucc successors, its     *)
(* predecessor, and any others.                                            *)
(***************************************************************************)
EXTENDS IdUtils, SequencesExt

CONSTANTS Node, Me, NSucc, Keys,
          MaxCrash        \* bound: nodes that crash, unknown to the rest

VARIABLES rtab, rup,
          lk,             \* the lookup under way at Me
          alerts,         \* alert calls under way: <<to, dead node>>
          fingers, f,     \* finger_table::fingers and f
          fst             \* the finger call under way

route == <<rtab, rup, lk, alerts, fingers, f, fst>>

closestsuccloc(S, x) ==
    CHOOSE k \in S : \A j \in S : distance(decID(x), k) <= distance(decID(x), j)
closestpredloc(S, x) ==
    CHOOSE k \in S : \A j \in S : distance(k, x) <= distance(j, x)

num_succ(p) ==
    LET g == Cardinality(rtab[p]) - 1 IN IF NSucc > g THEN g ELSE NSucc
succs(p) ==
    IF rtab[p] = {p} THEN <<p>>
    ELSE SubSeq(SetToSortSeq(rtab[p] \ {p}, LAMBDA a, b : distance(p, a) < distance(p, b)),
                1, num_succ(p))

(* finger_table::finger and closestpred: the last finger before x that has *)
(* not failed, or the node itself.                                         *)
finger(p, i) == closestsuccloc(rtab[p], successorID(p, i))
fingerpred(p, x, failed) ==
    LET c == {i \in 0 .. NBIT - 1 : /\ between(p, x, finger(p, i))
                                    /\ finger(p, i) \notin failed}
    IN  IF c = {} THEN p ELSE finger(p, CHOOSE i \in c : \A j \in c : i >= j)
(* succ_list::closestpred: goes on from the best so far, and so stops at   *)
(* the first successor that is past x or has failed.                       *)
succpred(p, x, failed) ==
    CHOOSE b \in {LET good == {i \in DOMAIN s :
                        \A j \in 1 .. i : between(p, x, s[j]) /\ s[j] \notin failed}
                  IN  IF good = {} THEN p ELSE s[Cardinality(good)] :
                    s \in {succs(p)}} : TRUE
(* fingerroute::closestpred: the farther of the two.                       *)
closestpred(p, x, failed) ==
    LET fp == fingerpred(p, x, failed)
        u == succpred(p, x, failed)
    IN  IF fp # p /\ between(p, fp, u) THEN fp ELSE u

(* Mutant: the node whose identifier is the key is not in range.           *)
doroute_open(p, x, failed) ==
    CHOOSE a \in {IF between(p, Head(s), x)
                  THEN [status |-> "INRANGE", pred |-> p, succs |-> s]
                  ELSE [status |-> "NOTINRANGE", pred |-> closestpred(p, x, failed),
                        succs |-> s] : s \in {succs(p)}} : TRUE

(* vnode_impl::doroute.                                                    *)
doroute(p, x, failed) ==
    CHOOSE a \in {IF betweenrightincl(p, Head(s), x)
                  THEN [status |-> "INRANGE", pred |-> p, succs |-> s]
                  ELSE [status |-> "NOTINRANGE", pred |-> closestpred(p, x, failed),
                        succs |-> s] : s \in {succs(p)}} : TRUE

(* find_succlist_hop_cb for m successors: how many of the nodes just seen  *)
(* precede the key, when the key lies among them and enough follow it.     *)
shave(cs, m, x) ==
    LET left == IF Len(cs) < m THEN Len(cs) ELSE Len(cs) - m
        hit == {i \in 1 .. left - 1 : betweenrightincl(cs[i], cs[i + 1], x)}
    IN  IF hit = {} THEN 0 ELSE CHOOSE i \in hit : \A j \in hit : i <= j

Idle == [kind |-> "idle", key |-> 0, m |-> 0, path |-> <<>>, failed |-> {},
         succs |-> <<>>, status |-> "none"]
(* route_chord::first_hop; m = 0 is find_route, m > 0 find_succlist.       *)
first_hop(kind, x, m) ==
    [Idle EXCEPT !.kind = kind, !.key = x, !.m = m, !.status = "run",
                 !.path = <<closestpred(Me, x, {})>>]

TrueSucc(x) == closestsuccloc(Node, x)
Near(p) ==
    LET s[i \in 0 .. NSucc] ==
            IF i = 0 THEN p ELSE closestsuccloc(Node, incID(s[i - 1]))
    IN  {s[i] : i \in 0 .. NSucc} \cup {closestpredloc(Node, p)}

Init ==
    /\ \E known \in SUBSET UNION {{p} \X (Node \ Near(p)) : p \in Node} :
          rtab = [p \in Node |-> Near(p) \cup {x \in Node : <<p, x>> \in known}]
    /\ rup = Node
    /\ lk = Idle
    /\ alerts = {}
    /\ fingers = [i \in 0 .. NBIT - 1 |-> -1]
    /\ f = 0
    /\ fst = [kind |-> "none"]

-----------------------------------------------------------------------------
Lookup ==
    /\ lk.status = "none"
    /\ \E x \in Keys, m \in {0, 1} : lk' = first_hop("user", x, m)
    /\ UNCHANGED <<rtab, rup, alerts, fingers, f, fst>>

Learn(t, x) == [t EXCEPT ![Me] = @ \cup {x}]

(* make_hop and make_hop_cb.  The node at the end of the path answers ...  *)
HopAnswered ==
    /\ lk.status = "run"
    /\ LET at == Last(lk.path) IN
       /\ at \in rup /\ at \in rtab[Me]
       /\ \E a \in {doroute(at, lk.key, lk.failed)} :
          \/ /\ a.status = "INRANGE"
             /\ rtab' = Learn(rtab, Head(a.succs))
             /\ lk' = [lk EXCEPT !.path = Append(@, Head(a.succs)),
                                 !.succs = a.succs, !.status = "ok"]
          \/ /\ a.status = "NOTINRANGE" /\ a.pred = at
             /\ lk' = [lk EXCEPT !.status = "ERRNOENT"]
             /\ UNCHANGED rtab
          \/ /\ a.status = "NOTINRANGE" /\ a.pred # at
             /\ rtab' = Learn(rtab, a.pred)
             /\ LET k == IF lk.m = 0 THEN 0 ELSE shave(a.succs, lk.m, lk.key)
                IN  lk' = [lk EXCEPT !.path = Append(@, a.pred),
                                     !.succs = SubSeq(a.succs, k + 1, Len(a.succs)),
                                     !.status = IF k > 0 THEN "ok" ELSE "run"]
    /\ UNCHANGED <<rup, alerts, fingers, f, fst>>

(* ... or it has crashed: Me marks it dead, goes back to who named it (or  *)
(* to itself), alerts that node and asks it again.                         *)
HopFailed ==
    /\ lk.status = "run"
    /\ LET at == Last(lk.path)
           back == IF Len(lk.path) = 1 THEN <<Me>> ELSE Front(lk.path)
       IN  /\ at \notin rup \/ at \notin rtab[Me]
           /\ rtab' = [rtab EXCEPT ![Me] = @ \ {at}]
           /\ lk' = [lk EXCEPT !.path = back, !.failed = @ \cup {at}]
           /\ alerts' = alerts \cup {<<Last(back), at>>}
    /\ UNCHANGED <<rup, fingers, f, fst>>

(* doalert: a node that knows the dead one tries it, and learns.           *)
doalert ==
    /\ \E a \in alerts :
          /\ alerts' = alerts \ {a}
          /\ rtab' = IF a[1] \in rup /\ a[2] \notin rup
                    THEN [rtab EXCEPT ![a[1]] = @ \ {a[2]}] ELSE rtab
    /\ UNCHANGED <<rup, lk, fingers, f, fst>>

UserDone ==
    /\ lk.kind = "user" /\ lk.status \in {"ok", "ERRNOENT"}
    /\ lk' = Idle
    /\ UNCHANGED <<rtab, rup, alerts, fingers, f, fst>>

Crash(x) ==
    /\ x \in rup \ {Me} /\ Cardinality(Node \ rup) < MaxCrash
    /\ rup' = rup \ {x}
    /\ UNCHANGED <<rtab, lk, alerts, fingers, f, fst>>

-----------------------------------------------------------------------------
(* finger_table::stabilize_finger: the finger at f (0 is left to           *)
(* stabilize_succ) is looked up when it has changed since last time, else  *)
(* only its predecessor is asked for.                                      *)
stabilize_finger ==
    /\ fst.kind = "none" /\ lk.status = "none"
    /\ LET i == IF f % NBIT = 0 THEN 1 ELSE f % NBIT
           g == finger(Me, i)
       IN  /\ f' = i
           /\ fingers' = [fingers EXCEPT ![i] = g]
           /\ IF fingers[i] # g
              THEN /\ lk' = first_hop("finger", successorID(Me, i), 0)
                   /\ fst' = [kind |-> "find", at |-> i, dn |-> g]
              ELSE /\ fst' = [kind |-> "getpred", at |-> i, dn |-> g]
                   /\ UNCHANGED lk
    /\ UNCHANGED <<rtab, rup, alerts>>

(* Mutant: f never moves.                                                  *)
Past_stay(t, i, d) == i

(* The first finger from i on that is not d: f moves past those that are.  *)
Past(t, i, d) ==
    LET fi(j) == closestsuccloc(t[Me], successorID(Me, j))
        stop == {j \in i .. NBIT - 1 : fi(j) # d}
    IN  IF stop = {} THEN NBIT ELSE CHOOSE j \in stop : \A k \in stop : j <= k

stabilize_finger_getpred_cb ==
    /\ fst.kind = "getpred" /\ lk.status = "none"
    /\ IF fst.dn \notin rup
       THEN /\ rtab' = [rtab EXCEPT ![Me] = @ \ {fst.dn}]
            /\ fst' = [kind |-> "none"]
            /\ UNCHANGED <<lk, f>>
       ELSE /\ rtab' = rtab
            /\ LET p == closestpredloc(rtab[fst.dn], fst.dn)
                   s == successorID(Me, fst.at)
               IN  IF betweenrightincl(p, fst.dn, s)
                   THEN /\ f' = Past(rtab, fst.at, fst.dn)
                        /\ fst' = [kind |-> "none"]
                        /\ UNCHANGED lk
                   ELSE /\ lk' = first_hop("finger", s, 0)
                        /\ fst' = [fst EXCEPT !.kind = "find"]
                        /\ UNCHANGED f
    /\ UNCHANGED <<rup, alerts, fingers>>

stabilize_findsucc_cb ==
    /\ fst.kind = "find" /\ lk.kind = "finger" /\ lk.status \in {"ok", "ERRNOENT"}
    /\ f' = IF lk.status = "ok" THEN Past(rtab, fst.at, Head(lk.succs)) ELSE f
    /\ fst' = [kind |-> "none"]
    /\ lk' = Idle
    /\ UNCHANGED <<rtab, rup, alerts, fingers>>

Next ==
    \/ Lookup \/ HopAnswered \/ HopFailed \/ doalert \/ UserDone
    \/ stabilize_finger \/ stabilize_finger_getpred_cb \/ stabilize_findsucc_cb
    \/ \E x \in Node : Crash(x)

-----------------------------------------------------------------------------
(* A lookup that succeeds names a node at or after the key with no running *)
(* node between the key and it; it fails only when a node has crashed; and *)
(* it never moves away from the key while it backs up over no one          *)
(* (make_hop_cb, closestpred, find_succlist_hop_cb).                       *)
LookupRight ==
    /\ lk.status = "ok" =>
          \A p \in rup : distance(decID(lk.key), Head(lk.succs))
                            <= distance(decID(lk.key), p)
    /\ lk.status = "ERRNOENT" => rup # Node
    /\ lk.status = "run" =>
          \A i \in 1 .. Len(lk.path) - 1 :
              lk.path[i] # Me => distance(lk.path[i + 1], lk.key)
                                    < distance(lk.path[i], lk.key)

(* Every lookup ends, and when no node crashes the fingers of Me become    *)
(* and stay right (stabilize_finger and its callbacks).                    *)
FingersRight ==
    rup = Node => \A i \in 1 .. NBIT - 1 : finger(Me, i) = TrueSucc(successorID(Me, i))
FingersHeal == /\ []<>(lk.status # "run")
               /\ <>[]FingersRight
=============================================================================
