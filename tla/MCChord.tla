------------------------------ MODULE MCChord ------------------------------
(* The parts of Chord, one at a time: the ring under joins and faults       *)
(* (ChordRing), and lookups and fingers on a settled ring (ChordRoute).     *)
EXTENDS Integers, FiniteSets, Sequences

CONSTANTS RingNode, RouteNode, Keys,   \* identifiers of nodes and keys
          RingBits, RouteBits, NSucc, MaxCalls, MaxCrash

VARIABLES mode,
          tab, up, in, oldsucc, sq, pq, lq, dead_nodes, pings, notes, sc,
          rtab, rup, lk, alerts, fingers, f, fst

(* A node joins two others and one of the three crashes; or, of three       *)
(* members, one is taken for dead.                                          *)
MCScenarios == {[founders |-> {0, 3}, crash |-> 1, late |-> 0],
                [founders |-> {0, 3, 5}, crash |-> 0, late |-> 1]}

R == INSTANCE ChordRing WITH NBIT <- RingBits, Node <- RingNode, Scenarios <- MCScenarios
Ro == INSTANCE ChordRoute WITH NBIT <- RouteBits, Node <- RouteNode, Me <- 3

ringVars == <<tab, up, in, oldsucc, sq, pq, lq, dead_nodes, pings, notes, sc>>
routeVars == <<rtab, rup, lk, alerts, fingers, f, fst>>
vars == <<mode, ringVars, routeVars>>

Init ==
    /\ mode \in {"ring", "route"}
    /\ R!Init /\ (mode # "ring" => sc.crash = 0)
    /\ Ro!Init /\ (mode # "route" => \A p \in RouteNode : rtab[p] = RouteNode)

Next ==
    /\ UNCHANGED mode
    /\ \/ mode = "ring" /\ R!Next /\ UNCHANGED routeVars
       \/ mode = "route" /\ Ro!Next /\ UNCHANGED ringVars

(* Timers fire and calls return.  On the ring: each of the two timers of a  *)
(* running node, independent of the other, starts a round again and again,  *)
(* whose calls are answered (pq and lq change in every round, and the next  *)
(* one waits for all calls of the last); a notify that is out comes to an   *)
(* end, a dead node that runs again is pinged.  On the route: a lookup      *)
(* under way makes hops, a user lookup that is over is dropped, alerts      *)
(* arrive, and the backoff timer, which fires again and again, finds a      *)
(* moment between two lookups.                                              *)
RingFair ==
    /\ \A p \in RingNode :
          /\ []<><<mode # "ring" \/ p \notin up \cap in \/ pq[p]' # pq[p]>>_vars
          /\ []<><<mode # "ring" \/ p \notin up \/ lq[p]' # lq[p]>>_vars
    /\ \A p, y \in RingNode :
          []<><<mode # "ring" \/ <<p, y>> \notin notes \/ <<p, y>> \notin notes'>>_vars
    /\ \A p, y \in RingNode :
          p # y => WF_vars(mode = "ring" /\ R!check_dead_node(p, y) /\ UNCHANGED <<mode, routeVars>>)
RouteFair ==
    /\ []<><<mode # "route" \/ lk.status # "run" \/ lk' # lk>>_vars
    /\ WF_vars(mode = "route" /\ Ro!UserDone /\ UNCHANGED <<mode, ringVars>>)
    /\ WF_vars(mode = "route" /\ Ro!doalert /\ UNCHANGED <<mode, ringVars>>)
    /\ \/ <>[](fst.kind # "none" \/ lk.status # "none" \/ mode # "route")
       \/ []<><<fst.kind = "none" /\ fst' # fst>>_vars
    /\ []<><<mode # "route" \/ fst.kind = "none" \/ fst' # fst>>_vars

Spec == Init /\ [][Next]_vars /\ RingFair /\ RouteFair

-----------------------------------------------------------------------------
(* After joins, crashes and false suspicions the ring becomes right and     *)
(* stays so (stabilize_succ, stabilize_pred, notify, check_dead_node).      *)
RingHeals == <>[](mode = "ring" => R!RingRight)

(* Lookups end at the right node and go only forward (make_hop_cb).         *)
LookupRight == mode = "route" => Ro!LookupRight

(* Lookups end and fingers become right (stabilize_finger).                 *)
FingersHeal == []<>(lk.status # "run") /\ <>[](mode = "route" => Ro!FingersRight)
=============================================================================
