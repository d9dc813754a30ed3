--------------------------- MODULE LocationTable ---------------------------
(***************************************************************************)
(* A node's table of the other nodes it knows (utils/locationtable.C over  *)
(* utils/skiplist.h): locations ordered on the circle, each good (alive)   *)
(* or not, evicted in least-recently-used order when there are more than   *)
(* max_cachedlocs, except the pinned ones.                                 *)
(*                                                                         *)
(* A table is [lru, dead]: lru holds the identifiers of the locations from *)
(* the least to the most recently used, dead those that are not alive.     *)
(***************************************************************************)
EXTENDS IdUtils, SequencesExt

CONSTANTS Me,             \* the node whose table it is
          Others,         \* identifiers it can hear of
          NSucc,          \* chord.nsucc: the successors to pin
          MaxCached       \* max_cachedlocs

TableAssumption ==
    /\ NBIT \in Nat /\ \A i \in 0 .. NBIT : 2^i \in Nat \ {0}
    /\ Me \in ID /\ Others \subseteq ID
    /\ NSucc \in Nat \ {0} /\ MaxCached \in Nat

VARIABLE lt

Locs(t) == Range(t.lru)
good(t, x) == x \notin t.dead
Good(t) == {x \in Locs(t) : good(t, x)}

(* skiplist.h: the first key at or after x, the last key before x, and     *)
(* their neighbours; locationtable::next and prev go round the end.        *)
firstKey(S) == CHOOSE k \in S : \A j \in S : k <= j
lastKey(S) == CHOOSE k \in S : \A j \in S : k >= j
closestsucc(S, x) ==
    IF \E k \in S : k >= x THEN firstKey({k \in S : k >= x}) ELSE firstKey(S)
closestpred(S, x) ==
    IF \E k \in S : k < x THEN lastKey({k \in S : k < x}) ELSE lastKey(S)
next(S, k) ==
    IF \E j \in S : j > k THEN firstKey({j \in S : j > k}) ELSE firstKey(S)
prev(S, k) == closestpred(S, k)

(* Once round the circle from l, up or down.                               *)
Step(S, k, up) == IF up THEN next(S, k) ELSE prev(S, k)
Turn(S, l, up) ==
    LET at[i \in 0 .. Cardinality(S) - 1] == IF i = 0 THEN l ELSE Step(S, at[i - 1], up)
    IN  at
(* The first good location met; the code asserts that there is one.        *)
FirstGood(at, G) ==
    LET sz == {i \in DOMAIN at : at[i] \in G}
    IN  IF sz = {} THEN -1 ELSE at[firstKey(sz)]

closestsuccloc(t, x) ==
    FirstGood(Turn(Locs(t), closestsucc(Locs(t), x), TRUE), Good(t))
closestpredloc(t, x, failed) ==
    LET l == IF x \in Locs(t) THEN prev(Locs(t), x) ELSE closestpred(Locs(t), x)
    IN  FirstGood(Turn(Locs(t), l, FALSE), Good(t) \ failed)

-----------------------------------------------------------------------------
(* What the vnode pins: itself and NSucc successors (pin (myID, nsucc)),   *)
(* one predecessor (pin (myID, -1)), and the successor of each of its      *)
(* finger starts (pin (starts[i], 1)).                                     *)
Pins == {[at |-> Me, succ |-> NSucc, pred |-> 1]}
        \cup {[at |-> successorID(Me, i), succ |-> 1, pred |-> 0] :
                i \in {j \in 0 .. NBIT - 1 : successorID(Me, j) # Me}}

(* The first num good locations met from `from` in one turn of the circle, *)
(* along the successors or along the predecessors.                         *)
process_pin(t, from, num, succs) ==
    LET at == Turn(Locs(t), from, succs)
        before(i) == Cardinality({j \in 0 .. i - 1 : good(t, at[j])})
    IN  {at[i] : i \in {j \in DOMAIN at : good(t, at[j]) /\ before(j) < num}}

succPins(t, p) == process_pin(t, closestsucc(Locs(t), p.at), p.succ, TRUE)
predPins(t, p) ==
    {closestpred(Locs(t), p.at)} \cup process_pin(t, closestpred(Locs(t), p.at), p.pred, FALSE)

(* Mutant: the pins of the fingers are left out.                           *)
figure_pins_nofingers(t) ==
    process_pin(t, closestsucc(Locs(t), Me), NSucc, TRUE)
    \cup process_pin(t, closestpred(Locs(t), Me), 1, FALSE)

figure_pins(t) ==
    (UNION {succPins(t, p) : p \in Pins})
    \cup (UNION {predPins(t, p) : p \in {q \in Pins : q.pred > 0}})

(* The locations of lru that are in S, in their order.                     *)
AppendIf(c, x, S) == IF x \in S THEN Append(c, x) ELSE c
Keep(lru, S) ==
    LET k[i \in 0 .. Len(lru)] == IF i = 0 THEN <<>> ELSE AppendIf(k[i - 1], lru[i], S)
    IN  k[Len(lru)]

remove(t, out) == [lru |-> Keep(t.lru, Locs(t) \ out), dead |-> t.dead \ out]

(* The first k of the locations of t that are in S, oldest first.          *)
Oldest(t, k, S) ==
    LET c == Keep(t.lru, S)
    IN  {c[i] : i \in 1 .. IF Len(c) < k THEN Len(c) ELSE k}

(* evict(k): unpinned dead locations in LRU order, then any unpinned ones; *)
(* evict(0), that is flush(), throws out all that is not pinned.           *)
evict(t, k) ==
    LET pinned == figure_pins(t)
        bad == Oldest(t, k, {y \in Locs(t) \ pinned : ~good(t, y)})
        any == Oldest(t, k - Cardinality(bad), Locs(t) \ (pinned \cup bad))
        out == IF k = 0 THEN Locs(t) \ pinned ELSE bad \cup any
    IN  remove(t, out)

(* lookup moves the location to the most recently used end.                *)
lookup(t, x) ==
    IF x \in Locs(t)
    THEN [t EXCEPT !.lru = Append(Keep(@, Locs(t) \ {x}), x)]
    ELSE t

(* realinsert: news about a known location makes it alive when it is newer *)
(* than what the table has; an unknown one is added, alive.                *)
realinsert(t, x, newer) ==
    IF x \in Locs(t)
    THEN [lookup(t, x) EXCEPT !.dead = IF newer THEN @ \ {x} ELSE @]
    ELSE LET u == [t EXCEPT !.lru = Append(@, x)]
         IN  IF Len(u.lru) > MaxCached THEN evict(u, Len(u.lru) - MaxCached) ELSE u

-----------------------------------------------------------------------------
TableInit == lt = [lru |-> <<Me>>, dead |-> {}]

Insert == \E x \in Others, newer \in BOOLEAN : lt' = realinsert(lt, x, newer)
Lookup == \E x \in Locs(lt) : lt' = lookup(lt, x)
(* location::set_alive: the node itself is never dead.                     *)
set_alive ==
    \E x \in Locs(lt) \ {Me}, alive \in BOOLEAN :
        lt' = [lt EXCEPT !.dead = IF alive THEN @ \ {x} ELSE @ \cup {x}]
flush == lt' = evict(lt, 0)

TableNext == Insert \/ Lookup \/ set_alive \/ flush

TableSpec == TableInit /\ [][TableNext]_lt

-----------------------------------------------------------------------------
(* The table always has an answer, the answer to a search is the good node *)
(* nearest in the direction of the search whatever dead nodes lie between, *)
(* and no location is in the LRU list twice (closestsuccloc,               *)
(* closestpredloc, evict).                                                 *)
NearestFound ==
    /\ \A x \in ID :
        LET s == closestsuccloc(lt, x)
            p == closestpredloc(lt, x, {})
        IN  /\ s \in Good(lt) /\ p \in Good(lt)
            /\ \A k \in Good(lt) :
                  /\ distance(decID(x), k) >= distance(decID(x), s)
                  /\ distance(k, x) >= distance(p, x)
    /\ IsInjective(lt.lru)

succ(t, k) ==
    LET at[i \in 0 .. k] ==
            IF i = 0 THEN Me ELSE closestsuccloc(t, incID(at[i - 1]))
    IN  at[k]

(* A step never makes a node forget one of its first NSucc - 1 good        *)
(* successors, its good predecessor or a good finger, unless a nearer node *)
(* takes its place, and leaves more than MaxCached locations only when all *)
(* of them are pinned (figure_pins before evict in realinsert).            *)
PinsHeld ==
    /\ \A k \in 1 .. NSucc - 1 :
         \/ succ(lt, k) \in Locs(lt')
         \/ \E x \in Good(lt') \ Locs(lt) : between(Me, succ(lt, k), x)
    /\ \A i \in 0 .. NBIT - 1 : LET f == closestsuccloc(lt, successorID(Me, i)) IN
         \/ f \in Locs(lt')
         \/ \E k \in Good(lt') : between(decID(successorID(Me, i)), f, k)
    /\ \/ closestpredloc(lt, Me, {}) \in Locs(lt')
       \/ \E k \in Good(lt') : between(closestpredloc(lt, Me, {}), Me, k)
    /\ Locs(lt') # Locs(lt) /\ Len(lt'.lru) > MaxCached =>
         Locs(lt') \subseteq figure_pins(lt')

(* A search of the table finds the nearest good node, whatever has been    *)
(* inserted, evicted and found dead, and evicting forgets no node that     *)
(* stabilisation and routing need (closestsuccloc, figure_pins, evict).    *)
TableRight == []NearestFound /\ [][PinsHeld]_lt
=============================================================================
