----------------------------- MODULE MerkleSync -----------------------------
(***************************************************************************)
(* Finding out what a neighbour stores (merkle/merkle_syncer.C,            *)
(* merkle_server.C, lsd/syncer.C): a node keeps a Merkle tree of what it   *)
(* believes the neighbour has, compares it with the neighbour's own tree   *)
(* node by node, asks for a range of keys where its tree has a leaf and    *)
(* the neighbour's an index node, and corrects its tree while it compares. *)
(*                                                                         *)
(* loc[k] is how often k is in the local tree, which does not look for a   *)
(* key before it inserts it; rem is the set of keys of the neighbour,      *)
(* which goes on storing and removing keys.  A tree is determined by its   *)
(* keys (TreeIntact), so two nodes have the same hash when the keys under  *)
(* them agree.                                                             *)
(***************************************************************************)
EXTENDS MerkleTree

CONSTANTS Keys,
          Ranges,         \* the ranges of the ring the node can answer for
          PAGE,           \* keys in an answer to GETKEYS (64)
          MaxChange,      \* bound: changes at the neighbour and of the range
          MaxFail,        \* bound: calls that fail
          MaxLate         \* bound: rounds begun while keys are still asked for

VARIABLES loc, rem, rng, changes, fails, late,
          st,             \* merkle_syncer::st: index nodes of the neighbour
          call,           \* the SENDNODE call under way
          gets,           \* the merkle_getkeyrange objects
          dead            \* an assertion failed: "local" or "remote"

sync == <<loc, rem, rng, changes, fails, late, st, call, gets, dead>>

Copies(K) == [k \in Keys |-> IF k \in K THEN 1 ELSE 0]
under(b, depth, x) == [k \in Keys |-> IF prefix_match(depth, k, x) THEN b[k] ELSE 0]
leaf(b, depth, x) ==
    LET mine == {k \in Keys : prefix_match(depth, k, x)}
    IN  Cardinality({c \in mine \X (1 .. CAP + 1) : c[2] <= b[c[1]]}) <= CAP
(* lookup_exact finds a node: all nodes above it are index nodes.          *)
lookup_exact(b, depth, x) == \A d \in 0 .. depth - 1 : ~leaf(b, d, x)

overlap(l1, r1, l2, r2) ==
    \/ betweenbothincl(l1, r1, l2) \/ betweenbothincl(l1, r1, r2)
    \/ betweenbothincl(l2, r2, l1) \/ betweenbothincl(l2, r2, r1)

NoCall == [on |-> FALSE]
(* format_rpcnode: the neighbour's node, with the keys it stands for.      *)
format_rpcnode(depth, x) ==
    [depth |-> depth, prefix |-> x, isleaf |-> leaf(Copies(rem), depth, x),
     keys |-> database_get_keys(rem, depth, x)]

Init ==
    /\ loc \in {Copies(K) : K \in SUBSET Keys}
    /\ rem \in SUBSET Keys
    /\ rng \in Ranges
    /\ changes = 0 /\ fails = 0 /\ late = 0
    /\ st = <<>> /\ call = NoCall /\ gets = {}
    /\ dead = "no"

-----------------------------------------------------------------------------
sendnode(depth, x) == [on |-> TRUE, depth |-> depth, prefix |-> x, rep |-> <<>>]

(* Mutant: only the first slot is looked at.                               *)
Slots_first(b, p) == IF p.slot = 0 THEN {0} ELSE {}
(* next: the first slot from p.slot on whose hashes differ and whose keys  *)
(* the node answers for; index nodes without one are popped.               *)
Slots(b, p) ==
    LET slot(i) == write_slot(p.node.prefix, p.node.depth, i)
        d == p.node.depth + 1
    IN  {i \in p.slot .. FAN - 1 :
            /\ under(b, d, slot(i)) # under(Copies(p.node.keys), d, slot(i))
            /\ overlap(rng.min, rng.max, slot(i), slot(i) + width(d) - 1)}

RECURSIVE next(_, _)
next(b, s) ==
    IF s = <<>> THEN [st |-> <<>>, call |-> NoCall, dead |-> "no"]
    ELSE LET p == Last(s)
             differ == Slots(b, p)
             i == Min(differ)
         IN  IF \/ ~lookup_exact(b, p.node.depth, p.node.prefix)
                \/ p.slot < FAN /\ leaf(b, p.node.depth, p.node.prefix)
             THEN [st |-> s, call |-> NoCall, dead |-> "local"]
             ELSE IF differ = {} THEN next(b, Front(s))
             ELSE [st |-> Append(Front(s), [p EXCEPT !.slot = i + 1]), dead |-> "no",
                   call |-> sendnode(p.node.depth + 1,
                                     write_slot(p.node.prefix, p.node.depth, i))]

(* compare_keylists and syncer::missing: a key of the neighbour's that is  *)
(* not in the list is inserted; one copy of a key of the list stays if the *)
(* neighbour has the key, and the others are removed.                      *)
gained(l, rk, min, max) ==
    {k \in rk : betweenbothincl(min, max, k) /\ l[k] = 0}
lost(l, rk, min, max) ==
    [k \in Keys |-> IF ~betweenbothincl(min, max, k) \/ l[k] = 0 THEN 0
                    ELSE IF k \in rk THEN l[k] - 1 ELSE l[k]]
compare_keylists(b, l, rk, min, max) ==
    [k \in Keys |-> b[k] - lost(l, rk, min, max)[k]
                    + IF k \in gained(l, rk, min, max) THEN 1 ELSE 0]
(* The removal of a key that is not there fails an assertion.              *)
removable(b, l, rk, min, max) == \A k \in Keys : b[k] >= lost(l, rk, min, max)[k]

(* compare_nodes, a leaf against an index node: the keys to ask for.  The  *)
(* width of the node counts one bit a level.                               *)
keyrange(depth, x) ==
    LET top == x + 2^(NBIT - depth) - 1
        min == IF between(x, top, rng.min) THEN rng.min ELSE x
    IN  [min |-> min, max |-> IF between(min, top, rng.max) THEN rng.max ELSE top]

-----------------------------------------------------------------------------
(* syncer::sync_replicas starts the next round when the stack of the last  *)
(* one is empty; its ranges of keys may still be asked for.  The range is  *)
(* that of the predecessor of the moment.                                  *)
Sync(r) ==
    /\ dead = "no" /\ ~call.on /\ st = <<>>
    /\ IF gets = {} THEN UNCHANGED late ELSE late < MaxLate /\ late' = late + 1
    /\ IF r = rng THEN UNCHANGED changes ELSE changes < MaxChange /\ changes' = changes + 1
    /\ call' = sendnode(0, 0)
    /\ rng' = r
    /\ UNCHANGED <<loc, rem, fails, st, gets, dead>>

(* handle_send_node asserts that it has a node at that depth.              *)
handle_send_node ==
    /\ dead = "no" /\ call.on /\ call.rep = <<>>
    /\ IF lookup_exact(Copies(rem), call.depth, call.prefix)
       THEN /\ call' = [call EXCEPT !.rep = <<format_rpcnode(call.depth, call.prefix)>>]
            /\ UNCHANGED dead
       ELSE dead' = "remote" /\ UNCHANGED call
    /\ UNCHANGED <<loc, rem, rng, changes, fails, late, st, gets>>

sendnode_cb ==
    /\ dead = "no" /\ call.on /\ call.rep # <<>>
    /\ LET r == Head(call.rep)
           isl == leaf(loc, r.depth, r.prefix)
           l == under(loc, r.depth, r.prefix)
           kr == keyrange(r.depth, r.prefix)
           new == IF r.isleaf
                  THEN compare_keylists(loc, l, r.keys, rng.min, rng.max) ELSE loc
       IN  IF ~lookup_exact(loc, r.depth, r.prefix)
           THEN dead' = "local" /\ UNCHANGED <<loc, st, call, gets>>
           ELSE /\ loc' = new
                /\ gets' = IF isl /\ ~r.isleaf
                           THEN gets \cup {[no |-> late, min |-> kr.min, max |-> kr.max,
                                            cur |-> kr.min, l |-> l, rep |-> <<>>]}
                           ELSE gets
                /\ \E n \in {next(new, IF ~isl /\ ~r.isleaf
                                       THEN Append(st, [node |-> r, slot |-> 0]) ELSE st)} :
                      st' = n.st /\ call' = n.call /\ dead' = n.dead
    /\ UNCHANGED <<rem, rng, changes, fails, late>>

(* handle_get_keys: a page of keys, and whether there are more.            *)
handle_get_keys(g) ==
    /\ dead = "no" /\ g \in gets /\ g.rep = <<>>
    /\ LET ks == disk_keyrange(rem, g.cur, g.max, PAGE + 1)
           page == SubSeq(ks, 1, IF Len(ks) > PAGE THEN PAGE ELSE Len(ks))
       IN  gets' = (gets \ {g}) \cup
                      {[g EXCEPT !.rep = <<[keys |-> page, more |-> Len(ks) > PAGE]>>]}
    /\ UNCHANGED <<loc, rem, rng, changes, fails, late, st, call, dead>>

getkeys_cb(g) ==
    /\ dead = "no" /\ g \in gets /\ g.rep # <<>>
    /\ LET r == Head(g.rep)
           sentmax == IF r.keys = <<>> THEN g.max ELSE Last(r.keys)
           cur == IF r.more THEN incID(sentmax) ELSE incID(g.max)
       IN  IF removable(loc, g.l, ToSet(r.keys), g.cur, sentmax)
           THEN /\ loc' = compare_keylists(loc, g.l, ToSet(r.keys), g.cur, sentmax)
                /\ gets' = (gets \ {g}) \cup
                             IF betweenbothincl(g.min, g.max, cur)
                             THEN {[g EXCEPT !.cur = cur, !.rep = <<>>]} ELSE {}
                /\ UNCHANGED dead
           ELSE dead' = "local" /\ UNCHANGED <<loc, gets>>
    /\ UNCHANGED <<rem, rng, changes, fails, late, st, call>>

(* A failed call ends the sync, or only the range it was for.              *)
CallFails ==
    /\ dead = "no" /\ fails < MaxFail /\ fails' = fails + 1
    /\ \/ /\ call.on /\ call' = NoCall /\ st' = <<>>
          /\ UNCHANGED gets
       \/ \E g \in gets : gets' = gets \ {g} /\ UNCHANGED <<call, st>>
    /\ UNCHANGED <<loc, rem, rng, changes, late, dead>>

(* The neighbour stores or removes a key.                                  *)
Change(k) ==
    /\ dead = "no" /\ changes < MaxChange /\ changes' = changes + 1
    /\ rem' = IF k \in rem THEN rem \ {k} ELSE rem \cup {k}
    /\ UNCHANGED <<loc, rng, fails, late, st, call, gets, dead>>

Next ==
    \/ \E r \in Ranges : Sync(r)
    \/ handle_send_node \/ sendnode_cb
    \/ \E g \in gets : handle_get_keys(g) \/ getkeys_cb(g)
    \/ CallFails
    \/ \E k \in Keys : Change(k)

-----------------------------------------------------------------------------
(* The keys that a sync does not ask for if the range goes past 0: where a *)
(* leaf of the local tree meets an index node of the neighbour's,          *)
(* compare_nodes cuts the range off at rngmin, although it begins anew at  *)
(* 0, or at the end of a node that it takes for wider than it is.          *)
Unasked(k) ==
    /\ rng.max < rng.min
    /\ \E d \in 0 .. NBIT \div SLOTBITS :
          /\ lookup_exact(loc, d, k) /\ leaf(loc, d, k)
          /\ lookup_exact(Copies(rem), d, k) /\ ~leaf(Copies(rem), d, k)
          /\ LET kr == keyrange(d, clear_suffix(k, d)) IN ~betweenbothincl(kr.min, kr.max, k)

(* When no assertion stops it, syncing again and again makes the node know *)
(* what the neighbour has of the range, no key twice, once the neighbour   *)
(* and the range do not change and no call fails, even if rounds overlap   *)
(* (merkle_syncer::next, compare_nodes, merkle_getkeyrange,                *)
(* syncer::missing).  Where leaf meets index node, keys past 0 of a range  *)
(* that goes past it may stay unknown for ever: see Unasked.               *)
Synced ==
    \/ dead # "no"
    \/ \A k \in Keys : betweenbothincl(rng.min, rng.max, k) /\ ~Unasked(k) => loc[k] = Copies(rem)[k]
Converges == <>[]Synced

(* The assertions of child_hash, of lookup_exact's callers and of          *)
(* handle_send_node: a node that was an index node still is one when its   *)
(* children are asked for.                                                 *)
NoAssertionFails == dead = "no"
=============================================================================
