----------------------------- MODULE MerkleTree -----------------------------
(***************************************************************************)
(* The Merkle tree over the keys a node stores, in memory                  *)
(* (merkle/merkle_tree.C, merkle_node.C, merkle_hash.C): a leaf that is    *)
(* full becomes an index node when a further key comes, an index node      *)
(* becomes a leaf again when its keys fit into one, and the hashes on the  *)
(* path of the key are computed anew.                                      *)
(*                                                                         *)
(* A node is [count, hash, entry], entry = <<>> in a leaf.  A SHA-1 hash   *)
(* is what was hashed, and 0 of nothing is <<"0">>.                        *)
(***************************************************************************)
EXTENDS IdUtils, SequencesExt, TLC

CONSTANTS SLOTBITS,       \* bits of the key that choose a branch (6)
          CAP             \* keys in a leaf (64)

FAN == 2^SLOTBITS
Branch == 0 .. FAN - 1

(* merkle_hash::read_slot and write_slot, and the keys under a prefix.     *)
width(depth) == 2^(NBIT - SLOTBITS * depth)
read_slot(key, depth) == (key \div width(depth + 1)) % FAN
clear_suffix(key, depth) == key - (key % width(depth))
write_slot(prefix, depth, i) == clear_suffix(prefix, depth) + i * width(depth + 1)
prefix_match(depth, key, prefix) == key \div width(depth) = prefix \div width(depth)
database_get_keys(K, depth, prefix) == {k \in K : prefix_match(depth, k, prefix)}

isleaf(n) == n.entry = <<>>
leaf_is_full(n) == n.count = CAP
child(n, i) == n.entry[i + 1]

rehash(K, depth, key, n) ==
    [n EXCEPT !.hash = IF n.count = 0 THEN <<"0">>
                       ELSE IF isleaf(n) THEN <<"L", database_get_keys(K, depth, key)>>
                       ELSE <<"I", [i \in Branch |-> child(n, i).hash]>>]

count_blocks(K, depth, key) ==
    [i \in Branch |-> Cardinality({k \in database_get_keys(K, depth, key) :
                                     read_slot(k, depth) = i})]
leaf2internal(K, depth, key, n) ==
    [n EXCEPT !.entry =
        [j \in 1 .. FAN |->
            rehash(K, depth + 1, write_slot(key, depth, j - 1),
                   [count |-> count_blocks(K, depth, key)[j - 1], hash |-> <<"0">>,
                    entry |-> <<>>])]]

(* insert: K is the key list before, and K with the key the list when the  *)
(* hashes on the way up are computed.                                      *)
RECURSIVE insert(_, _, _, _)
insert(K, depth, key, n) ==
    LET m == IF isleaf(n) /\ leaf_is_full(n) THEN leaf2internal(K, depth, key, n) ELSE n
        b == read_slot(key, depth) + 1
        put == IF isleaf(m) THEN m
               ELSE [m EXCEPT !.entry[b] = insert(K, depth + 1, key, @)]
    IN  rehash(K \cup {key}, depth, key, [put EXCEPT !.count = @ + 1])

RECURSIVE remove(_, _, _, _)
remove(K, depth, key, n) ==
    LET b == read_slot(key, depth) + 1
        cut == IF isleaf(n) THEN n
               ELSE [n EXCEPT !.entry[b] = remove(K, depth + 1, key, @)]
        less == [cut EXCEPT !.count = @ - 1]
        small == IF ~isleaf(less) /\ less.count <= CAP
                 THEN [less EXCEPT !.entry = <<>>] ELSE less
    IN  rehash(K \ {key}, depth, key, small)

(* The deepest node on the key's path, at most max_depth deep.             *)
RECURSIVE lookup(_, _, _, _)
lookup(n, depth, max_depth, key) ==
    IF depth = max_depth \/ isleaf(n) THEN [node |-> n, depth |-> depth]
    ELSE lookup(child(n, read_slot(key, depth)), depth + 1, max_depth, key)

(* get_keyrange: up to m keys from min on, which does not go on past the   *)
(* end of the key list.                                                    *)
sorted(K) == SetToSortSeq(K, <)
closestsucc(K, x) ==
    IF \E k \in K : k >= x THEN CHOOSE k \in K : k >= x /\ \A j \in K : j >= x => k <= j
    ELSE CHOOSE k \in K : \A j \in K : k <= j
get_keyrange(K, min, max, m) ==
    IF K = {} THEN <<>>
    ELSE LET from == SelectSeq(sorted(K), LAMBDA k : k >= closestsucc(K, min))
             in == {i \in DOMAIN from : \A j \in 1 .. i : betweenbothincl(min, max, from[j])}
         IN  SubSeq(from, 1, IF Cardinality(in) < m THEN Cardinality(in) ELSE m)

(* merkle_tree_disk::get_keyrange: from the leaf of min to the right, then *)
(* from the left end if the range goes past the right one.                 *)
RECURSIVE get_keyrange_recurs(_, _, _, _, _, _, _, _)
get_keyrange_recurs(K, depth, prefix, min, max, m, got, left) ==
    LET mine == sorted(database_get_keys(K, depth, prefix))
        room(i) == Len(got) + Cardinality({j \in 1 .. i - 1 :
                                             betweenbothincl(min, max, mine[j])}) < m
        seen == SelectSeq([i \in DOMAIN mine |-> i], room)
        take == SelectSeq([i \in DOMAIN seen |-> mine[i]],
                          LAMBDA k : betweenbothincl(min, max, k))
        first == IF left THEN 0 ELSE read_slot(min, depth)
        walk[b \in first .. FAN] ==
            IF b = first THEN [keys |-> got, over |-> FALSE]
            ELSE LET prev == walk[b - 1]
                 IN  IF Len(prev.keys) >= m \/ prev.over THEN prev
                     ELSE get_keyrange_recurs(K, depth + 1, write_slot(prefix, depth, b - 1),
                                              min, max, m, prev.keys, left \/ b - 1 > first)
        w == walk[FAN]
    IN  IF Len(mine) <= CAP
        THEN [keys |-> got \o take,
              over |-> /\ seen # <<>> /\ left
                       /\ betweenbothincl(min, mine[Len(seen)], max)]
        ELSE IF depth = 0 /\ ~w.over /\ Len(w.keys) < m /\ betweenrightincl(min, max, 0)
             THEN get_keyrange_recurs(K, depth, prefix, 0, max, m, w.keys, TRUE)
             ELSE w
disk_keyrange(K, min, max, m) ==
    get_keyrange_recurs(K, 0, 0, min, max, m, <<>>, FALSE).keys

-----------------------------------------------------------------------------
(* What a tree should be: it depends on the set of keys and on nothing     *)
(* else, in particular not on the order of insertions and removals.        *)
RECURSIVE Tree(_, _, _)
Tree(K, depth, prefix) ==
    LET mine == database_get_keys(K, depth, prefix)
        kids == [j \in 1 .. FAN |-> Tree(K, depth + 1, write_slot(prefix, depth, j - 1))]
    IN  IF Cardinality(mine) <= CAP
        THEN [count |-> Cardinality(mine), entry |-> <<>>,
              hash |-> IF mine = {} THEN <<"0">> ELSE <<"L", mine>>]
        ELSE [count |-> Cardinality(mine), entry |-> kids,
              hash |-> <<"I", [i \in Branch |-> kids[i + 1].hash]>>]

(* The keys of K from min to max in the order they are met going up.       *)
KeysIn(K, min, max) ==
    SetToSortSeq({k \in K : betweenbothincl(min, max, k)},
                 LAMBDA a, b : distance(decID(min), a) < distance(decID(min), b))
=============================================================================
