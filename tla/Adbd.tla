-------------------------------- MODULE Adbd --------------------------------
(***************************************************************************)
(* The database daemon (lsd/adbd.C, utils/keyauxdb.C) with its client      *)
(* (utils/libadb.C): the blocks of a node, the list of their keys in the   *)
(* order they came (kdb), the Merkle tree of the keys, and, when a daemon  *)
(* starts on files of an older version, the migration into the two.  A     *)
(* call is several writes, and the daemon may stop between any two.  The   *)
(* last block of the tree may then be lost with a buffer (MerkleDisk), and *)
(* with it the tree.                                                       *)
(*                                                                         *)
(* With auxiliary data (HasAux) the tree has the key with the version of   *)
(* the block, and a block is replaced by deleting it and storing it anew;  *)
(* without, a key stands for one content (version 1).  No block is 0.      *)
(***************************************************************************)
EXTENDS Integers, SequencesExt, FiniteSetsExt

CONSTANTS NBIT,           \* of an identifier
          DbKeys, Versions,
          MaxCalls,       \* bound: calls of the client
          MaxStop         \* bound: stops of the daemon and failed writes

(* Keys are identifiers; the version of a block that has one is not 0.     *)
AdbAssumption ==
    /\ DbKeys \in SUBSET Nat /\ IsFiniteSet(DbKeys)
    /\ Versions \in SUBSET (Nat \ {0}) /\ 1 \in Versions

VARIABLES hasaux,
          data,           \* datadb and auxdatadb, written in one transaction
          kdb,            \* kdb.db, a sequence of <<key, version>>
          tree, treefile, \* the tree: how often it has a key; is there a file
          up,             \* "kdb", "tree", "fill": starting; "up"
          at,             \* records migrated
          op,             \* the client's call under way
          calls, stops,
          acked,          \* keys whose last store was answered OK
          torn,           \* keys one of whose stores was cut short or failed
          left,           \* keys a migration cut short has left out
          dirty,          \* the tree's last block is still in a buffer
          wrecked         \* a stop has lost it, and the tree

adb == <<hasaux, data, kdb, tree, treefile, up, at, op, calls, stops, acked, torn, left,
         dirty, wrecked>>

NoCall == [pc |-> "no"]
mkey(k, v) == <<k, IF hasaux THEN v ELSE 0>>
sorted(K) == [i \in 1 .. Cardinality(K) |->
                 CHOOSE k \in K : Cardinality({j \in K : j < k}) = i - 1]
Stored == {k \in DbKeys : data[k] # 0}

(* A new directory, or the files of a version without a tree, or without   *)
(* a tree and a key list.                                                  *)
AdbInit ==
    /\ hasaux \in BOOLEAN
    /\ data \in [DbKeys -> {0, 1}]
    /\ kdb \in {<<>>, [i \in DOMAIN sorted(Stored) |-> <<sorted(Stored)[i], 1>>]}
    /\ tree = [m \in DbKeys \X ({0} \cup Versions) |-> 0]
    /\ treefile = FALSE
    /\ up = "kdb" /\ at = 0
    /\ op = NoCall /\ calls = 0 /\ stops = 0
    /\ acked = {} /\ torn = {} /\ left = {}
    /\ dirty = FALSE /\ wrecked = FALSE

-----------------------------------------------------------------------------
(* dbns::dbns: an empty key list is filled from the blocks, ...            *)
migrate_getkeys ==
    /\ up = "kdb"
    /\ IF (at = 0 /\ kdb # <<>>) \/ at = Cardinality(Stored)
       THEN /\ up' = "tree" /\ at' = 0
            /\ UNCHANGED kdb
       ELSE /\ LET k == sorted(Stored)[at + 1]
               IN  kdb' = Append(kdb, <<k, IF hasaux THEN data[k] ELSE 0>>)
            /\ at' = at + 1
            /\ UNCHANGED up
    /\ UNCHANGED <<hasaux, data, tree, treefile, op, calls, stops, acked, torn, left, dirty, wrecked>>
(* ... and a tree whose file was not there from the key list.              *)
merkle_tree_disk ==
    /\ up = "tree"
    /\ treefile' = TRUE
    /\ up' = IF treefile THEN "up" ELSE "fill"
    /\ UNCHANGED <<hasaux, data, kdb, tree, at, op, calls, stops, acked, torn, left, dirty, wrecked>>
migrate_tree ==
    /\ up = "fill"
    /\ IF at = Len(kdb)
       THEN /\ up' = "up" /\ at' = 0
            /\ UNCHANGED <<tree, dirty>>
       ELSE /\ tree' = [tree EXCEPT ![mkey(kdb[at + 1][1], kdb[at + 1][2])] = @ + 1]
            /\ dirty' = TRUE
            /\ at' = at + 1
            /\ UNCHANGED up
    /\ UNCHANGED <<hasaux, data, kdb, treefile, op, calls, stops, acked, torn, left, wrecked>>

(* Mutant: the older version is overwritten, not deleted.                  *)
adb_store_over(k, v) ==
    /\ up = "up" /\ op = NoCall /\ calls < MaxCalls
    /\ calls' = calls + 1
    /\ hasaux \/ v = 1
    /\ hasaux => data[k] # v
    /\ op' = [pc |-> "tree",
              k |-> k, v |-> v, old |-> data[k]]
    /\ acked' = acked \ {k}
    /\ UNCHANGED <<hasaux, data, kdb, tree, treefile, up, at, stops, torn, left, dirty, wrecked>>

(* The client stores a block; with auxiliary data it has looked for an     *)
(* older one, which it deletes first if the new one differs.               *)
adb_store(k, v) ==
    /\ up = "up" /\ op = NoCall /\ calls < MaxCalls
    /\ calls' = calls + 1
    /\ hasaux \/ v = 1
    /\ hasaux => data[k] # v
    /\ op' = [pc |-> IF hasaux /\ data[k] # 0 THEN "delete" ELSE "tree",
              k |-> k, v |-> v, old |-> data[k]]
    /\ acked' = acked \ {k}
    /\ UNCHANGED <<hasaux, data, kdb, tree, treefile, up, at, stops, torn, left, dirty, wrecked>>

(* dbns::del: the block, then the key in the tree.                         *)
del_data ==
    /\ up = "up" /\ op.pc = "delete"
    /\ data' = [data EXCEPT ![op.k] = 0]
    /\ op' = [op EXCEPT !.pc = "deltree"]
    /\ UNCHANGED <<hasaux, kdb, tree, treefile, up, at, calls, stops, acked, torn, left, dirty, wrecked>>
(* Finding the leaf reads the tree, which writes its buffers first.  A key  *)
(* that is not there fails an assertion.                                   *)
del_tree ==
    /\ up = "up" /\ op.pc = "deltree"
    /\ IF tree[mkey(op.k, op.old)] > 0
       THEN /\ tree' = [tree EXCEPT ![mkey(op.k, op.old)] = @ - 1]
            /\ op' = [op EXCEPT !.pc = "tree"]
            /\ dirty' = TRUE
            /\ UNCHANGED <<up, torn>>
       ELSE /\ op' = NoCall /\ up' = "kdb"
            /\ torn' = torn \cup {op.k}
            /\ dirty' = FALSE
            /\ UNCHANGED tree
    /\ UNCHANGED <<hasaux, data, kdb, treefile, at, calls, stops, acked, left, wrecked>>

EndCall(ok) ==
    /\ op' = NoCall
    /\ acked' = IF ok THEN acked \cup {op.k} ELSE acked
(* dbns::kinsert: the tree, then the key list.  A key the tree has already *)
(* is answered OK at once when there is no auxiliary data.                 *)
key_exists(k) == ~hasaux /\ tree[mkey(k, 1)] > 0
kinsert_tree ==
    /\ up = "up" /\ op.pc = "tree"
    /\ dirty' = ~key_exists(op.k)
    /\ IF key_exists(op.k) THEN EndCall(TRUE) /\ UNCHANGED tree
       ELSE /\ tree' = [tree EXCEPT ![mkey(op.k, op.v)] = @ + 1]
            /\ op' = [op EXCEPT !.pc = "kdb"]
            /\ UNCHANGED acked
    /\ UNCHANGED <<hasaux, data, kdb, treefile, up, at, calls, stops, torn, left, wrecked>>
addkey ==
    /\ up = "up" /\ op.pc = "kdb"
    /\ kdb' = Append(kdb, <<op.k, op.v>>)
    /\ op' = [op EXCEPT !.pc = "data"]
    /\ UNCHANGED <<hasaux, data, tree, treefile, up, at, calls, stops, acked, torn, left, dirty, wrecked>>
(* dbns::insert, which can fail.  With auxiliary data the error is then    *)
(* overwritten by the result of the abort (and after the first of the two  *)
(* puts the second is tried in the aborted transaction, which is taken to  *)
(* store nothing): the call is answered OK, or not.                        *)
insert ==
    /\ up = "up" /\ op.pc = "data"
    /\ \/ /\ data' = [data EXCEPT ![op.k] = op.v]
          /\ EndCall(TRUE)
          /\ UNCHANGED <<stops, torn>>
       \/ /\ stops < MaxStop /\ stops' = stops + 1
          /\ torn' = torn \cup {op.k}
          /\ \E ok \in {FALSE, hasaux} : EndCall(ok)
          /\ UNCHANGED data
    /\ UNCHANGED <<hasaux, kdb, tree, treefile, up, at, calls, left, dirty, wrecked>>

(* The daemon stops and is started again.  What the C library has still in *)
(* a buffer is lost, if it was not written before; a leaf or an index node *)
(* is then missing, and nothing is said of a daemon with such a tree.      *)
Crash ==
    /\ stops < MaxStop /\ stops' = stops + 1
    /\ torn' = IF op = NoCall THEN torn ELSE torn \cup {op.k}
    /\ left' = left \cup
         CASE up = "kdb" /\ at > 0 ->
                 {k \in Stored : \A i \in DOMAIN kdb : kdb[i][1] # k}
           [] up = "fill" ->
                 {kdb[i][1] : i \in at + 1 .. Len(kdb)}
           [] OTHER -> {}
    /\ op' = NoCall
    /\ up' = "kdb" /\ at' = 0
    /\ wrecked' \in {FALSE, dirty} /\ dirty' = FALSE
    /\ UNCHANGED <<hasaux, data, kdb, tree, treefile, calls, acked>>

AdbStep ==
    \/ migrate_getkeys \/ merkle_tree_disk \/ migrate_tree
    \/ \E k \in DbKeys, v \in Versions : adb_store(k, v)
    \/ del_data \/ del_tree \/ kinsert_tree \/ addkey \/ insert
    \/ Crash
AdbNext == ~wrecked /\ AdbStep

AdbSpec == AdbInit /\ [][AdbNext]_adb

-----------------------------------------------------------------------------
Id == INSTANCE IdUtils

(* Cursors.  getkeys gives count keys from start on and looks for one more; *)
(* do_getkeys tells where to go on unless there was none.                  *)
getkeys(K, start, count) ==
    LET from == sorted({k \in K : k >= start})
    IN  [keys |-> SubSeq(from, 1, IF Len(from) < count THEN Len(from) ELSE count),
         notfound |-> Len(from) <= count]
do_getkeys(K, start, count) ==
    LET r == getkeys(K, start, count)
    IN  [keys |-> r.keys, complete |-> r.notfound,
         continuation |-> IF r.notfound THEN 0 ELSE Id!incID(Last(r.keys))]

(* getblockrange_all: the keys of K in (start, stop], round the ring, each *)
(* checked to lie past the last.  The answer is complete when a key was    *)
(* met that does not.                                                      *)
getblockrange_all(K, start, stop, count) ==
    LET ring == sorted({k \in K : k >= start}) \o sorted({k \in K : k < start})
        nth(i) == IF i = 0 THEN start ELSE ring[((i - 1) % Len(ring)) + 1]
        taken == {i \in 1 .. count : ring # <<>> /\ \A j \in 1 .. i :
                                        Id!betweenrightincl(nth(j - 1), stop, nth(j))}
    IN  [blocks |-> [i \in 1 .. Cardinality(taken) |-> nth(i)],
         complete |-> Cardinality(taken) < count]
(* getblockrange_extant: only blocks that so many nodes have, by the       *)
(* secondary index bsdx; vbs[k] is the record of k in bsdb.                *)
getblockrange_extant(vbs, extant, start, stop, count) ==
    getblockrange_all({k \in DOMAIN vbs : Len(vbs[k]) = extant}, start, stop, count)
do_getblockrange(vbs, extant, start, stop, count) ==
    IF extant >= 0 THEN getblockrange_extant(vbs, extant, start, stop, count)
    ELSE getblockrange_all(DOMAIN vbs, start, stop, count)

(* updateone: who has block k, a sequence of [n, aux].  A block nobody has *)
(* any more keeps an empty record; one never seen has none.                *)
updateone(vbs, k, who, aux, present) ==
    LET old == IF k \in DOMAIN vbs THEN vbs[k] ELSE <<>>
        dx == {i \in DOMAIN old : old[i].n = who}
        i == CHOOSE j \in dx : TRUE
        new == IF present
               THEN IF dx # {} THEN [old EXCEPT ![i].aux = aux]
                    ELSE Append(old, [n |-> who, aux |-> aux])
               ELSE SubSeq([old EXCEPT ![i] = Last(old)], 1, Len(old) - 1)
    IN  IF present \/ dx # {} THEN [j \in DOMAIN vbs \cup {k} |-> IF j = k THEN new ELSE vbs[j]]
        ELSE vbs

-----------------------------------------------------------------------------
(* Wherever the daemon stopped, unless the stop lost a block of the tree,  *)
(* the tree, with which the neighbours find out what the node has, has     *)
(* every block (kinsert and del, in that order), except what a migration   *)
(* cut short left out; a store answered OK left its block, unless a store  *)
(* of the key, this one or one before, was cut short or failed; and with   *)
(* neither, tree and blocks agree.                                         *)
TreeHas(k) == data[k] = 0 \/ tree[mkey(k, data[k])] > 0
StoreSound ==
    up = "up" /\ ~wrecked =>
        /\ \A k \in DbKeys \ left : TreeHas(k)
        /\ \A k \in acked : data[k] # 0 \/ k \in torn
        /\ \A k \in DbKeys \ (torn \cup left) : op = NoCall =>
              \A v \in {0} \cup Versions :
                 tree[<<k, v>>] = IF data[k] # 0 /\ mkey(k, data[k]) = <<k, v>> THEN 1 ELSE 0

(* An answer has the first keys of the range in ring order, is complete    *)
(* when there are fewer than asked for, and reading on from where it ended *)
(* gives the rest (do_getkeys, do_getblockrange).  For the ranges no key   *)
(* may be at an end, nor may a key or the end come right after a key.      *)
InRange(K, start, stop) ==
    LET in == {k \in K : Id!betweenrightincl(start, stop, k)}
    IN  [i \in 1 .. Cardinality(in) |->
            CHOOSE k \in in : Cardinality({j \in in : Id!distance(start, j) < Id!distance(start, k)})
                              = i - 1]
PageOf(full, page, complete, count) ==
    /\ page = SubSeq(full, 1, IF Len(full) < count THEN Len(full) ELSE count)
    /\ complete => Len(page) = Len(full)
CursorsRight(K, start, count) ==
    /\ LET p == do_getkeys(K, start, count) IN
       /\ PageOf(sorted({k \in K : k >= start}), p.keys, p.complete, count)
       /\ ~p.complete => sorted({k \in K : k >= start})
                          = p.keys \o sorted({k \in K : k >= p.continuation})
    /\ \A stop \in Id!ID :
          ((\A k \in K : Id!incID(k) \notin K \cup {stop}) /\ {start, stop} \cap K = {}) =>
              LET p == getblockrange_all(K, start, stop, count) IN
              /\ PageOf(InRange(K, start, stop), p.blocks, p.complete, count)
              /\ ~p.complete => InRange(K, start, stop)
                                 = p.blocks \o InRange(K, Id!incID(Last(p.blocks)), stop)
=============================================================================
