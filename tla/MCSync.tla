------------------------------- MODULE MCSync -------------------------------
(* How a node keeps its blocks and their replicas: the database daemon       *)
(* (Adbd), the Merkle tree of the keys on disk and in memory (MerkleDisk),  *)
(* the comparison of two such trees (MerkleSync) and the repair of what is  *)
(* missing (Repair), side by side.                                          *)
EXTENDS Adbd, Repair

CONSTANTS DiskKeys, MaxOps,
          Keys, MaxChange, MaxFail, MaxLate

VARIABLES mode,
          file, buf, index, keys, mem, ops, todo, broken,
          loc, rem, rng, changes, fails, late, st, call, gets, dead

(* The range from the node's predecessor to the node; it may go past the    *)
(* largest identifier.                                                      *)
MCRanges == {[min |-> 0, max |-> 22], [min |-> 30, max |-> 4]}

D == INSTANCE MerkleDisk WITH NBIT <- 4, SLOTBITS <- 1, CAP <- 2, Keys <- DiskKeys
S == INSTANCE MerkleSync WITH NBIT <- 6, SLOTBITS <- 2, CAP <- 2, PAGE <- 2,
                              Ranges <- MCRanges

(* The range queries of the daemon page through all keys (adbd.C).          *)
ASSUME CursorsAssumption ==
    /\ AdbAssumption /\ RepairAssumption
    /\ \A K \in SUBSET (0 .. 7), start \in 0 .. 7, count \in 1 .. 3 : CursorsRight(K, start, count)

diskVars == <<file, buf, index, keys, mem, ops, todo, broken>>
syncVars == <<loc, rem, rng, changes, fails, late, st, call, gets, dead>>
vars == <<mode, diskVars, syncVars, adb, repair>>

Init ==
    /\ mode \in {"disk", "sync", "adb", "repair"}
    /\ D!Init
    /\ S!Init /\ (mode # "sync" => rem = {} /\ \A k \in Keys : loc[k] = 0)
    /\ AdbInit /\ (mode # "adb" => ~hasaux /\ Stored = {})
    /\ RepairInit /\ (kind = "keyhash" => \A n \in 0 .. 2 : have[6][n] = 1)
              /\ (mode # "repair" =>
                     kind = "chash" /\ \A b \in DOMAIN have, n \in 0 .. 2 : have[b][n] = 1)

Next ==
    /\ UNCHANGED mode
    /\ \/ mode = "disk" /\ D!Next /\ UNCHANGED <<syncVars, adb, repair>>
       \/ mode = "sync" /\ S!Next /\ UNCHANGED <<diskVars, adb, repair>>
       \/ mode = "adb" /\ AdbNext /\ UNCHANGED <<diskVars, syncVars, repair>>
       \/ mode = "repair" /\ RepairNext /\ UNCHANGED <<diskVars, syncVars, adb>>

(* Calls return and the timer of the next round fires: syncing goes on; so  *)
(* do the walks of the repair timer, its jobs and what the syncer tells it. *)
Spec == /\ Init /\ [][Next]_vars
        /\ []<><<mode = "sync" => changes' = changes /\ fails' = fails>>_vars
        /\ []<><<mode = "repair" => Walks>>_vars
        /\ []<><<mode = "repair" => Works>>_vars
        /\ []<><<mode = "repair" => Syncs>>_vars

-----------------------------------------------------------------------------
(* Wherever the process stops, the tree on disk is the tree of the keys, or *)
(* only the last written block of a file is missing (merkle_tree_disk.C).   *)
TreeIntact == mode = "disk" => D!TreeIntact

(* Repeated syncs find all differences (merkle_syncer.C).                   *)
Converges == <>[](mode = "sync" => S!Synced)

(* What is missing of a block is put back (dhblock_*_srv.C).                *)
Repaired == <>[](mode = "repair" => AllRepaired)

(* "assert (!isleaf ())" in child_hash: no index node becomes a leaf while  *)
(* a sync has it on its stack.                                              *)
NoAssertionFails == mode = "sync" => S!NoAssertionFails
=============================================================================
