----------------------------- MODULE MerkleDisk -----------------------------
(***************************************************************************)
(* The Merkle tree on disk (merkle/merkle_tree_disk.C): leaves and index   *)
(* nodes in blocks of two files, and an index file with the root and the   *)
(* free blocks.  An insertion or removal writes every node of the path to  *)
(* a new block and then the index, which frees the old blocks.             *)
(*                                                                         *)
(* A pointer is <<type, block>>.  The files are written through stdio: a   *)
(* block written stays in the file's buffer until the file is next seeked, *)
(* only the index is flushed.  So the index may name a block that is not   *)
(* on disk yet, and a stop of the process may then lose it.                *)
(***************************************************************************)
EXTENDS MerkleTree

CONSTANTS Keys,
          MaxOps          \* bound on the operations

VARIABLES file, buf,      \* blocks on disk, and the last write of each file
          index,          \* index.mrk: root, free blocks, next new block
          keys,           \* the keys whose operations are over
          mem,            \* the tree in memory that the same operations give
          ops,            \* operations begun
          todo,           \* the operation under way: files still to be read,
                          \* its writes to come, the index it will write, the
                          \* keys it leaves
          broken          \* a stop lost a block that the index leads to

disk == <<file, buf, index, keys, mem, ops, todo, broken>>

NoWrite == [b |-> -1]
NoOp == [r |-> <<>>, w |-> <<>>, index |-> index, keys |-> {}, on |-> FALSE]

EmptyLeaf == [t |-> "L", keys |-> {}]
Init ==
    /\ file = [t \in {"L", "I"} |-> IF t = "L" THEN 0 :> EmptyLeaf ELSE <<>>]
    /\ buf = [t \in {"L", "I"} |-> NoWrite]
    /\ index = [root |-> <<"L", 0>>, free |-> [t \in {"L", "I"} |-> <<>>],
                next |-> [t \in {"L", "I"} |-> IF t = "L" THEN 1 ELSE 0]]
    /\ keys = {}
    /\ mem = [count |-> 0, hash |-> <<"0">>, entry |-> <<>>]
    /\ ops = 0
    /\ todo = NoOp
    /\ broken = FALSE

(* The files as the process that writes them reads them.                   *)
flushed(t) == IF buf[t] = NoWrite THEN file[t] ELSE (buf[t].b :> buf[t].c) @@ file[t]

-----------------------------------------------------------------------------
(* An operation works on [file, free, future, next, w].                    *)
Start == [file |-> [t \in {"L", "I"} |-> flushed(t)], free |-> index.free,
          future |-> [t \in {"L", "I"} |-> <<>>], next |-> index.next, w |-> <<>>]

alloc_free_block(s, t) ==
    IF s.free[t] # <<>>
    THEN [b |-> Last(s.free[t]), s |-> [s EXCEPT !.free[t] = Front(@)]]
    ELSE [b |-> s.next[t], s |-> [s EXCEPT !.next[t] = @ + 1]]
(* A block that is free at once can be written before the root is.         *)
free_block_now(s, t, b) == [s EXCEPT !.free[t] = Append(@, b)]
free_block(s, t, b) == [s EXCEPT !.future[t] = Append(@, b)]
write_out(s, t, b, c) ==
    [s EXCEPT !.file[t] = (b :> c) @@ @, !.w = Append(@, [t |-> t, b |-> b, c |-> c])]

hash(c) ==
    IF c.t = "L" THEN IF c.keys = {} THEN <<"0">> ELSE <<"L", c.keys>>
    ELSE <<"I", c.hash>>

(* A node goes to a new block of its type; its old block will be free.     *)
Move(s, ptr, c) ==
    LET a == alloc_free_block(s, c.t)
    IN  [s |-> write_out(free_block(a.s, ptr[1], ptr[2]), c.t, a.b, c),
         ptr |-> <<c.t, a.b>>, hash |-> hash(c)]

(* leaf2internal: a new leaf for each branch.                              *)
Split(s, depth, c) ==
    LET kid(i) == [t |-> "L", keys |-> {k \in c.keys : read_slot(k, depth) = i}]
        made[i \in 0 .. FAN] ==
            IF i = 0 THEN [s |-> s, ptr |-> <<>>]
            ELSE LET a == alloc_free_block(made[i - 1].s, "L")
                 IN  [s |-> write_out(a.s, "L", a.b, kid(i - 1)),
                      ptr |-> Append(made[i - 1].ptr, <<"L", a.b>>)]
    IN  [s |-> made[FAN].s,
         c |-> [t |-> "I", count |-> Cardinality(c.keys),
                ptr |-> [i \in Branch |-> made[FAN].ptr[i + 1]],
                hash |-> [i \in Branch |-> hash(kid(i))]]]

RECURSIVE DoInsert(_, _, _, _)
DoInsert(s, depth, key, ptr) ==
    LET n == s.file[ptr[1]][ptr[2]]
        full == n.t = "L" /\ Cardinality(n.keys) = CAP
        e == IF full THEN Split(s, depth, n) ELSE [s |-> s, c |-> n]
        b == read_slot(key, depth)
        r == DoInsert(e.s, depth + 1, key, e.c.ptr[b])
    IN  IF n.t = "L" /\ ~full THEN Move(s, ptr, [n EXCEPT !.keys = @ \cup {key}])
        ELSE Move(r.s, ptr, [e.c EXCEPT !.count = @ + 1, !.ptr[b] = r.ptr,
                                        !.hash[b] = r.hash])

(* A node whose keys fit into a leaf takes them and frees its children.    *)
Join(s, c) ==
    LET freed[i \in 0 .. FAN] ==
            IF i = 0 THEN s ELSE free_block(freed[i - 1], "L", c.ptr[i - 1][2])
    IN  [s |-> freed[FAN],
         c |-> [t |-> "L", keys |-> UNION {s.file["L"][c.ptr[i][2]].keys : i \in Branch}]]

RECURSIVE DoRemove(_, _, _, _)
DoRemove(s, depth, key, ptr) ==
    LET n == s.file[ptr[1]][ptr[2]]
        b == read_slot(key, depth)
        r == DoRemove(s, depth + 1, key, n.ptr[b])
        m == [n EXCEPT !.count = @ - 1, !.ptr[b] = r.ptr, !.hash[b] = r.hash]
        j == IF m.count <= CAP THEN Join(r.s, m) ELSE [s |-> r.s, c |-> m]
    IN  IF n.t = "L" THEN Move(s, ptr, [n EXCEPT !.keys = @ \ {key}])
        ELSE Move(j.s, ptr, j.c)

(* switch_root and write_metadata: the blocks given up become free.        *)
switch_root(r) ==
    [root |-> r.ptr, next |-> r.s.next,
     free |-> [t \in {"L", "I"} |-> r.s.free[t] \o r.s.future[t]]]

(* Reading a node seeks its file, which writes the file's buffer.          *)
Seek(t) ==
    /\ file' = [file EXCEPT ![t] = flushed(t)]
    /\ buf' = [buf EXCEPT ![t] = NoWrite]

(* The root is read first, and only then the path to the leaf.             *)
path == IF index.root[1] = "L" THEN <<"L">> ELSE <<"I", "L">>

Begin(r, K) ==
    /\ ops < MaxOps
    /\ ops' = ops + 1
    /\ todo' = [r |-> path, w |-> r.s.w, index |-> switch_root(r), keys |-> K, on |-> TRUE]
    /\ UNCHANGED <<file, buf, index, keys, mem, broken>>

InsertKey(k) ==
    /\ ~todo.on /\ ~broken /\ k \notin keys
    /\ \E r \in {DoInsert(Start, 0, k, index.root)} : Begin(r, keys \cup {k})
RemoveKey(k) ==
    /\ ~todo.on /\ ~broken /\ k \in keys
    /\ \E r \in {DoRemove(Start, 0, k, index.root)} : Begin(r, keys \ {k})

ReadNode ==
    /\ todo.on /\ todo.r # <<>>
    /\ Seek(Head(todo.r))
    /\ todo' = [todo EXCEPT !.r = Tail(@)]
    /\ UNCHANGED <<index, keys, mem, ops, broken>>

(* lookup, get_keyrange: the root is read, and maybe leaves.               *)
Lookup ==
    /\ ~todo.on /\ ~broken
    /\ \E i \in DOMAIN path : (i = 1 \/ buf[path[1]] = NoWrite) /\ Seek(path[i])
    /\ UNCHANGED <<index, keys, mem, ops, todo, broken>>

Write ==
    /\ todo.on /\ todo.r = <<>> /\ todo.w # <<>>
    /\ LET w == Head(todo.w) IN
       /\ file' = [file EXCEPT ![w.t] = flushed(w.t)]
       /\ buf' = [buf EXCEPT ![w.t] = [b |-> w.b, c |-> w.c]]
    /\ todo' = [todo EXCEPT !.w = Tail(@)]
    /\ UNCHANGED <<index, keys, mem, ops, broken>>

SwitchRoot ==
    /\ todo.on /\ todo.r = <<>> /\ todo.w = <<>>
    /\ index' = todo.index
    /\ keys' = todo.keys
    /\ \E k \in (keys \cup todo.keys) \ (keys \cap todo.keys) :
          mem' = IF k \in keys THEN remove(keys, 0, k, mem) ELSE insert(keys, 0, k, mem)
    /\ todo' = [todo EXCEPT !.keys = {}, !.on = FALSE]
    /\ UNCHANGED <<file, buf, ops, broken>>

(* The blocks of the tree at ptr in the files f.                           *)
RECURSIVE Blocks(_, _)
Blocks(f, ptr) ==
    {ptr} \cup IF ptr[1] = "L" THEN {}
               ELSE UNION {Blocks(f, f["I"][ptr[2]].ptr[i]) : i \in Branch}
View == [t \in {"L", "I"} |-> flushed(t)]

(* Blocks the index leads to that are still in a buffer.                   *)
Unwritten == {p \in Blocks(View, index.root) : buf[p[1]] # NoWrite /\ buf[p[1]].b = p[2]}

(* The process stops, between operations or within one, and the buffers    *)
(* are gone; the next process reads what is on disk.  If a block of the    *)
(* tree is not there, what it reads instead is arbitrary: the model ends.  *)
Crash ==
    /\ ~broken
    /\ broken' = (Unwritten # {})
    /\ buf' = [t \in {"L", "I"} |-> NoWrite]
    /\ todo' = NoOp
    /\ UNCHANGED <<file, index, keys, mem, ops>>

Next == (\E k \in Keys : InsertKey(k) \/ RemoveKey(k)) \/ ReadNode \/ Write \/ SwitchRoot \/ Lookup \/ Crash
Spec == Init /\ [][Next]_disk

-----------------------------------------------------------------------------
(* The tree at ptr in the files f, as MerkleTree writes one; a pointer to  *)
(* a block that was never written leads nowhere.                           *)
RECURSIVE Read(_, _)
Read(f, ptr) ==
    IF ptr[2] \notin DOMAIN f[ptr[1]]
    THEN [count |-> -1, hash |-> <<"?">>, entry |-> <<>>]
    ELSE LET c == f[ptr[1]][ptr[2]]
         IN  IF c.t = "L"
             THEN [count |-> Cardinality(c.keys), hash |-> hash(c), entry |-> <<>>]
             ELSE [count |-> c.count, hash |-> hash(c),
                   entry |-> [j \in 1 .. FAN |-> Read(f, c.ptr[j - 1])]]
(* Whatever was inserted and removed and wherever the process stopped, the *)
(* process sees the tree of its keys, the one the tree in memory is as     *)
(* well, until a stop loses a block.  That takes a stop after the index    *)
(* was written and before the file with the last block is read again: once *)
(* an operation has read its path, the tree it started from is complete on *)
(* disk, and at any time no blocks are missing there but the last one      *)
(* written to each file; a stop that loses none leaves the tree whole.     *)
(* Each block below the next new one is in the tree or free, and not both, *)
(* and both get_keyranges give the first keys of a range (insert, remove,  *)
(* free_block, write_metadata).  A stop between two operations, and not    *)
(* only within one, can break the tree: the root is not switched           *)
(* atomically, as the comment in insert says.                              *)
First(s, m) == SubSeq(s, 1, IF Len(s) < m THEN Len(s) ELSE m)
TreeIntact ==
    ~broken =>
      /\ Read(View, index.root) = Tree(keys, 0, 0)
      /\ mem = Tree(keys, 0, 0)
      /\ (todo.on /\ todo.r = <<>>) \/ Unwritten = {} => Read(file, index.root) = Tree(keys, 0, 0)
      /\ \A p \in Blocks(View, index.root) \ Unwritten :
            p[2] \in DOMAIN file[p[1]] /\ file[p[1]][p[2]] = View[p[1]][p[2]]
      /\ \A t \in {"L", "I"} :
            LET used == {p[2] : p \in {q \in Blocks(View, index.root) : q[1] = t}}
            IN  /\ IsInjective(index.free[t])
                /\ used \cap ToSet(index.free[t]) = {}
                /\ used \cup ToSet(index.free[t]) = 0 .. index.next[t] - 1
      /\ (ops < 5 /\ ~todo.on) =>
            \A min, max \in ID, m \in 1 .. 3 : min < max =>
                /\ get_keyrange(keys, min, max, m) = First(KeysIn(keys, min, max), m)
                /\ disk_keyrange(keys, min, max, m) = First(KeysIn(keys, min, max), m)
=============================================================================
