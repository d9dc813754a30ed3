-------------------------------- MODULE MCDhash --------------------------------
(* What DHash and its clients do with blocks: the stores of one block at a     *)
(* node (BlockStore), the chunks of a store (ChunkStore), the index that       *)
(* clients keep in such blocks (PsiIndex), the retrieval of a block            *)
(* (Retrieve), side by side.                                                   *)
EXTENDS BlockStore, ChunkStore, Retrieve, TLC

CONSTANTS Modes

VARIABLES mode,
          dht, st, acked, faults, stores, stray, late

--------------------------------------------------------------------------------
(* Requests to a block.                                                        *)

Hdr(right, level, random) == [left |-> 0, right |-> right, level |-> level, random |-> random, root |-> TRUE]
Ent(k, s) == [key |-> k, sig |-> s]
Upd(type, k, doc, s) == [type |-> type, key |-> k, doc |-> doc, sig |-> s]

MCOp ==
    [\* The root of an index: two peers race to create it, documents are inserted,
     \* and the root is announced to be split (random -1), split and raised to
     \* level 1.
     lock1  |-> [type |-> "UPDATEHDRLOCK", hdr |-> Hdr(4, 0, 7)],
     lock2  |-> [type |-> "UPDATEHDRLOCK", hdr |-> Hdr(4, 0, 9)],
     doc1   |-> Upd("UPDATE", "d1", TRUE, {1}),
     doc2   |-> Upd("UPDATE", "d2", TRUE, {2}),
     pre    |-> [type |-> "UPDATEHDR", hdr |-> Hdr(4, 0, -1)],
     split  |-> [type |-> "SPLIT", entries |-> <<Ent("d1", {1})>>],
     level  |-> [type |-> "UPDATEHDR", hdr |-> Hdr(2, 1, 3)],
     \* A node of level 1 that is updated while a repair sends a replica of it, and
     \* one from before its interval shrank.
     lock   |-> [type |-> "UPDATEHDRLOCK", hdr |-> Hdr(4, 1, 7)],
     child  |-> Upd("REPLACESIG", "c1", FALSE, {3}),
     cond   |-> Upd("UPDATEIFPRESENT", "c2", FALSE, {2}),
     app    |-> [type |-> "JUSTAPPEND", key |-> "c3", sig |-> {1}],
     shrink |-> [type |-> "UPDATEHDR", hdr |-> Hdr(2, 1, 3)],
     block  |-> [type |-> "BLOCK", block |-> <<Hdr(2, 1, 7), Ent("c1", {2}), Ent("c2", {2})>>],
     older  |-> [type |-> "BLOCK", block |-> <<Hdr(4, 1, 7), Ent("c1", {2})>>],
     \* Plain appends of the inverted index; the block has no header.
     word1  |-> [type |-> "APPEND", key |-> "t1", sig |-> {1}],
     word2  |-> [type |-> "APPEND", key |-> "t2", sig |-> {1}],
     word3  |-> [type |-> "APPEND", key |-> "t3", sig |-> {1}],
     word4  |-> [type |-> "APPEND", key |-> "t4", sig |-> {1}]]

MCReq == DOMAIN MCOp

\* Documents and the split of the root; updates and repairs of a node while the
\* database fails; a block of the inverted index that fills up.
MCWorkloads ==
    {[asked |-> {"lock1", "lock2", "doc1", "doc2", "pre", "split", "level"}, errors |-> FALSE],
     [asked |-> {"lock", "child", "cond", "app", "shrink", "block"}, errors |-> TRUE],
     [asked |-> {"lock", "shrink", "older"}, errors |-> FALSE],
     [asked |-> {"word1", "word2", "word3", "word4"}, errors |-> FALSE]}

MCKey == {"d1", "d2", "c1", "c2", "c3", "t1", "t2", "t3", "t4"}

\* Two stores of a key: three chunks, and two of which the last is shorter than
\* the MTU.
MCLength == <<6, 3>>

--------------------------------------------------------------------------------
(* An index with nodes of four entries, and two clients that insert the        *)
(* documents 13 and 14.  The trees to start from are those that a client alone  *)
(* makes of the first documents: no index yet, a full root that is still a     *)
(* leaf (1 to 4), two full leaves under a root with room for one entry (1 to   *)
(* 10), a full root over a full leaf (1 to 12).                                *)

MCSig == <<{1, 2}, {2, 3}, {3}, {4}, {1, 3}, {1}, {2, 4}, {3, 4}, {1, 4}, {2, 3, 4}, {1, 2, 3}, {3},
           {1, 2, 4}, {2, 3, 4}, {1, 4}>>

Root == <<-1, 0>>
Header(left, right, level, root) ==
    [left |-> left, right |-> right, level |-> level, random |-> 0, root |-> root]
Doc(d) == Ent(<<-2, d>>, MCSig[d])
Leaf(left, right, docs) == <<Header(left, right, 0, FALSE)>> \o [i \in DOMAIN docs |-> Doc(docs[i])]

Empty == <<>>
OneNode == Root :> <<Header(0, 60, 0, TRUE), Doc(1), Doc(2), Doc(3), Doc(4)>>
FullLeaves ==
    Root :> <<Header(0, 60, 1, TRUE), Ent(<<0, 0>>, {1, 2, 3, 4}), Ent(<<0, 30>>, {2, 3, 4}), Ent(<<0, 20>>, {2, 3})>>
    @@ <<0, 0>> :> Leaf(0, 20, <<1, 5, 6, 9>>) @@ <<0, 20>> :> Leaf(20, 30, <<3, 2>>)
    @@ <<0, 30>> :> Leaf(30, 60, <<4, 7, 8, 10>>)
FullRoot ==
    Root :> <<Header(0, 60, 1, TRUE), Ent(<<0, 0>>, {1, 4}), Ent(<<0, 30>>, {2, 3, 4}),
              Ent(<<0, 20>>, {2, 3}), Ent(<<0, 15>>, {1, 2, 3})>>
    @@ <<0, 0>> :> Leaf(0, 15, <<6, 9>>) @@ <<0, 15>> :> Leaf(15, 20, <<5, 1, 11>>)
    @@ <<0, 20>> :> Leaf(20, 30, <<3, 2, 12>>) @@ <<0, 30>> :> Leaf(30, 60, <<4, 7, 8, 10>>)

MCStart == {Empty, OneNode, FullLeaves, FullRoot}
MCWork == [c \in {1, 2} |-> IF c = 1 THEN <<13>> ELSE <<14>>]

P == INSTANCE PsiIndex WITH MAXENTRIES <- 4, Client <- {1, 2}, Sig <- MCSig, Work <- MCWork,
        Start <- MCStart, ATTEMPTS <- 2, FAULTS <- 1, metric <- TRUE

ASSUME BlockAssumption /\ MaxAssumption /\ ChunkAssumption /\ RetrieveAssumption /\ P!PsiAssumption

--------------------------------------------------------------------------------
blockVars == vars
psiVars == <<dht, st, acked, faults, stores, stray, late>>
dhashVars == <<mode, blockVars, chunkVars, psiVars, retrieve>>

DhashInit ==
    /\ mode \in Modes
    /\ Init /\ (mode # "blocks" => work = [asked |-> {"lock", "shrink", "older"}, errors |-> FALSE])
    /\ ChunkInit
    /\ P!Init /\ (mode # "psi" => dht = Empty)
    /\ RetrieveInit /\ (mode # "retrieve" => replicated /\ frag = <<0, 0, 0>>)

InBlocks(A) == mode = "blocks" /\ A /\ UNCHANGED <<mode, chunkVars, psiVars, retrieve>>
InChunks(A) == mode = "chunks" /\ A /\ UNCHANGED <<mode, blockVars, psiVars, retrieve>>
InPsi(A) == mode = "psi" /\ A /\ UNCHANGED <<mode, blockVars, chunkVars, retrieve>>
InRetrieve(A) == mode = "retrieve" /\ A /\ UNCHANGED <<mode, blockVars, chunkVars, psiVars>>

DhashNext == InBlocks(Next) \/ InChunks(ChunkNext) \/ InPsi(P!Next) \/ InRetrieve(RetrieveNext)

\* The database answers, and the clients of the index run until they are done.
DhashSpec ==
    /\ DhashInit /\ [][DhashNext]_dhashVars
    /\ WF_dhashVars(\/ InBlocks(Fetched \/ after_delete \/ adbcb)
                    \/ InPsi(\E c \in {1, 2} : P!Step(c)))

--------------------------------------------------------------------------------
\* A document inserted into the index is held by a leaf in every moment of every
\* split, whoever dies and whatever is sent again or given up (psi.C).
NothingLost == mode = "psi" => P!NothingLost

\* Without faults every inserted document can be reached from the root (psi.C).
Findable == mode = "psi" => P!Findable

\* Every store of a block is answered, and every insertion into the index ends,
\* also when the client that splits a node died.
AllEnd ==
    <>[](/\ mode = "blocks" => NoneWaits
         /\ mode = "psi" => P!InsertsEnded)
================================================================================
