------------------------------ MODULE ChunkStore ------------------------------
(* A store of DHash: dhash_store cuts a block into chunks of at most one MTU, *)
(* sends all of them at once and waits for the answers or for STORE_TIMEOUT;  *)
(* dhash_impl::store puts the chunks of a key together (store_state) and      *)
(* hands the block on when it is complete.  The server knows the chunks only  *)
(* by key, so the model has one key and several stores of it, by one peer     *)
(* after the other or by several at once.                                     *)
EXTENDS Integers, Sequences, FiniteSets, SequencesExt, FiniteSetsExt

CONSTANTS Writer,   \* the stores, numbered in the order in which they may start
          Length,   \* Length[w]: bytes of the block of w
          mtu

ChunkAssumption ==
    /\ Writer \subseteq Nat /\ Length \in [Writer -> Nat \ {0}]
    /\ mtu \in Nat \ {0}

VARIABLES requests,     \* STORE RPCs on their way to the server: [w, off]
          replies,      \* answers on their way back: [w, off, err, status]
          npending,     \* npending[w]: answers w waits for
          error, status,    \* error[w], status[w]: what w has seen so far
          result,       \* result[w]: "none", "running" or what the callback was given
          pst,          \* the store_state of the key ({} or one): [size, have, buf]
          stored,       \* the blocks handed to dhblock_srv::store
          mixed         \* history: stores whose chunks met chunks of another one

chunkVars == <<requests, replies, npending, error, status, result, pst, stored, mixed>>

ChunkInit ==
    /\ requests = {} /\ replies = {} /\ pst = {} /\ stored = <<>> /\ mixed = {}
    /\ npending = [w \in Writer |-> 0] /\ error = [w \in Writer |-> FALSE]
    /\ status = [w \in Writer |-> "OK"] /\ result = [w \in Writer |-> "none"]

-------------------------------------------------------------------------------
(* The server.                                                                *)

chunklen(w, off) == Min({mtu, Length[w] - off})
Offsets(w) == {off \in 0..(Length[w] - 1) : off % mtu = 0}

\* store_state::addchunk, with join: the chunks had are disjoint intervals, kept
\* in order and apart; a chunk that is had already is dropped, any other is copied
\* whole.
touches(c, start) == c.start <= start /\ start <= c.end
MergeChunk(have, start, end) ==
    LET near == {c \in have : start <= c.end /\ c.start <= end}
        lo == Min({start} \cup {c.start : c \in near})
        hi == Max({end} \cup {c.end : c \in near})
    IN  (have \ near) \cup {[start |-> lo, end |-> hi]}
Contained(have, start, end) == \E c \in have : touches(c, start) /\ end <= c.end

addchunk(ss, w, start, end) ==
    IF Contained(ss.have, start, end) THEN ss
    ELSE [ss EXCEPT !.have = MergeChunk(@, start, end),
                    !.buf = [i \in DOMAIN @ |-> IF start < i /\ i <= end THEN <<w, i>> ELSE @[i]]]

\* Mutant: the last byte is taken for all of them.
iscomplete_last(ss) == \E c \in ss.have : c.end = ss.size

iscomplete(ss) == ss.have = {[start |-> 0, end |-> ss.size]}

New(w) == [size |-> Length[w], have |-> {}, buf |-> [i \in 1..Length[w] |-> <<>>]]

\* dhash_impl::store for a chunk of w: the answer, the new pst, what is stored.
impl_store(w, off) ==
    LET old == IF pst = {} THEN New(w) ELSE CHOOSE ss \in pst : TRUE
        end == off + chunklen(w, off)
        ss  == addchunk(old, w, off, end)
    IN  IF end > old.size
        THEN [status |-> "ERR", pst |-> {old}, stored |-> stored]
        ELSE IF iscomplete(ss) THEN [status |-> "OK", pst |-> {}, stored |-> Append(stored, ss.buf)]
        ELSE [status |-> "OK", pst |-> {ss}, stored |-> stored]

Reply(r, err, stat) == [w |-> r.w, off |-> r.off, err |-> err, status |-> stat]

\* The server gets a chunk.  The answer to the last one comes when the block is
\* stored, or cannot be.
Serve ==
    \E r \in requests :
        LET res == impl_store(r.w, r.off) IN
        /\ requests' = requests \ {r}
        /\ pst' = res.pst /\ stored' = res.stored
        /\ \/ replies' = replies \cup {Reply(r, FALSE, res.status)}
           \/ stored' # stored /\ replies' = replies \cup {Reply(r, FALSE, "ERR")}
           \/ replies' = replies \cup {Reply(r, TRUE, "none")}
        /\ UNCHANGED <<npending, error, status, result, mixed>>

-------------------------------------------------------------------------------
(* The client.                                                                *)

Ended(w) == result[w] \notin {"none", "running"}

\* The stores that have chunks under way or in the state of the key, and w if
\* there are any.
Unfinished == {r.w : r \in requests} \cup
              UNION {{ss.buf[i][1] : i \in {j \in DOMAIN ss.buf : ss.buf[j] # <<>>}} : ss \in pst}
Meet(w) == mixed' = IF Unfinished = {} THEN mixed ELSE mixed \cup {w} \cup Unfinished

start(w) ==
    /\ result[w] = "none"
    /\ \A v \in Writer : v < w => result[v] # "none"
    /\ Meet(w)
    /\ result' = [result EXCEPT ![w] = "running"]
    /\ npending' = [npending EXCEPT ![w] = Cardinality(Offsets(w))]
    /\ requests' = requests \cup {[w |-> w, off |-> off] : off \in Offsets(w)}
    /\ UNCHANGED <<replies, error, status, pst, stored>>

\* The RPC of a chunk fails on the way.
LoseRequest ==
    /\ \E r \in requests :
          /\ requests' = requests \ {r}
          /\ replies' = replies \cup {Reply(r, TRUE, "none")}
    /\ UNCHANGED <<npending, error, status, result, pst, stored, mixed>>

\* finish: the first bad answer decides the status, except that an RPC error
\* overrides; the last answer runs the callback.  Answers to a store that is
\* over are dropped.
finish ==
    \E r \in replies :
        /\ replies' = replies \ {r}
        /\ IF Ended(r.w) THEN UNCHANGED <<npending, error, status, result>>
           ELSE LET stat == IF r.err THEN "RPCERR"
                            ELSE IF r.status # "OK" /\ ~error[r.w] THEN r.status
                            ELSE status[r.w]
                IN  /\ npending' = [npending EXCEPT ![r.w] = @ - 1]
                    /\ status' = [status EXCEPT ![r.w] = stat]
                    /\ error' = [error EXCEPT ![r.w] = @ \/ r.err \/ r.status # "OK"]
                    /\ result' = IF npending[r.w] = 1 THEN [result EXCEPT ![r.w] = stat] ELSE result
        /\ UNCHANGED <<requests, pst, stored, mixed>>

timed_out(w) ==
    /\ result[w] = "running"
    /\ error' = [error EXCEPT ![w] = TRUE]
    /\ status' = [status EXCEPT ![w] = "TIMEDOUT"]
    /\ result' = [result EXCEPT ![w] = "TIMEDOUT"]
    /\ UNCHANGED <<requests, replies, npending, pst, stored, mixed>>

ChunksFinished == requests = {} /\ replies = {} /\ (\A w \in Writer : Ended(w)) /\ UNCHANGED chunkVars

ChunkNext == Serve \/ LoseRequest \/ finish \/ (\E w \in Writer : start(w) \/ timed_out(w)) \/ ChunksFinished

ChunkSpec == ChunkInit /\ [][ChunkNext]_chunkVars

-------------------------------------------------------------------------------
(* Properties.                                                                *)

\* A store waits for no more answers than it has sent chunks, and there is one
\* store_state for the key at most.
ChunkTypeOK ==
    /\ \A r \in requests \cup replies : r.w \in Writer /\ r.off \in Offsets(r.w)
    /\ \A w \in Writer : npending[w] \in 0..Cardinality(Offsets(w))
    /\ error \in [Writer -> BOOLEAN]
    /\ status \in [Writer -> {"OK", "ERR", "RPCERR", "TIMEDOUT"}]
    /\ result \in [Writer -> {"none", "running", "OK", "ERR", "RPCERR", "TIMEDOUT"}]
    /\ Cardinality(pst) <= 1 /\ mixed \subseteq Writer

\* The chunks had are disjoint, apart, within the block, and exactly the bytes
\* they cover have been written.
ChunksSound ==
    ChunkTypeOK /\ \A ss \in pst :
        /\ \A c \in ss.have : 0 <= c.start /\ c.start < c.end /\ c.end <= ss.size
        /\ \A c, d \in ss.have : c # d => c.end < d.start \/ d.end < c.start
        /\ \A i \in 1..ss.size : (ss.buf[i] # <<>>) = (\E c \in ss.have : c.start < i /\ i <= c.end)
        /\ ~iscomplete(ss)

\* The block of w, byte for byte.
Block(w) == [i \in 1..Length[w] |-> <<w, i>>]

\* What is stored is the block of one store, byte for byte, unless all of it comes
\* from stores whose chunks met, on the way or left over in the server.
Untorn ==
    \A i \in DOMAIN stored :
        \/ \E w \in Writer : stored[i] = Block(w)
        \/ \A j \in DOMAIN stored[i] : \E w \in mixed : stored[i][j] = <<w, j>>

\* A store that met no other is told OK only if its own block was stored, whatever was lost.
OKMeansStored ==
    \A w \in Writer \ mixed : result[w] = "OK" => \E i \in DOMAIN stored : stored[i] = Block(w)

\* The callback of a store is run once: a store that runs waits for exactly the
\* answers that are still to come, and one that timed out never counts down to
\* its last answer, whatever comes late.
UnderWay(w) == {r \in requests : r.w = w} \cup {r \in replies : r.w = w}
AnsweredOnce ==
    \A w \in Writer :
        /\ result[w] = "running" => npending[w] = Cardinality(UnderWay(w))
        /\ Ended(w) => result[w] = status[w] /\ (npending[w] = 0) = (result[w] # "TIMEDOUT")

\* A store that has not come to its end has a chunk or an answer under way that
\* will bring it on, and is not left to its timeout.
NoneStuck == \A w \in Writer : result[w] = "running" => UnderWay(w) # {}

\* Chunks are put together right, what is stored is one block and not a mixture,
\* a store told OK was stored, late answers do not change what a store was told,
\* and no store waits for nothing (store_state, dhash_store).
ChunksRight == ChunksSound /\ Untorn /\ OKMeansStored /\ AnsweredOnce /\ NoneStuck
===============================================================================
