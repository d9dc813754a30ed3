------------------------------- MODULE Repair -------------------------------
(***************************************************************************)
(* The repair of under-replicated blocks (dhash/dhblock_srv.C,             *)
(* dhblock_chash_srv.C, dhblock_replicated_srv.C, dhblock_keyhash_srv.C):  *)
(* on a timer a node reads from its database which blocks of its range are *)
(* on which nodes, page by page, and makes a job for what is missing; jobs *)
(* wait in a queue, one for a block, and a few of them run at a time.      *)
(*                                                                         *)
(* What the database says of a successor is what the syncer last found     *)
(* out (MerkleSync).  A version is 0 where the block is not; a noauth      *)
(* block has one version only (how two of them are merged: BlockStore).    *)
(***************************************************************************)
EXTENDS Integers, SequencesExt, FiniteSets

CONSTANTS IDBIT,            \* of an identifier
          Kinds,            \* of blocks: "chash", "keyhash", "noauth"
          BlockKeys,        \* their keys, all between Pred and Self
          Pred, Self,       \* identifiers of the predecessor and the node
          NSUCC,            \* successors; node 0 is the node itself
          DFRAGS, EFRAGS,   \* fragments that suffice, and that are stored
          NREPLICA,
          NVERSION,         \* versions of a keyhash block in use
          OUTSTANDING_MAX, QUEUE_MAX,
          MaxAsk,           \* bound: walks through the database at a time
          MaxFault          \* bound: lost copies and failed jobs

RepairAssumption == {OUTSTANDING_MAX, QUEUE_MAX, NSUCC} \subseteq Nat /\ NREPLICA \in Nat \ {0}

VARIABLES kind,
          have,             \* have[b][n]: the version of b that n has
          bs,               \* bsdb: for the blocks it has a record of, who has
                            \* them, a sequence of [n, aux]
          repair_q, queued, inprogress,
          asks,             \* the getblockrange calls under way
          cache_db,         \* blocks kept for the next repair of theirs
          faults

repair == <<kind, have, bs, repair_q, queued, inprogress, asks, cache_db, faults>>

(* The database daemon's range query and update, from Adbd.                *)
DB == INSTANCE Adbd WITH NBIT <- IDBIT, DbKeys <- {}, Versions <- {}, MaxCalls <- 0, MaxStop <- 0,
        hasaux <- FALSE, data <- <<>>, kdb <- <<>>, tree <- <<>>, treefile <- FALSE, up <- "", at <- 0,
        op <- <<>>, calls <- 0, stops <- 0, acked <- {}, torn <- {}, left <- {},
        dirty <- FALSE, wrecked <- FALSE

Node == 0 .. NSUCC
Holders(b) == IF b \in DOMAIN bs THEN {bs[b][i].n : i \in DOMAIN bs[b]} ELSE {}
Aux(b, n) == LET i == CHOOSE j \in DOMAIN bs[b] : bs[b][j].n = n IN bs[b][i].aux
Put(b, n, v, present) == DB!updateone(bs, b, n, v, present)
Copies(b) == {n \in Node : have[b][n] # 0}

(* Enough of each block is there; the database knows of the node's own     *)
(* copies, and the syncer has still to find the others.                    *)
RepairInit ==
    /\ kind \in Kinds
    /\ have \in [BlockKeys -> [Node -> IF kind = "keyhash" THEN 0 .. NVERSION ELSE {0, 1}]]
    /\ \A b \in BlockKeys : Cardinality(Copies(b)) >= IF kind = "chash" THEN DFRAGS ELSE 1
    /\ bs = [b \in {k \in BlockKeys : have[k][0] # 0} |-> <<[n |-> 0, aux |-> have[b][0]]>>]
    /\ repair_q = <<>> /\ queued = {} /\ inprogress = {}
    /\ asks = {} /\ cache_db = {} /\ faults = 0

-----------------------------------------------------------------------------
(* Queues are worked on as s = [q, queued, busy].                          *)
Queues == [q |-> repair_q, queued |-> queued, busy |-> inprogress]
SetQueues(s) == repair_q' = s.q /\ queued' = s.queued /\ inprogress' = s.busy

repair_flush_q(s) ==
    LET room == OUTSTANDING_MAX - Cardinality(s.busy)
        k == IF Len(s.q) < room THEN Len(s.q) ELSE room
    IN  [q |-> SubSeq(s.q, k + 1, Len(s.q)),
         queued |-> s.queued \ {s.q[i].key : i \in 1 .. k},
         busy |-> s.busy \cup {s.q[i] : i \in 1 .. k}]

Running(s) == {j.key : j \in s.busy}
(* Mutant: a job that runs is not looked for.                              *)
repair_add_running(s, job) ==
    IF job.key \in s.queued THEN s
    ELSE repair_flush_q([s EXCEPT !.q = Append(@, job), !.queued = @ \cup {job.key}])
repair_add(s, job) ==
    IF job.key \in s.queued \cup Running(s) THEN s
    ELSE repair_flush_q([s EXCEPT !.q = Append(@, job), !.queued = @ \cup {job.key}])

(* The jobs one page of blocks leads to, in order: a fragment for the      *)
(* first successor without one, or what real_repair wants.                 *)
job(b, n) == [key |-> b, where |-> n]
chash_jobs(r) ==
    LET missing == {n \in Node : n \notin r.on}
    IN  IF missing = {} THEN <<>>
        ELSE <<job(r.k, CHOOSE n \in missing : \A m \in missing : n <= m)>>
real_repair(r, n) ==
    IF n \notin r.on THEN <<job(r.k, n)>>
    ELSE IF r.aux[n] = r.aux[0] THEN <<>>
    ELSE IF kind = "noauth" THEN <<job(r.k, 0), job(r.k, n)>>
    ELSE IF r.aux[n] < r.aux[0] THEN <<job(r.k, n)>> ELSE <<job(r.k, 0)>>
replicated_jobs(r) ==
    IF 0 \notin r.on THEN <<job(r.k, 0)>>
    ELSE FlattenSeq([n \in 1 .. (IF NREPLICA - 1 < NSUCC THEN NREPLICA - 1 ELSE NSUCC) |->
                        real_repair(r, n)])
jobs(r) == IF kind = "chash" THEN chash_jobs(r) ELSE replicated_jobs(r)
AddAll(s, js) ==
    LET added[i \in 0 .. Len(js)] == IF i = 0 THEN s ELSE repair_add(added[i - 1], js[i])
    IN  added[Len(js)]

Ask(frags, start, count) ==
    [frags |-> frags, start |-> start, count |-> count, rep |-> <<>>]
First(s) == Ask(IF kind = "chash" THEN DFRAGS ELSE -1, Pred, QUEUE_MAX - Cardinality(s.queued))

repair_timer ==
    /\ Cardinality(asks) < MaxAsk
    /\ asks' = IF Cardinality(queued) < QUEUE_MAX THEN asks \cup {First(Queues)} ELSE asks
    /\ SetQueues(repair_flush_q(Queues))
    /\ UNCHANGED <<kind, have, bs, cache_db, faults>>

block_info(b) == [k |-> b, on |-> Holders(b), aux |-> [n \in Holders(b) |-> Aux(b, n)]]
(* do_getblockrange at the daemon.                                         *)
getblockrange(a) ==
    /\ a \in asks /\ a.rep = <<>>
    /\ LET r == DB!do_getblockrange(bs, a.frags, a.start, Self, a.count)
       IN  asks' = (asks \ {a}) \cup
              {[a EXCEPT !.rep = <<[blocks |-> [i \in DOMAIN r.blocks |-> block_info(r.blocks[i])],
                                    complete |-> r.complete]>>]}
    /\ UNCHANGED <<kind, have, bs, repair_q, queued, inprogress, cache_db, faults>>

(* Mutant: a walk goes on at the last block again.                         *)
Resume_at_last(r) == Last(r.blocks).k
(* A walk goes on right after the last block of the page.                  *)
Resume(r) == DB!Id!incID(Last(r.blocks).k)

localqueue(a) ==
    /\ a \in asks /\ a.rep # <<>>
    /\ \E r \in {Head(a.rep)} :
       \E s \in {AddAll(Queues, FlattenSeq([i \in DOMAIN r.blocks |-> jobs(r.blocks[i])]))} :
          LET frags == IF r.complete THEN a.frags + 1 ELSE a.frags
              start == IF r.complete THEN Pred ELSE Resume(r)
              more == IF kind = "chash" THEN frags < EFRAGS ELSE ~r.complete
          IN  /\ SetQueues(s)
              /\ asks' = (asks \ {a}) \cup
                           IF Cardinality(s.queued) < QUEUE_MAX /\ more
                           THEN {Ask(frags, start, QUEUE_MAX - Cardinality(s.queued))} ELSE {}
    /\ UNCHANGED <<kind, have, bs, cache_db, faults>>

(* retrieve asks the successors of the key in order, the node first.       *)
retrieved(b) == have[b][CHOOSE n \in Copies(b) : \A m \in Copies(b) : n <= m]
retrievable(b) == Cardinality(Copies(b)) >= IF kind = "chash" THEN DFRAGS ELSE 1

(* repair_done: a job ends when nothing refers to it any more.             *)
Finish(j) ==
    SetQueues(repair_flush_q([Queues EXCEPT !.busy = @ \ {j}]))

(* rjchash: a fragment is made of the block, from the cache or retrieved,  *)
(* and stored or sent; bsdb learns of it.                                  *)
rjchash(j) ==
    LET b == j.key IN
    /\ kind = "chash" /\ j \in inprogress
    /\ b \in cache_db \/ retrievable(b)
    /\ cache_db' = cache_db \cup {b}
    /\ have' = [have EXCEPT ![b][j.where] = 1]
    /\ bs' = Put(b, j.where, 1, TRUE)
    /\ Finish(j)
    /\ UNCHANGED <<kind, asks, faults>>

(* What real_store tells bsdb when the node stores version v: a keyhash    *)
(* block only replaces what it told before, a noauth block if it differs.  *)
StoreTold(b, v) ==
    \/ kind = "keyhash" /\ have[b][0] # 0
    \/ kind = "noauth" /\ have[b][0] # v
(* rjrep: a replica is retrieved for the node, or the node's own is sent;  *)
(* a keyhash block keeps what is newer.                                    *)
rjrep(j) ==
    LET b == j.key
        n == j.where
        v == IF n = 0 THEN retrieved(b) ELSE have[b][0]
    IN  /\ kind # "chash" /\ j \in inprogress
        /\ IF n = 0 THEN retrievable(b) ELSE have[b][0] # 0
        /\ have' = [have EXCEPT ![b][n] = IF kind = "keyhash" /\ @ > v THEN @ ELSE v]
        /\ bs' = IF n = 0 /\ StoreTold(b, v) THEN Put(b, 0, v, TRUE) ELSE bs
        /\ Finish(j)
        /\ UNCHANGED <<kind, asks, cache_db, faults>>

(* What comes before the store or the sending fails, or the sending does,  *)
(* or a store that bsdb is not told of.                                    *)
JobFails(j) ==
    LET b == j.key IN
    /\ j \in inprogress
    /\ \/ faults < MaxFault /\ faults' = faults + 1
       \/ ~retrievable(b) /\ b \notin cache_db /\ UNCHANGED faults
       \/ kind # "chash" /\ j.where # 0 /\ have[b][0] = 0 /\ UNCHANGED faults
    /\ cache_db' \in {cache_db, IF kind = "chash" /\ retrievable(b) THEN cache_db \cup {b}
                                ELSE cache_db}
    /\ Finish(j)
    /\ UNCHANGED <<kind, have, bs, asks>>
(* The node's own store fails.  It is recorded in bsdb all the same ("Force *)
(* a BSM update"); what a replica was to replace is removed already.       *)
StoreFails(j) ==
    LET b == j.key
        v == IF kind = "chash" THEN 1 ELSE retrieved(b)
    IN  /\ j \in inprogress /\ j.where = 0
        /\ retrievable(b) \/ b \in cache_db
        /\ faults < MaxFault /\ faults' = faults + 1
        /\ IF kind = "chash" THEN have[b][0] = 0 ELSE StoreTold(b, v)
        /\ cache_db' = IF kind = "chash" THEN cache_db \cup {b} ELSE cache_db
        /\ have' = [have EXCEPT ![b][0] = 0]
        /\ bs' = Put(b, 0, v, TRUE)
        /\ Finish(j)
        /\ UNCHANGED <<kind, asks>>

Stale(b, n) == IF n \in Holders(b) THEN Aux(b, n) # have[b][n] ELSE have[b][n] # 0
(* The syncer finds out what a successor has of a block.                   *)
Sync(b, n) ==
    /\ n # 0 /\ Stale(b, n)
    /\ bs' = Put(b, n, have[b][n], have[b][n] # 0)
    /\ UNCHANGED <<kind, have, repair_q, queued, inprogress, asks, cache_db, faults>>

(* A successor fails and the next one, which takes its place, is empty.    *)
Lose(b, n) ==
    /\ n # 0 /\ have[b][n] # 0
    /\ faults < MaxFault /\ faults' = faults + 1
    /\ have' = [have EXCEPT ![b][n] = 0]
    /\ UNCHANGED <<kind, bs, repair_q, queued, inprogress, asks, cache_db>>

RepairNext ==
    \/ repair_timer
    \/ \E a \in asks : getblockrange(a) \/ localqueue(a)
    \/ \E j \in inprogress : rjchash(j) \/ rjrep(j) \/ JobFails(j) \/ StoreFails(j)
    \/ \E b \in BlockKeys, n \in Node : Sync(b, n) \/ Lose(b, n)

RepairSpec == RepairInit /\ [][RepairNext]_repair

(* The timer goes off again and again and the daemon answers; what runs    *)
(* ends; the syncer finds out what is stale.                               *)
Walks == asks' # asks
Works == inprogress = {} \/ inprogress' # inprogress
Syncs == bs' # bs \/ \A b \in BlockKeys, n \in Node \ {0} : ~Stale(b, n)

-----------------------------------------------------------------------------
(* "RepInv: for i in repair_q: repairs_queued[i.key] and there are no      *)
(* other repairs queued", which repair_flush_q asserts, and that no block  *)
(* is repaired twice at a time, by the queue and by what runs.  No block   *)
(* waits while fewer jobs run than may.                                    *)
QueueRight ==
    /\ queued = {repair_q[i].key : i \in DOMAIN repair_q}
    /\ Cardinality(queued) = Len(repair_q)
    /\ Cardinality({j.key : j \in inprogress}) = Cardinality(inprogress)
    /\ queued \cap {j.key : j \in inprogress} = {}
    /\ Cardinality(inprogress) <= OUTSTANDING_MAX
    /\ repair_q # <<>> => Cardinality(inprogress) = OUTSTANDING_MAX

(* When nothing more is lost, each block of which enough is left comes to  *)
(* be on all nodes it should be on (generate_repair_jobs, localqueue), as  *)
(* long as the node has what it recorded of itself: after a store of its   *)
(* own failed it never looks for that copy again (dhblock_chash_srv::store, *)
(* delete_cb, after_delete), and sends no replica of it either.            *)
Misled(b) == 0 \in Holders(b) /\ have[b][0] = 0
Complete(b) ==
    IF kind = "chash"
    THEN Cardinality(Copies(b)) < DFRAGS
         \/ Cardinality(Copies(b) \cup (IF Misled(b) THEN {0} ELSE {})) >= EFRAGS
    ELSE \/ Copies(b) = {} \/ Misled(b)
         \/ \A n \in Node : n < NREPLICA => have[b][n] # 0
AllRepaired == \A b \in BlockKeys : Complete(b)
=============================================================================
