------------------------------ MODULE BlockStore ------------------------------
(* The stores of one block at a DHash node.  dhblock_replicated_srv serves    *)
(* the requests for a key in the order they arrive: one is fetched, changed   *)
(* and written back while the others are paused.  The database (adbd) is      *)
(* another process; a changed block is first removed and then stored again.   *)
EXTENDS NodeBlock

CONSTANTS Req, Op,      \* requests and what they ask for
          Workloads,    \* which of them are sent together, and whether the
                        \* database may fail meanwhile: [asked, errors]
          Key, Poly     \* the keys of entries, and what signatures are sets of

\* A node of the index is a header and its entries; a block of the inverted
\* index has entries only.
HeaderType == [left : Int, right : Int, level : Nat, random : Int, root : BOOLEAN]
EntryType == [key : Key, sig : SUBSET Poly]
NodeType == {b \in Seq(HeaderType \cup EntryType) :
                b # <<>> /\ b[1] \in HeaderType /\ \A i \in 2..Len(b) : b[i] \in EntryType}

UpdateTypes == {"UPDATE", "UPDATEIFPRESENT", "UPDATEVAL", "UPDATEVALIFPRESENT", "REPLACESIG"}
OpType ==
    [type : UpdateTypes, key : Key, doc : BOOLEAN, sig : SUBSET Poly]
    \cup [type : {"UPDATEHDRLOCK", "UPDATEHDR"}, hdr : HeaderType]
    \cup [type : {"SPLIT"}, entries : Seq(EntryType)]
    \cup [type : {"JUSTAPPEND", "APPEND"}, key : Key, sig : SUBSET Poly]
    \cup [type : {"BLOCK"}, block : NodeType]

\* The inverted index, the only one to use APPEND, and the nodes of the index
\* have different keys, so requests of both kinds never meet at a block.
BlockAssumption ==
    /\ \A r \in Req : Op[r] \in OpType
    /\ Workloads \subseteq [asked : SUBSET Req, errors : BOOLEAN]
    /\ \A w \in Workloads : \/ \A r \in w.asked : Op[r].type = "APPEND"
                            \/ \A r \in w.asked : Op[r].type # "APPEND"

VARIABLES db,           \* the block in the database, <<>> if there is none
          paused,       \* _paused_stores: {} or one queue of waiting requests
          active,       \* the request being served ({} or one)
          stage,        \* what it waits for: "fetch", "remove", "store"
          old_data, dprep,  \* what it fetched and what it will store
          reply,
          aborted,      \* an assertion has failed and lsd is gone
          work          \* the workload

vars == <<db, paused, active, stage, old_data, dprep, reply, aborted, work>>

Init ==
    /\ db = <<>> /\ paused = {} /\ active = {} /\ stage = "fetch"
    /\ old_data = <<>> /\ dprep = <<>>
    /\ reply = [r \in Req |-> "none"] /\ aborted = FALSE
    /\ work \in Workloads

waiters == CHOOSE q \in paused : TRUE
Known(r) == r \in active \/ (paused # {} /\ \E i \in DOMAIN waiters : waiters[i] = r)

\* A request arrives: it is fetched at once, or waits for those before it.
store(r) ==
    /\ ~aborted /\ r \in work.asked /\ reply[r] = "none" /\ ~Known(r)
    /\ IF paused # {}
       THEN paused' = {Append(waiters, r)} /\ UNCHANGED <<active, stage>>
       ELSE paused' = {<<>>} /\ active' = {r} /\ stage' = "fetch"
    /\ UNCHANGED <<db, old_data, dprep, reply, aborted, work>>

\* finish_store and the answer: the next waiter fetches, or the queue goes.
Done(r, stat) ==
    /\ reply' = [reply EXCEPT ![r] = stat]
    /\ stage' = "fetch"
    /\ IF waiters # <<>>
       THEN paused' = {Tail(waiters)} /\ active' = {Head(waiters)}
       ELSE paused' = {} /\ active' = {}

\* Mutant: what the request before fetched is used again.
Fetched_stale ==
    /\ ~aborted /\ stage = "fetch"
    /\ \E r \in active :
          LET res == adjust_data(old_data, Op[r]) IN
          \/ /\ res.stat # "ABORT" /\ (res.stat # "OK" \/ res.block = db)
             /\ Done(r, res.stat)
             /\ UNCHANGED <<old_data, dprep>>
          \/ /\ res.stat = "OK" /\ res.block # db
             /\ old_data' = db /\ dprep' = res.block
             /\ stage' = IF db # <<>> THEN "remove" ELSE "store"
             /\ UNCHANGED <<paused, active, reply>>
    /\ UNCHANGED <<db, aborted, work>>

\* store_after_fetch_cb and real_store.  A block that does not change is not
\* written; a changed one replaces the old one in two steps.  (The repair job
\* that CORRUPTHDR queues comes back later as a request for a whole block.)
Fetched ==
    /\ ~aborted /\ stage = "fetch"
    /\ \E r \in active :
          LET res == adjust_data(db, Op[r]) IN
          \/ /\ work.errors /\ Done(r, "DBERR")
             /\ UNCHANGED <<old_data, dprep, aborted>>
          \/ /\ res.stat = "ABORT"
             /\ aborted' = TRUE
             /\ UNCHANGED <<paused, active, stage, old_data, dprep, reply>>
          \/ /\ res.stat # "ABORT" /\ (res.stat # "OK" \/ res.block = db)
             /\ Done(r, res.stat)
             /\ UNCHANGED <<old_data, dprep, aborted>>
          \/ /\ res.stat = "OK" /\ res.block # db
             /\ old_data' = db /\ dprep' = res.block
             /\ stage' = IF db # <<>> THEN "remove" ELSE "store"
             /\ UNCHANGED <<paused, active, reply, aborted>>
    /\ UNCHANGED <<db, work>>

\* after_delete asserts that the old block could be removed.
after_delete ==
    /\ ~aborted /\ stage = "remove"
    /\ \/ db' = <<>> /\ stage' = "store" /\ UNCHANGED aborted
       \/ work.errors /\ aborted' = TRUE /\ UNCHANGED <<db, stage>>
    /\ UNCHANGED <<paused, active, old_data, dprep, reply, work>>

\* adbcb: the new block is in the database, or is not.
adbcb ==
    /\ ~aborted /\ stage = "store"
    /\ \E r \in active :
          \/ db' = dprep /\ Done(r, "OK")
          \/ work.errors /\ Done(r, "DBERR") /\ UNCHANGED db
    /\ UNCHANGED <<old_data, dprep, aborted, work>>

Finished == (aborted \/ \A r \in work.asked : reply[r] # "none") /\ UNCHANGED vars

Next == (\E r \in Req : store(r)) \/ Fetched \/ after_delete \/ adbcb \/ Finished

Spec == Init /\ [][Next]_vars

-------------------------------------------------------------------------------
(* Properties.                                                                *)

\* One request is served at a time, and exactly then there is a queue for those
\* that wait: _paused_stores has an entry while a store is under way.
TypeOK ==
    /\ Cardinality(active) <= 1 /\ Cardinality(paused) <= 1 /\ active \subseteq Req
    /\ (active # {}) = (paused # {})
    /\ stage \in {"fetch", "remove", "store"}
    /\ reply \in [Req -> {"none", "OK", "NOTFIRST", "FULL", "RETRYINSERT", "CORRUPTHDR", "DBERR"}]

\* The block as its users see it: between remove and store it is the old one.
block == IF stage = "store" THEN old_data ELSE db
Atomic == INSTANCE AtomicBlock WITH asked <- work.asked

\* Requests for a block are atomic and no update is lost, although each takes
\* three database calls and others arrive in between.
StoresAtomic == Atomic!Spec

HasHeader(b) == b # <<>> /\ "level" \in DOMAIN b[1]

\* Only one peer creates a node: the lock is granted once in the life of a block.
Locks == {r \in Req : Op[r].type = "UPDATEHDRLOCK"}
OneCreator == TypeOK /\ (~work.errors => Cardinality({r \in Locks : reply[r] = "OK"}) <= 1)

\* The interval of a node only shrinks and its level only grows.
HeaderMonotone ==
    HasHeader(block) /\ HasHeader(block') =>
        \/ block'[1].level > block[1].level
        \/ block'[1].level = block[1].level /\ block'[1].right <= block[1].right

\* What a step may not do.
Documents == {r \in Req : "doc" \in DOMAIN Op[r] /\ Op[r].doc}
IfPresent == {r \in Req : Op[r].type = "UPDATEIFPRESENT"}
StepRight ==
    /\ HeaderMonotone
    /\ \A r \in Documents : reply[r] = "none" /\ reply'[r] = "OK" =>
          block[1].level = 0 /\ block[1].random # -1
    /\ \A r \in IfPresent : reply[r] = "none" /\ reply'[r] = "OK" /\ HasKey(block', Op[r].key) =>
          HasKey(block, Op[r].key)
    /\ \A r \in work.asked : Known(r) /\ ~Known(r)' => reply'[r] # "none"

\* A node's interval does not grow, whatever the order in which split, header
\* updates and repairs reach it; a document that a peer was told is inserted went
\* into a leaf that was not being split, however late the request arrived; an
\* UPDATEIFPRESENT adds no entry to a node that has none for its key, because a
\* split may have moved it; and a request that leaves the queue is answered, also
\* when the one before it failed (adjust_data, finish_store).
StepsRight == [][StepRight]_vars

\* An append that was acknowledged is in the block: none of two that race is
\* overwritten by the other, also when the block fills up.
Appends == {r \in Req : Op[r].type = "APPEND"}
AckedStored ==
    ~work.errors => \A r \in Appends : reply[r] = "OK" => \E i \in DOMAIN block : block[i].key = Op[r].key

\* Only one peer creates a node, and an append that was acknowledged is in the
\* block.
BlocksRight == OneCreator /\ AckedStored

\* The queue is worked off.
NoneWaits == active = {} \/ aborted
===============================================================================
