------------------------------ MODULE Retrieve ------------------------------
(***************************************************************************)
(* dhashcli::retrieve (dhash/client.C) and the downloads it is made of     *)
(* (dhash/download.C): the client looks up the successors of a key, asks   *)
(* min_fetch of them for their fragment, and one more whenever a download  *)
(* fails or its request is not answered in time.  A successor acknowledges *)
(* the request first and then sends its fragment in chunks, with RPCs of   *)
(* its own, so that the chunks may overtake the acknowledgement.           *)
(***************************************************************************)
EXTENDS Integers, FiniteSets

CONSTANTS NSUCC,          \* num_fetch, the successors asked for at most
          DFRAGS,         \* min_fetch of a block in fragments
          CHUNKS,         \* of a fragment
          MaxFailures     \* bound: failed requests, silent successors, bad decodings

RetrieveAssumption == {NSUCC, DFRAGS, CHUNKS} \subseteq Nat \ {0}

VARIABLES replicated,     \* is a fragment the whole block
          need,           \* fragments that give the block back (Ida)
          frag,           \* what each successor has, 0 for nothing
          rs,             \* rcv_state
          dl,             \* the dhash_download of each successor
          sent,           \* what each successor has still to deliver
          failures

retrieve == <<replicated, need, frag, rs, dl, sent, failures>>

Succ == 1 .. NSUCC
min_fetch == IF replicated THEN 1 ELSE DFRAGS
NoDownload == [live |-> FALSE, asked |-> FALSE, served |-> FALSE, tmo |-> FALSE,
               acked |-> FALSE, called |-> FALSE, error |-> FALSE, read |-> 0]

RetrieveInit ==
    /\ replicated \in BOOLEAN
    /\ need \in 1 .. min_fetch
    /\ frag \in [Succ -> 0 .. NSUCC]
    /\ \A i \in Succ : frag[i] <= Cardinality({frag[j] : j \in 1 .. i - 1} \ {0}) + 1
    /\ replicated => \A i \in Succ : frag[i] <= 1
    /\ rs = [succs |-> 0, next |-> 0, incoming |-> 0, frags |-> {},
             ends |-> 0, status |-> "no"]
    /\ dl = [i \in Succ |-> NoDownload]
    /\ sent = [i \in Succ |-> {}]
    /\ failures = 0

-----------------------------------------------------------------------------
(* A step works on s = [rs, dl].                                           *)
completed(s) == s.rs.ends > 0
complete(s, status) == [s EXCEPT !.rs.ends = @ + 1, !.rs.status = status]

Ask(s) ==
    [rs |-> [s.rs EXCEPT !.incoming = @ + 1, !.next = @ + 1],
     dl |-> [s.dl EXCEPT ![s.rs.next + 1] = [@ EXCEPT !.live = TRUE, !.asked = TRUE]]]
(* Mutant: nothing is hoped for from requests that are out.                *)
fetch_frag_hopeless(s) ==
    IF completed(s) THEN s
    ELSE IF s.rs.next >= s.rs.succs THEN complete(s, "NOENT")
    ELSE Ask(s)
fetch_frag(s) ==
    IF completed(s) THEN s
    ELSE IF s.rs.next >= s.rs.succs
         THEN IF s.rs.incoming > 0 THEN s ELSE complete(s, "NOENT")
    ELSE Ask(s)

(* process_download: a fragment that is there already is an error, and so  *)
(* is one with which there are min_fetch but the block does not come out.  *)
process_download(s, f, decodes) ==
    LET new == [s EXCEPT !.rs.frags = @ \cup {f}]
        k == Cardinality(new.rs.frags)
    IN  IF ~replicated /\ f \in s.rs.frags THEN [s |-> s, err |-> TRUE, done |-> FALSE]
        ELSE [s |-> new, err |-> k >= min_fetch /\ ~decodes, done |-> k >= need /\ decodes]

retrieve_fetch_cb(s0, block, f, decodes) ==
    LET s == [s0 EXCEPT !.rs.incoming = @ - 1]
        p == process_download(s, f, decodes)
        t == IF p.err THEN fetch_frag(p.s) ELSE p.s
    IN  IF completed(s) THEN s
        ELSE IF ~block THEN fetch_frag(s)
        ELSE IF p.done THEN complete(t, "OK")
        ELSE IF t.rs.incoming = 0 /\ t.rs.next > t.rs.succs THEN complete(t, "NOENT")
        ELSE t

(* check_finish: the download is handed over once, and deleted when its    *)
(* request has been acknowledged too.                                      *)
check_finish(s, i, decodes) ==
    LET d == s.dl[i]
        t == IF d.called THEN s
             ELSE [retrieve_fetch_cb(s, ~d.error, frag[i], decodes)
                      EXCEPT !.dl[i].called = TRUE]
    IN  IF d.read # CHUNKS /\ ~d.error THEN s
        ELSE [t EXCEPT !.dl[i].live = ~d.acked]

Set(s) == rs' = s.rs /\ dl' = s.dl
Client == [rs |-> rs, dl |-> dl]

(* The one time that decoding enough fragments fails counts as a fault.    *)
Finish(s, i) ==
    \/ Set(check_finish(s, i, TRUE)) /\ UNCHANGED failures
    \/ /\ ~replicated /\ failures < MaxFailures /\ failures' = failures + 1
       /\ Set(check_finish(s, i, FALSE))

-----------------------------------------------------------------------------
(* retrieve_lookup_cb and doassemble.                                      *)
doassemble(n) ==
    /\ rs.succs = 0 /\ rs.ends = 0
    /\ LET s == [Client EXCEPT !.rs.succs = n]
           ask[k \in 0 .. NSUCC] == IF k = 0 THEN s ELSE fetch_frag(ask[k - 1])
       IN  Set(IF n < min_fetch THEN complete(s, "CHORDERR") ELSE ask[min_fetch])
    /\ UNCHANGED <<replicated, need, frag, sent, failures>>

(* DHASHPROC_FETCHITER at a successor: it acknowledges, reads its database *)
(* and sends the chunks, or that there is nothing.                         *)
ServeFetch(i) ==
    /\ dl[i].asked /\ ~dl[i].served
    /\ sent' = [sent EXCEPT ![i] = {"ack"} \cup
                    (IF frag[i] = 0 THEN {"noent"} ELSE {"chunk"})]
    /\ dl' = [dl EXCEPT ![i].served = TRUE]
    /\ UNCHANGED <<replicated, need, frag, rs, failures>>

sent_request(i) ==
    /\ "ack" \in sent[i]
    /\ sent' = [sent EXCEPT ![i] = @ \ {"ack"}]
    /\ LET s == [Client EXCEPT !.dl[i].acked = TRUE]
       IN  Set(IF s.dl[i].called \/ s.dl[i].error THEN check_finish(s, i, TRUE) ELSE s)
    /\ UNCHANGED <<replicated, need, frag, failures>>

(* The request or its answer is lost for good.                             *)
RequestFails(i) ==
    /\ dl[i].asked /\ ~dl[i].acked
    /\ failures < MaxFailures /\ failures' = failures + 1
    /\ sent' = [sent EXCEPT ![i] = @ \ {"ack"}]
    /\ Set(check_finish([Client EXCEPT !.dl[i].acked = TRUE, !.dl[i].error = TRUE,
                                    !.dl[i].served = TRUE], i, TRUE))
    /\ UNCHANGED <<replicated, need, frag>>

(* DHASHPROC_FETCHCOMPLETE at the client: a chunk for a download that is   *)
(* there no more is dropped.                                               *)
gotchunk(i) ==
    /\ "chunk" \in sent[i]
    /\ LET s == [Client EXCEPT !.dl[i].read = @ + 1]
       IN  IF dl[i].live
           THEN /\ sent' = [sent EXCEPT ![i] = IF dl[i].read + 1 = CHUNKS THEN @ \ {"chunk"} ELSE @]
                /\ Finish(s, i)
           ELSE /\ sent' = [sent EXCEPT ![i] = @ \ {"chunk"}]
                /\ UNCHANGED <<rs, dl, failures>>
    /\ UNCHANGED <<replicated, need, frag>>

notfound(i) ==
    /\ "noent" \in sent[i]
    /\ sent' = [sent EXCEPT ![i] = @ \ {"noent"}]
    /\ IF dl[i].live THEN Set(check_finish([Client EXCEPT !.dl[i].error = TRUE], i, TRUE))
       ELSE UNCHANGED <<rs, dl>>
    /\ UNCHANGED <<replicated, need, frag, failures>>

(* on_timeout: the first retransmission asks another successor too.        *)
on_timeout(i) ==
    /\ dl[i].asked /\ ~dl[i].acked /\ ~dl[i].tmo
    /\ Set(fetch_frag([Client EXCEPT !.dl[i].tmo = TRUE]))
    /\ UNCHANGED <<replicated, need, frag, sent, failures>>

(* A successor stops after it has acknowledged the request.                *)
Silent(i) ==
    /\ sent[i] \cap {"chunk", "noent"} # {}
    /\ failures < MaxFailures /\ failures' = failures + 1
    /\ sent' = [sent EXCEPT ![i] = @ \cap {"ack"}]
    /\ UNCHANGED <<replicated, need, frag, rs, dl>>

RetrieveNext ==
    \/ \E n \in 0 .. NSUCC : doassemble(n)
    \/ \E i \in Succ :
          \/ ServeFetch(i) \/ sent_request(i) \/ RequestFails(i)
          \/ gotchunk(i) \/ notfound(i) \/ on_timeout(i) \/ Silent(i)

RetrieveSpec == RetrieveInit /\ [][RetrieveNext]_retrieve

-----------------------------------------------------------------------------
(* A retrieve answers its caller once; DHASH_OK with enough different      *)
(* fragments, DHASH_NOENT only when every successor was asked and none is  *)
(* waited for, and then too few had one, or a decoding failed.  Downloads  *)
(* and incoming_rpcs agree, and a download whose answer came is gone when  *)
(* its request ended (retrieve_fetch_cb, fetch_frag, check_finish).        *)
Waiting == {i \in Succ : dl[i].asked /\ ~dl[i].called}
RetrieveRight ==
    /\ rs.ends <= 1
    /\ rs.status = "OK" => Cardinality(rs.frags) >= need
    /\ rs.status = "NOENT" =>
          /\ Waiting = {} /\ rs.next = rs.succs
          /\ Cardinality(rs.frags) < need \/ failures > 0
    /\ rs.incoming = Cardinality(Waiting)
    /\ \A i \in Succ : (dl[i].called /\ dl[i].acked) => ~dl[i].live
    /\ (rs.ends = 0 /\ rs.succs > 0 /\ Waiting = {}) => rs.frags # {}

(* "all RPCs returned but no good block.", which retrieve_fetch_cb logs    *)
(* before it answers DHASH_NOENT: when all have returned, the caller has   *)
(* an answer.                                                              *)
AllReturnedEnds ==
    (rs.succs > 0 /\ rs.next = rs.succs /\ Waiting = {}) => rs.ends = 1
=============================================================================
