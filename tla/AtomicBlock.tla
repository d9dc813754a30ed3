----------------------------- MODULE AtomicBlock -----------------------------
(* What a DHash node promises for one block of the index: requests take       *)
(* effect one at a time and completely, each on what the one before it left.  *)
(* A request that meets a database error changes nothing or, at worst, loses  *)
(* the block.                                                                 *)
CONSTANTS Req, Op,      \* requests and what they ask for
          adjust_data(_, _) \* what a request makes of a block: [stat, block]

VARIABLES block, reply,
          asked         \* the requests that are sent

Init == block = <<>> /\ reply = [r \in Req |-> "none"] /\ asked \subseteq Req

Answer(r, stat) == reply[r] = "none" /\ reply' = [reply EXCEPT ![r] = stat]

Apply(r) ==
    /\ Answer(r, adjust_data(block, Op[r]).stat)
    /\ block' = adjust_data(block, Op[r]).block

Fail(r) == Answer(r, "DBERR") /\ block' \in {block, <<>>}

Next == UNCHANGED asked /\ \E r \in asked : Apply(r) \/ Fail(r)

Spec == Init /\ [][Next]_<<block, reply, asked>>
===============================================================================
