------------------------------ MODULE MCXGossip ------------------------------
(* The two phases of XGossip, one after the other at every peer: the init      *)
(* phase (XGossipInit), and the exec phase (XGossip), which starts from what   *)
(* log.init holds.                                                             *)
EXTENDS XGossip, XGossipInit

CONSTANTS a, b, Hold

VARIABLE mode       \* "exec" or "init"

\* Team 1 is owned by peers 1 and 2, both IDs of team 2 by peer 1; peer 3 is in no
\* team, and gets copies and what was meant for peer 2 once that is killed.
MCTeamIDs == <<<<1, 2>>, <<1, 1>>>>

\* Signature a: twice at peer 1 and once at peer 2 in team 1, once in team 2.
\* Nobody has signature b.
MCFreq == [p \in Peer |-> [t \in Team |-> [s \in Sig |->
    IF s = b \/ p = 3 THEN 0 ELSE IF t = 1 /\ p = 1 THEN 2 ELSE 1]]]

KillTwo == [p \in Peer |-> IF p = 2 THEN 1 ELSE -1]

\* Peer 2 does not take failed messages back.
MCConsume == [p \in Peer |-> p # 2]

MCUnit == 2 ^ (N * rounds)

\* In the init phase team 1 has three IDs with distinct owners; peer 1 owns both
\* IDs of team 2.
MCRingIDs == <<<<1, 2, 3>>, <<1, 1>>>>

E(s, t, f) == [sig |-> s, team |-> t, freq |-> f]
MCTodo == <<<<E(a, 1, 2), E(b, 2, 1)>>, <<E(a, 1, 1)>>, <<>>>>

ASSUME InitAssumption

-------------------------------------------------------------------------------
allVars == <<mode, vars, initVars>>

InExec(A) == mode = "exec" /\ A /\ UNCHANGED <<mode, initVars>>
InInit(A) == mode = "init" /\ A /\ UNCHANGED <<mode, vars>>

MCInit == mode \in {"exec", "init"} /\ Init /\ InitInit
MCNext == InExec(Next) \/ InInit(InitNext)

\* Timers fire, inserts return (STORE_TIMEOUT), readable sockets are read: as long
\* as a peer has something to do, one of them does.
MCSpec ==
    /\ MCInit /\ [][MCNext]_allVars
    /\ WF_allVars(\E p \in Peer : InExec(Turn(p)) \/ InInit(lshsig(p) \/ Receive(p) \/ EndInit(p)))

-------------------------------------------------------------------------------
\* Every peer that is not killed finishes its rounds, also when the insert for
\* some team keeps failing; the chain of INFORMTEAM messages dies out, and the
\* init phase ends.
AllFinish == <>[]((mode = "exec" => Finished) /\ (mode = "init" => InitEnded))
===============================================================================
