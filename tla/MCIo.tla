--------------------------------- MODULE MCIo ---------------------------------
(* What carries the messages of a peer, side by side with what is promised of *)
(* the mass in them (PushSum): insertDHT and its callbacks (InsertDHT), the   *)
(* socket between lsd and gpsi (GossipSock), the RPC transport of a node      *)
(* (StpManager).                                                              *)
EXTENDS PushSum, InsertDHT, GossipSock, StpManager

VARIABLE mode

\* All the mass starts at two of the peers.
MCStart == [p \in Peer |-> IF p = 1 THEN 4 ELSE IF p = 2 THEN 2 ELSE 0]

\* One message of each kind that can nest, be discarded or be refused.
MCKind == <<"init", "exec", "init", "bad">>

\* Three calls to a host and one to another.
MCdest == <<1, 1, 2, 1>>

ASSUME InsertAssumption /\ SockAssumption /\ StpAssumption

sumVars == vars
ioVars == <<mode, sumVars, insertVars, sockVars, stpVars>>

IoInit ==
    /\ mode \in {"sum", "insert", "sock", "stp"}
    /\ Init /\ InsertInit /\ SockInit /\ StpInit

InSum(A) == mode = "sum" /\ A /\ UNCHANGED <<mode, insertVars, sockVars, stpVars>>
InInsert(A) == mode = "insert" /\ A /\ UNCHANGED <<mode, sumVars, sockVars, stpVars>>
InSock(A) == mode = "sock" /\ A /\ UNCHANGED <<mode, sumVars, insertVars, stpVars>>
InStp(A) == mode = "stp" /\ A /\ UNCHANGED <<mode, sumVars, insertVars, sockVars>>

IoNext == InSum(Next) \/ InInsert(InsertNext) \/ InSock(SockNext) \/ InStp(StpNext)

\* dhash answers every request and the event loop keeps running; so do those of
\* lsd and gpsi, and a connect that waits for room in the queue returns when
\* there is some; and the timers of the RPCs fire.
IoSpec ==
    /\ IoInit /\ [][IoNext]_ioVars
    /\ WF_ioVars(InInsert(store_cb)) /\ WF_ioVars(InInsert(Wake))
    /\ \A m \in Msg : /\ WF_ioVars(InSock(write_gossip(m)))
                      /\ WF_ioVars(InSock(Gpsi(m)))
                      /\ WF_ioVars(InSock(connecting = {m} /\ adjust_data(m)))
    /\ WF_ioVars(InSock(acceptconn)) /\ WF_ioVars(InSock(Resume))
    /\ \A r \in Rpc : WF_ioVars(InStp(timeout(r)))
    /\ WF_ioVars(InStp(Reap)) /\ WF_ioVars(InStp(Kick))

-------------------------------------------------------------------------------
\* Every insertDHT returns; a message for which lsd has answered OK is read,
\* unless lsd cannot write it, the listener was given up, or lsd and gpsi wait
\* for each other; and every RPC that was made gets its callback.  Calls,
\* messages and RPCs are finitely many, so that in the end none is waiting.
Answered ==
    /\ mode = "insert" => AllReturned
    /\ mode = "sock" => AcceptedRead
    /\ mode = "stp" => NoneWaits
AllAnswered == <>[]Answered
===============================================================================
