------------------------------ MODULE GossipSock ------------------------------
(* The Unix socket between lsd and the gpsi of the same peer.  lsd connects   *)
(* for every gossip message it is asked to store, answers OK and writes the   *)
(* message as the socket takes it.  gpsi accepts, and reads a message to its  *)
(* end without returning to the event loop; the handler of an INITGOSSIP may  *)
(* run the event loop again (informteam) before the descriptor is closed.     *)
EXTENDS Integers, Sequences, FiniteSets, SequencesExt

CONSTANTS Msg,      \* messages, finitely many, one connection each
          Kind,     \* Kind[m]: "exec", "init", "query" or "bad" (getKeyValue fails)
          Parts,    \* writes a message takes: 1 if it fits the socket buffer
          MAXCONN,  \* connections the kernel queues for accept
          MaxFd,    \* descriptors gpsi can have accepted at a time
          WriteErrors   \* may a write of lsd fail, and then the read of gpsi?

SockAssumption ==
    /\ IsFiniteSet(Msg)
    /\ Kind \in [Msg -> {"exec", "init", "query", "bad"}]
    /\ Parts \in Nat \ {0} /\ MAXCONN \in Nat \ {0} /\ MaxFd \in Nat /\ WriteErrors \in BOOLEAN

VARIABLES wr,       \* wr[m]: lsd's end: "none", "writing", "closed"
          resStatus,    \* resStatus[m]: what lsd answered to the store
          written,  \* written[m]: parts written
          connecting,   \* the message lsd is blocked on in connect ({} or one)
          backlog,  \* connections to be accepted, in order
          fd,       \* fd[m]: gpsi's end: "none", "open", "closed"
          selread,  \* connections with a readability callback
          recvlen,  \* recvlen[m]: parts read
          reading,  \* the message readgossip is reading ({} or one)
          suspended,    \* handlers that wait inside the event loop, innermost last
          handled,  \* handled[m]: "no", "taken", "discarded"
          listening,    \* is acceptconn still registered?
          openfd, closefd, initphase

lsdvars == <<wr, resStatus, written, connecting>>
connvars == <<fd, selread, recvlen, reading, suspended, handled, closefd>>
sockVars == <<lsdvars, connvars, backlog, listening, openfd, initphase>>

SockInit ==
    /\ wr = [m \in Msg |-> "none"] /\ resStatus = [m \in Msg |-> "none"]
    /\ written = [m \in Msg |-> 0] /\ recvlen = [m \in Msg |-> 0]
    /\ connecting = {} /\ backlog = <<>> /\ fd = [m \in Msg |-> "none"] /\ selread = {}
    /\ reading = {} /\ suspended = <<>> /\ handled = [m \in Msg |-> "no"]
    /\ listening = TRUE /\ openfd = 0 /\ closefd = 0 /\ initphase = TRUE

-------------------------------------------------------------------------------
(* lsd.  Its connect blocks while the queue of the listener is full, and with *)
(* it the whole of lsd: no other message is written meanwhile.                *)
adjust_data(m) ==
    /\ resStatus[m] = "none"
    /\ connecting = {} \/ (connecting = {m} /\ Len(backlog) < MAXCONN)
    /\ \/ /\ connecting = {}                    \* gdiscard, or no socket
          /\ resStatus' = [resStatus EXCEPT ![m] = "ERR"]
          /\ UNCHANGED <<wr, connecting, backlog>>
       \/ /\ Len(backlog) < MAXCONN
          /\ resStatus' = [resStatus EXCEPT ![m] = "OK"]
          /\ wr' = [wr EXCEPT ![m] = "writing"]
          /\ connecting' = {}
          /\ backlog' = Append(backlog, m)
       \/ /\ Len(backlog) >= MAXCONN
          /\ connecting' = {m}
          /\ UNCHANGED <<resStatus, wr, backlog>>
    /\ UNCHANGED <<written, connvars, listening, openfd, initphase>>

\* The socket holds one part; a message is complete after Parts writes.
write_gossip(m) ==
    /\ wr[m] = "writing" /\ written[m] = recvlen[m] /\ connecting = {}
    /\ \/ /\ written' = [written EXCEPT ![m] = @ + 1]
          /\ wr' = IF written[m] + 1 = Parts THEN [wr EXCEPT ![m] = "closed"] ELSE wr
       \/ /\ WriteErrors
          /\ wr' = [wr EXCEPT ![m] = "closed"]
          /\ UNCHANGED written
    /\ UNCHANGED <<resStatus, connecting, connvars, backlog, listening, openfd, initphase>>

-------------------------------------------------------------------------------
(* gpsi.                                                                      *)
notreading == reading = {}
Open == {m \in Msg : fd[m] = "open"}

\* accept fails when no descriptor is left, and the listener is given up.
acceptconn ==
    /\ notreading /\ listening /\ backlog # <<>>
    /\ IF Cardinality(Open) < MaxFd
       THEN /\ fd' = [fd EXCEPT ![Head(backlog)] = "open"]
            /\ selread' = selread \cup {Head(backlog)}
            /\ backlog' = Tail(backlog)
            /\ openfd' = openfd + 1
            /\ UNCHANGED listening
       ELSE /\ listening' = FALSE
            /\ UNCHANGED <<fd, selread, backlog, openfd>>
    /\ UNCHANGED <<lsdvars, recvlen, reading, suspended, handled, closefd, initphase>>

data(m) == recvlen[m] < written[m]
EOF(m) == ~data(m) /\ wr[m] = "closed"

Close(m) ==
    /\ selread' = selread \ {m}
    /\ fd' = [fd EXCEPT ![m] = "closed"]
    /\ closefd' = closefd + 1

\* readgossip is left, for the event loop that called it.
Return == reading' = {}

\* Mutant: the bytes read are not counted.
ReadPart_nocount(m) ==
    /\ reading = {m} \/ (notreading /\ m \in selread)
    /\ data(m)
    /\ reading' = {m}
    /\ UNCHANGED <<lsdvars, fd, selread, recvlen, suspended, handled, closefd, backlog, listening, openfd, initphase>>

\* readgossip is entered for m, or goes on with it, and reads what is there.
ReadPart(m) ==
    /\ reading = {m} \/ (notreading /\ m \in selread)
    /\ data(m)
    /\ recvlen' = [recvlen EXCEPT ![m] = @ + 1]
    /\ reading' = {m}
    /\ UNCHANGED <<lsdvars, fd, selread, suspended, handled, closefd, backlog, listening, openfd, initphase>>

\* Mutant: the descriptor is closed here too.
ReadEOF_closes(m) ==
    /\ reading = {m} \/ (notreading /\ m \in selread)
    /\ EOF(m) /\ (reading = {m} => recvlen[m] < Parts)
    /\ Close(m)
    /\ Return
    /\ UNCHANGED <<lsdvars, recvlen, suspended, handled, backlog, listening, openfd, initphase>>

\* n == 0: the callback is removed, the descriptor is left open.
ReadEOF(m) ==
    /\ reading = {m} \/ (notreading /\ m \in selread)
    /\ EOF(m) /\ (reading = {m} => recvlen[m] < Parts)
    /\ selread' = selread \ {m}
    /\ Return
    /\ UNCHANGED <<lsdvars, fd, recvlen, suspended, handled, closefd, backlog, listening, openfd, initphase>>

\* n < 0: the read fails on a connection that lsd gave up.
ReadError(m) ==
    /\ WriteErrors /\ wr[m] = "closed" /\ written[m] < Parts
    /\ reading = {m} \/ (notreading /\ m \in selread)
    /\ Close(m)
    /\ Return
    /\ UNCHANGED <<lsdvars, recvlen, suspended, handled, backlog, listening, openfd, initphase>>

\* Does the phase accept the message?
InPhase(m) == CASE Kind[m] = "exec" -> ~initphase [] Kind[m] = "init" -> initphase [] OTHER -> TRUE

\* Mutant: the phase is not looked at.
Handle_anyphase(m) ==
    /\ reading = {m} /\ recvlen[m] = Parts
    /\ Return
    /\ handled' = [handled EXCEPT ![m] = IF Kind[m] = "bad" THEN "discarded" ELSE "taken"]
    /\ Close(m)
    /\ UNCHANGED <<lsdvars, recvlen, suspended, backlog, listening, openfd, initphase>>

\* The message is complete.  One of the other phase is discarded, and its
\* descriptor keeps its callback.  An INITGOSSIP may wait in informteam.
Handle(m) ==
    /\ reading = {m} /\ recvlen[m] = Parts
    /\ Return
    /\ IF InPhase(m)
       THEN \/ Kind[m] # "bad" /\ handled' = [handled EXCEPT ![m] = "taken"] /\ Close(m) /\ UNCHANGED suspended
            \/ Kind[m] = "bad" /\ handled' = [handled EXCEPT ![m] = "discarded"] /\ Close(m) /\ UNCHANGED suspended
            \/ /\ Kind[m] = "init"
               /\ handled' = [handled EXCEPT ![m] = "taken"]
               /\ suspended' = Append(suspended, m)
               /\ UNCHANGED <<fd, selread, closefd>>
       ELSE /\ handled' = [handled EXCEPT ![m] = "discarded"]
            /\ UNCHANGED <<fd, selread, closefd, suspended>>
    /\ UNCHANGED <<lsdvars, recvlen, backlog, listening, openfd, initphase>>

\* The insert of the innermost informteam is answered; readgossip ends.
Resume ==
    /\ notreading /\ suspended # <<>>
    /\ Close(Last(suspended))
    /\ suspended' = Front(suspended)
    /\ UNCHANGED <<lsdvars, recvlen, reading, handled, backlog, listening, openfd, initphase>>

\* The main program leaves the init phase; it cannot while handlers wait on
\* top of it.
EndInit ==
    /\ notreading /\ suspended = <<>> /\ initphase
    /\ initphase' = FALSE
    /\ UNCHANGED <<lsdvars, connvars, backlog, listening, openfd>>

\* Nothing is left to do.
Settled(m) == resStatus[m] = "ERR" \/ (wr[m] = "closed" /\ fd[m] # "none" /\ m \notin selread)
SockFinished ==
    /\ notreading /\ suspended = <<>> /\ ~initphase /\ \A m \in Msg : Settled(m)
    /\ UNCHANGED sockVars

Gpsi(m) == ReadPart(m) \/ ReadEOF(m) \/ ReadError(m) \/ Handle(m)

SockNext ==
    \/ \E m \in Msg : adjust_data(m) \/ write_gossip(m) \/ Gpsi(m)
    \/ acceptconn \/ Resume \/ EndInit \/ SockFinished

SockSpec == SockInit /\ [][SockNext]_sockVars

-------------------------------------------------------------------------------
(* Properties.                                                                *)

\* lsd writes and gpsi reads no part beyond the end of a message, and gpsi is
\* inside the read loop of one readgossip at most.
SockTypeOK ==
    /\ wr \in [Msg -> {"none", "writing", "closed"}] /\ resStatus \in [Msg -> {"none", "OK", "ERR"}]
    /\ written \in [Msg -> 0..Parts] /\ recvlen \in [Msg -> 0..Parts]
    /\ fd \in [Msg -> {"none", "open", "closed"}] /\ handled \in [Msg -> {"no", "taken", "discarded"}]
    /\ connecting \subseteq Msg /\ selread \subseteq Msg /\ reading \subseteq Msg /\ Cardinality(reading) <= 1
    /\ listening \in BOOLEAN /\ initphase \in BOOLEAN /\ openfd \in Nat /\ closefd \in Nat

\* openfd and closefd, which gpsi logs, account for the descriptors: each is
\* closed at most once, although the event loop may come back to a connection
\* whose handler is suspended, and none is closed while it has a callback.
FdAccounting ==
    /\ SockTypeOK
    /\ openfd - closefd = Cardinality(Open)
    /\ selread \subseteq Open

\* A descriptor that nobody will close belongs to a message that was discarded
\* for its phase or that lsd failed to write; every other one is closed.
Leaked == {m \in Open : m \notin selread \cup reading \cup Range(suspended)}
OnlyDiscardsLeak ==
    \A m \in Leaked : handled[m] = "discarded" \/ written[m] < Parts

\* gpsi closes a descriptor once, and all but those of messages it discards.
FdsRight == FdAccounting /\ OnlyDiscardsLeak

\* readgossip decides about a message once, by the phase it is then in.
DecidedOnce ==
    \A m \in Msg : handled'[m] # handled[m] =>
        /\ handled[m] = "no"
        /\ (handled'[m] = "taken") = (InPhase(m) /\ Kind[m] # "bad")

\* A message that a phase discards is never applied later, and one of the
\* current phase is never discarded (readgossip).
PhaseRespected == [][DecidedOnce]_sockVars

\* lsd waits in connect for room in the queue, gpsi in its read loop for lsd.
Jammed == connecting # {} /\ \E m \in reading : wr[m] = "writing" /\ recvlen[m] = written[m]

\* A message for which lsd has answered OK has come to the end of readgossip,
\* unless lsd failed to write it or one of two ends of the story was met: the
\* listener has been given up, or lsd and gpsi wait for each other.
AcceptedRead ==
    \A m \in Msg : resStatus[m] = "OK" =>
        \/ handled[m] # "no"
        \/ wr[m] = "closed" /\ written[m] < Parts
        \/ ~listening
        \/ Jammed
===============================================================================
