----------------------------- MODULE StpManager -----------------------------
(***************************************************************************)
(* The RPC transport of a Chord node (chord/stp_manager.C): a congestion   *)
(* window over all destinations, a queue of the calls that find no room in *)
(* it, retransmission, and the giving up on a host, which fails all calls  *)
(* to it at once.  A call's callback may issue further calls.              *)
(*                                                                         *)
(* win is the window rounded up, which is what room_in_window compares; it *)
(* grows by one in slow start and by a fraction afterwards, and halves on  *)
(* the first timeout of a call.                                            *)
(***************************************************************************)
EXTENDS Integers, Sequences, SequencesExt, FiniteSets

CONSTANTS Rpc, Host, dest,    \* calls, hosts, the host a call is for
          CWIND_MULT, MAX_REXMIT,
          MaxWin,             \* bound on the window
          None

StpAssumption ==
    /\ IsFiniteSet(Rpc) /\ dest \in [Rpc -> Host] /\ None \notin Rpc
    /\ CWIND_MULT \in Nat /\ MAX_REXMIT \in Nat /\ MaxWin \in Nat

VARIABLES st,                 \* "new", "queued", "pending", "done"
          in_window, rexmits, \* of rpc_state
          ncb,                \* callbacks made, by call
          pending, Q,         \* the two lists, in order
          inflight, win,
          kick,               \* a delayed rpc_done is scheduled
          reap,               \* the walk of timeout() that fails a host's
                              \* calls: [for, at], at = the next one to see
          alive               \* hosts that answer

stpVars == <<st, in_window, rexmits, ncb, pending, Q, inflight, win, kick, reap, alive>>

room_in_window(i, w) == i < w * CWIND_MULT
place(s, r) == CHOOSE i \in DOMAIN s : s[i] = r
nextin(s, r) == IF place(s, r) = Len(s) THEN None ELSE s[place(s, r) + 1]

(* The part of the state that the functions below change, as a record.     *)
Now == [st |-> st, inw |-> in_window, rex |-> rexmits, ncb |-> ncb,
        pending |-> pending, Q |-> Q, inflight |-> inflight, win |-> win, kick |-> kick]
Becomes(s) ==
    /\ st' = s.st /\ in_window' = s.inw /\ rexmits' = s.rex /\ ncb' = s.ncb
    /\ pending' = s.pending /\ Q' = s.Q /\ inflight' = s.inflight
    /\ win' = s.win /\ kick' = s.kick

Send(s, r) ==
    [s EXCEPT !.st[r] = "pending", !.inw[r] = TRUE, !.rex[r] = 0,
              !.pending = Append(@, r), !.inflight = @ + 1]
enqueue_rpc(s, r) == [s EXCEPT !.st[r] = "queued", !.Q = Append(@, r)]
doRPC(s, r) ==
    IF room_in_window(s.inflight, s.win) THEN Send(s, r) ELSE enqueue_rpc(s, r)

(* update_cwind of an answer: one more, or a fraction that may not show.   *)
grow(s) ==
    {[s EXCEPT !.win = w] : w \in {s.win, IF s.win < MaxWin THEN s.win + 1 ELSE s.win}}
shrink(s) == [s EXCEPT !.win = (@ + 1) \div 2]

(* rpc_done: with room, any queued call, or rather the first one queued    *)
(* for the same destination; and again a second later if there is more.    *)
first(q, i) ==
    CHOOSE j \in 1 .. i : /\ dest[q[j]] = dest[q[i]]
                          /\ \A k \in 1 .. j - 1 : dest[q[k]] # dest[q[i]]
again(s) ==
    IF s.Q # <<>> /\ room_in_window(s.inflight, s.win) THEN [s EXCEPT !.kick = TRUE] ELSE s
rpc_done(s) ==
    LET sent == IF s.Q # <<>> /\ room_in_window(s.inflight, s.win)
                THEN {doRPC([s EXCEPT !.Q = RemoveAt(@, first(s.Q, i))], s.Q[first(s.Q, i)]) :
                         i \in DOMAIN s.Q}
                ELSE {s}
    IN  {again(t) : t \in sent}

(* doRPCcb: the callback, which may issue another call while this one      *)
(* still counts, and only then the window's books and the queue.           *)
back(s, c) ==
    [s EXCEPT !.pending = RemoveAt(@, place(@, c)), !.st[c] = "done", !.ncb[c] = @ + 1]
free(s, c) == [s EXCEPT !.inflight = IF s.inw[c] THEN @ - 1 ELSE @]
doRPCcb(s, c) ==
    LET gone == back(s, c)
        called == {gone} \cup {doRPC(gone, r) : r \in {q \in Rpc : s.st[q] = "new"}}
        freed == {free(t, c) : t \in called}
    IN  UNION {rpc_done(t) : t \in UNION {grow(u) : u \in freed}}

-----------------------------------------------------------------------------
StpInit ==
    /\ st = [r \in Rpc |-> "new"]
    /\ in_window = [r \in Rpc |-> FALSE]
    /\ rexmits = [r \in Rpc |-> 0]
    /\ ncb = [r \in Rpc |-> 0]
    /\ pending = <<>> /\ Q = <<>>
    /\ inflight = 0 /\ win = 1
    /\ kick = FALSE
    /\ reap = None
    /\ alive = Host

Issue(r) ==
    /\ reap = None /\ st[r] = "new"
    /\ Becomes(doRPC(Now, r))
    /\ UNCHANGED <<reap, alive>>

Answer(r) ==
    /\ reap = None /\ st[r] = "pending" /\ dest[r] \in alive
    /\ \E s \in doRPCcb(Now, r) : Becomes(s)
    /\ UNCHANGED <<reap, alive>>

(* stp_manager::timeout: the other calls to the host leave the window, and *)
(* so does this one once it was sent twice over ...                        *)
Out_twice(s, S) ==
    [s EXCEPT !.inw = [r \in Rpc |-> @[r] /\ r \notin S], !.inflight = @ - Cardinality(S)]
Out(s, S) ==
    [s EXCEPT !.inw = [r \in Rpc |-> @[r] /\ r \notin S],
              !.inflight = @ - Cardinality({r \in S : s.inw[r]})]
timeout(r) ==
    /\ reap = None /\ st[r] = "pending"
    /\ LET others == {o \in Range(pending) : dest[o] = dest[r] /\ o # r}
           s == Out(Now, others \cup IF rexmits[r] > 1 THEN {r} ELSE {})
           t == [s EXCEPT !.rex[r] = @ + 1]
       IN  Becomes(IF rexmits[r] = 0 THEN shrink(t) ELSE t)
    /\ reap' = IF rexmits[r] > MAX_REXMIT THEN [for |-> r, at |-> Head(pending)] ELSE None
    /\ UNCHANGED alive

(* ... and after the last retransmission all of them fail at once, the one *)
(* that timed out last (rpccb_chord::timeout_cb).                          *)
Reap ==
    /\ reap # None
    /\ \/ /\ reap.at = None
          /\ \E s \in doRPCcb(Now, reap.for) : Becomes(s)
          /\ reap' = None
       \/ /\ reap.at # None
          /\ reap' = [reap EXCEPT !.at = nextin(pending, reap.at)]
          /\ IF dest[reap.at] = dest[reap.for] /\ reap.at # reap.for
             THEN \E s \in doRPCcb(Now, reap.at) : Becomes(s)
             ELSE UNCHANGED <<st, in_window, rexmits, ncb, pending, Q, inflight, win, kick>>
    /\ UNCHANGED alive

Kick ==
    /\ reap = None /\ kick
    /\ \E s \in rpc_done([Now EXCEPT !.kick = FALSE]) : Becomes(s)
    /\ UNCHANGED <<reap, alive>>

(* Five seconds without a call put the window back to one.                 *)
idle ==
    /\ reap = None /\ win > 1
    /\ win' = 1
    /\ UNCHANGED <<st, in_window, rexmits, ncb, pending, Q, inflight, kick, reap, alive>>

HostDies(h) ==
    /\ h \in alive
    /\ alive' = alive \ {h}
    /\ UNCHANGED <<st, in_window, rexmits, ncb, pending, Q, inflight, win, kick, reap>>

StpNext ==
    \/ \E r \in Rpc : Issue(r) \/ Answer(r) \/ timeout(r)
    \/ Reap \/ Kick \/ idle
    \/ \E h \in Host : HostDies(h)

StpSpec == StpInit /\ [][StpNext]_stpVars

-----------------------------------------------------------------------------
(* inflight counts the pending calls that are in the window, no more and   *)
(* no less, whatever mix of answers, timeouts and hosts given up led here; *)
(* the two lists hold exactly the calls that wait, and a call's callback   *)
(* is made once (timeout and doRPCcb both take calls out of the window).   *)
WindowRight ==
    /\ inflight = Cardinality({r \in Rpc : st[r] = "pending" /\ in_window[r]})
    /\ IsInjective(pending) /\ IsInjective(Q)
    /\ Range(pending) = {r \in Rpc : st[r] = "pending"}
    /\ Range(Q) = {r \in Rpc : st[r] = "queued"}
    /\ \A r \in Rpc : ncb[r] = IF st[r] = "done" THEN 1 ELSE 0

(* No call waits, in the queue or for an answer: each that was made has    *)
(* ended with its callback (rpc_done).                                     *)
NoneWaits == \A r \in Rpc : st[r] \in {"new", "done"}
=============================================================================
