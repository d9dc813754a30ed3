------------------------------ MODULE InsertDHT ------------------------------
(* insertDHT of gpsi.  It hands a store request to dhash and runs the event   *)
(* loop until the callback has counted the global `out` up.  Anything can be  *)
(* dispatched meanwhile, also a handler that calls insertDHT itself, which    *)
(* initgossiprecv does through informteam; out, insertError and insertStatus  *)
(* are shared by all calls that are then on the stack.                        *)
EXTENDS Integers, Sequences, FiniteSets, SequencesExt

CONSTANTS MaxCalls,     \* bound: calls of insertDHT in a behaviour
          STOPCOUNT     \* attempts per call (MAXRETRIES = 1 in gpsi.h, 5 in psi.h)

InsertAssumption == MaxCalls \in Nat /\ STOPCOUNT \in Nat \ {0}

VARIABLES stack,        \* active calls, outermost first: [call, numTries]
          out, insertError, insertStatus,
          outstanding,  \* requests whose callback has not run: [call, try]
          answer,       \* answer[c]: history, the status of each answered attempt of c
          returned,     \* returned[c]: what call c has returned to its caller
          mixed         \* history: calls active together with another's call or request

insertVars == <<stack, out, insertError, insertStatus, outstanding, answer, returned, mixed>>

\* What dhash may report, and what store_cb makes of it.
DhashStat == {"OK", "NOTFIRST", "FULL", "RETRYINSERT", "CORRUPTHDR", "ERR"}
DHTStatus(stat) == CASE stat = "OK" -> "SUCC" [] stat = "RETRYINSERT" -> "RETRY" [] OTHER -> stat

\* What insertStatus can be.
InsertStatus == {DHTStatus(stat) : stat \in DhashStat \ {"ERR"}}

InsertInit ==
    /\ stack = <<>> /\ outstanding = {}
    /\ out = 0 /\ insertError = FALSE /\ insertStatus = "SUCC"
    /\ answer = <<>> /\ returned = <<>> /\ mixed = {}

\* One attempt of call c: the shared variables are reset and a request sent.
Attempt(c, try) ==
    /\ out' = 0 /\ insertError' = FALSE /\ insertStatus' = "SUCC"
    /\ outstanding' = outstanding \cup {[call |-> c, try |-> try]}

\* Calls are numbered in the order they start.
Call ==
    LET c == Len(answer) + 1 IN
    /\ c <= MaxCalls
    /\ Attempt(c, 0)
    /\ stack' = Append(stack, [call |-> c, numTries |-> 0])
    /\ answer' = Append(answer, <<>>)
    /\ returned' = Append(returned, "none")
    /\ mixed' = IF stack = <<>> /\ outstanding = {} THEN mixed
                ELSE mixed \cup {c} \cup {e.call : e \in Range(stack)}

\* The event loop runs the callback of a request.
store_cb ==
    \E r \in outstanding, stat \in DhashStat :
        /\ outstanding' = outstanding \ {r}
        /\ out' = out + 1
        /\ insertError' = (insertError \/ stat = "ERR")
        /\ insertStatus' = IF stat \in {"OK", "ERR"} THEN insertStatus ELSE DHTStatus(stat)
        /\ answer' = [answer EXCEPT ![r.call] = Append(@, stat)]
        /\ UNCHANGED <<stack, returned, mixed>>

\* Call c, on top of the stack, returns s.
Pop(c, s) ==
    /\ stack' = Front(stack)
    /\ returned' = [returned EXCEPT ![c] = s]
    /\ UNCHANGED <<out, insertError, insertStatus, outstanding>>

\* Mutant: acheck is called once, whether or not it ran the callback.
Wake_early ==
    /\ stack # <<>>
    /\ LET top == Last(stack) IN
       IF ~insertError THEN Pop(top.call, insertStatus)
       ELSE IF top.numTries + 1 = STOPCOUNT THEN Pop(top.call, "FAIL")
       ELSE /\ stack' = Append(Front(stack), [top EXCEPT !.numTries = @ + 1])
            /\ Attempt(top.call, top.numTries + 1)
            /\ UNCHANGED returned
    /\ UNCHANGED <<answer, mixed>>

\* acheck returns to the innermost call, which finds out # 0.
Wake ==
    /\ stack # <<>> /\ out # 0
    /\ LET top == Last(stack) IN
       IF ~insertError THEN Pop(top.call, insertStatus)
       ELSE IF top.numTries + 1 = STOPCOUNT THEN Pop(top.call, "FAIL")
       ELSE /\ stack' = Append(Front(stack), [top EXCEPT !.numTries = @ + 1])
            /\ Attempt(top.call, top.numTries + 1)
            /\ UNCHANGED returned
    /\ UNCHANGED <<answer, mixed>>

\* The bound on calls is reached and everything has been answered.
InsertFinished == Len(answer) = MaxCalls /\ stack = <<>> /\ outstanding = {} /\ UNCHANGED insertVars

InsertNext == Call \/ store_cb \/ Wake \/ InsertFinished

InsertSpec == InsertInit /\ [][InsertNext]_insertVars

-------------------------------------------------------------------------------
(* Properties.                                                                *)

\* No call on the stack, and no request under way, is beyond the STOPCOUNT-th
\* attempt, and the shared status is one store_cb can set.
InsertTypeOK ==
    /\ \A i \in DOMAIN stack : stack[i].call \in DOMAIN answer /\ stack[i].numTries \in 0..(STOPCOUNT - 1)
    /\ out \in Nat /\ insertError \in BOOLEAN
    /\ insertStatus \in InsertStatus
    /\ \A r \in outstanding : r.call \in DOMAIN answer /\ r.try \in 0..(STOPCOUNT - 1)
    /\ \A c \in DOMAIN answer : \A i \in DOMAIN answer[c] : answer[c][i] \in DhashStat
    /\ DOMAIN returned = DOMAIN answer /\ mixed \subseteq DOMAIN answer

\* Call c has returned what dhash answered to its own last attempt.
ReturnedOwn(c) ==
    /\ answer[c] # <<>>
    /\ IF Last(answer[c]) = "ERR"
       THEN returned[c] = "FAIL" /\ Len(answer[c]) = STOPCOUNT
       ELSE returned[c] = DHTStatus(Last(answer[c]))

\* "Insert was successful": a call returns what dhash answered to its own last
\* attempt, SUCC only for a key that was stored, FAIL only after all its attempts
\* have failed.
OwnStatus == \A c \in DOMAIN returned : returned[c] # "none" => ReturnedOwn(c)

\* The same, for a call that was alone: no other call was on the stack and no
\* request of another call under way while it ran, whatever happened before.
OwnStatusAlone == \A c \in DOMAIN returned \ mixed : returned[c] # "none" => ReturnedOwn(c)

\* A call that was alone leaves no request behind when it returns, and has one
\* at a time: no callback is there that a later call would take for its own.
NoStrayCallback ==
    InsertTypeOK /\ \A r \in outstanding : r.call \notin mixed =>
        /\ returned[r.call] = "none"
        /\ \A q \in outstanding : q.call = r.call => q = r

\* A call that is alone returns what dhash answered to its own last attempt, and
\* leaves no callback behind that a later call takes for its own.
CallsRight == OwnStatusAlone /\ NoStrayCallback

\* No call is active: every one, nested or not, has returned.
AllReturned == \A c \in DOMAIN returned : returned[c] # "none"
===============================================================================
