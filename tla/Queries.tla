------------------------------- MODULE Queries -------------------------------
(* Queries on gossiped lists, from the querier to the merged estimate.  The   *)
(* querier hashes each signature to teams and asks one random member of each  *)
(* (lshquery), or any peer in VanillaXGossip (vanillaquery).  A peer answers  *)
(* into its log (readgossip, run_query).  Later the logs are loaded in any    *)
(* order and turned into estimates (loadresults, the RESULTS merge of main).  *)
(* A signature is the set of its factors: SigSets checks the walks that       *)
(* compute containment.  Averages are kept as pairs <<f, w>>.                 *)
EXTENDS Integers, Sequences, FiniteSets, FiniteSetsExt, SequencesExt

CONSTANTS Peer,
          Lists,        \* Lists[p][t]: the list p holds for team t after gossip
          queryList,    \* the queries as read from files: [sig, dtd]
          dtd2proxysigs,
          minhash,      \* minhash[s]: team IDs of signature s, sorted
          Options,      \* command lines to consider
          MaxCopies     \* bound: copies an insert and its retries deliver

Anyone == "any"         \* the key of a vanilla query

VARIABLES opt,          \* the command line: message type, vanilla, and queryid,
                        \* the only query to send or -1
          itr,          \* lshquery: the query to send next
          sock,         \* messages on their way to the sockets of the peers
          log,          \* log[p]: the lines p has written
          loaded,       \* logs that have been loaded
          db,           \* what loadresults has gathered
          est           \* the estimates printed

msgtype == opt.msgtype      \* "QUERYX", "QUERYXP" or "QUERYS"
vanilla == opt.vanilla
queryid == opt.queryid

vars == <<opt, itr, sock, log, loaded, db, est>>

\* CompareSig, on sets of at most two factors.
order(a, b) ==
    \/ Cardinality(a) < Cardinality(b)
    \/ Cardinality(a) = Cardinality(b) /\ (Min(a) < Min(b) \/ (Min(a) = Min(b) /\ Max(a) < Max(b)))

\* add2querymap: queries are numbered as they are read, and sorted by signature.
add2querymap == [i \in DOMAIN queryList |-> [sig |-> queryList[i].sig, qid |-> i - 1, dtd |-> queryList[i].dtd]]
queryMap == SortSeq(add2querymap, LAMBDA a, b : order(a.sig, b.sig))

EmptyDb == [querysig |-> <<>>, teams |-> <<>>, id |-> <<>>, avgs |-> <<>>, sigs |-> <<>>, allT |-> <<>>]

Init ==
    /\ opt \in Options
    /\ itr = 1 /\ sock = {} /\ log = [p \in Peer |-> <<>>]
    /\ loaded = {} /\ db = EmptyDb /\ est = {}

-------------------------------------------------------------------------------
(* The querier.                                                               *)

\* The signature whose hash selects the teams.
run_lsh(q) == minhash[IF msgtype = "QUERYXP" THEN dtd2proxysigs[q.dtd] ELSE q.sig]

asked(q) == IF vanilla THEN <<Anyone>> ELSE run_lsh(q)

\* One round of the loop: a message to one member of each team.  An insert may
\* fail, which is only logged, or be delivered again by a retry.
lshquery ==
    /\ itr <= Len(queryMap)
    /\ LET q == queryMap[itr] IN
       IF vanilla \/ queryid \in {-1, q.qid}
       THEN /\ \E to \in [DOMAIN asked(q) -> Peer], copies \in [DOMAIN asked(q) -> 0..MaxCopies] :
                  sock' = sock \cup UNION {{[to |-> to[i], team |-> asked(q)[i], q |-> q, copy |-> c] :
                                             c \in 1..copies[i]} : i \in DOMAIN asked(q)}
            /\ itr' = IF ~vanilla /\ queryid = q.qid THEN Len(queryMap) + 1 ELSE itr + 1
       ELSE itr' = itr + 1 /\ UNCHANGED sock
    /\ UNCHANGED <<opt, log, loaded, db, est>>

-------------------------------------------------------------------------------
(* A peer that answers.                                                       *)

matches(q, s) == IF msgtype = "QUERYS" THEN s = q.sig ELSE q.sig \subseteq s

\* run_query on one list: a line per matching signature.
run_query(T, q) ==
    LET found == SetToSortSeq({s \in DOMAIN T : matches(q, s)}, order)
    IN [i \in DOMAIN found |->
           [k |-> IF msgtype = "QUERYS" THEN "exactsig" ELSE "supersetsig",
            sig |-> found[i], f |-> T[found[i]].f, w |-> T[found[i]].w]]

\* Its own list, the list of the team, or all lists if it does not know the team.
tinds(p, t) ==
    IF vanilla THEN {Min(DOMAIN Lists[p])} ELSE IF t \in DOMAIN Lists[p] THEN {t} ELSE DOMAIN Lists[p]

readgossip(m) ==
    /\ m \in sock /\ m.to \notin loaded       \* a log is collected after its peer has stopped
    /\ sock' = sock \ {m}
    /\ LET t == SetToSortSeq(tinds(m.to, m.team), <)
           found == FlattenSeq([i \in DOMAIN t |-> run_query(Lists[m.to][t[i]], m.q)])
       IN log' = [log EXCEPT ![m.to] = @ \o
              <<[k |-> "rxmsglen"], [k |-> "queryresult", qid |-> m.q.qid, sig |-> m.q.sig, team |-> m.team]>>
              \o found \o <<[k |-> "queryresultend", sigmatches |-> Len(found)]>>]
    /\ UNCHANGED <<opt, itr, loaded, db, est>>

-------------------------------------------------------------------------------
(* Loading the logs.                                                          *)

\* m[k] gets v appended; push_back on a map entry that may be new.
Push(m, k, v) == [x \in DOMAIN m \cup {k} |->
    IF x # k THEN m[x] ELSE IF k \in DOMAIN m THEN Append(m[k], v) ELSE <<v>>]
PushNew(m, k, v) == IF k \in DOMAIN m /\ v \in ToSet(m[k]) THEN m ELSE Push(m, k, v)
Put(m, k, v) == [x \in DOMAIN m \cup {k} |-> IF x = k THEN v ELSE m[x]]

addqid(d, qid, sig) == IF qid \in DOMAIN d THEN d ELSE Push(d, qid, sig)
addteamID(d, qid, team) == PushNew(d, qid, team)


\* A signature that matched: its average goes to the map of the query.  The map
\* for a new query is a copy of sig2avg, which is never cleared within a file.
supersetsig(st, l) ==
    LET avg == <<l.f, l.w>>
        known == st.qid \in DOMAIN st.db.id
        fresh == Push(st.sig2avg, l.sig, avg)
    IN [st EXCEPT
          !.sig2avg = IF known THEN @ ELSE fresh,
          !.db.avgs = IF known THEN [@ EXCEPT ![st.db.id[st.qid] + 1] = Push(@, l.sig, avg)]
                               ELSE Append(@, fresh),
          !.db.id = IF known THEN @ ELSE Put(@, st.qid, Len(st.db.avgs)),
          !.db.sigs = PushNew(@, st.qid, l.sig)]

\* The last character of a token is cut off, where a comma used to be.  Today's
\* lines have none: a number loses its last digit, and a signature only the "-"
\* that ends its text.
substr(num) == num \div 10

\* QUERYS: frequencies and weights are added up, as far as they are read.
exactsig(st, l) ==
    LET new == [f |-> substr(l.f), w |-> substr(l.w)]
    IN [st EXCEPT !.db.allT = Put(@, l.sig, IF l.sig \in DOMAIN @
                                            THEN [f |-> @[l.sig].f + new.f, w |-> @[l.sig].w + new.w]
                                            ELSE new)]

loadline(st, l) ==
    CASE l.k = "queryresult" ->
            IF msgtype = "QUERYS" THEN [st EXCEPT !.qid = l.qid]
            ELSE [st EXCEPT !.qid = l.qid, !.db.querysig = addqid(@, l.qid, l.sig),
                            !.db.teams = addteamID(@, l.qid, l.team)]
      [] l.k = "supersetsig" -> supersetsig(st, l)
      [] l.k = "exactsig" -> exactsig(st, l)
      [] OTHER -> st

loadresults(p) ==
    /\ itr > Len(queryMap) /\ p \notin loaded /\ est = {}
    /\ db' = FoldLeft(loadline, [db |-> db, qid |-> 0, sig2avg |-> <<>>], log[p]).db
    /\ loaded' = loaded \cup {p}
    /\ UNCHANGED <<opt, itr, sock, log, est>>

-------------------------------------------------------------------------------
(* The estimates: for each signature found for a query, one of its averages   *)
(* at random, and the largest.                                                *)

Less(a, b) == a[1] * b[2] < b[1] * a[2]
sigsOf(qid) == IF qid \in DOMAIN db.sigs THEN ToSet(db.sigs[qid]) ELSE {}
avgsOf(qid, s) == db.avgs[db.id[qid] + 1][s]
maxavg(a) == CHOOSE x \in ToSet(a) : \A y \in ToSet(a) : ~Less(x, y)

\* No team of the signature's is among the teams the query was sent to.
lshmiss(qid, s) == LET q == CHOOSE q \in ToSet(queryMap) : q.qid = qid
                   IN ToSet(run_lsh(q)) \cap ToSet(minhash[s]) = {}

\* The queries run on a local list T, one line each, and the file of these lines
\* read back: the first line for a signature counts.
runLocally(T) == [i \in DOMAIN queryMap |-> [sig |-> queryMap[i].sig, sigmatches |-> Len(run_query(T, queryMap[i]))]]
loadtrueresults(lines) ==
    FoldLeft(LAMBDA acc, l : IF l.sig \in DOMAIN acc THEN acc ELSE Put(acc, l.sig, l.sigmatches), <<>>, lines)

\* The list of all documents, as mergeinit builds it.
AllT == LET sigs == UNION {UNION {DOMAIN Lists[p][t] : t \in DOMAIN Lists[p]} : p \in Peer}
        IN [s \in sigs |-> [f |-> 1, w |-> 1]]

Estimate(qid) ==
    /\ loaded = Peer /\ qid \in DOMAIN db.querysig /\ \A e \in est : e.qid # qid
    /\ \E col \in [sigsOf(qid) -> 1..(MaxCopies * Cardinality(Peer) * 4)] :
          /\ \A s \in sigsOf(qid) : col[s] \in DOMAIN avgsOf(qid, s)
          /\ est' = est \cup {[qid |-> qid, est |-> [s \in sigsOf(qid) |-> avgsOf(qid, s)[col[s]]],
                               max |-> [s \in sigsOf(qid) |-> maxavg(avgsOf(qid, s))],
                               miss |-> {s \in sigsOf(qid) : lshmiss(qid, s)},
                               true |-> loadtrueresults(runLocally(AllT))[db.querysig[qid][1]]]}
    /\ UNCHANGED <<opt, itr, sock, log, loaded, db>>

Next ==
    \/ lshquery
    \/ \E m \in sock : readgossip(m)
    \/ \E p \in Peer : loadresults(p)
    \/ \E qid \in DOMAIN db.querysig : Estimate(qid)

Spec == Init /\ [][Next]_vars

-------------------------------------------------------------------------------
(* Properties.                                                                *)

\* The answers to a query: who gave them, from which lists.
AnswersTo(qid) ==
    UNION {{<<p, log[p][i].team>> : i \in {j \in DOMAIN log[p] : log[p][j].k = "queryresult" /\ log[p][j].qid = qid}}
              : p \in Peer}
Held(p, t, sig) == UNION {{s \in DOMAIN Lists[p][u] : sig \subseteq s} : u \in tinds(p, t)}
SigOf(qid) == (CHOOSE q \in ToSet(queryMap) : q.qid = qid).sig

\* What is printed for a query is what the peers found: whatever the order of
\* the answers in a log and of the logs, and whatever was delivered twice, the
\* signatures counted are those in the lists that were asked and contain the
\* query; the average used for one is an average some peer has for it, though
\* those of earlier queries are carried over; and a signature found in a list
\* of a team the query hashes to is not counted as missed by LSH.  No more
\* signatures are found than the true results have.
EstimateSound ==
    \A e \in est :
        /\ DOMAIN e.est = UNION {Held(a[1], a[2], SigOf(e.qid)) : a \in AnswersTo(e.qid)}
        /\ \A s \in DOMAIN e.est :
              /\ {e.est[s], e.max[s]} \subseteq
                    UNION {{<<Lists[p][t][s].f, Lists[p][t][s].w>> : t \in {u \in DOMAIN Lists[p] : s \in DOMAIN Lists[p][u]}}
                              : p \in Peer}
              /\ ~Less(e.max[s], e.est[s])
        /\ Cardinality(DOMAIN e.est) <= e.true
        /\ ~vanilla => \A s \in e.miss : \A a \in AnswersTo(e.qid) :
              s \in Held(a[1], a[2], SigOf(e.qid)) => a[2] \notin DOMAIN Lists[a[1]]

\* The lines of all peers' answers for signature s, and a sum over them.
ExactLines(s) == UNION {{<<p, i>> : i \in {j \in DOMAIN log[p] : log[p][j].k = "exactsig" /\ log[p][j].sig = s}} : p \in Peer}
Printed(s) == MapThenSumSet(LAMBDA a : log[a[1]][a[2]].w, ExactLines(s))

\* QUERYS: the sums cover all answers and nothing else, each as often as it was
\* given, whatever the order of the logs.  They are not what the peers printed:
\* loadresults cuts the last digit off every number, so a sum is about a tenth
\* of the weights printed, less what the digits were worth.
ExactSums ==
    msgtype = "QUERYS" /\ loaded = Peer =>
        /\ DOMAIN db.allT = {s \in UNION {UNION {DOMAIN Lists[p][t] : t \in DOMAIN Lists[p]} : p \in Peer} : ExactLines(s) # {}}
        /\ \A s \in DOMAIN db.allT :
              /\ 10 * db.allT[s].w <= Printed(s)
              /\ Printed(s) <= 10 * db.allT[s].w + 9 * Cardinality(ExactLines(s))
===============================================================================
