---------------------------- MODULE ReplicaInsert -----------------------------
(* The loops of psi.C that insert documents into the indexes of their tags or *)
(* values: one index per tag, MAXREPLICAS copies of each.  A copy is made     *)
(* when its root is missing, unless tagList says that the tag has an index.   *)
EXTENDS Integers

CONSTANTS NTAGS, NDOCS, MAXREPLICAS, Modes

VARIABLES mode,         \* -P (JUSTAPPEND), -I (signatures) or -S (texts and values)
          index,        \* the copies that exist: [copies -> sets of documents]
          tagList,
          at            \* the document, tag and replica the loops are at

vars == <<mode, index, tagList, at>>

Replica == 0..(MAXREPLICAS - 1)
Copy == (1..NTAGS) \X Replica
Here == <<at.tag, at.replica>>
Done == at.doc > NDOCS

\* No index at all, or what an earlier process left behind.
Init ==
    /\ mode \in Modes
    /\ index \in {<<>>, [c \in Copy |-> {}]}
    /\ tagList = {}
    /\ at = [doc |-> 1, tag |-> 1, replica |-> 0]

\* The innermost loop is over the replicas, then come the tags and the documents.
advance ==
    at' = IF at.replica < MAXREPLICAS - 1 THEN [at EXCEPT !.replica = @ + 1]
          ELSE IF at.tag < NTAGS THEN [at EXCEPT !.tag = @ + 1, !.replica = 0]
          ELSE [doc |-> at.doc + 1, tag |-> 1, replica |-> 0]

Missing == Here \notin DOMAIN index
create == [c \in DOMAIN index \cup {Here} |-> IF c \in DOMAIN index THEN index[c] ELSE {}]
insert(ix) == [ix EXCEPT ![Here] = @ \cup {at.doc}]

\* insertDocumentO finds the copy and inserts into it.
InsertFound ==
    /\ ~Done /\ mode \in {"I", "S"} /\ ~Missing
    /\ index' = insert(index) /\ tagList' = tagList \cup {at.tag} /\ advance
    /\ UNCHANGED mode

\* It does not: the copy is made if the tag is new, and the insertion tried again.
InsertMissing ==
    /\ ~Done /\ mode \in {"I", "S"} /\ Missing
    /\ IF at.tag \in tagList THEN UNCHANGED <<index, tagList>>
       ELSE index' = create /\ tagList' = tagList \cup {at.tag}
    /\ UNCHANGED <<mode, at>>

\* -P makes the index of a new tag first, then appends; a copy that is not there
\* answers CORRUPTHDR, which ends the insertion without a word.
insertDocumentP ==
    /\ ~Done /\ mode = "P"
    /\ LET ix == IF at.tag \in tagList THEN index ELSE create
       IN  index' = IF Here \in DOMAIN ix THEN insert(ix) ELSE ix
    /\ tagList' = tagList \cup {at.tag} /\ advance
    /\ UNCHANGED mode

Next == InsertFound \/ InsertMissing \/ insertDocumentP \/ (Done /\ UNCHANGED vars)

\* One process, which runs until it is done.
Spec == Init /\ [][Next]_vars /\ WF_vars(Next)

-------------------------------------------------------------------------------
\* "Store replicas for robustness/fault-tolerance" (psi.C:1159): in the end every
\* copy that pickReplica may choose for a query holds every document.
ReplicasStored ==
    <>(\A t \in 1..NTAGS, r \in Replica : <<t, r>> \in DOMAIN index /\ index[<<t, r>>] = 1..NDOCS)
===============================================================================
