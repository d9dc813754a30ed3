------------------------------ MODULE NodeBlock ------------------------------
(* What dhblock_noauth_srv::adjust_data makes of a block.  A block of the     *)
(* index is a sequence of elements: a header, which says what interval of     *)
(* signatures and what level the node stands for, and then its entries, each  *)
(* a key with a signature.  Signatures are sets of polynomials here: lcm and  *)
(* updateMBR join two of them.                                                *)
EXTENDS Integers, Sequences, FiniteSets, SequencesExt

CONSTANT MAXENTRIES     \* 500 in nodeparams.h

MaxAssumption == MAXENTRIES \in Nat \ {0}

Result(stat, block) == [stat |-> stat, block |-> block]

\* The header is [left, right, level, random, root]; == does not look at random.
SameInterval(h, g) == h.left = g.left /\ h.right = g.right /\ h.level = g.level

\* What an entry with the same key becomes.
NewSig(type, old, new) == IF type = "REPLACESIG" THEN new ELSE old \cup new

HasKey(block, key) == \E i \in 2..Len(block) : block[i].key = key
SetSig(block, type, e) ==
    [i \in DOMAIN block |-> IF i > 1 /\ block[i].key = e.key
                            THEN [block[i] EXCEPT !.sig = NewSig(type, @, e.sig)] ELSE block[i]]

Entry(r) == [key |-> r.key, sig |-> r.sig]

\* UPDATE and its variants: r.doc says that the key is a document.
update(old, r) ==
    IF old = <<>> THEN Result("CORRUPTHDR", old)
    ELSE IF r.doc /\ (old[1].level > 0 \/ old[1].random = -1) THEN Result("RETRYINSERT", old)
    ELSE IF HasKey(old, r.key) THEN Result("OK", SetSig(old, r.type, Entry(r)))
    ELSE IF r.type = "UPDATEIFPRESENT" THEN Result("OK", old)
    ELSE IF Len(old) > MAXENTRIES THEN Result("FULL", old)
    ELSE Result("OK", Append(old, Entry(r)))

\* Mutant: the interval is taken over even if it grows.
newheader_right(h, g) ==
    LET rnd   == IF h.level = 0 /\ g.level = 1 /\ h.random = -1 THEN g.random ELSE h.random
        level == IF h.level < g.level THEN g.level ELSE h.level
    IN  IF ~h.root THEN [h EXCEPT !.right = g.right]
        ELSE [h EXCEPT !.right = g.right, !.level = level,
                       !.random = IF level = 0 /\ g.level = 0 /\ g.random = -1 THEN -1 ELSE rnd]

\* The header h after an UPDATEHDR with header g.  Only a root changes level, and
\* random: -1 announces its split and the first level 1 ends it.
newheader(h, g) ==
    LET right == IF g.right < h.right THEN g.right ELSE h.right
        rnd   == IF h.level = 0 /\ g.level = 1 /\ h.random = -1 THEN g.random ELSE h.random
        level == IF h.level < g.level THEN g.level ELSE h.level
    IN  IF ~h.root THEN [h EXCEPT !.right = right]
        ELSE [h EXCEPT !.right = right, !.level = level,
                       !.random = IF level = 0 /\ g.level = 0 /\ g.random = -1 THEN -1 ELSE rnd]

\* Mutant: the lock is granted to everybody.
updatehdr_nolock(old, r) ==
    CASE r.type = "UPDATEHDRLOCK" -> Result("OK", <<r.hdr>>)
      [] r.type = "UPDATEHDR" /\ old = <<>> -> Result("RETRYINSERT", old)
      [] r.type = "UPDATEHDR" /\ old # <<>> ->
            IF r.hdr.left = old[1].left THEN Result("OK", [old EXCEPT ![1] = newheader(@, r.hdr)])
            ELSE Result("CORRUPTHDR", old)

\* UPDATEHDRLOCK creates a node, the first peer wins; UPDATEHDR changes it.
updatehdr(old, r) ==
    CASE r.type = "UPDATEHDRLOCK" /\ old = <<>> -> Result("OK", <<r.hdr>>)
      [] r.type = "UPDATEHDRLOCK" /\ old # <<>> -> Result("NOTFIRST", old)
      [] r.type = "UPDATEHDR" /\ old = <<>> -> Result("RETRYINSERT", old)
      [] r.type = "UPDATEHDR" /\ old # <<>> ->
            IF r.hdr.left = old[1].left THEN Result("OK", [old EXCEPT ![1] = newheader(@, r.hdr)])
            ELSE Result("CORRUPTHDR", old)

\* The header and the entries whose key is not among those of es.
Without(old, es) ==
    LET kept[i \in 1..Len(old)] ==
            IF i = 1 THEN <<old[1]>>
            ELSE IF \E j \in DOMAIN es : es[j].key = old[i].key THEN kept[i - 1]
            ELSE Append(kept[i - 1], old[i])
    IN  kept[Len(old)]

\* SPLIT deletes the given entries from a full node and fills one that has only
\* a header; any other node is left alone.
split(old, r) ==
    IF Len(old) > MAXENTRIES THEN Result("OK", Without(old, r.entries))
    ELSE IF Len(old) = 1 THEN Result("OK", old \o r.entries)
    ELSE Result("OK", old)

\* JUSTAPPEND does not look for FULL, a plain append of the inverted index does.
justappend(old, r) ==
    IF old = <<>> THEN Result("CORRUPTHDR", old) ELSE Result("OK", Append(old, Entry(r)))
append(old, r) ==
    IF Len(old) > MAXENTRIES THEN Result("FULL", old) ELSE Result("OK", Append(old, Entry(r)))

\* The entries of a replica are merged one by one into a node with the same
\* interval, as long as there is room: into the first entry with the key, where
\* an update changes every one.
FirstEntry(block, key) ==
    CHOOSE i \in 2..Len(block) : block[i].key = key /\ \A j \in 2..(i - 1) : block[j].key # key
MergeEntry(block, e) ==
    IF HasKey(block, e.key) THEN [block EXCEPT ![FirstEntry(block, e.key)].sig = @ \cup e.sig]
    ELSE IF Len(block) <= MAXENTRIES THEN Append(block, e) ELSE block

MergeEntries(old, es) ==
    LET m[i \in 0..Len(es)] == IF i = 0 THEN old ELSE MergeEntry(m[i - 1], es[i])
    IN  m[Len(es)]

\* A whole block, from a repair: "ABORT" where the code asserts.
merge(old, new) ==
    IF old = <<>> THEN Result("OK", new)
    ELSE IF SameInterval(new[1], old[1]) THEN Result("OK", MergeEntries(old, Tail(new)))
    ELSE IF new[1].right < old[1].right /\ new[1].level = old[1].level THEN Result("OK", new)
    ELSE IF new[1].level > old[1].level THEN Result("OK", new)
    ELSE Result("ABORT", old)

adjust_data(old, r) ==
    CASE r.type = "BLOCK" -> merge(old, r.block)
      [] r.type \in {"UPDATE", "UPDATEIFPRESENT", "UPDATEVAL", "UPDATEVALIFPRESENT", "REPLACESIG"} -> update(old, r)
      [] r.type \in {"UPDATEHDRLOCK", "UPDATEHDR"} -> updatehdr(old, r)
      [] r.type = "SPLIT" -> split(old, r)
      [] r.type = "JUSTAPPEND" -> justappend(old, r)
      [] r.type = "APPEND" -> append(old, r)
===============================================================================
