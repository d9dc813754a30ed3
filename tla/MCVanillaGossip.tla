--------------------------- MODULE MCVanillaGossip ---------------------------
EXTENDS VanillaGossip

CONSTANTS a, b

\* Peer 1 has three documents of signature a, peer 2 two of b and one of a; the
\* others have none.
MCDocs == [p \in Peer |-> [s \in Sig |->
    IF s = a THEN IF p = 1 THEN 3 ELSE IF p = 2 THEN 1 ELSE 0
             ELSE IF p = 2 THEN 2 ELSE 0]]

\* No chain of merges is longer than N * rounds.
MCUnit == 2 ^ (N * rounds)

\* What the proofs about VanillaGossip assume of Unit.
ASSUME ExactHalving
===============================================================================
