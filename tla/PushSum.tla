------------------------------- MODULE PushSum -------------------------------
(* What the exec phase of gpsi promises about one additive quantity: the      *)
(* frequency of a signature, its weight, or a linear combination of the two.  *)
(* Every list a peer holds, has under way, or has waiting is reduced to the   *)
(* mass it carries; mass is counted in units small enough for every halving   *)
(* to be exact.                                                               *)
EXTENDS Sums

CONSTANTS N,        \* number of peers
          Start     \* Start[p]: the mass of peer p when gossiping begins

Peer == 1..N

ASSUME NAssumption == N \in Nat
ASSUME StartAssumption == Start \in [Peer -> Nat]

VARIABLES kept,     \* mass of the merged list totalT[0][0] of each peer
          wire,     \* mass of the message whose insert the peer awaits
          sock,     \* mass accepted for the peer but not yet read by gpsi
          inbox,    \* mass of the received lists that wait for the next merge
          pc,       \* "sleep": between rounds; "await": inside insertDHT
          done      \* gossipdone

vars == <<kept, wire, sock, inbox, pc, done>>

Init ==
    /\ kept = Start
    /\ wire = [p \in Peer |-> 0]
    /\ sock = [p \in Peer |-> 0]
    /\ inbox = [p \in Peer |-> 0]
    /\ pc = [p \in Peer |-> "sleep"]
    /\ done = [p \in Peer |-> FALSE]

\* A round: merge what was received, keep one half and send the other.
Split(p) ==
    /\ pc[p] = "sleep" /\ ~done[p]
    /\ \E h \in 0..(kept[p] + inbox[p]) :
          /\ h + h = kept[p] + inbox[p]
          /\ kept' = [kept EXCEPT ![p] = h]
          /\ wire' = [wire EXCEPT ![p] = h]
    /\ inbox' = [inbox EXCEPT ![p] = 0]
    /\ pc' = [pc EXCEPT ![p] = "await"]
    /\ UNCHANGED <<sock, done>>

\* The insert succeeded: the half is now with peer q.
Accept(p, q) ==
    /\ pc[p] = "await"
    /\ sock' = [sock EXCEPT ![q] = @ + wire[p]]
    /\ wire' = [wire EXCEPT ![p] = 0]
    /\ pc' = [pc EXCEPT ![p] = "sleep"]
    /\ UNCHANGED <<kept, inbox, done>>

\* Mutant: the failed half is forgotten.
Consume_forget(p) ==
    /\ pc[p] = "await"
    /\ wire' = [wire EXCEPT ![p] = 0]
    /\ pc' = [pc EXCEPT ![p] = "sleep"]
    /\ UNCHANGED <<kept, sock, inbox, done>>

\* The insert failed and the peer "sends" the message to itself by doubling.
Consume(p) ==
    /\ pc[p] = "await"
    /\ kept' = [kept EXCEPT ![p] = 2 * @]
    /\ wire' = [wire EXCEPT ![p] = 0]
    /\ pc' = [pc EXCEPT ![p] = "sleep"]
    /\ UNCHANGED <<sock, inbox, done>>

\* gpsi reads some of what was accepted for it.
Read(p) ==
    /\ UNCHANGED <<kept, wire, pc, done>>
    /\ \E m \in 0..sock[p] :
          /\ sock' = [sock EXCEPT ![p] = @ - m]
          /\ inbox' = [inbox EXCEPT ![p] = @ + m]

\* After the last round a peer only drops what it still receives.
Drop(p) ==
    /\ pc[p] = "sleep"
    /\ done' = [done EXCEPT ![p] = TRUE]
    /\ inbox' = [inbox EXCEPT ![p] = 0]
    /\ UNCHANGED <<kept, wire, sock, pc>>

Next ==
    \E p \in Peer :
        \/ Split(p)
        \/ Consume(p)
        \/ Read(p)
        \/ Drop(p)
        \/ \E q \in Peer : Accept(p, q)

Spec == Init /\ [][Next]_vars

-------------------------------------------------------------------------------
\* Masses are natural numbers, although rounds halve and failed inserts double
\* them, and a peer is either between rounds or inside insertDHT.
TypeOK ==
    /\ kept \in [Peer -> Nat]
    /\ wire \in [Peer -> Nat]
    /\ sock \in [Peer -> Nat]
    /\ inbox \in [Peer -> Nat]
    /\ pc \in [Peer -> {"sleep", "await"}]
    /\ done \in [Peer -> BOOLEAN]

\* All the mass there is, wherever it is.
Total == SumTo(N, kept) + SumTo(N, wire) + SumTo(N, sock) + SumTo(N, inbox)

\* Mass conservation: until a peer has finished its rounds nothing is gained
\* or lost, although halves are under way, bounced or waiting to be merged;
\* afterwards mass can only be lost.
MassConserved ==
    /\ (\A p \in Peer : ~done[p]) => Total = SumTo(N, Start)
    /\ Total <= SumTo(N, Start)

\* While an insert is awaited the sender still holds exactly the half it sent,
\* so that doubling it restores what a failed insert would have taken away.
\* Nothing is on the wire of a peer that is not waiting.
KeptHalf ==
    \A p \in Peer : wire[p] = IF pc[p] = "await" THEN kept[p] ELSE 0

Inv == TypeOK /\ KeptHalf /\ MassConserved
===============================================================================
