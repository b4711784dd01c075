------------------------------- MODULE MCDht --------------------------------
(* DHT nodes on small instances: a bootstrap node S, and peers A and B. *)
EXTENDS Dht, TLC

CONSTANTS S, A, B, ES, EA, EB, C1, C2

MCId == {S, A, B}
MCEndpoint == {ES, EA, EB}
Homes == S :> ES @@ A :> EA @@ B :> EB
MCHome == [i \in Id |-> Homes[i]]

\* XOR distances of three ids 1, 2 and 4.
Number == S :> 1 @@ A :> 2 @@ B :> 4
MCDistance == [i \in Id |-> [j \in Id |-> IF i = j THEN 0 ELSE Number[i] + Number[j]]]

TwoByA == [c \in {C1, C2} |-> A]
TwoForB == [c \in {C1, C2} |-> B]
OneByA == [c \in {C1} |-> A]
NoCalls == [c \in {} |-> A]
OneForB == [c \in {C1} |-> B]
OneByB == [c \in {C1} |-> B]
OneForA == [c \in {C1} |-> A]

\* Who may call bootstrap(), and with which bootstrap node: everyone with each, or A with S
\* and B with A.
Everyone == Id \X Bootstrap
InTurn == {<<A, S>>, <<B, A>>}

\* Two nodes, for runs with a clock.
TwoIds == {S, A}

CallSymmetry == Permutations({C1, C2})
=============================================================================
