--------------------------- MODULE PeerDirectory ----------------------------
(***************************************************************************)
(* What the rest of the program relies on the routing table for: a bounded *)
(* directory that tells where a peer was last heard from.  Hearing from a  *)
(* peer records its endpoint and forgets at most one other peer; nobody    *)
(* else is forgotten unless its entry has lapsed.                          *)
(***************************************************************************)
EXTENDS Naturals, FiniteSets

CONSTANTS Peer, Endpoint, Capacity

VARIABLES
    directory,  \* the endpoint of each known peer
    lapsed      \* the known peers the next clean-up will forget

vars == <<directory, lapsed>>

Init ==
    /\ directory = [i \in {} |-> CHOOSE ep \in Endpoint : TRUE]
    /\ lapsed = {}

\* Peer i was heard from at ep.  A peer that is known costs nobody its place; a
\* new one may take over the place of the peer known at ep, or of any peer of a
\* full directory.
Hear(i, ep) ==
    \E lost \in SUBSET DOMAIN directory :
        /\ \/ lost = {}
           \/ \E j \in DOMAIN directory :
                /\ i \notin DOMAIN directory
                /\ lost = {j}
                /\ directory[j] = ep \/ Cardinality(DOMAIN directory) = Capacity
        /\ directory' = [j \in (DOMAIN directory \ lost) \union {i} |->
                            IF j = i THEN ep ELSE directory[j]]
        /\ Cardinality(DOMAIN directory') <= Capacity
        /\ lapsed' = lapsed \ (lost \union {i})

\* Time passes, or the clock is set.
Lapse ==
    /\ lapsed' \in SUBSET DOMAIN directory
    /\ UNCHANGED directory

CleanUp ==
    /\ directory' = [j \in DOMAIN directory \ lapsed |-> directory[j]]
    /\ lapsed' = {}

Next ==
    \/ \E i \in Peer, ep \in Endpoint : Hear(i, ep)
    \/ Lapse
    \/ CleanUp

Spec == Init /\ [][Next]_vars
=============================================================================
