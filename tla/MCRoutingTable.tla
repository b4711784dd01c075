--------------------------- MODULE MCRoutingTable ---------------------------
(* The routing table, and a walk through its list, on a small instance. *)
EXTENDS ListWalk, TLC

CONSTANTS Main, A, B, C, D, E1, E2, E3

MCId == {Main, A, B, C, D}
MCEndpoint == {E1, E2, E3}

Symmetry == Permutations({A, B, C, D}) \union Permutations(MCEndpoint)
=============================================================================
