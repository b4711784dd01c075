---------------------------- MODULE MCDhtLifetime ----------------------------
(* The life of a dht object on a small instance: two calls of bootstrap(). *)
EXTENDS DhtLifetime

CONSTANTS T1, T2

MCTimer == {T1, T2}
=============================================================================
