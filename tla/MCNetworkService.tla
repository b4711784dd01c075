-------------------------- MODULE MCNetworkService --------------------------
(* The UDP service on a small instance: one thread calls send() beside the *)
(* I/O threads.                                                            *)
EXTENDS NetworkService

CONSTANTS D1, T1

MCDatagram == {D1}
MCSender == {T1}
=============================================================================
