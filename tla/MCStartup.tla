------------------------------ MODULE MCStartup ------------------------------
(* Startup with eight port numbers and seven of the nine requests for a    *)
(* port: each doubles the time, and the proofs are for all nine.           *)
EXTENDS Startup
=============================================================================
