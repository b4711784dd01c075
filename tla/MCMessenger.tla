---------------------------- MODULE MCMessenger -----------------------------
(* Two messengers: P sends the message M1, Q the message M2, whose packets may be lost. *)
EXTENDS Messenger

CONSTANTS P, Q, M1, M2

MCFrom == [m \in Message |-> IF m = M2 THEN Q ELSE P]
MCTo == [m \in Message |-> IF m = M2 THEN P ELSE Q]
=============================================================================
