---------------------------- MODULE MCPacketSizes ----------------------------
(* Texts around the ends of the range, in every phase of a block. *)
EXTENDS PacketSizes

MCLength == 0 .. 40 \union (MaxText - 40) .. MaxText
=============================================================================
