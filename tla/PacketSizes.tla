----------------------------- MODULE PacketSizes -----------------------------
(***************************************************************************)
(* The sizes of the messenger's packets (network/messages/packets.h) on    *)
(* their way from the constructor of a packet through crypt(), the         *)
(* datagram and decrypt() to the text the receiver reads.                  *)
(*                                                                         *)
(* The ciphers work on blocks of 16 bytes; the sizes are kept in 16 bits;  *)
(* a datagram carries as many bytes as its header says.  A text has at     *)
(* most the characters its array holds (a longer one has no defined        *)
(* meaning), of the two bytes wchar_t has where the program is built.      *)
(*                                                                         *)
(* Definitions introduced as mutants are no part of the model.             *)
(***************************************************************************)
EXTENDS Integers

CONSTANT Length   \* the lengths of texts, in characters

MaxText == 16000

ASSUME LengthAssumption == Length \subseteq 0 .. MaxText

\* sizeof(data_packet_header), sizeof(header) and sizeof(text_length)
DataHeaderSize == 8
HeaderSize == 34
LengthSize == 2

\* Mutant: characters are as wide as elsewhere.
CharSizeElsewhere == 4

CharSize == 2

Block == 16
Capacity == 32768

\* A value stored in 16 bits.
Narrow(n) == n % 65536

\* Mutant: the block that is not full is left out.
RoundsOfFull(n) == n \div Block

\* The blocks of n bytes, the last of which may not be full.
Rounds(n) == n \div Block + (IF n % Block > 0 THEN 1 ELSE 0)

VARIABLES
    stage,   \* how far the packet is
    text,    \* text_length, 0 in packets without one
    size,    \* header.size of the packet
    rounds,  \* blocks encrypted
    total,   \* header.size of the crypted packet, and bytes on the wire
    undone   \* blocks decrypted

vars == <<stage, text, size, rounds, total, undone>>

Init ==
    /\ stage = "new"
    /\ text = 0
    /\ size = 0
    /\ rounds = 0
    /\ total = 0
    /\ undone = 0

\* simple_text_message_packet and friend_request_packet
Compose(n) ==
    /\ stage = "new"
    /\ stage' = "composed"
    /\ text' = Narrow(n)
    /\ size' = Narrow(DataHeaderSize + LengthSize + text' * CharSize)
    /\ UNCHANGED <<rounds, total, undone>>

\* message_delivered_packet and change_status_packet hold two bytes besides the
\* header, the packets of friends and of pings none.
ComposeFixed ==
    /\ stage = "new"
    /\ stage' = "composed"
    /\ size' \in {DataHeaderSize, DataHeaderSize + 2}
    /\ UNCHANGED <<text, rounds, total, undone>>

Crypt ==
    /\ stage = "composed"
    /\ stage' = "crypted"
    /\ rounds' = Rounds(size)
    /\ total' = Narrow(HeaderSize + rounds' * Block)
    /\ UNCHANGED <<text, size, undone>>

\* serialize() and parse() copy the bytes header.size counts.
Decrypt ==
    /\ stage = "crypted"
    /\ stage' = "decrypted"
    /\ undone' = Rounds(total - HeaderSize)
    /\ UNCHANGED <<text, size, rounds, total>>

Next ==
    \/ \E n \in Length : Compose(n)
    \/ ComposeFixed
    \/ Crypt
    \/ Decrypt

Spec == Init /\ [][Next]_vars

-----------------------------------------------------------------------------
(* Properties. *)

\* Nothing outgrows its array or its 16 bits.
TypeOK ==
    /\ stage \in {"new", "composed", "crypted", "decrypted"}
    /\ text \in Nat /\ text <= MaxText
    /\ size \in Nat /\ size <= Capacity
    /\ rounds \in Nat /\ Block * rounds <= Capacity
    /\ total \in Nat /\ total <= HeaderSize + Capacity
    /\ undone \in Nat /\ Block * undone <= Capacity

\* Where the text ends in the data of the packet.
TextEnd == DataHeaderSize + LengthSize + CharSize * text

\* decrypt(), which knows only the size of the datagram, decrypts the blocks crypt()
\* encrypted, no more and no less; all of them are in the datagram; and they hold
\* the whole text, whatever its length and the truncations on the way.
TextArrives ==
    stage = "decrypted" =>
        /\ undone = rounds
        /\ HeaderSize + Block * undone <= total
        /\ text > 0 => TextEnd <= Block * undone
=============================================================================
