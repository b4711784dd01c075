----------------------------- MODULE Messenger ------------------------------
(***************************************************************************)
(* Messengers (class messenger, messenger.h) that send each other text     *)
(* messages and friend requests, and acknowledge the messages.             *)
(*                                                                         *)
(* send_message() runs on the caller's thread and asks the DHT for the     *)
(* contact; the callback that sends the packet runs on the same thread or, *)
(* later, on the DHT's, or never.  The packets that arrive are handled one *)
(* after the other on the thread of the UDP service.  The two threads      *)
(* share the record of what was sent, without a lock.                      *)
(*                                                                         *)
(* The UDP service is that of NetworkService: one that is created after    *)
(* another was destroyed receives nothing, but sends.  A packet that is    *)
(* overwritten in its send buffer is not modelled as such: it is lost, or, *)
(* when what overwrites it is for the same contact, it may come as one     *)
(* more copy of that; for another contact it does not decrypt.             *)
(*                                                                         *)
(* The DHT is what Dht provides: a callback runs once at most, and a       *)
(* genuine endpoint is that of the contact, who is not modelled to move.   *)
(* Ids of messages are random and taken to be distinct.                    *)
(*                                                                         *)
(* Definitions introduced as mutants are no part of the model.             *)
(***************************************************************************)
EXTENDS Integers, FiniteSets

CONSTANTS
    Peer,        \* the messengers
    Message,     \* what is sent: text messages and friend requests
    Request,     \* the friend requests among them
    from, to,    \* [Message -> Peer]
    Lossy,       \* the messages whose packets can be lost
    MaxCopies,   \* bound: packets duplicated, in all
    MaxOnline    \* bound: calls of online() on each messenger

ASSUME MessengerAssumption ==
    /\ from \in [Message -> Peer] /\ to \in [Message -> Peer]
    /\ Request \subseteq Message
    /\ Lossy \subseteq Message
    /\ MaxCopies \in Nat /\ MaxOnline \in Nat

Nothing == "nothing"

ASSUME NothingAssumption == Nothing \notin Message

VARIABLES
    status,     \* _network_status of each messenger
    onlines,    \* calls of online() that created a service
    stage,      \* how far each message is on its way from send_message()
    records,    \* _sent_messages and _sent_friend_requests
    net,        \* packets in flight
    copies,     \* packets duplicated so far
    reporting,  \* the message whose message_received() the service's thread is to run
    accepted,   \* history: messages handled by those they are for
    received,   \* history: times each message was reported to its contact
    delivered,  \* history: times each message was reported delivered
    missed      \* history: messages acknowledged before they were recorded

sendVars == <<stage, records>>
historyVars == <<accepted, received, delivered, missed>>
vars == <<status, onlines, sendVars, net, copies, reporting, historyVars>>

Init ==
    /\ status = [p \in Peer |-> "Offline"]
    /\ onlines = [p \in Peer |-> 0]
    /\ stage = [m \in Message |-> "new"]
    /\ records = {}
    /\ net = {}
    /\ copies = 0
    /\ reporting = [p \in Peer |-> Nothing]
    /\ accepted = {}
    /\ received = [m \in Message |-> 0]
    /\ delivered = [m \in Message |-> 0]
    /\ missed = {}

-----------------------------------------------------------------------------
(* online() and offline(). *)

GoOnline(p) ==
    /\ status[p] = "Offline" /\ onlines[p] < MaxOnline
    /\ status' = [status EXCEPT ![p] = "Online"]
    /\ onlines' = [onlines EXCEPT ![p] = @ + 1]
    /\ UNCHANGED <<sendVars, net, copies, reporting, historyVars>>

GoOffline(p) ==
    /\ status[p] = "Online"
    /\ status' = [status EXCEPT ![p] = "Offline"]
    /\ UNCHANGED <<onlines, sendVars, net, copies, reporting, historyVars>>

\* The service receives: it is the first of its messenger.
Hears(p) == status[p] = "Online" /\ onlines[p] = 1

-----------------------------------------------------------------------------
(* Sending. *)

\* send_message(), send_friend_request(): nothing happens while offline.
Send(m) ==
    /\ stage[m] = "new"
    /\ stage' = [stage EXCEPT ![m] = IF status[from[m]] = "Online" THEN "sought" ELSE "ignored"]
    /\ UNCHANGED <<status, onlines, records, net, copies, reporting, historyVars>>

Packet(m) == [type |-> "message", about |-> m]

\* Mutant: the acknowledgement does not tell which message it is for.
AckUnnumbered(m) == [type |-> "ack", about |-> Nothing]

Ack(m) == [type |-> "ack", about |-> m]

\* The callback of find_node(): the packet is sent.  The status is not tested again;
\* offline there is no service to use.
SendPacket(m) ==
    /\ stage[m] = "sought"
    /\ IF status[from[m]] = "Online"
       THEN /\ net' = net \union {Packet(m)}
            /\ stage' = [stage EXCEPT ![m] = "sent"]
       ELSE /\ stage' = [stage EXCEPT ![m] = "broken"]
            /\ UNCHANGED net
    /\ UNCHANGED <<status, onlines, records, copies, reporting, historyVars>>

\* ... it is recorded ...
Record(m) ==
    /\ stage[m] = "sent"
    /\ stage' = [stage EXCEPT ![m] = "recorded"]
    /\ records' = records \union {m}
    /\ UNCHANGED <<status, onlines, net, copies, reporting, historyVars>>

\* ... and message_sent() or friend_request_sent() tells the user.
Tell(m) ==
    /\ stage[m] = "recorded"
    /\ stage' = [stage EXCEPT ![m] = "told"]
    /\ UNCHANGED <<status, onlines, records, net, copies, reporting, historyVars>>

-----------------------------------------------------------------------------
(* handle_packets(). *)

Take(p, k) ==
    /\ k \in net
    /\ Hears(p) /\ reporting[p] = Nothing

\* What is left in flight of the packet taken.
Left(k) == net \ {k}

Received(k, replies) ==
    \/ net' = Left(k) \union replies /\ UNCHANGED copies
    \/ /\ copies < MaxCopies
       /\ copies' = copies + 1
       /\ net' = net \union replies

\* Text messages are acknowledged, before the user is told; of friend requests there
\* is nothing more than the case label.
Replies(m) == IF m \in Request THEN {} ELSE {Ack(m)}

\* Mutant: the message is acknowledged and dropped.
NothingToReport(m) == Nothing

ToReport(m) == IF m \in Request THEN Nothing ELSE m

HandleMessage(p, m) ==
    /\ p = to[m]
    /\ Take(p, Packet(m))
    /\ Received(Packet(m), Replies(m))
    /\ accepted' = accepted \union {m}
    /\ reporting' = [reporting EXCEPT ![p] = ToReport(m)]
    /\ UNCHANGED <<status, onlines, sendVars, received, delivered, missed>>

\* message_received()
Report(p) ==
    /\ reporting[p] # Nothing
    /\ received' = [received EXCEPT ![reporting[p]] = @ + 1]
    /\ reporting' = [reporting EXCEPT ![p] = Nothing]
    /\ UNCHANGED <<status, onlines, sendVars, net, copies, accepted, delivered, missed>>

\* Mutants: the record is kept; the delivery is reported without one; the number of the
\* acknowledgement is looked up instead of the message's.
Unforgotten(m) == records

Forgotten(m) == records \ {m}

KnownAnyway(m) == TRUE

KnownByAck(m) == FALSE

Known(m) == m \in records

HandleAck(p, m) ==
    /\ p = from[m]
    /\ Take(p, Ack(m))
    /\ Received(Ack(m), {})
    /\ IF Known(m)
       THEN /\ delivered' = [delivered EXCEPT ![m] = @ + 1]
            /\ records' = Forgotten(m)
            /\ UNCHANGED missed
       ELSE /\ missed' = IF stage[m] = "sent" THEN missed \union {m} ELSE missed
            /\ UNCHANGED <<delivered, records>>
    /\ UNCHANGED <<status, onlines, stage, reporting, accepted, received>>

\* Lost on its way, or overwritten before it was sent.
Lose(k) ==
    /\ k \in net
    /\ k.about \in Lossy
    /\ net' = net \ {k}
    /\ UNCHANGED <<status, onlines, sendVars, copies, reporting, historyVars>>

-----------------------------------------------------------------------------

Next ==
    \/ \E p \in Peer : GoOnline(p) \/ GoOffline(p) \/ Report(p)
    \/ \E m \in Message : Send(m) \/ SendPacket(m) \/ Record(m) \/ Tell(m)
    \/ \E p \in Peer, m \in Message : HandleMessage(p, m) \/ HandleAck(p, m)
    \/ \E k \in net : Lose(k)

Spec == Init /\ [][Next]_vars

\* The DHT answers, threads go on, and the service's thread takes every packet in its
\* turn.  Nobody has to go online or to send.
Fairness ==
    /\ \A m \in Message : WF_vars(SendPacket(m) \/ Record(m) \/ Tell(m))
    /\ \A p \in Peer : WF_vars(Report(p))
    /\ \A m \in Message : SF_vars(HandleMessage(to[m], m)) /\ SF_vars(HandleAck(from[m], m))

FairSpec == Spec /\ Fairness

-----------------------------------------------------------------------------
(* Properties. *)

Stage == {"new", "ignored", "sought", "broken", "sent", "recorded", "told"}

TypeOK ==
    /\ status \in [Peer -> {"Offline", "Online"}]
    /\ onlines \in [Peer -> 0 .. MaxOnline]
    /\ stage \in [Message -> Stage]
    /\ records \subseteq Message
    /\ net \subseteq [type : {"message", "ack"}, about : Message]
    /\ copies \in 0 .. MaxCopies
    /\ reporting \in [Peer -> Message \union {Nothing}]
    /\ accepted \subseteq Message
    /\ received \in [Message -> Nat] /\ delivered \in [Message -> Nat]
    /\ missed \subseteq Message

\* A message is reported delivered once at most, however often it and its
\* acknowledgement are duplicated, never before it is recorded, and only when its
\* contact has handled it.
DeliveredOnce ==
    \A m \in Message :
        /\ delivered[m] <= 1
        /\ delivered[m] = 1 => m \in accepted /\ stage[m] \in {"recorded", "told"}

\* The records are of what was sent and not reported delivered.  A message whose
\* acknowledgement came too early, or was lost, stays among them for good.
RecordsAreOpen ==
    \A m \in Message :
        m \in records <=> stage[m] \in {"recorded", "told"} /\ delivered[m] = 0

\* The user is told of a message again for every duplicate of its packet, but of none
\* that was not sent, and whatever was acknowledged is on its way to the user.
ReportedAsOften ==
    \A m \in Message :
        /\ received[m] <= 1 + copies
        /\ received[m] > 0 => stage[m] \in {"sent", "recorded", "told"}
        /\ Ack(m) \in net \/ delivered[m] > 0 => received[m] > 0 \/ reporting[to[m]] = m

\* A text message is in the end reported delivered, if no packet of it is lost or
\* overwritten in its send buffer and both stay online -- unless its acknowledgement was
\* handled before the message was recorded.
DeliveredOrMissed ==
    \A m \in Message \ (Request \union Lossy) :
        stage[m] = "sent" ~>
            \/ delivered[m] = 1 \/ m \in missed
            \/ ~Hears(from[m]) \/ ~Hears(to[m])

Contract == INSTANCE Delivery WITH
    sent <- {m \in Message : stage[m] \in {"sent", "recorded", "told"}},
    informed <- received,
    confirmed <- delivered

\* The messenger keeps the contract of delivery: step by step, a message is sent, handled
\* by its contact, reported to the contact's user, and by one step at most reported
\* delivered; never in another order.
ImplementsDelivery == Contract!Spec
=============================================================================
