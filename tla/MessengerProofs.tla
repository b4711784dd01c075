--------------------------- MODULE MessengerProofs ---------------------------
(***************************************************************************)
(* Proofs about Messenger, for every number of messengers and messages,    *)
(* every bound on duplicates and on calls of online(), with loss or        *)
(* without.                                                                *)
(***************************************************************************)
EXTENDS Messenger, TLAPS

USE MessengerAssumption, NothingAssumption

SentStage == {"sent", "recorded", "told"}

\* Nobody acknowledges what it has not handled.
AckedIsAccepted == \A m \in Message : Ack(m) \in net => m \in accepted

\* Where the packet of a message is, each place counted once.
Weight(b) == IF b THEN 1 ELSE 0

Sightings(m) ==
    received[m] + Weight(Packet(m) \in net) + Weight(reporting[to[m]] = m)

\* A message is seen as often as it was sent and duplicated, and only once sent.
SeenAsSent ==
    \A m \in Message :
        /\ Sightings(m) <= 1 + copies
        /\ stage[m] \notin SentStage => Sightings(m) = 0
        /\ m \in accepted => stage[m] \in SentStage

\* What is handled waits for the user, or the user has it.
HandledIsReported ==
    /\ \A p \in Peer : reporting[p] # Nothing => p = to[reporting[p]] /\ reporting[p] \in accepted
    /\ \A m \in Message :
        Ack(m) \in net \/ delivered[m] > 0 => received[m] > 0 \/ reporting[to[m]] = m

\* The inductive invariant.
IInv ==
    /\ TypeOK
    /\ DeliveredOnce
    /\ RecordsAreOpen
    /\ AckedIsAccepted
    /\ SeenAsSent
    /\ HandledIsReported

-----------------------------------------------------------------------------

\* Packets of different messages or types differ.
LEMMA PacketsDiffer ==
    ASSUME NEW m \in Message, NEW n \in Message
    PROVE  /\ Packet(m) = Packet(n) <=> m = n
           /\ Ack(m) = Ack(n) <=> m = n
           /\ Packet(m) # Ack(n)
           /\ Packet(m) \in [type : {"message", "ack"}, about : Message]
           /\ Ack(m) \in [type : {"message", "ack"}, about : Message]
<1>1. Packet(m).about = m /\ Packet(n).about = n /\ Ack(m).about = m /\ Ack(n).about = n
  BY DEF Packet, Ack
<1>2. Packet(m).type = "message" /\ Ack(n).type = "ack"
  BY DEF Packet, Ack
<1> QED BY <1>1, <1>2 DEF Packet, Ack

LEMMA InitHolds == Init => IInv
BY PacketsDiffer DEF Init, IInv, TypeOK, DeliveredOnce, RecordsAreOpen, AckedIsAccepted,
    SeenAsSent, HandledIsReported, Sightings, Weight, Stage, SentStage

-----------------------------------------------------------------------------
(* One lemma for each kind of step. *)

\* Going online and offline touches nothing the invariant speaks of but the status.
LEMMA StatusStep ==
    ASSUME IInv, NEW p \in Peer, GoOnline(p) \/ GoOffline(p)
    PROVE  IInv'
<1>1. TypeOK'
  BY DEF IInv, TypeOK, GoOnline, GoOffline, sendVars, historyVars
<1> QED BY <1>1 DEF IInv, DeliveredOnce, RecordsAreOpen, AckedIsAccepted,
    SeenAsSent, HandledIsReported, Sightings, GoOnline, GoOffline, sendVars, historyVars, Packet, Ack

\* Before the packet is sent.
LEMMA SendStep ==
    ASSUME IInv, NEW m \in Message, Send(m)
    PROVE  IInv'
<1>1. TypeOK'
  BY DEF IInv, TypeOK, Send, historyVars, Stage
<1>2. DeliveredOnce' /\ RecordsAreOpen'
  BY DEF IInv, TypeOK, DeliveredOnce, RecordsAreOpen, Send, historyVars, Stage
<1>3. AckedIsAccepted' /\ HandledIsReported'
  BY DEF IInv, AckedIsAccepted, HandledIsReported, Send, historyVars, Ack
<1>4. SeenAsSent'
  <2>1. \A n \in Message : Sightings(n)' = Sightings(n)
    BY DEF Sightings, Send, historyVars, Packet
  <2> QED BY <2>1 DEF IInv, TypeOK, SeenAsSent, SentStage, Send, historyVars, Stage
<1> QED BY <1>1, <1>2, <1>3, <1>4 DEF IInv

\* The packet is sent, or there is no service to send it.
LEMMA SendPacketStep ==
    ASSUME IInv, NEW m \in Message, SendPacket(m)
    PROVE  IInv'
<1>1. /\ net' = net \/ net' = net \union {Packet(m)}
      /\ net' # net => stage'[m] = "sent"
      /\ \A n \in Message : Ack(n) \in net' <=> Ack(n) \in net
      /\ \A n \in Message \ {m} : Packet(n) \in net' <=> Packet(n) \in net
  BY PacketsDiffer DEF SendPacket, IInv, TypeOK
<1>2. /\ \A n \in Message \ {m} : stage'[n] = stage[n]
      /\ stage[m] = "sought" /\ stage'[m] \in {"sent", "broken"}
      /\ UNCHANGED <<status, onlines, records, copies, reporting, historyVars>>
  BY DEF SendPacket, IInv, TypeOK
<1>3. TypeOK'
  BY PacketsDiffer DEF IInv, TypeOK, SendPacket, historyVars, Stage
<1>4. DeliveredOnce' /\ RecordsAreOpen'
  BY <1>2, <1>3 DEF IInv, TypeOK, DeliveredOnce, RecordsAreOpen, historyVars
<1>5. AckedIsAccepted' /\ HandledIsReported'
  BY <1>1, <1>2 DEF IInv, AckedIsAccepted, HandledIsReported, historyVars
<1>6. SeenAsSent'
  <2>1. \A n \in Message \ {m} : Sightings(n)' = Sightings(n)
    BY <1>1, <1>2 DEF Sightings, historyVars, Weight, Packet
  <2>2. Sightings(m) = 0 /\ m \notin accepted
    BY <1>2 DEF IInv, SeenAsSent, SentStage
  <2>3. received[m] = 0 /\ reporting[to[m]] # m /\ Packet(m) \notin net
    BY <2>2 DEF Sightings, Weight, IInv, TypeOK
  <2>4. Sightings(m)' = Weight(Packet(m) \in net')
    BY <1>2, <2>3 DEF Sightings, Weight, historyVars, Packet
  <2>5. CASE net' = net
    BY <1>2, <2>1, <2>2, <2>3, <2>4, <2>5
       DEF IInv, TypeOK, SeenAsSent, SentStage, Weight, historyVars
  <2>6. CASE net' # net
    BY <1>1, <1>2, <2>1, <2>2, <2>3, <2>4, <2>6
       DEF IInv, TypeOK, SeenAsSent, SentStage, Weight, historyVars
  <2> QED BY <2>5, <2>6
<1> QED BY <1>3, <1>4, <1>5, <1>6 DEF IInv

\* What was sent is recorded, and the user told.
LEMMA RecordStep ==
    ASSUME IInv, NEW m \in Message, Record(m) \/ Tell(m)
    PROVE  IInv'
<1>1. TypeOK'
  BY DEF IInv, TypeOK, Record, Tell, historyVars, Stage
<1>2. DeliveredOnce' /\ RecordsAreOpen'
  <2>1. /\ \A n \in Message \ {m} : stage'[n] = stage[n]
        /\ stage'[m] \in {"recorded", "told"}
        /\ UNCHANGED <<accepted, delivered>>
    BY DEF IInv, TypeOK, Record, Tell, historyVars
  <2>2. CASE Record(m)
    <3>1. delivered[m] = 0 /\ records' = records \union {m}
      BY <2>2 DEF IInv, TypeOK, DeliveredOnce, Record
    <3> QED BY <2>1, <3>1 DEF IInv, DeliveredOnce, RecordsAreOpen
  <2>3. CASE Tell(m)
    <3>1. stage[m] = "recorded" /\ records' = records
      BY <2>3 DEF Tell
    <3> QED BY <2>1, <3>1 DEF IInv, DeliveredOnce, RecordsAreOpen
  <2> QED BY <2>2, <2>3
<1>3. AckedIsAccepted' /\ HandledIsReported'
  BY DEF IInv, AckedIsAccepted, HandledIsReported, Record, Tell, historyVars, Ack
<1>4. SeenAsSent'
  <2>1. \A n \in Message : Sightings(n)' = Sightings(n)
    BY DEF Sightings, Record, Tell, historyVars, Packet
  <2> QED BY <2>1 DEF IInv, TypeOK, SeenAsSent, SentStage, Record, Tell, historyVars, Stage
<1> QED BY <1>1, <1>2, <1>3, <1>4 DEF IInv

\* The user is told of a message that came.
LEMMA ReportStep ==
    ASSUME IInv, NEW p \in Peer, Report(p)
    PROVE  IInv'
<1> DEFINE m == reporting[p]
<1>1. m \in Message /\ p = to[m]
  BY DEF IInv, TypeOK, HandledIsReported, Report
<1>2. TypeOK'
  BY <1>1 DEF IInv, TypeOK, Report, sendVars
<1>3. DeliveredOnce' /\ RecordsAreOpen' /\ AckedIsAccepted'
  BY DEF IInv, DeliveredOnce, RecordsAreOpen, AckedIsAccepted, Report, sendVars, Ack
<1>4. /\ received'[m] = received[m] + 1
      /\ \A n \in Message \ {m} : received'[n] = received[n]
      /\ reporting'[p] = Nothing
      /\ \A q \in Peer \ {p} : reporting'[q] = reporting[q]
  BY <1>1 DEF Report, IInv, TypeOK
<1>5. HandledIsReported'
  <2>1. \A q \in Peer : reporting'[q] # Nothing => q = to[reporting'[q]]
    BY <1>4 DEF IInv, HandledIsReported
  <2>3. \A q \in Peer : reporting'[q] # Nothing => reporting'[q] \in accepted'
    BY <1>4 DEF IInv, HandledIsReported, Report
  <2>2. ASSUME NEW n \in Message, Ack(n) \in net' \/ delivered'[n] > 0
        PROVE  received'[n] > 0 \/ reporting'[to[n]] = n
    <3>1. received[n] > 0 \/ reporting[to[n]] = n
      BY <2>2 DEF Report, IInv, HandledIsReported
    <3>2. CASE n = m
      BY <1>1, <1>4, <3>2 DEF IInv, TypeOK
    <3>3. CASE n # m
      BY <1>1, <1>4, <3>1, <3>3
    <3> QED BY <3>2, <3>3
  <2> QED BY <2>1, <2>2, <2>3 DEF HandledIsReported, Ack
<1>6. \A n \in Message : Sightings(n)' = Sightings(n)
  <2>1. net' = net
    BY DEF Report
  <2>2. TAKE n \in Message
  <2>3. CASE n = m
    BY <1>1, <1>4, <2>1, <2>3 DEF Sightings, Weight, Packet, IInv, TypeOK
  <2>4. CASE n # m
    BY <1>1, <1>4, <2>1, <2>4 DEF Sightings, Weight, Packet, IInv, TypeOK
  <2> QED BY <2>3, <2>4
<1>7. SeenAsSent'
  BY <1>6 DEF IInv, SeenAsSent, Report, sendVars
<1> QED BY <1>2, <1>3, <1>5, <1>7 DEF IInv

\* A packet is lost.
LEMMA LoseStep ==
    ASSUME IInv, NEW k \in net, Lose(k)
    PROVE  IInv'
<1>1. net' \subseteq net /\ UNCHANGED <<status, onlines, sendVars, copies, reporting, historyVars>>
  BY DEF Lose
<1>2. TypeOK' /\ DeliveredOnce' /\ RecordsAreOpen'
  BY <1>1 DEF IInv, TypeOK, DeliveredOnce, RecordsAreOpen, sendVars, historyVars
<1>3. AckedIsAccepted' /\ HandledIsReported'
  BY <1>1 DEF IInv, AckedIsAccepted, HandledIsReported, sendVars, historyVars, Ack
<1>4. SeenAsSent'
  <2>1. SUFFICES ASSUME NEW m \in Message
                 PROVE  /\ Sightings(m)' <= 1 + copies'
                        /\ stage'[m] \notin SentStage => Sightings(m)' = 0
                        /\ m \in accepted' => stage'[m] \in SentStage
    BY DEF SeenAsSent, SentStage
  <2>2. /\ Sightings(m)' <= Sightings(m)
        /\ Sightings(m) = 0 => Sightings(m)' = 0
    BY <1>1 DEF IInv, TypeOK, Sightings, Weight, historyVars, Packet
  <2>3. Sightings(m) \in Int /\ Sightings(m)' \in Int /\ copies \in Int
    BY <1>1, <1>2 DEF IInv, TypeOK, Sightings, Weight
  <2> QED BY <1>1, <2>2, <2>3 DEF IInv, SeenAsSent, sendVars, historyVars
<1> QED BY <1>2, <1>3, <1>4 DEF IInv

-----------------------------------------------------------------------------
(* The handlers. *)

\* A packet leaves the net, or is duplicated, while replies join it.
LEMMA ReceivedLemma ==
    ASSUME IInv, NEW k, NEW replies, Received(k, replies)
    PROVE  /\ net' \subseteq net \union replies
           /\ net \subseteq net' \union {k}
           /\ copies' \in 0 .. MaxCopies
           /\ \/ k \notin net' \ replies /\ copies' = copies
              \/ copies' = copies + 1
BY DEF Received, Left, IInv, TypeOK

\* A message or friend request is handled.
LEMMA HandleMessageStep ==
    ASSUME IInv, NEW p \in Peer, NEW m \in Message, HandleMessage(p, m)
    PROVE  IInv'
<1>1. /\ p = to[m] /\ Packet(m) \in net /\ reporting[p] = Nothing
      /\ accepted' = accepted \union {m}
      /\ reporting' = [reporting EXCEPT ![p] = ToReport(m)]
      /\ UNCHANGED <<status, onlines, sendVars, received, delivered, missed>>
      /\ Received(Packet(m), Replies(m))
  BY DEF HandleMessage, Take
<1>2. /\ net' \subseteq net \union Replies(m)
      /\ net \subseteq net' \union {Packet(m)}
      /\ copies' \in 0 .. MaxCopies
      /\ \/ Packet(m) \notin net' \ Replies(m) /\ copies' = copies
         \/ copies' = copies + 1
  BY <1>1, ReceivedLemma
<1>3. Replies(m) \subseteq {Ack(m)} /\ (Ack(m) \in Replies(m) => ToReport(m) = m)
  BY DEF Replies, ToReport
<1>4. ToReport(m) \in {m, Nothing}
  BY DEF ToReport
<1>5. /\ \A n \in Message \ {m} : Ack(n) \in net' => Ack(n) \in net
      /\ \A n \in Message \ {m} : Packet(n) \in net' <=> Packet(n) \in net
      /\ Packet(m) \in net' => copies' = copies + 1
      /\ Ack(m) \in net' => Ack(m) \in net \/ ToReport(m) = m
  BY <1>2, <1>3, PacketsDiffer
<1>6. TypeOK'
  BY <1>1, <1>2, <1>3, <1>4, PacketsDiffer DEF IInv, TypeOK, sendVars
<1>7. DeliveredOnce' /\ RecordsAreOpen'
  BY <1>1 DEF IInv, DeliveredOnce, RecordsAreOpen, sendVars
<1>8. AckedIsAccepted'
  BY <1>1, <1>5 DEF IInv, AckedIsAccepted, Ack
<1>9. HandledIsReported'
  <2>1. \A q \in Peer : reporting'[q] # Nothing => q = to[reporting'[q]]
    BY <1>1, <1>4 DEF IInv, TypeOK, HandledIsReported
  <2>3. \A q \in Peer : reporting'[q] # Nothing => reporting'[q] \in accepted'
    BY <1>1, <1>4 DEF IInv, TypeOK, HandledIsReported
  <2>2. ASSUME NEW n \in Message, Ack(n) \in net' \/ delivered'[n] > 0
        PROVE  received'[n] > 0 \/ reporting'[to[n]] = n
    <3>1. CASE Ack(n) \in net \/ delivered[n] > 0
      BY <1>1, <3>1 DEF IInv, TypeOK, HandledIsReported
    <3>2. CASE n = m /\ ToReport(m) = m
      BY <1>1, <3>2 DEF IInv, TypeOK
    <3> QED BY <1>1, <1>5, <2>2, <3>1, <3>2
  <2> QED BY <2>1, <2>2, <2>3 DEF HandledIsReported, Ack
<1>10. SeenAsSent'
  <2>1. stage[m] \in SentStage
    BY <1>1 DEF IInv, TypeOK, SeenAsSent, Sightings, Weight
  <2>2. SUFFICES ASSUME NEW n \in Message
                 PROVE  /\ Sightings(n)' <= 1 + copies'
                        /\ stage'[n] \notin SentStage => Sightings(n)' = 0
                        /\ n \in accepted' => stage'[n] \in SentStage
    BY DEF SeenAsSent, SentStage
  <2>3. CASE n # m
    <3>1. reporting'[to[n]] = n <=> reporting[to[n]] = n
      BY <1>1, <1>4, <2>3 DEF IInv, TypeOK
    <3>2. Sightings(n)' = Sightings(n)
      BY <1>1, <1>5, <2>3, <3>1 DEF Sightings, Weight, Packet
    <3>3. Sightings(n) \in Int /\ copies \in Int /\ copies' \in Int /\ copies <= copies'
      BY <1>2 DEF IInv, TypeOK, Sightings, Weight
    <3> QED BY <1>1, <2>3, <3>2, <3>3 DEF IInv, SeenAsSent, sendVars
  <2>4. CASE n = m
    <3>1. Sightings(m) = received[m] + 1 /\ received[m] \in Nat /\ copies \in Nat
      BY <1>1 DEF IInv, TypeOK, Sightings, Weight
    <3>2. received[m] + 1 <= 1 + copies
      BY <3>1 DEF IInv, SeenAsSent
    <3>3. Sightings(m)' = received[m] + Weight(Packet(m) \in net') + Weight(reporting'[to[m]] = m)
      BY <1>1 DEF Sightings, Packet, Weight
    <3>4. Sightings(m)' <= received[m] + 1 + (copies' - copies)
      BY <1>2, <1>5, <3>1, <3>3 DEF Weight
    <3>5. Sightings(m)' \in Int
      BY <3>1, <3>3 DEF Weight
    <3> QED BY <1>1, <1>2, <2>1, <2>4, <3>1, <3>2, <3>4, <3>5 DEF sendVars
  <2> QED BY <2>3, <2>4
<1> QED BY <1>6, <1>7, <1>8, <1>9, <1>10 DEF IInv

\* An acknowledgement is handled.
LEMMA HandleAckStep ==
    ASSUME IInv, NEW p \in Peer, NEW m \in Message, HandleAck(p, m)
    PROVE  /\ IInv'
           /\ delivered[m] = 0 \/ delivered' = delivered
           /\ m \in accepted
<1>1. /\ Ack(m) \in net
      /\ Received(Ack(m), {})
      /\ UNCHANGED <<status, onlines, stage, reporting, accepted, received>>
  BY DEF HandleAck, Take
<1>2. /\ net' \subseteq net
      /\ net \subseteq net' \union {Ack(m)}
      /\ copies' \in 0 .. MaxCopies /\ copies <= copies'
  <2>1. copies' = copies \/ copies' = copies + 1
    BY <1>1, ReceivedLemma
  <2> QED BY <1>1, <2>1, ReceivedLemma DEF IInv, TypeOK
<1>3. m \in accepted
  BY <1>1 DEF IInv, AckedIsAccepted
<1>4. \/ /\ m \in records
         /\ delivered' = [delivered EXCEPT ![m] = @ + 1]
         /\ records' = records \ {m}
      \/ UNCHANGED <<delivered, records>>
  BY DEF HandleAck, Known, Forgotten
<1>5. missed' \subseteq Message
  BY DEF HandleAck, IInv, TypeOK
<1>6. TypeOK'
  BY <1>1, <1>2, <1>4, <1>5 DEF IInv, TypeOK
<1>7. m \in records => delivered[m] = 0 /\ stage[m] \in {"recorded", "told"}
  BY DEF IInv, RecordsAreOpen
<1>8. DeliveredOnce' /\ RecordsAreOpen'
  BY <1>1, <1>3, <1>4, <1>7 DEF IInv, TypeOK, DeliveredOnce, RecordsAreOpen
<1>9. AckedIsAccepted' /\ HandledIsReported'
  BY <1>1, <1>2, <1>4 DEF IInv, TypeOK, AckedIsAccepted, HandledIsReported, Ack
<1>10. SeenAsSent'
  <2>1. SUFFICES ASSUME NEW n \in Message
                 PROVE  /\ Sightings(n)' <= 1 + copies'
                        /\ stage'[n] \notin SentStage => Sightings(n)' = 0
                        /\ n \in accepted' => stage'[n] \in SentStage
    BY DEF SeenAsSent, SentStage
  <2>2. Sightings(n)' = Sightings(n)
    <3>1. Packet(n) \in net' <=> Packet(n) \in net
      BY <1>2, PacketsDiffer
    <3> QED BY <1>1, <3>1 DEF Sightings, Weight, Packet
  <2>3. Sightings(n) \in Int /\ copies \in Int /\ copies' \in Int
    BY <1>2 DEF IInv, TypeOK, Sightings, Weight
  <2> QED BY <1>1, <1>2, <2>2, <2>3 DEF IInv, SeenAsSent
<1>11. delivered[m] = 0 \/ delivered' = delivered
  BY <1>4, <1>7
<1> QED BY <1>3, <1>6, <1>8, <1>9, <1>10, <1>11 DEF IInv

-----------------------------------------------------------------------------

LEMMA StepHolds == IInv /\ [Next]_vars => IInv'
<1>1. SUFFICES ASSUME IInv, [Next]_vars PROVE IInv'
  OBVIOUS
<1>2. ASSUME NEW p \in Peer, GoOnline(p) \/ GoOffline(p) PROVE IInv'
  BY <1>1, <1>2, StatusStep
<1>3. ASSUME NEW p \in Peer, Report(p) PROVE IInv'
  BY <1>1, <1>3, ReportStep
<1>4. ASSUME NEW m \in Message, Send(m) PROVE IInv'
  BY <1>1, <1>4, SendStep
<1>5. ASSUME NEW m \in Message, SendPacket(m) PROVE IInv'
  BY <1>1, <1>5, SendPacketStep
<1>6. ASSUME NEW m \in Message, Record(m) \/ Tell(m) PROVE IInv'
  BY <1>1, <1>6, RecordStep
<1>7. ASSUME NEW p \in Peer, NEW m \in Message, HandleMessage(p, m) PROVE IInv'
  BY <1>1, <1>7, HandleMessageStep
<1>8. ASSUME NEW p \in Peer, NEW m \in Message, HandleAck(p, m) PROVE IInv'
  BY <1>1, <1>8, HandleAckStep
<1>9. ASSUME NEW k \in net, Lose(k) PROVE IInv'
  BY <1>1, <1>9, LoseStep
<1>10. CASE UNCHANGED vars
  BY <1>1, <1>10 DEF vars, sendVars, historyVars, IInv, TypeOK, DeliveredOnce, RecordsAreOpen,
      AckedIsAccepted, SeenAsSent, HandledIsReported, Sightings, Packet, Ack
<1> QED BY <1>1, <1>2, <1>3, <1>4, <1>5, <1>6, <1>7, <1>8, <1>9, <1>10 DEF Next

LEMMA Inductive == Spec => []IInv
BY InitHolds, StepHolds, PTL DEF Spec

-----------------------------------------------------------------------------

\* Every variable keeps to its values.
THEOREM TypeCorrect == Spec => []TypeOK
<1>1. IInv => TypeOK
  BY DEF IInv
<1> QED BY <1>1, Inductive, PTL

\* message_delivered() is called once at most for a message, however often it and
\* its acknowledgement are duplicated, and only when its contact has handled it.
THEOREM DeliveryIsReportedOnce == Spec => []DeliveredOnce
<1>1. IInv => DeliveredOnce
  BY DEF IInv
<1> QED BY <1>1, Inductive, PTL

\* The maps of sent messages hold what was sent and not reported delivered.
THEOREM RecordsAreKept == Spec => []RecordsAreOpen
<1>1. IInv => RecordsAreOpen
  BY DEF IInv
<1> QED BY <1>1, Inductive, PTL

\* message_received() is called for nothing that was not sent, and more than once
\* only for duplicates.
THEOREM ReportsAreOfWhatWasSent == Spec => []ReportedAsOften
<1>1. IInv => ReportedAsOften
  <2>1. SUFFICES ASSUME IInv, NEW m \in Message
                 PROVE  /\ received[m] <= 1 + copies
                        /\ received[m] > 0 => stage[m] \in SentStage
                        /\ Ack(m) \in net \/ delivered[m] > 0
                             => received[m] > 0 \/ reporting[to[m]] = m
    BY DEF ReportedAsOften, SentStage
  <2>2. received[m] <= Sightings(m) /\ Sightings(m) \in Int /\ received[m] \in Nat /\ copies \in Nat
    BY <2>1 DEF IInv, TypeOK, Sightings, Weight
  <2>3. Sightings(m) <= 1 + copies /\ (stage[m] \notin SentStage => Sightings(m) = 0)
    BY <2>1 DEF IInv, SeenAsSent
  <2>4. /\ received[m] <= 1 + copies
        /\ received[m] > 0 => stage[m] \in SentStage
    BY <2>2, <2>3
  <2> QED BY <2>1, <2>4 DEF IInv, HandledIsReported
<1> QED BY <1>1, Inductive, PTL

\* The messenger implements the contract of delivery: what is reported delivered was
\* sent, is with its contact, and is reported by one step only.
THEOREM MessengerImplementsDelivery == Spec => ImplementsDelivery
<1> DEFINE sent == {m \in Message : stage[m] \in {"sent", "recorded", "told"}}
<1>1. Init => Contract!Init
  BY DEF Init, Contract!Init
<1>2. IInv /\ [Next]_vars => [Contract!Next]_Contract!vars
  <2>1. SUFFICES ASSUME IInv, Next,
                        ~(sent' = sent /\ UNCHANGED <<accepted, received, delivered>>)
                 PROVE  \E m \in Message : \/ Contract!Send(m) \/ Contract!Accept(m)
                                           \/ Contract!Inform(m) \/ Contract!Confirm(m)
    BY DEF Contract!Next, Contract!vars, vars, sendVars, historyVars
  <2>2. ASSUME NEW m \in Message, SendPacket(m)
        PROVE  Contract!Send(m)
    <3>1. /\ stage[m] = "sought" /\ stage'[m] \in {"sent", "broken"}
          /\ \A n \in Message \ {m} : stage'[n] = stage[n]
          /\ UNCHANGED <<accepted, received, delivered>>
      BY <2>1, <2>2 DEF SendPacket, historyVars, IInv, TypeOK
    <3>2. stage'[m] = "sent"
      BY <2>1, <3>1
    <3> QED BY <3>1, <3>2 DEF Contract!Send
  <2>3. ASSUME NEW m \in Message, Send(m) \/ Record(m) \/ Tell(m)
        PROVE  FALSE
    <3>1. \A n \in Message : stage'[n] \in SentStage <=> stage[n] \in SentStage
      BY <2>1, <2>3 DEF Send, Record, Tell, SentStage, IInv, TypeOK
    <3> QED BY <2>1, <2>3, <3>1 DEF Send, Record, Tell, historyVars, SentStage
  <2>4. ASSUME NEW p \in Peer, NEW m \in Message, HandleMessage(p, m)
        PROVE  Contract!Accept(m)
    <3>1. /\ accepted' = accepted \union {m}
          /\ UNCHANGED <<stage, received, delivered>>
          /\ Packet(m) \in net
      BY <2>4 DEF HandleMessage, Take, sendVars
    <3>2. stage[m] \in {"sent", "recorded", "told"}
      BY <2>1, <3>1 DEF IInv, TypeOK, SeenAsSent, SentStage, Sightings, Weight
    <3>3. m \notin accepted
      BY <2>1, <3>1
    <3> QED BY <3>1, <3>2, <3>3 DEF Contract!Accept
  <2>5. ASSUME NEW p \in Peer, Report(p)
        PROVE  \E m \in Message : Contract!Inform(m)
    <3>1. reporting[p] \in Message /\ reporting[p] \in accepted
      BY <2>1, <2>5 DEF Report, IInv, TypeOK, HandledIsReported
    <3>2. /\ received' = [received EXCEPT ![reporting[p]] = @ + 1]
          /\ UNCHANGED <<stage, accepted, delivered>>
      BY <2>5 DEF Report, sendVars
    <3> QED BY <3>1, <3>2 DEF Contract!Inform
  <2>6. ASSUME NEW p \in Peer, NEW m \in Message, HandleAck(p, m)
        PROVE  Contract!Confirm(m)
    <3>1. m \in accepted /\ (delivered[m] = 0 \/ delivered' = delivered)
      BY <2>1, <2>6, HandleAckStep
    <3>2. UNCHANGED <<stage, accepted, received>>
      BY <2>6 DEF HandleAck
    <3>3. delivered[m] = 0 /\ delivered' = [delivered EXCEPT ![m] = @ + 1]
      BY <2>1, <2>6, <3>1, <3>2 DEF HandleAck
    <3>4. delivered' = [delivered EXCEPT ![m] = 1]
      BY <3>3 DEF IInv, TypeOK
    <3> QED BY <3>1, <3>2, <3>3, <3>4 DEF Contract!Confirm
  <2>7. ~(\/ \E p \in Peer : GoOnline(p) \/ GoOffline(p)
          \/ \E k \in net : Lose(k))
    BY <2>1 DEF GoOnline, GoOffline, Lose, sendVars, historyVars
  <2> QED BY <2>1, <2>2, <2>3, <2>4, <2>5, <2>6, <2>7 DEF Next
<1> QED BY <1>1, <1>2, Inductive, PTL DEF Spec, ImplementsDelivery, Contract!Spec
=============================================================================
