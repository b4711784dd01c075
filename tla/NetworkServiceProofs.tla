------------------------ MODULE NetworkServiceProofs ------------------------
(***************************************************************************)
(* Proofs about NetworkService, for every number of datagrams and senders, *)
(* and every bound on sends and on calls of online().                      *)
(***************************************************************************)
EXTENDS NetworkService, FiniteSetTheorems, SequenceTheorems, TLAPS

\* The states of a thread.
IoState == {"none", "entering", "polling", "received", "answering", "sending", "handled", "ended"}

USE BoundAssumption, NothingAssumption DEF IoState

\* What is copied is a message, and nothing is in flight, or copied, from before the service.
SendsOfService ==
    /\ \A t \in copying : sending[t] > 0
    /\ ~Exists => inflight = {} /\ \A t \in Writer : sending[t] <= 0
    /\ Exists => gen > 0

TInv == TypeOK /\ SendsOfService

\* A port as it is after a handler, or run(), has looked for work.
LEMMA StopPort ==
    ASSUME TypeOK, NEW t, NEW p \in Seq(Completed), StopIfIdle(t, p)
    PROVE  /\ port' = p \/ port' = Append(p, StopEvent)
           /\ stopped' \in BOOLEAN
BY DEF TypeOK, StopIfIdle, Stop

LEMMA CompletedTypes ==
    /\ Sent \in Completed /\ StopEvent \in Completed
    /\ \A g \in 0 .. MaxOnline, d \in Datagram \union {Nothing} : Receipt(g, d) \in Completed
BY DEF Completed, Sent, StopEvent, Receipt

LEMMA AppendCompleted ==
    ASSUME NEW p \in Seq(Completed), NEW e \in Completed
    PROVE  Append(p, e) \in Seq(Completed)
BY AppendProperties

LEMMA AbortedType ==
    ASSUME TypeOK
    PROVE  /\ Aborted \in Seq(Completed)
           /\ Cardinality(inflight) \in Nat
<1>1. IsFiniteSet(1 .. MaxSends)
  BY FS_Interval
<1>2. Cardinality(inflight) \in Nat
  BY <1>1, FS_Subset, FS_CardinalityType DEF TypeOK
<1>3. [m \in 1 .. Cardinality(inflight) |-> Sent] \in Seq(Completed)
  BY <1>2, CompletedTypes, IsASeq
<1>4. (IF armed THEN <<Receipt(gen, Nothing)>> ELSE <<>>) \in Seq(Completed)
  BY CompletedTypes DEF TypeOK
<1>5. Aborted \in Seq(Completed)
  BY <1>3, <1>4, ConcatProperties DEF Aborted
<1> QED BY <1>2, <1>5

LEMMA TInit == Init => TInv
<1> SUFFICES ASSUME Init PROVE TInv
  OBVIOUS
<1>1. TypeOK
  <2>1. port \in Seq(Completed)
    BY EmptySeq DEF Init
  <2>2. sending \in [Writer -> Dangling .. MaxSends] /\ buf \in (0 .. MaxSends) \X (0 .. MaxSends)
    BY DEF Init, NoMessage, Dangling
  <2>3. /\ about \in [Service -> 0 .. MaxOnline]
        /\ io \in [Service -> IoState]
    BY DEF Init, IoState
  <2>4. /\ gen \in 0 .. MaxOnline /\ sends \in 0 .. MaxSends
        /\ wire \subseteq [sent : 1 .. MaxSends, carried : (0 .. MaxSends) \X (0 .. MaxSends)]
        /\ overlaps \subseteq (1 .. MaxSends) \X (1 .. MaxSends) /\ copying \subseteq Writer
        /\ waiting \subseteq Datagram /\ handled \subseteq Datagram /\ inflight \subseteq 1 .. MaxSends
    BY DEF Init
  <2> QED BY <2>1, <2>2, <2>3, <2>4 DEF Init, TypeOK, IoState
<1>2. SendsOfService
  BY DEF Init, SendsOfService, NoMessage, Exists
<1> QED BY <1>1, <1>2 DEF TInv

\* What send() is busy with are messages.
LEMMA InProgressType ==
    ASSUME TInv
    PROVE  InProgress \subseteq 1 .. MaxSends /\ BeingCopied \subseteq 1 .. MaxSends
<1>1. \A n \in Dangling .. MaxSends : n # NoMessage /\ n # Dangling => n \in 1 .. MaxSends
  BY DEF Dangling, NoMessage
<1>2. \A t \in copying : t \in Writer /\ sending[t] \in 1 .. MaxSends
  BY DEF TInv, TypeOK, SendsOfService, Dangling
<1> QED BY <1>1, <1>2 DEF TInv, TypeOK, InProgress, BeingCopied

\* The type of what a copy begins with.
LEMMA BeginType ==
    ASSUME TInv, NEW t \in Writer, Begin(t), Exists, pc' = pc, gen' = gen
    PROVE  /\ sends' \in 0 .. MaxSends /\ buf' \in (0 .. MaxSends) \X (0 .. MaxSends)
           /\ sending' \in [Writer -> Dangling .. MaxSends] /\ copying' \subseteq Writer
           /\ inflight' = inflight /\ wire' = wire
           /\ overlaps' \subseteq (1 .. MaxSends) \X (1 .. MaxSends)
           /\ SendsOfService'
<1>1. /\ sends' = sends + 1 /\ sends' \in 1 .. MaxSends
      /\ sending' = [sending EXCEPT ![t] = sends'] /\ copying' = copying \union {t}
      /\ buf' = [buf EXCEPT ![1] = sends'] /\ inflight' = inflight /\ wire' = wire
  BY DEF Begin, TInv, TypeOK
<1>2. sending' \in [Writer -> Dangling .. MaxSends] /\ copying' \subseteq Writer
  BY <1>1 DEF TInv, TypeOK, Dangling
<1>3. buf' \in (0 .. MaxSends) \X (0 .. MaxSends)
  BY <1>1 DEF TInv, TypeOK
<1>4. overlaps' \subseteq (1 .. MaxSends) \X (1 .. MaxSends)
  BY <1>1, InProgressType DEF Begin, TInv, TypeOK
<1>5. SendsOfService'
  <2>1. \A u \in copying' : sending'[u] > 0
    BY <1>1 DEF TInv, TypeOK, SendsOfService
  <2> QED BY <1>1, <2>1 DEF TInv, SendsOfService, Exists
<1> QED BY <1>1, <1>2, <1>3, <1>4, <1>5

LEMMA TNext == TInv /\ [Next]_vars => TInv'
<1> SUFFICES ASSUME TInv, [Next]_vars PROVE TInv'
  OBVIOUS
<1>a. TypeOK /\ SendsOfService
  BY DEF TInv
<1>b. SUFFICES TypeOK' /\ SendsOfService'
  BY DEF TInv
<1>1. CASE UNCHANGED vars
  BY <1>1, <1>a DEF vars, ownerVars, portVars, threadVars, socketVars, pastVars, sendVars, TypeOK,
     SendsOfService, Exists
<1>2. CASE Bind \/ SpawnThread \/ SetStarted \/ GoOnline \/ GoOffline
  <2>1. TypeOK'
    <3>1. CASE Bind
      BY <3>1, <1>a DEF Bind, portVars, threadVars, pastVars, TypeOK, NoMessage
    <3>2. CASE SpawnThread
      BY <3>2, <1>a DEF SpawnThread, portVars, socketVars, pastVars, sendVars, TypeOK
    <3>3. CASE SetStarted \/ GoOnline \/ GoOffline
      BY <3>3, <1>a DEF SetStarted, StartedAfter, GoOnline, GoOffline, portVars, threadVars, socketVars,
         pastVars, sendVars, TypeOK
    <3> QED BY <1>2, <3>1, <3>2, <3>3
  <2>2. SendsOfService'
    <3>1. CASE Bind
      BY <3>1, <1>a DEF Bind, TypeOK, SendsOfService, Exists
    <3>2. CASE SpawnThread \/ SetStarted \/ GoOnline \/ GoOffline
      BY <3>2, <1>a DEF SpawnThread, SetStarted, GoOnline, GoOffline, sendVars, SendsOfService, Exists
    <3> QED BY <1>2, <3>1, <3>2
  <2> QED BY <2>1, <2>2
<1>3. CASE Destroy
  <2>1. port' \in Seq(Completed)
    <3>1. (IF stopped THEN port ELSE Append(port, StopEvent)) \in Seq(Completed)
      BY <1>a, CompletedTypes, AppendCompleted DEF TypeOK
    <3> QED BY <1>3, <1>a, <3>1, AbortedType, ConcatProperties DEF Destroy
  <2>2. sending' \in [Writer -> Dangling .. MaxSends] /\ \A t \in Writer : sending'[t] <= 0
    BY <1>3, <1>a DEF Destroy, TypeOK, NoMessage, Dangling
  <2>3. TypeOK'
    BY <1>3, <1>a, <2>1, <2>2 DEF Destroy, threadVars, pastVars, TypeOK
  <2>4. SendsOfService'
    BY <1>3, <1>a, <2>2 DEF Destroy, TypeOK, SendsOfService, Exists
  <2> QED BY <2>3, <2>4
<1>4. CASE \E d \in Datagram : Arrive(d) \/ Receive(d)
  <2>1. port' \in Seq(Completed)
    <3>1. PICK d \in Datagram : Arrive(d) \/ Receive(d)
      BY <1>4
    <3>2. Receipt(gen, d) \in Completed /\ port \in Seq(Completed)
      BY <1>a, CompletedTypes DEF TypeOK
    <3>3. port' = port \/ port' = Append(port, Receipt(gen, d))
      BY <3>1 DEF Arrive, Receive, portVars
    <3> QED BY <3>2, <3>3, AppendCompleted
  <2>2. TypeOK'
    <3>1. /\ UNCHANGED <<ownerVars, started, stopped, threadVars, pastVars, sendVars>>
          /\ armed' \in BOOLEAN /\ waiting' \subseteq Datagram
      BY <1>4, <1>a DEF Arrive, Receive, ArmedWhileHandling, portVars, TypeOK
    <3> QED BY <1>a, <2>1, <3>1 DEF TypeOK, ownerVars, threadVars, pastVars, sendVars
  <2>3. SendsOfService'
    BY <1>4, <1>a DEF Arrive, Receive, ownerVars, sendVars, SendsOfService, Exists
  <2> QED BY <2>2, <2>3
<1>5. CASE ReceiveNothing
  <2>1. port' \in Seq(Completed)
    BY <1>5, <1>a, CompletedTypes, AppendCompleted DEF ReceiveNothing, TypeOK
  <2> QED
    BY <1>5, <1>a, <2>1 DEF ReceiveNothing, ownerVars, threadVars, pastVars, sendVars,
       TypeOK, SendsOfService, Exists
<1>6. ASSUME NEW t \in Service, Run(t) \/ Return(t) \/ HandleSend(t) PROVE TypeOK' /\ SendsOfService'
  <2>1. port' \in Seq(Completed) /\ stopped' \in BOOLEAN
    <3>1. CASE Run(t)
      <4>1. port \in Seq(Completed) /\ StopIfIdle(t, port)
        BY <3>1, <1>a DEF Run, TypeOK
      <4>2. (port' = port \/ port' = Append(port, StopEvent)) /\ stopped' \in BOOLEAN
        BY <1>a, <4>1, StopPort
      <4> QED BY <4>1, <4>2, CompletedTypes, AppendCompleted
    <3>2. CASE Return(t)
      BY <3>2, <1>a, HeadTailProperties, CompletedTypes, AppendCompleted DEF Return, TypeOK
    <3>3. CASE HandleSend(t)
      <4>1. Tail(port) \in Seq(Completed) /\ StopIfIdle(t, Tail(port))
        BY <3>3, <1>a, HeadTailProperties DEF HandleSend, TypeOK
      <4>2. (port' = Tail(port) \/ port' = Append(Tail(port), StopEvent)) /\ stopped' \in BOOLEAN
        BY <1>a, <4>1, StopPort
      <4> QED BY <4>1, <4>2, CompletedTypes, AppendCompleted
    <3> QED BY <1>6, <3>1, <3>2, <3>3
  <2>2. io' \in [Service -> IoState]
        /\ returned' \in BOOLEAN
    BY <1>6, <1>a DEF Run, Return, HandleSend, threadVars, pastVars, TypeOK
  <2>3. /\ UNCHANGED <<ownerVars, started, socketVars, sendVars, about>>
        /\ UNCHANGED <<handled, early, fault>>
    BY <1>6 DEF Run, Return, HandleSend, threadVars, socketVars, pastVars
  <2>4. TypeOK'
    BY <1>a, <2>1, <2>2, <2>3 DEF ownerVars, socketVars, sendVars, TypeOK
  <2>5. SendsOfService'
    BY <1>a, <2>3 DEF ownerVars, sendVars, SendsOfService, Exists
  <2> QED BY <2>4, <2>5
<1>7. ASSUME NEW t \in Service, HandleReceive(t) PROVE TypeOK' /\ SendsOfService'
  <2>1. Head(port) \in Completed /\ port' \in Seq(Completed)
    BY <1>7, <1>a, HeadTailProperties DEF HandleReceive, TypeOK
  <2>2. /\ Head(port).of \in 0 .. MaxOnline
        /\ Head(port).got # Nothing => Head(port).got \in Datagram
    BY <2>1 DEF Completed
  <2>3. /\ about' \in [Service -> 0 .. MaxOnline] /\ io' \in [Service -> IoState]
        /\ handled' \subseteq Datagram /\ fault' \in BOOLEAN
    BY <1>7, <1>a, <2>2 DEF HandleReceive, TypeOK
  <2>4. TypeOK'
    BY <1>7, <1>a, <2>1, <2>3 DEF HandleReceive, ownerVars, socketVars, sendVars, TypeOK
  <2>5. SendsOfService'
    BY <1>7, <1>a DEF HandleReceive, ownerVars, sendVars, SendsOfService, Exists
  <2> QED BY <2>4, <2>5
<1>8. ASSUME NEW t \in Service, Test(t) \/ Answered(t) \/ Rearm(t) PROVE TypeOK' /\ SendsOfService'
  <2>1. port' \in Seq(Completed) /\ stopped' \in BOOLEAN
    <3>1. CASE Test(t) \/ Answered(t)
      BY <3>1, <1>a DEF Test, Answered, portVars, TypeOK
    <3>2. CASE Rearm(t)
      <4>1. port \in Seq(Completed) /\ StopIfIdle(t, port)
        BY <3>2, <1>a DEF Rearm, TypeOK
      <4>2. (port' = port \/ port' = Append(port, StopEvent)) /\ stopped' \in BOOLEAN
        BY <1>a, <4>1, StopPort
      <4> QED BY <4>1, <4>2, CompletedTypes, AppendCompleted
    <3> QED BY <1>8, <3>1, <3>2
  <2>2. TypeOK'
    <3>1. CASE Test(t) \/ Answered(t)
      BY <1>a, <2>1, <3>1 DEF Test, Answered, ownerVars, portVars, socketVars, pastVars, sendVars, TypeOK
    <3>3. CASE Rearm(t)
      <4>1. /\ armed' \in BOOLEAN /\ fault' \in BOOLEAN /\ early' \in BOOLEAN
        BY <3>3, <1>a DEF Rearm, TypeOK, Alive, Exists
      <4>2. io' \in [Service -> IoState] /\ about' \in [Service -> 0 .. MaxOnline]
        BY <3>3, <1>a DEF Rearm, TypeOK
      <4>3. UNCHANGED <<ownerVars, started, waiting, handled, returned, sendVars>>
        BY <3>3 DEF Rearm
      <4> QED BY <1>a, <2>1, <4>1, <4>2, <4>3 DEF ownerVars, sendVars, TypeOK
    <3> QED BY <1>8, <3>1, <3>3
  <2>3. SendsOfService'
    BY <1>8, <1>a DEF Test, Answered, Rearm, ownerVars, sendVars, SendsOfService, Exists
  <2> QED BY <2>2, <2>3
<1>9. ASSUME NEW t \in Service, Answer(t) PROVE TypeOK' /\ SendsOfService'
  <2>1. /\ UNCHANGED <<ownerVars, started, portVars, about, socketVars, handled, early, returned>>
        /\ io' \in [Service -> IoState] /\ fault' \in BOOLEAN
        /\ UNCHANGED sendVars \/ (Reachable /\ Begin(t))
    BY <1>9, <1>a DEF Answer, TypeOK
  <2>2. CASE UNCHANGED sendVars
    BY <1>a, <2>1, <2>2 DEF ownerVars, portVars, socketVars, sendVars, TypeOK, SendsOfService, Exists
  <2>3. CASE Reachable /\ Begin(t)
    <3>1. pc' = pc /\ gen' = gen /\ t \in Writer /\ Exists
      BY <2>1, <2>3 DEF ownerVars, Writer, Reachable, Exists
    <3> QED BY <1>a, <2>1, <2>3, <3>1, BeginType DEF ownerVars, portVars, socketVars, TypeOK
  <2> QED BY <2>1, <2>2, <2>3
<1>10. ASSUME NEW t \in Sender, Call(t) PROVE TypeOK' /\ SendsOfService'
  <2>1. /\ UNCHANGED <<ownerVars, started, portVars, threadVars, socketVars, handled, early, returned>>
        /\ fault' \in BOOLEAN
        /\ UNCHANGED sendVars \/ (Reachable /\ Begin(t))
    BY <1>10, <1>a DEF Call, TypeOK
  <2>2. CASE UNCHANGED sendVars
    BY <1>a, <2>1, <2>2 DEF ownerVars, portVars, threadVars, socketVars, sendVars, TypeOK, SendsOfService, Exists
  <2>3. CASE Reachable /\ Begin(t)
    <3>1. pc' = pc /\ gen' = gen /\ t \in Writer /\ Exists
      BY <2>1, <2>3 DEF ownerVars, Writer, Reachable, Exists
    <3> QED BY <1>a, <2>1, <2>3, <3>1, BeginType DEF ownerVars, portVars, threadVars, socketVars, TypeOK
  <2> QED BY <2>1, <2>2, <2>3
<1>11. ASSUME NEW t \in Writer, Finish(t) PROVE TypeOK' /\ SendsOfService'
  <2>1. sending[t] \in 0 .. MaxSends
    BY <1>11, InProgressType DEF Finish, BeingCopied
  <2>2. buf' \in (0 .. MaxSends) \X (0 .. MaxSends)
    BY <1>11, <1>a, <2>1 DEF Finish, TypeOK
  <2>3. /\ UNCHANGED <<ownerVars, started, portVars, threadVars, socketVars, pastVars>>
        /\ UNCHANGED <<sends, sending, inflight, wire, overlaps>> /\ copying' = copying \ {t}
    BY <1>11 DEF Finish
  <2>4. TypeOK'
    BY <1>a, <2>2, <2>3 DEF ownerVars, portVars, threadVars, socketVars, pastVars, TypeOK
  <2>5. SendsOfService'
    BY <1>a, <2>3 DEF ownerVars, SendsOfService, Exists
  <2> QED BY <2>4, <2>5
<1>12. ASSUME NEW t \in Writer, Post(t) PROVE TypeOK' /\ SendsOfService'
  <2>1. /\ sending' \in [Writer -> Dangling .. MaxSends]
        /\ \A u \in Writer : sending'[u] = sending[u] \/ (u = t /\ sending'[u] = 0)
    BY <1>12, <1>a DEF Post, TypeOK, NoMessage, Dangling
  <2>2. sending[t] = Dangling \/ sending[t] \in 1 .. MaxSends
    BY <1>12, <1>a DEF Post, TypeOK, NoMessage, Dangling
  <2>3. fault' \in BOOLEAN /\ inflight' \subseteq 1 .. MaxSends
    BY <1>12, <1>a, <2>2 DEF Post, TypeOK
  <2>4. TypeOK'
    BY <1>12, <1>a, <2>1, <2>3 DEF Post, ownerVars, portVars, threadVars, socketVars, TypeOK
  <2>5. ~Exists => inflight' = {}
    BY <1>12, <1>a, <2>2 DEF Post, SendsOfService
  <2>6. \A u \in copying : sending'[u] > 0
    BY <1>12, <1>a, <2>1 DEF Post, Copied, SendsOfService, TypeOK
  <2>7. ~Exists => \A u \in Writer : sending'[u] <= 0
    BY <1>a, <2>1 DEF SendsOfService
  <2> QED BY <1>12, <1>a, <2>4, <2>5, <2>6, <2>7 DEF Post, ownerVars, SendsOfService, Exists
<1>13. ASSUME NEW m \in 1 .. MaxSends, Transmit(m) PROVE TypeOK' /\ SendsOfService'
  <2>1. port' \in Seq(Completed)
    BY <1>13, <1>a, CompletedTypes, AppendCompleted DEF Transmit, TypeOK
  <2>2. wire' \subseteq [sent : 1 .. MaxSends, carried : (0 .. MaxSends) \X (0 .. MaxSends)]
    BY <1>13, <1>a DEF Transmit, TypeOK
  <2> QED
    BY <1>13, <1>a, <2>1, <2>2 DEF Transmit, ownerVars, threadVars, socketVars, pastVars,
       TypeOK, SendsOfService, Exists
<1> QED
  BY <1>1, <1>2, <1>3, <1>4, <1>5, <1>6, <1>7, <1>8, <1>9, <1>10, <1>11, <1>12, <1>13 DEF Next

\* The type of every variable.
THEOREM TypeCorrect == Spec => []TypeOK
<1>1. Spec => []TInv
  BY TInit, TNext, PTL DEF Spec
<1> QED BY <1>1, PTL DEF TInv

-----------------------------------------------------------------------------
(* The send buffer. *)

\* What has been copied whole and not been transmitted.
Complete == ({sending[t] : t \in Writer \ copying} \union inflight) \ {NoMessage, Dangling}

\* Whoever has yet to copy its second half overlaps with all others, and a half of the
\* buffer is another's only if that overlaps.
Overlapping ==
    /\ \A n \in BeingCopied, m \in InProgress : m = n \/ <<m, n>> \in overlaps
    /\ \A m \in InProgress : buf[1] = m \/ <<m, buf[1]>> \in overlaps
    /\ \A m \in Complete : buf[2] = m \/ <<m, buf[2]>> \in overlaps

BInv == Overlapping /\ CarriesWhatOverlaps

LEMMA BInit == Init => BInv
<1> SUFFICES ASSUME Init PROVE BInv
  OBVIOUS
<1>1. InProgress = {} /\ Complete = {} /\ wire = {}
  BY DEF Init, InProgress, Complete
<1> QED BY <1>1 DEF BInv, Overlapping, CarriesWhatOverlaps

LEMMA BSame ==
    ASSUME BInv, UNCHANGED sendVars
    PROVE  BInv'
BY DEF sendVars, BInv, Overlapping, CarriesWhatOverlaps, BeingCopied, InProgress, Complete

\* Whoever begins to copy overlaps with all that is in progress.
LEMMA BBegin ==
    ASSUME TInv, BInv, NEW t \in Writer, Begin(t)
    PROVE  BInv'
<1> DEFINE new == sends + 1
<1>1. /\ sending[t] = NoMessage /\ sending' = [sending EXCEPT ![t] = new] /\ copying' = copying \union {t}
      /\ buf'[1] = new /\ buf'[2] = buf[2] /\ inflight' = inflight /\ wire' = wire
      /\ overlaps' = overlaps \union (InProgress \X {new}) \union ({new} \X BeingCopied)
      /\ sending \in [Writer -> Dangling .. MaxSends] /\ copying \subseteq Writer
  BY DEF Begin, TInv, TypeOK
<1> HIDE DEF new
<1>2. \A u \in Writer : sending'[u] = IF u = t THEN new ELSE sending[u]
  BY <1>1
<1>3. InProgress' \subseteq InProgress \union {new}
  BY <1>1, <1>2 DEF InProgress
<1>4. BeingCopied' \subseteq BeingCopied \union {new}
  BY <1>1, <1>2 DEF BeingCopied
<1>5. Complete' \subseteq Complete
  BY <1>1, <1>2 DEF Complete
<1>6. Overlapping'
  BY <1>1, <1>3, <1>4, <1>5 DEF BInv, Overlapping
<1>7. CarriesWhatOverlaps'
  BY <1>1 DEF BInv, CarriesWhatOverlaps
<1> QED BY <1>6, <1>7 DEF BInv

LEMMA BNext == TInv /\ BInv /\ [Next]_vars => BInv'
<1> SUFFICES ASSUME TInv, BInv, [Next]_vars PROVE BInv'
  OBVIOUS
<1>a. sending \in [Writer -> Dangling .. MaxSends] /\ copying \subseteq Writer /\ inflight \subseteq 1 .. MaxSends
  BY DEF TInv, TypeOK
<1>1. CASE Bind \/ Destroy
  <2>1. /\ \A t \in Writer : sending'[t] \in {NoMessage, Dangling}
        /\ inflight' = {} /\ copying' = {} /\ wire' = wire /\ overlaps' = overlaps
    <3>1. CASE Bind
      <4>1. /\ inflight = {} /\ \A t \in Writer : sending[t] <= 0
        BY <3>1 DEF Bind, TInv, SendsOfService, Exists
      <4>2. \A n \in Dangling .. MaxSends : n <= 0 => n \in {NoMessage, Dangling}
        BY DEF Dangling, NoMessage
      <4>3. copying = {}
        BY <1>a, <4>1 DEF TInv, SendsOfService, Dangling
      <4> QED BY <1>a, <3>1, <4>1, <4>2, <4>3 DEF Bind
    <3>2. CASE Destroy
      BY <1>a, <3>2 DEF Destroy
    <3> QED BY <1>1, <3>1, <3>2
  <2>2. InProgress' = {} /\ BeingCopied' = {} /\ Complete' = {}
    BY <2>1 DEF InProgress, BeingCopied, Complete
  <2> QED BY <2>1, <2>2 DEF BInv, Overlapping, CarriesWhatOverlaps
<1>2. CASE UNCHANGED sendVars
  BY <1>2, BSame
<1>3. ASSUME NEW t \in Service, Answer(t) PROVE BInv'
  <2>1. UNCHANGED sendVars \/ (t \in Writer /\ Begin(t))
    BY <1>3 DEF Answer, Writer
  <2> QED BY <2>1, BSame, BBegin
<1>4. ASSUME NEW t \in Sender, Call(t) PROVE BInv'
  <2>1. UNCHANGED sendVars \/ (t \in Writer /\ Begin(t))
    BY <1>4 DEF Call, Writer
  <2> QED BY <2>1, BSame, BBegin
<1>5. ASSUME NEW t \in Writer, Finish(t) PROVE BInv'
  <2> DEFINE n == sending[t]
  <2>1. /\ t \in copying /\ copying' = copying \ {t}
        /\ buf'[1] = buf[1] /\ buf'[2] = n
        /\ UNCHANGED <<sending, inflight, wire, overlaps>>
    BY <1>5 DEF Finish, TInv, TypeOK
  <2>2. n \in BeingCopied
    BY <2>1 DEF BeingCopied
  <2>3. InProgress' = InProgress /\ BeingCopied' \subseteq BeingCopied
    BY <2>1 DEF InProgress, BeingCopied
  <2>4. Complete' \subseteq InProgress
    BY <2>1 DEF InProgress, Complete
  <2>5. Overlapping'
    BY <2>1, <2>2, <2>3, <2>4 DEF BInv, Overlapping
  <2> QED BY <2>1, <2>5 DEF BInv, CarriesWhatOverlaps
<1>6. ASSUME NEW t \in Writer, Post(t) PROVE BInv'
  <2>1. /\ t \notin copying /\ sending[t] # NoMessage
        /\ \A u \in Writer : sending'[u] = IF u = t THEN NoMessage ELSE sending[u]
        /\ inflight' \subseteq inflight \union {sending[t]}
        /\ sending[t] = Dangling => inflight' = inflight
        /\ UNCHANGED <<buf, copying, wire, overlaps>>
    BY <1>6, <1>a DEF Post, Copied
  <2>2. InProgress' \subseteq InProgress
    BY <1>a, <2>1 DEF InProgress
  <2>3. BeingCopied' \subseteq BeingCopied
    BY <1>a, <2>1 DEF BeingCopied
  <2>4. Complete' \subseteq Complete
    BY <1>a, <2>1 DEF Complete
  <2>5. Overlapping'
    BY <2>1, <2>2, <2>3, <2>4 DEF BInv, Overlapping
  <2> QED BY <2>1, <2>5 DEF BInv, CarriesWhatOverlaps
<1>7. ASSUME NEW m \in 1 .. MaxSends, Transmit(m) PROVE BInv'
  <2>1. /\ m \in inflight /\ inflight' = inflight \ {m}
        /\ wire' = wire \union {[sent |-> m, carried |-> buf]}
        /\ UNCHANGED <<buf, sending, copying, overlaps>>
    BY <1>7 DEF Transmit
  <2>2. m # NoMessage /\ m # Dangling
    BY DEF NoMessage, Dangling
  <2>3. m \in InProgress /\ m \in Complete
    BY <2>1, <2>2 DEF InProgress, Complete
  <2>4. InProgress' \subseteq InProgress /\ BeingCopied' = BeingCopied /\ Complete' \subseteq Complete
    BY <2>1 DEF InProgress, BeingCopied, Complete
  <2>5. Overlapping'
    BY <2>1, <2>4 DEF BInv, Overlapping
  <2>6. \A half \in {1, 2} : buf[half] = m \/ <<m, buf[half]>> \in overlaps
    BY <2>3 DEF BInv, Overlapping
  <2>7. ASSUME NEW w \in wire', NEW half \in {1, 2}
        PROVE  w.carried[half] = w.sent \/ <<w.sent, w.carried[half]>> \in overlaps
    <3>1. CASE w \in wire
      BY <3>1 DEF BInv, CarriesWhatOverlaps
    <3>2. CASE w = [sent |-> m, carried |-> buf]
      BY <2>6, <3>2
    <3> QED BY <2>1, <3>1, <3>2
  <2>8. CarriesWhatOverlaps'
    BY <2>1, <2>7 DEF CarriesWhatOverlaps
  <2> QED BY <2>5, <2>8 DEF BInv
<1> QED
  BY <1>1, <1>2, <1>3, <1>4, <1>5, <1>6, <1>7 DEF Next, vars, SpawnThread, SetStarted, GoOnline, GoOffline,
     Arrive, Receive, ReceiveNothing, Run, Return, HandleSend, HandleReceive, Test, Answered, Rearm

\* However many threads send and however their copies and sends interleave, a datagram
\* carries, half by half, its own message or one copied while it was being sent.
THEOREM CarriesOwnOrOverlapping == Spec => []CarriesWhatOverlaps
<1>1. TInv /\ BInv /\ [Next]_vars => (TInv /\ BInv)'
  BY TNext, BNext
<1>2. Init => TInv /\ BInv
  BY TInit, BInit
<1>3. BInv => CarriesWhatOverlaps
  BY DEF BInv
<1> QED BY <1>1, <1>2, <1>3, PTL DEF Spec

-----------------------------------------------------------------------------
(* What a port holds of a service. *)

LEMMA AppendReceipts ==
    ASSUME NEW p \in Seq(Completed), NEW e \in Completed, NEW g
    PROVE  Receipts(Append(p, e), g) =
             IF e.op = "receive" /\ e.of = g THEN Receipts(p, g) \union {Len(p) + 1} ELSE Receipts(p, g)
<1>1. /\ Len(Append(p, e)) = Len(p) + 1
      /\ \A q \in 1 .. Len(p) : Append(p, e)[q] = p[q]
      /\ Append(p, e)[Len(p) + 1] = e
      /\ DOMAIN p = 1 .. Len(p) /\ DOMAIN Append(p, e) = 1 .. Len(p) + 1
      /\ Len(p) \in Nat
  BY AppendProperties, LenProperties
<1> QED BY <1>1 DEF Receipts

LEMMA StopReceipts ==
    ASSUME TypeOK, NEW t, NEW p \in Seq(Completed), StopIfIdle(t, p), NEW g
    PROVE  Receipts(port', g) = Receipts(p, g)
<1>1. StopEvent \in Completed /\ StopEvent.op # "receive"
  BY CompletedTypes DEF StopEvent
<1>2. port' = p \/ port' = Append(p, StopEvent)
  BY StopPort
<1>3. Receipts(Append(p, StopEvent), g) = Receipts(p, g)
  BY <1>1, AppendReceipts
<1> QED BY <1>2, <1>3

LEMMA TailReceipts ==
    ASSUME NEW p \in Seq(Completed), p # <<>>, NEW g
    PROVE  /\ Head(p) = p[1] /\ Head(p) \in Completed /\ Tail(p) \in Seq(Completed)
           /\ Receipts(Tail(p), g) = {q \in 1 .. Len(p) - 1 : q + 1 \in Receipts(p, g)}
           /\ 1 \in Receipts(p, g) <=> Head(p).op = "receive" /\ Head(p).of = g
           /\ Receipts(p, g) \subseteq 1 .. Len(p)
<1>1. /\ Head(p) = p[1] /\ Head(p) \in Completed /\ Tail(p) \in Seq(Completed)
      /\ Len(p) \in Nat /\ Len(p) > 0 /\ DOMAIN p = 1 .. Len(p)
      /\ DOMAIN Tail(p) = 1 .. Len(p) - 1
      /\ \A q \in 1 .. Len(p) - 1 : Tail(p)[q] = p[q + 1]
  BY HeadTailProperties, LenProperties, EmptySeq, ElementOfSeq
<1> QED BY <1>1 DEF Receipts

\* What close() completes belongs to the service that is destroyed, if it had a receive.
LEMMA AbortedReceipts ==
    ASSUME TypeOK, NEW p \in Seq(Completed), NEW g
    PROVE  Receipts(p \o Aborted, g) =
             IF armed /\ g = gen THEN Receipts(p, g) \union {Len(p) + 1} ELSE Receipts(p, g)
<1> DEFINE first == IF armed THEN <<Receipt(gen, Nothing)>> ELSE <<>>
           rest == [m \in 1 .. Cardinality(inflight) |-> Sent]
<1>1. Cardinality(inflight) \in Nat /\ Aborted \in Seq(Completed) /\ armed \in BOOLEAN
  BY AbortedType DEF TypeOK
<1>2. rest \in Seq(Completed) /\ Len(rest) = Cardinality(inflight)
      /\ \A m \in 1 .. Len(rest) : rest[m] = Sent
  BY <1>1, CompletedTypes, IsASeq, LenProperties
<1>3. first \in Seq(Completed) /\ Aborted = first \o rest
  BY CompletedTypes DEF TypeOK, Aborted
<1>4. /\ armed => Len(first) = 1 /\ first[1] = Receipt(gen, Nothing)
      /\ ~armed => Len(first) = 0
  OBVIOUS
<1> HIDE DEF first, rest
<1>5. /\ Len(Aborted) = Len(first) + Len(rest)
      /\ \A m \in 1 .. Len(Aborted) : Aborted[m] = IF m <= Len(first) THEN first[m] ELSE rest[m - Len(first)]
  <2>1. /\ Len(first \o rest) = Len(first) + Len(rest)
        /\ \A m \in 1 .. Len(first) + Len(rest) :
              (first \o rest)[m] = IF m <= Len(first) THEN first[m] ELSE rest[m - Len(first)]
    BY <1>2, <1>3, ConcatProperties
  <2> QED BY <1>3, <2>1
<1>6. /\ armed => Len(Aborted) >= 1 /\ Aborted[1] = Receipt(gen, Nothing)
      /\ \A m \in 1 .. Len(Aborted) : Aborted[m] = Sent \/ (armed /\ m = 1)
  BY <1>1, <1>2, <1>3, <1>4, <1>5, LenProperties
<1>7. /\ DOMAIN (p \o Aborted) = 1 .. Len(p) + Len(Aborted)
      /\ DOMAIN p = 1 .. Len(p) /\ Len(p) \in Nat /\ Len(Aborted) \in Nat
      /\ \A q \in 1 .. Len(p) : (p \o Aborted)[q] = p[q]
      /\ \A q \in 1 .. Len(p) + Len(Aborted) : q > Len(p) => (p \o Aborted)[q] = Aborted[q - Len(p)]
  BY <1>1, ConcatProperties, LenProperties
<1>8. Sent.op # "receive" /\ Receipt(gen, Nothing).op = "receive" /\ Receipt(gen, Nothing).of = gen
  BY DEF Sent, Receipt
<1>9. ASSUME NEW q \in 1 .. Len(p) + Len(Aborted), q > Len(p)
      PROVE  (p \o Aborted)[q].op = "receive" /\ (p \o Aborted)[q].of = g <=> armed /\ g = gen /\ q = Len(p) + 1
  <2>1. q - Len(p) \in 1 .. Len(Aborted) /\ (p \o Aborted)[q] = Aborted[q - Len(p)]
    BY <1>7, <1>9
  <2> QED BY <2>1, <1>6, <1>7, <1>8
<1>10. armed => Len(p) + 1 \in 1 .. Len(p) + Len(Aborted)
  BY <1>6, <1>7
<1> QED BY <1>1, <1>7, <1>9, <1>10 DEF Receipts

-----------------------------------------------------------------------------
(* The receive of a service. *)

\* Receives that are completed or handled are of services there have been, and a thread
\* is about a service exactly while it handles a receive.
Known ==
    /\ \A g \in Int : Receipts(port, g) # {} => g \in 1 .. gen
    /\ \A t \in Service :
        /\ about[t] <= gen
        /\ about[t] # 0 <=> io[t] \in {"received", "answering", "sending", "handled"}

\* A service has one receive at most, wherever it is.
Exclusive(g) ==
    /\ armed /\ g = gen => Receipts(port, g) = {} /\ Handling(g) = {}
    /\ Receipts(port, g) = {} \/ Handling(g) = {}
    /\ \A p, q \in Receipts(port, g) : p = q
    /\ \A t, u \in Handling(g) : t = u

\* The service there is has one, or a handler ended early.
Heard ==
    /\ ~Exists => ~armed
    /\ Exists => armed \/ Receipts(port, gen) # {} \/ Handling(gen) # {} \/ early
    /\ pc \in {"started", "online", "leaving"} => started

\* A service that has not started its thread yet has none.
Unstarted == \A t \in Service : t > gen \/ (t = gen /\ pc = "bound") => io[t] = "none"

RInv == TInv /\ Unstarted /\ Known /\ (\A g \in Service : Exclusive(g)) /\ Heard

LEMMA RInit == Init => RInv
<1> SUFFICES ASSUME Init PROVE RInv
  OBVIOUS
<1>1. TInv
  BY TInit
<1>2. /\ \A g : Receipts(port, g) = {}
      /\ \A g \in Service : Handling(g) = {}
  BY EmptySeq DEF Init, Receipts, Handling, Service
<1>3. Known
  BY <1>2 DEF Init, Known
<1>4. \A g \in Service : Exclusive(g)
  BY <1>2 DEF Init, Exclusive
<1>5. Heard
  BY DEF Init, Heard, Exists
<1>6. Unstarted
  BY DEF Init, Unstarted
<1> QED BY <1>1, <1>3, <1>4, <1>5, <1>6 DEF RInv

LEMMA UNext == TInv /\ Unstarted /\ [Next]_vars => Unstarted'
<1> SUFFICES ASSUME TInv, Unstarted, [Next]_vars PROVE Unstarted'
  OBVIOUS
<1>1. gen \in 0 .. MaxOnline /\ io \in [Service -> IoState]
  BY DEF TInv, TypeOK
<1>2. CASE Bind
  BY <1>1, <1>2 DEF Bind, threadVars, Unstarted, Service
<1>3. CASE SpawnThread
  BY <1>1, <1>3 DEF SpawnThread, Unstarted, Service
<1>4. CASE SetStarted \/ GoOnline \/ GoOffline \/ Destroy
  BY <1>4 DEF SetStarted, GoOnline, GoOffline, Destroy, threadVars, Unstarted
<1>5. CASE UNCHANGED <<pc, gen, io>>
  BY <1>5 DEF Unstarted
<1>6. ASSUME NEW t \in Service, Run(t) \/ Return(t) \/ HandleSend(t) \/ HandleReceive(t) \/ Test(t) \/ Answer(t) \/ Answered(t) \/ Rearm(t)
      PROVE  Unstarted'
  <2>1. pc' = pc /\ gen' = gen /\ io[t] # "none" /\ \A u \in Service \ {t} : io'[u] = io[u]
    BY <1>1, <1>6 DEF Run, Return, HandleSend, HandleReceive, Test, Answer, Answered, Rearm, ownerVars, threadVars
  <2> QED BY <2>1 DEF Unstarted
<1>7. CASE \/ \E d \in Datagram : Arrive(d) \/ Receive(d)
           \/ ReceiveNothing
           \/ \E t \in Sender : Call(t)
           \/ \E t \in Writer : Finish(t) \/ Post(t)
           \/ \E m \in 1 .. MaxSends : Transmit(m)
  BY <1>5, <1>7 DEF Arrive, Receive, ReceiveNothing, Call, Finish, Post, Transmit, ownerVars, threadVars
<1>8. CASE UNCHANGED vars
  BY <1>5, <1>8 DEF vars, ownerVars, threadVars
<1> QED BY <1>2, <1>3, <1>4, <1>6, <1>7, <1>8 DEF Next

\* Two ports that hold as many receives of a service, as far as none, one and more go.
Alike(p, q, g) ==
    /\ Receipts(p, g) = {} <=> Receipts(q, g) = {}
    /\ (\A a, b \in Receipts(q, g) : a = b) => \A a, b \in Receipts(p, g) : a = b

\* Taking what is not a receive of g, or the only one.
LEMMA TailAlike ==
    ASSUME NEW p \in Seq(Completed), p # <<>>, NEW g
    PROVE  /\ ~(Head(p).op = "receive" /\ Head(p).of = g) => Alike(Tail(p), p, g)
           /\ Head(p).op = "receive" /\ Head(p).of = g /\ (\A a, b \in Receipts(p, g) : a = b)
                 => Receipts(Tail(p), g) = {}
<1>1. /\ Receipts(Tail(p), g) = {q \in 1 .. Len(p) - 1 : q + 1 \in Receipts(p, g)}
      /\ 1 \in Receipts(p, g) <=> Head(p).op = "receive" /\ Head(p).of = g
      /\ Receipts(p, g) \subseteq 1 .. Len(p)
      /\ Len(p) \in Nat
  BY TailReceipts, LenProperties
<1>2. \A q \in Receipts(p, g) : q # 1 => q - 1 \in Receipts(Tail(p), g)
  BY <1>1
<1>3. \A q \in Receipts(Tail(p), g) : q + 1 \in Receipts(p, g) /\ q \in Nat /\ q + 1 # 1
  BY <1>1
<1>4. ASSUME 1 \notin Receipts(p, g) PROVE Alike(Tail(p), p, g)
  <2>1. Receipts(Tail(p), g) = {} <=> Receipts(p, g) = {}
    BY <1>2, <1>3, <1>4
  <2>2. ASSUME \A a, b \in Receipts(p, g) : a = b, NEW a \in Receipts(Tail(p), g), NEW b \in Receipts(Tail(p), g)
        PROVE  a = b
    <3>1. a + 1 = b + 1 /\ a \in Nat /\ b \in Nat
      BY <1>3, <2>2
    <3> QED BY <3>1
  <2> QED BY <2>1, <2>2 DEF Alike
<1>5. ASSUME 1 \in Receipts(p, g), \A a, b \in Receipts(p, g) : a = b PROVE Receipts(Tail(p), g) = {}
  BY <1>3, <1>5
<1> QED BY <1>1, <1>4, <1>5

\* A step that moves no receive.
LEMMA RSame ==
    ASSUME RInv, TInv', Unstarted', gen' = gen, about' = about, armed' = armed,
           \A g : Alike(port', port, g),
           \A t \in Service : io'[t] \in {"received", "answering", "sending", "handled"} <=>
                              io[t] \in {"received", "answering", "sending", "handled"},
           ~Exists' => ~armed',
           Exists' => Exists, early' = early,
           pc' \in {"started", "online", "leaving"} => started'
    PROVE  RInv'
<1>1. \A g : Handling(g)' = Handling(g)
  BY DEF Handling
<1>2. Known'
  BY DEF RInv, Known, Alike
<1>3. \A g \in Service : Exclusive(g)'
  BY <1>1 DEF RInv, Exclusive, Alike
<1>4. Heard'
  BY <1>1 DEF RInv, Heard, Alike
<1> QED BY <1>2, <1>3, <1>4 DEF RInv

LEMMA RNext == RInv /\ [Next]_vars => RInv'
<1> SUFFICES ASSUME RInv, [Next]_vars PROVE RInv'
  OBVIOUS
<1>a. TInv /\ TInv' /\ TypeOK /\ Unstarted /\ Unstarted'
  BY TNext, UNext DEF RInv, TInv
<1>b. gen \in 0 .. MaxOnline /\ (Exists => gen > 0) /\ port \in Seq(Completed) /\ armed \in BOOLEAN
  BY <1>a DEF TInv, TypeOK, SendsOfService
<1>1. CASE UNCHANGED vars
  <2>1. pc' = pc /\ gen' = gen /\ started' = started /\ port' = port /\ io' = io /\ about' = about /\ armed' = armed /\ early' = early
    BY <1>1 DEF vars, ownerVars, portVars, threadVars, socketVars, pastVars
  <2> QED BY <1>a, <2>1, RSame DEF RInv, Heard, Exists, Alike
<1>2. CASE Bind
  <2>1. /\ gen' = gen + 1 /\ armed' /\ port' = port /\ io' = io /\ about' = about /\ ~Exists /\ Exists' /\ pc' = "bound"
        /\ ~armed
    BY <1>2 DEF Bind, portVars, threadVars, Exists, RInv, Heard
  <2>2. /\ \A g : Receipts(port', g) = Receipts(port, g) /\ Handling(g)' = Handling(g)
        /\ Receipts(port, gen + 1) = {} /\ Handling(gen + 1) = {}
    BY <2>1, <1>b DEF RInv, Known, Handling
  <2>3. Known'
    <3>1. gen + 1 \in Int /\ 1 .. gen \subseteq 1 .. gen + 1
      BY <1>b
    <3>2. \A t \in Service : about[t] <= gen + 1
      BY <1>a, <1>b DEF RInv, Known, TypeOK
    <3> QED BY <2>1, <2>2, <3>1, <3>2 DEF RInv, Known
  <2>4. \A g \in Service : Exclusive(g)'
    BY <2>1, <2>2 DEF RInv, Exclusive
  <2>5. Heard'
    BY <2>1 DEF Heard, Exists
  <2> QED BY <1>a, <2>3, <2>4, <2>5 DEF RInv
<1>3. CASE SpawnThread
  <2>1. /\ gen' = gen /\ port' = port /\ about' = about /\ armed' = armed /\ early' = early
        /\ Exists /\ Exists' /\ pc' = "spawned" /\ io' = [io EXCEPT ![gen] = "entering"]
    BY <1>3 DEF SpawnThread, portVars, socketVars, pastVars, Exists
  <2>2. gen \in Service /\ io[gen] = "none" /\ io \in [Service -> IoState]
    BY <1>3, <1>a, <1>b, <2>1 DEF SpawnThread, Unstarted, Service, TypeOK
  <2> QED BY <1>a, <2>1, <2>2, RSame DEF Alike
<1>4. CASE SetStarted \/ GoOnline \/ GoOffline
  <2>1. /\ gen' = gen /\ port' = port /\ about' = about /\ armed' = armed /\ early' = early /\ io' = io
        /\ Exists /\ Exists' /\ started'
    BY <1>4 DEF SetStarted, StartedAfter, GoOnline, GoOffline, portVars, threadVars, socketVars, pastVars,
       Exists, RInv, Heard
  <2> QED BY <1>a, <2>1, RSame DEF Alike
<1>5. CASE Destroy
  <2>1. /\ gen' = gen /\ ~armed' /\ io' = io /\ about' = about /\ ~Exists' /\ Exists /\ pc' = "offline"
    BY <1>5 DEF Destroy, threadVars, Exists
  <2>2. ASSUME NEW g
        PROVE  Receipts(port', g) = IF armed /\ g = gen
                                    THEN Receipts(port, g) \union {Len(IF stopped THEN port ELSE Append(port, StopEvent)) + 1}
                                    ELSE Receipts(port, g)
    <3> DEFINE p == IF stopped THEN port ELSE Append(port, StopEvent)
    <3>1. p \in Seq(Completed) /\ Receipts(p, g) = Receipts(port, g)
      <4>1. Receipts(Append(port, StopEvent), g) = Receipts(port, g)
        BY <1>b, CompletedTypes, AppendReceipts DEF StopEvent
      <4> QED BY <4>1, <1>b, CompletedTypes, AppendCompleted
    <3>2. port' = p \o Aborted
      BY <1>5 DEF Destroy
    <3> HIDE DEF p
    <3>3. Receipts(p \o Aborted, g) = IF armed /\ g = gen THEN Receipts(p, g) \union {Len(p) + 1} ELSE Receipts(p, g)
      BY <3>1, <1>a, AbortedReceipts
    <3> QED BY <3>1, <3>2, <3>3 DEF p
  <2>3. \A g : Handling(g)' = Handling(g)
    BY <2>1 DEF Handling
  <2>4. Known'
    BY <2>1, <2>2, <1>b DEF RInv, Known
  <2>5. \A g \in Service : Exclusive(g)'
    BY <2>1, <2>2, <2>3, <1>b DEF RInv, Exclusive
  <2>6. Heard'
    BY <2>1 DEF Heard
  <2> QED BY <1>a, <2>4, <2>5, <2>6 DEF RInv
<1>6. ASSUME NEW d \in Datagram, Arrive(d) PROVE RInv'
  <2>1. pc' = pc /\ gen' = gen /\ started' = started /\ port' = port /\ io' = io /\ about' = about /\ armed' = armed /\ early' = early
    BY <1>6 DEF Arrive, ownerVars, portVars, threadVars, pastVars
  <2> QED BY <1>a, <2>1, RSame DEF RInv, Heard, Exists, Alike
<1>7. ASSUME NEW got \in Datagram \union {Nothing}, armed, ~armed', port' = Append(port, Receipt(gen, got)),
             pc' = pc, gen' = gen, started' = started, io' = io, about' = about, early' = early
      PROVE  RInv'
  <2>1. \A g : Receipts(port', g) = IF g = gen THEN Receipts(port, g) \union {Len(port) + 1} ELSE Receipts(port, g)
    <3>1. Receipt(gen, got) \in Completed /\ Receipt(gen, got).op = "receive" /\ Receipt(gen, got).of = gen
      BY CompletedTypes, <1>b DEF Receipt
    <3> QED BY <1>7, <3>1, <1>b, AppendReceipts
  <2>2. \A g : Handling(g)' = Handling(g)
    BY <1>7 DEF Handling
  <2>3. Exists /\ Exists' /\ gen \in 1 .. gen
    BY <1>7, <1>b DEF RInv, Heard, Exists
  <2>4. Known'
    BY <1>7, <2>1, <2>3 DEF RInv, Known
  <2>5. \A g \in Service : Exclusive(g)'
    BY <1>7, <2>1, <2>2 DEF RInv, Exclusive
  <2>6. Heard'
    BY <1>7, <2>1, <2>3 DEF RInv, Heard
  <2> QED BY <1>a, <2>4, <2>5, <2>6 DEF RInv
<1>8. ASSUME NEW t \in Service, Run(t) \/ Return(t) \/ HandleSend(t) PROVE RInv'
  <2>1. \A g : Alike(port', port, g)
    <3>1. CASE Run(t)
      <4>1. \A g : Receipts(port', g) = Receipts(port, g)
        BY <3>1, <1>a, <1>b, StopReceipts DEF Run
      <4> QED BY <4>1 DEF Alike
    <3>2. ASSUME NEW rest, rest = Tail(port), port # <<>>, Head(port).op # "receive", NEW g,
                 Receipts(port', g) = Receipts(rest, g)
          PROVE  Alike(port', port, g)
      BY <3>2, <1>b, TailAlike DEF Alike
    <3>3. CASE Return(t)
      <4>1. /\ port # <<>> /\ Tail(port) \in Seq(Completed) /\ StopEvent \in Completed
            /\ Head(port).op # "receive" /\ StopEvent.op # "receive"
        BY <3>3, <1>b, HeadTailProperties, CompletedTypes DEF Return, StopEvent
      <4>2. \A g : Receipts(Append(Tail(port), StopEvent), g) = Receipts(Tail(port), g)
        BY <4>1, AppendReceipts
      <4>3. port' = Append(Tail(port), StopEvent)
        BY <3>3 DEF Return
      <4> QED BY <3>2, <4>1, <4>2, <4>3
    <3>4. CASE HandleSend(t)
      <4>1. /\ port # <<>> /\ Tail(port) \in Seq(Completed) /\ Head(port).op # "receive"
        BY <3>4, <1>b, HeadTailProperties DEF HandleSend, Sent
      <4>2. \A g : Receipts(port', g) = Receipts(Tail(port), g)
        BY <3>4, <4>1, <1>a, StopReceipts DEF HandleSend
      <4> QED BY <3>2, <4>1, <4>2
    <3> QED BY <1>8, <3>1, <3>3, <3>4
  <2>2. /\ pc' = pc /\ gen' = gen /\ started' = started /\ about' = about /\ armed' = armed /\ early' = early
    BY <1>8 DEF Run, Return, HandleSend, ownerVars, threadVars, socketVars, pastVars
  <2>3. \A u \in Service : io'[u] \in {"received", "answering", "sending", "handled"} <=>
                           io[u] \in {"received", "answering", "sending", "handled"}
    <3>1. io \in [Service -> IoState]
      BY <1>a DEF TypeOK
    <3>2. \/ io' = io
          \/ /\ io[t] \in {"entering", "polling"}
             /\ io' = [io EXCEPT ![t] = "polling"] \/ io' = [io EXCEPT ![t] = "ended"]
      BY <1>8 DEF Run, Return, HandleSend, threadVars
    <3> QED BY <3>1, <3>2
  <2> QED BY <1>a, <2>1, <2>2, <2>3, RSame DEF RInv, Heard, Exists
<1>9. ASSUME NEW t \in Service, HandleReceive(t) PROVE RInv'
  <2>a. PICK h : h = Head(port).of
    OBVIOUS
  <2>1. /\ port # <<>> /\ Head(port).op = "receive" /\ port' = Tail(port)
        /\ pc' = pc /\ gen' = gen /\ started' = started /\ armed' = armed /\ early' = early
        /\ about' = [about EXCEPT ![t] = h] /\ io[t] = "polling"
        /\ io' = [io EXCEPT ![t] = "handled"] \/ io' = [io EXCEPT ![t] = "received"]
    BY <1>9, <2>a DEF HandleReceive, ownerVars, socketVars
  <2>2. io \in [Service -> IoState] /\ about \in [Service -> 0 .. MaxOnline] /\ about[t] = 0
    BY <1>a, <2>1 DEF TypeOK, RInv, Known
  <2>3. 1 \in Receipts(port, h) /\ h \in 1 .. gen /\ h \in Service
    <3>1. 1 \in Receipts(port, h) /\ Head(port) \in Completed
      BY <1>b, <2>a, <2>1, TailReceipts
    <3>2. h \in Int
      BY <2>a, <3>1 DEF Completed
    <3> QED BY <3>1, <3>2, <1>b DEF RInv, Known, Service
  <2>4. Receipts(port', h) = {} /\ \A g : g # h => Alike(port', port, g)
    <3>1. \A a, b \in Receipts(port, h) : a = b
      BY <2>3 DEF RInv, Exclusive
    <3> QED BY <1>b, <2>a, <2>1, <3>1, TailAlike
  <2>5. /\ Handling(h) = {} /\ ~(armed /\ h = gen)
        /\ Handling(h)' = {t}
        /\ \A g \in Service : g # h => Handling(g)' = Handling(g)
    <3>1. Handling(h) = {} /\ ~(armed /\ h = gen)
      BY <2>3 DEF RInv, Exclusive
    <3> QED BY <2>1, <2>2, <2>3, <3>1 DEF Handling, Service
  <2>6. Known'
    <3>1. \A g \in Int : Receipts(port', g) # {} => g \in 1 .. gen
      BY <2>4 DEF RInv, Known, Alike
    <3>2. ASSUME NEW u \in Service
          PROVE  about'[u] <= gen /\ (about'[u] # 0 <=> io'[u] \in {"received", "answering", "sending", "handled"})
      BY <2>1, <2>2, <2>3 DEF RInv, Known
    <3> QED BY <2>1, <3>1, <3>2 DEF Known
  <2>7. \A g \in Service : Exclusive(g)'
    <3>1. Exclusive(h)'
      BY <2>1, <2>4, <2>5 DEF Exclusive
    <3>2. ASSUME NEW g \in Service, g # h PROVE Exclusive(g)'
      BY <2>1, <2>4, <2>5, <3>2 DEF RInv, Exclusive, Alike
    <3> QED BY <3>1, <3>2
  <2>8. Heard'
    <3>1. CASE h = gen
      BY <2>1, <2>5, <3>1 DEF RInv, Heard, Exists
    <3>2. CASE h # gen
      <4>1. Exists => gen \in Service
        BY <1>b DEF Service
      <4> QED BY <2>1, <2>4, <2>5, <3>2, <4>1 DEF RInv, Heard, Exists, Alike
    <3> QED BY <3>1, <3>2
  <2> QED BY <1>a, <2>6, <2>7, <2>8 DEF RInv
<1>10. ASSUME NEW t \in Service, Test(t) \/ Answer(t) \/ Answered(t) PROVE RInv'
  <2>1. /\ pc' = pc /\ gen' = gen /\ started' = started /\ port' = port /\ about' = about /\ armed' = armed /\ early' = early
        /\ io[t] \in {"received", "answering", "sending"}
        /\ \/ io' = [io EXCEPT ![t] = "answering"] \/ io' = [io EXCEPT ![t] = "sending"]
           \/ io' = [io EXCEPT ![t] = "handled"]
        /\ io \in [Service -> IoState]
    BY <1>10, <1>a DEF Test, Answer, Answered, ownerVars, portVars, socketVars, pastVars, TypeOK
  <2> QED BY <1>a, <2>1, RSame DEF RInv, Heard, Exists, Alike
<1>11. ASSUME NEW t \in Service, Rearm(t) PROVE RInv'
  <2>a. PICK h : h = about[t]
    OBVIOUS
  <2>1. /\ pc' = pc /\ gen' = gen /\ started' = started /\ io[t] = "handled"
        /\ io' = [io EXCEPT ![t] = "polling"] /\ about' = [about EXCEPT ![t] = 0]
        /\ armed' = (armed \/ (Alive(h) /\ started))
        /\ early' = (early \/ (Alive(h) /\ pc \in {"bound", "spawned"}))
    BY <1>11, <2>a DEF Rearm, ownerVars
  <2>2. /\ io \in [Service -> IoState] /\ about \in [Service -> 0 .. MaxOnline]
        /\ h \in Service /\ h <= gen /\ t \in Handling(h)
    BY <1>a, <2>a, <2>1 DEF TypeOK, RInv, Known, Service, Handling
  <2>3. \A g : Receipts(port', g) = Receipts(port, g)
    BY <1>11, <1>a, <1>b, StopReceipts DEF Rearm
  <2>4. Receipts(port, h) = {} /\ Handling(h) = {t} /\ ~(armed /\ h = gen)
    BY <2>2 DEF RInv, Exclusive
  <2>5. Handling(h)' = {} /\ \A g \in Service : g # h => Handling(g)' = Handling(g)
    BY <2>a, <2>1, <2>2, <2>4 DEF Handling, Service
  <2>6. Known'
    <3>1. ASSUME NEW u \in Service
          PROVE  about'[u] <= gen /\ (about'[u] # 0 <=> io'[u] \in {"received", "answering", "sending", "handled"})
      BY <1>b, <2>1, <2>2 DEF RInv, Known
    <3> QED BY <2>1, <2>3, <3>1 DEF RInv, Known
  <2>7. \A g \in Service : Exclusive(g)'
    <3>1. Exclusive(h)'
      BY <2>3, <2>4, <2>5 DEF Exclusive
    <3>2. ASSUME NEW g \in Service, g # h PROVE Exclusive(g)'
      <4>1. armed' /\ g = gen => armed
        BY <2>1, <3>2 DEF Alive
      <4>2. Receipts(port', g) = Receipts(port, g) /\ Handling(g)' = Handling(g) /\ gen' = gen
        BY <2>1, <2>3, <2>5, <3>2
      <4>3. Exclusive(g)
        BY DEF RInv
      <4> QED BY <4>1, <4>2, <4>3 DEF Exclusive
    <3> QED BY <3>1, <3>2
  <2>8. Heard'
    <3>1. CASE h = gen /\ Exists
      BY <2>1, <3>1 DEF RInv, Heard, Exists, Alive, TInv, TypeOK
    <3>2. CASE h # gen
      <4>1. Exists => gen \in Service
        BY <1>b DEF Service
      <4> QED BY <2>1, <2>3, <2>5, <3>2, <4>1 DEF RInv, Heard, Exists, Alive
    <3>3. CASE ~Exists
      BY <2>1, <3>3 DEF RInv, Heard, Exists, Alive
    <3> QED BY <3>1, <3>2, <3>3
  <2> QED BY <1>a, <2>6, <2>7, <2>8 DEF RInv
<1>12. ASSUME (\E t \in Sender : Call(t)) \/ \E t \in Writer : Finish(t) \/ Post(t) PROVE RInv'
  <2>1. pc' = pc /\ gen' = gen /\ started' = started /\ port' = port /\ io' = io /\ about' = about /\ armed' = armed /\ early' = early
    BY <1>12 DEF Call, Finish, Post, ownerVars, portVars, threadVars, socketVars, pastVars
  <2> QED BY <1>a, <2>1, RSame DEF RInv, Heard, Exists, Alike
<1>13. ASSUME NEW m \in 1 .. MaxSends, Transmit(m) PROVE RInv'
  <2>1. pc' = pc /\ gen' = gen /\ started' = started /\ port' = Append(port, Sent) /\ io' = io /\ about' = about /\ armed' = armed /\ early' = early
    BY <1>13 DEF Transmit, ownerVars, threadVars, socketVars, pastVars
  <2>2. \A g : Receipts(Append(port, Sent), g) = Receipts(port, g)
    BY <1>b, CompletedTypes, AppendReceipts DEF Sent
  <2> QED BY <1>a, <2>1, <2>2, RSame DEF RInv, Heard, Exists, Alike
<1>14. ASSUME ReceiveNothing \/ \E d \in Datagram : Receive(d) PROVE RInv'
  BY <1>7, <1>14 DEF ReceiveNothing, Receive, ArmedWhileHandling, ownerVars, threadVars, pastVars
<1> QED
  BY <1>1, <1>2, <1>3, <1>4, <1>5, <1>6, <1>8, <1>9, <1>10, <1>11, <1>12, <1>13, <1>14 DEF Next

\* The one receive buffer is written by no receive while a handler reads it, however many
\* services there have been and whichever threads are in run().
THEOREM BufferIsExclusive == Spec => []ReceiveBufferIsExclusive
<1>1. RInv => ReceiveBufferIsExclusive
  <2> SUFFICES ASSUME RInv, gen > 0 PROVE Exclusive(gen)
    BY DEF Exclusive, ReceiveBufferIsExclusive
  <2>1. gen \in 0 .. MaxOnline
    BY DEF RInv, TInv, TypeOK
  <2>2. gen \in Service
    BY <2>1 DEF Service
  <2> QED BY <2>2 DEF RInv
<1>2. Spec => []RInv
  BY RInit, RNext, PTL DEF Spec
<1> QED BY <1>1, <1>2, PTL

\* No failure of a receive makes a service deaf, but for the race of its first handler
\* with start().
THEOREM OnlyTheRaceDeafens == Spec => []DeafOnlyByRace
<1>1. RInv => DeafOnlyByRace
  BY DEF RInv, Heard, DeafOnlyByRace, Online, Exists
<1>2. Spec => []RInv
  BY RInit, RNext, PTL DEF Spec
<1> QED BY <1>1, <1>2, PTL

-----------------------------------------------------------------------------
(* The uses of a service that does not exist. *)

Faultless ==
    /\ FaultOnlyAfterOffline
    /\ \A t \in Service : io[t] = "answering" => Reachable \/ BeenOffline
    /\ \A t \in Writer : sending[t] = Dangling => BeenOffline

LEMMA FInit == Init => Faultless
BY DEF Init, Faultless, FaultOnlyAfterOffline, NoMessage, Dangling

\* Once the messenger has been offline, it has been.
LEMMA StaysOffline ==
    ASSUME TInv, [Next]_vars, BeenOffline
    PROVE  BeenOffline'
<1>1. gen \in 0 .. MaxOnline
  BY DEF TInv, TypeOK
<1>2. CASE Bind
  BY <1>1, <1>2 DEF Bind, BeenOffline, Exists
<1>3. CASE SpawnThread \/ SetStarted \/ GoOnline \/ GoOffline \/ Destroy
  BY <1>3 DEF SpawnThread, SetStarted, GoOnline, GoOffline, Destroy, BeenOffline, Exists
<1>4. CASE UNCHANGED ownerVars
  BY <1>4 DEF ownerVars, BeenOffline, Exists
<1> QED
  BY <1>2, <1>3, <1>4 DEF Next, Run, Return, HandleSend, HandleReceive, Test, Answer, Answered, Rearm, Arrive,
     Receive, ReceiveNothing, Call, Finish, Post, Transmit, vars

LEMMA FNext == RInv /\ Faultless /\ [Next]_vars => Faultless'
<1> SUFFICES ASSUME RInv, Faultless, [Next]_vars PROVE Faultless'
  OBVIOUS
<1>a. /\ TypeOK /\ TInv /\ gen \in 0 .. MaxOnline /\ (Exists => gen > 0)
      /\ io \in [Service -> IoState] /\ sending \in [Writer -> Dangling .. MaxSends]
  BY DEF RInv, TInv, TypeOK, SendsOfService
<1>b. BeenOffline => BeenOffline'
  BY <1>a, StaysOffline
<1>c. ASSUME fault' = fault, \A t \in Service : io'[t] = "answering" => io[t] = "answering",
             \A t \in Writer : sending'[t] = Dangling => sending[t] = Dangling,
             Reachable => Reachable'
      PROVE  Faultless'
  BY <1>b, <1>c DEF Faultless, FaultOnlyAfterOffline
<1>d. ASSUME NEW g \in 1 .. gen, ~Alive(g) PROVE BeenOffline
  BY <1>a, <1>d DEF Alive, BeenOffline
<1>1. CASE UNCHANGED <<pc, io, sending, fault>>
  BY <1>1, <1>c DEF Reachable
<1>2. CASE Bind \/ SetStarted \/ GoOnline \/ GoOffline
  <2>1. fault' = fault /\ io' = io /\ sending' = sending /\ (Reachable => Reachable')
    BY <1>2 DEF Bind, SetStarted, GoOnline, GoOffline, threadVars, pastVars, sendVars, Reachable
  <2> QED BY <2>1, <1>c
<1>3. CASE SpawnThread
  <2>1. fault' = fault /\ io' = [io EXCEPT ![gen] = "entering"] /\ sending' = sending /\ (Reachable => Reachable')
    BY <1>3 DEF SpawnThread, pastVars, sendVars, Reachable
  <2> QED BY <2>1, <1>a, <1>c
<1>4. CASE Destroy
  <2>1. fault' = fault /\ io' = io /\ gen' = gen /\ ~Exists' /\ gen > 0
    BY <1>a, <1>4 DEF Destroy, threadVars, pastVars, Exists
  <2>2. BeenOffline'
    BY <1>a, <2>1 DEF BeenOffline
  <2> QED BY <2>2 DEF Faultless, FaultOnlyAfterOffline
<1>5. ASSUME NEW t \in Service, Run(t) \/ Return(t) \/ HandleSend(t) PROVE Faultless'
  <2>1. /\ fault' = fault /\ sending' = sending /\ pc' = pc
        /\ io' = io \/ io' = [io EXCEPT ![t] = "polling"] \/ io' = [io EXCEPT ![t] = "ended"]
    BY <1>5 DEF Run, Return, HandleSend, ownerVars, threadVars, pastVars, sendVars
  <2> QED BY <2>1, <1>a, <1>c DEF Reachable
<1>6. ASSUME NEW t \in Service, HandleReceive(t) PROVE Faultless'
  <2> DEFINE h == Head(port).of
  <2>1. /\ sending' = sending /\ pc' = pc
        /\ io' = [io EXCEPT ![t] = "received"] \/ io' = [io EXCEPT ![t] = "handled"]
        /\ fault' = fault \/ fault' = (fault \/ ~Alive(h))
        /\ Head(port).op = "receive" /\ port # <<>>
    BY <1>6 DEF HandleReceive, ownerVars, sendVars
  <2>2. h \in 1 .. gen
    <3>1. 1 \in Receipts(port, h) /\ Head(port) \in Completed
      BY <1>a, <2>1, TailReceipts DEF TypeOK
    <3>2. h \in Int
      BY <3>1 DEF Completed
    <3> QED BY <3>1, <3>2 DEF RInv, Known
  <2>3. fault' => BeenOffline
    BY <2>1, <2>2, <1>d DEF Faultless, FaultOnlyAfterOffline
  <2> QED BY <1>a, <1>b, <2>1, <2>3 DEF Faultless, FaultOnlyAfterOffline, Reachable
<1>7. ASSUME NEW t \in Service, Test(t) PROVE Faultless'
  <2>1. /\ sending' = sending /\ pc' = pc /\ fault' = fault
        /\ \/ io' = [io EXCEPT ![t] = "answering"] /\ Online
           \/ io' = [io EXCEPT ![t] = "handled"]
    BY <1>7 DEF Test, Handles, ownerVars, pastVars, sendVars
  <2> QED BY <1>a, <1>b, <2>1 DEF Faultless, FaultOnlyAfterOffline, Reachable, Online
<1>e. ASSUME NEW t \in Writer, Begin(t)
      PROVE  \A u \in Writer : sending'[u] = Dangling => sending[u] = Dangling
  <2>1. sending' = [sending EXCEPT ![t] = sends + 1] /\ sends + 1 # Dangling
    BY <1>a, <1>e DEF Begin, Dangling, TypeOK
  <2> QED BY <1>a, <2>1
<1>8. ASSUME NEW t \in Service, Answer(t) PROVE Faultless'
  <2>1. /\ pc' = pc /\ io[t] = "answering"
        /\ io' = [io EXCEPT ![t] = "handled"] \/ io' = [io EXCEPT ![t] = "sending"]
        /\ fault' = fault \/ (fault' /\ ~Reachable)
        /\ sending' = sending \/ (t \in Writer /\ Begin(t))
    BY <1>8 DEF Answer, ownerVars, sendVars, Writer
  <2>2. \A u \in Writer : sending'[u] = Dangling => sending[u] = Dangling
    BY <2>1, <1>e
  <2> QED BY <1>a, <1>b, <2>1, <2>2 DEF Faultless, FaultOnlyAfterOffline, Reachable
<1>13. ASSUME NEW t \in Service, Answered(t) PROVE Faultless'
  <2>1. /\ sending' = sending /\ pc' = pc /\ fault' = fault /\ io' = [io EXCEPT ![t] = "handled"]
    BY <1>13 DEF Answered, ownerVars, pastVars, sendVars
  <2> QED BY <1>a, <1>c, <2>1 DEF Reachable
<1>9. ASSUME NEW t \in Service, Rearm(t) PROVE Faultless'
  <2>1. /\ sending' = sending /\ pc' = pc /\ io[t] = "handled" /\ fault' = (fault \/ ~Alive(about[t]))
        /\ io' = [io EXCEPT ![t] = "polling"]
    BY <1>9 DEF Rearm, ownerVars, sendVars
  <2>2. about[t] \in 1 .. gen
    BY <1>a, <2>1 DEF TypeOK, RInv, Known
  <2>3. fault' => BeenOffline
    BY <2>1, <2>2, <1>d DEF Faultless, FaultOnlyAfterOffline
  <2> QED BY <1>a, <1>b, <2>1, <2>3 DEF Faultless, FaultOnlyAfterOffline, Reachable
<1>10. ASSUME NEW t \in Sender, Call(t) PROVE Faultless'
  <2>1. io' = io /\ pc' = pc
    BY <1>10 DEF Call, ownerVars, threadVars
  <2>2. CASE Reachable
    <3>1. fault' = fault /\ t \in Writer /\ Begin(t)
      BY <1>10, <2>2 DEF Call, Writer
    <3> QED BY <1>c, <1>e, <2>1, <3>1 DEF Reachable
  <2>3. CASE ~Reachable
    <3>1. sending' = sending /\ BeenOffline
      BY <1>10, <2>3 DEF Call, BeenOnline, Reachable, sendVars
    <3> QED BY <1>b, <3>1 DEF Faultless, FaultOnlyAfterOffline
  <2> QED BY <2>2, <2>3
<1>14. ASSUME NEW t \in Writer, Finish(t) PROVE Faultless'
  BY <1>1, <1>14 DEF Finish, ownerVars, threadVars, pastVars
<1>11. ASSUME NEW t \in Writer, Post(t) PROVE Faultless'
  <2>1. /\ io' = io /\ pc' = pc /\ sending' = [sending EXCEPT ![t] = NoMessage]
        /\ fault' = (fault \/ sending[t] = Dangling)
    BY <1>11 DEF Post, ownerVars, threadVars
  <2>2. NoMessage # Dangling
    BY DEF NoMessage, Dangling
  <2> QED BY <1>a, <1>b, <2>1, <2>2 DEF Faultless, FaultOnlyAfterOffline, Reachable
<1>12. CASE \/ \E d \in Datagram : Arrive(d) \/ Receive(d)
            \/ ReceiveNothing
            \/ \E m \in 1 .. MaxSends : Transmit(m)
            \/ UNCHANGED vars
  BY <1>1, <1>12 DEF Arrive, Receive, ReceiveNothing, Transmit, vars, ownerVars, threadVars, pastVars, sendVars
<1> QED
  BY <1>2, <1>3, <1>4, <1>5, <1>6, <1>7, <1>8, <1>9, <1>10, <1>11, <1>12, <1>13, <1>14 DEF Next

\* Going online never lets a thread use what does not exist yet: whatever is wrong with the
\* uses of a service begins with offline().
THEOREM FaultsAwaitOffline == Spec => []FaultOnlyAfterOffline
<1>2. RInv /\ Faultless /\ [Next]_vars => (RInv /\ Faultless)'
  BY RNext, FNext
<1>3. Init => RInv /\ Faultless
  BY RInit, FInit
<1>4. Faultless => FaultOnlyAfterOffline
  BY DEF Faultless
<1> QED BY <1>2, <1>3, <1>4, PTL DEF Spec
=============================================================================
