-------------------------- MODULE DhtLifetimeProofs ---------------------------
(***************************************************************************)
(* Proofs about DhtLifetime, for every number of timers and of tasks: what *)
(* each thread may still touch at each step of dht() and of ~dht().        *)
(***************************************************************************)
EXTENDS DhtLifetime, TLAPS, SequenceTheorems

Op == {"stop", "task", "abort", "datagram"}

\* What the io_service has ready.
Ready(op) == op \in ToSet(port)

\* The object is not yet up, or it is and the service has not been stopped since.
Building == life \in {"none", "bound", "spawned", "started", "serving", "tabled"}

InService == life \in {"started", "serving", "tabled", "up", "off", "untabled"}

Handling == io \in {"replying", "bootstrapping", "updating", "rearming"}

\* Before the object is up only a datagram gives a thread something to do.
Idle ==
    /\ life \in {"none", "bound"} => io = "none"
    /\ life = "none" => port = <<>> /\ ~armed
    /\ Building => /\ \A t \in Timer : timer[t] = "none"
                   /\ io \notin {"asking", "pinging"} /\ ~Ready("task") /\ ~Ready("abort")
    /\ Building /\ ~early => ~Ready("datagram") /\ ~Handling

\* The receive begun by the constructor is kept up, from handler to handler, so that the
\* io_service never runs out of work.
Listening ==
    /\ InService => started
    /\ life \in {"bound", "spawned"} \/ InService =>
          unready \/ (~Ready("stop") /\ io # "ended" /\ (armed \/ Ready("datagram") \/ Handling))

\* A node that has been switched off stays so, until a response sets the state.
SwitchedOff == Dying /\ ~revived => state = "Off"

\* What has stopped the io_service stays in the port until ~io_service().
Stopped == life \notin {"closed", "gone"} /\ stopped => Ready("stop")

\* In a destructor without company the I/O thread finds nothing but the stop event.
Quiet ==
    Dying /\ ~company /\ ~robbed =>
        /\ ~Working
        /\ \A t \in Timer : timer[t] \in {"none", "ended"}
        /\ io # "ended" =>
              /\ life \in {"off", "untabled"} => port = <<>>
              /\ life \in {"stopped", "closed"} => port # <<>> /\ Head(port) = "stop"

IInv == TypeOK /\ Idle /\ Listening /\ SwitchedOff /\ Stopped /\ Quiet

-----------------------------------------------------------------------------
(* The port. *)

LEMMA Appending ==
    ASSUME NEW p \in Seq(Op), NEW op \in Op
    PROVE  /\ Append(p, op) \in Seq(Op) /\ Append(p, op) # <<>>
           /\ ToSet(Append(p, op)) = ToSet(p) \union {op}
           /\ Head(Append(p, op)) = IF p = <<>> THEN op ELSE Head(p)
<1>1. /\ Append(p, op) \in Seq(Op) /\ Len(Append(p, op)) = Len(p) + 1
      /\ \A k \in 1 .. Len(p) : Append(p, op)[k] = p[k]
      /\ Append(p, op)[Len(p) + 1] = op
  BY AppendProperties
<1>2. Len(p) \in Nat /\ DOMAIN p = 1 .. Len(p) /\ DOMAIN Append(p, op) = 1 .. Len(p) + 1
  BY <1>1, LenProperties
<1>3. ToSet(Append(p, op)) = ToSet(p) \union {op}
  BY <1>1, <1>2 DEF ToSet
<1>4. Append(p, op) # <<>> /\ Head(Append(p, op)) = Append(p, op)[1]
  BY <1>1, <1>2, EmptySeq, HeadTailProperties
<1>5. p = <<>> => Len(p) = 0
  BY EmptySeq
<1>6. p # <<>> => Len(p) > 0 /\ Head(p) = p[1]
  BY <1>2, HeadTailProperties, EmptySeq
<1> QED BY <1>1, <1>2, <1>3, <1>4, <1>5, <1>6

LEMMA Taking ==
    ASSUME NEW p \in Seq(Op), p # <<>>
    PROVE  /\ Tail(p) \in Seq(Op) /\ Head(p) \in Op
           /\ ToSet(p) = ToSet(Tail(p)) \union {Head(p)}
<1>1. /\ Tail(p) \in Seq(Op) /\ Len(Tail(p)) = Len(p) - 1
      /\ \A k \in 1 .. Len(p) - 1 : Tail(p)[k] = p[k + 1]
      /\ Head(p) = p[1] /\ Len(p) \in Nat /\ Len(p) > 0
  BY HeadTailProperties, LenProperties, EmptySeq
<1>2. DOMAIN p = 1 .. Len(p) /\ DOMAIN Tail(p) = 1 .. Len(p) - 1
  BY <1>1, LenProperties
<1>3. ToSet(p) = ToSet(Tail(p)) \union {Head(p)}
  <2>1. ToSet(p) \subseteq ToSet(Tail(p)) \union {Head(p)}
    <3>1. SUFFICES ASSUME NEW k \in 1 .. Len(p), k # 1
                   PROVE  p[k] \in ToSet(Tail(p))
      BY <1>1, <1>2 DEF ToSet
    <3>2. k - 1 \in 1 .. Len(p) - 1 /\ (k - 1) + 1 = k
      BY <1>1, <3>1
    <3>3. p[k] = Tail(p)[k - 1]
      BY <1>1, <3>2
    <3> QED BY <1>2, <3>2, <3>3 DEF ToSet
  <2>2. ToSet(Tail(p)) \union {Head(p)} \subseteq ToSet(p)
    BY <1>1, <1>2 DEF ToSet
  <2> QED BY <2>1, <2>2
<1>4. Head(p) \in Op
  BY <1>1, <1>2, ElementOfSeq
<1> QED BY <1>1, <1>3, <1>4

LEMMA EmptyPort == ToSet(<<>>) = {} /\ <<>> \in Seq(Op)
BY EmptySeq DEF ToSet

\* Parts there are to be needed.
LEMMA NeededParts ==
    /\ Packet = {"ping", "pong", "get_nodes", "send_nodes", "short"}
    /\ \A p \in Packet : Needs[p] \subseteq Part
    /\ Exists \subseteq Part
BY DEF Packet, Needs, Part, Exists

-----------------------------------------------------------------------------

LEMMA Initially == Init => IInv
BY EmptyPort, NeededParts DEF Init, IInv, TypeOK, Op, Part, Idle, Listening, SwitchedOff, Stopped, Quiet, Ready,
   Building, InService, Handling, Dying, Working

\* The owner, up to ~dht().
LEMMA OwnerStep ==
    ASSUME IInv, Owner
    PROVE  IInv'
<1> USE DEF IInv, Idle, Listening, SwitchedOff, Stopped, Quiet, Ready, Building, InService, Handling,
            Dying, Working, Turn, ready, ioVars, pastVars, Owner
<1>1. CASE Bind
  <2>1. TypeOK'
    BY <1>1 DEF TypeOK, Bind
  <2> QED BY <1>1, <2>1, EmptyPort DEF Bind
<1>2. CASE SpawnThread
  <2>1. TypeOK'
    BY <1>2 DEF TypeOK, SpawnThread
  <2> QED BY <1>2, <2>1 DEF SpawnThread
<1>3. CASE SetStarted
  <2>1. TypeOK'
    BY <1>3 DEF TypeOK, SetStarted, StartedAfter
  <2> QED BY <1>3, <2>1 DEF SetStarted, StartedAfter
<1>4. CASE Assign
  <2>1. TypeOK'
    BY <1>4 DEF TypeOK, Assign
  <2> QED BY <1>4, <2>1 DEF Assign
<1>5. CASE SetState
  <2>1. TypeOK'
    BY <1>5 DEF TypeOK, SetState
  <2> QED BY <1>5, <2>1 DEF SetState
<1> QED BY <1>1, <1>2, <1>3, <1>4, <1>5

\* The timers.
LEMMA TimerStep ==
    ASSUME IInv, NEW t \in Timer, Bootstrap(t) \/ Test(t) \/ AsyncRun(t)
    PROVE  IInv'
<1> USE DEF IInv, Idle, Listening, SwitchedOff, Stopped, Quiet, Ready, Building, InService, Handling,
            Dying, Working, ownerVars, ready, ioVars, pastVars
<1>1. port \in Seq(Op)
  BY DEF TypeOK, Op
<1>2. CASE Bootstrap(t)
  <2>1. TypeOK'
    BY <1>2 DEF TypeOK, Bootstrap
  <2> QED BY <1>2, <2>1 DEF TypeOK, Bootstrap
<1>3. CASE Test(t)
  <2>1. PICK on \in GoesOn : timer' = [timer EXCEPT ![t] = IF on THEN "asleep" ELSE "ended"]
    BY <1>3 DEF Test
  <2>2. TypeOK' /\ (\A u \in Timer : timer'[u] = timer[u] \/ u = t)
    BY <1>3, <2>1 DEF TypeOK, Test
  <2> QED BY <1>3, <2>1, <2>2 DEF TypeOK, Test
<1>4. CASE AsyncRun(t)
  <2>1. port' = port \/ port' = Append(port, "task")
    BY <1>4 DEF AsyncRun
  <2>2. /\ port' \in Seq(Op) /\ (port # <<>> => port' # <<>> /\ Head(port') = Head(port))
        /\ ToSet(port') \subseteq ToSet(port) \union {"task"} /\ ToSet(port) \subseteq ToSet(port')
    <3>1. CASE port' = port
      BY <1>1, <3>1
    <3>2. CASE port' = Append(port, "task")
      BY <1>1, <3>2, Appending DEF Op
    <3> QED BY <2>1, <3>1, <3>2
  <2>3. TypeOK'
    BY <1>4, <2>2, NeededParts DEF TypeOK, AsyncRun, Use, Op, Part
  <2>4. timer[t] = "asleep" /\ ~Building /\ (Dying => company \/ robbed)
    BY <1>4 DEF AsyncRun
  <2>5. UNCHANGED <<life, company, state, started, armed, stopped, io, early, unready, revived, robbed>>
    BY <1>4 DEF AsyncRun
  <2> QED BY <2>2, <2>3, <2>4, <2>5
<1> QED BY <1>2, <1>3, <1>4

\* ~dht() and the destructors of the members.
LEMMA DestructorStep ==
    ASSUME IInv, Destructor
    PROVE  IInv'
<1> USE DEF IInv, Idle, Listening, SwitchedOff, Stopped, Quiet, Ready, Building, InService, Handling,
            Dying, Working, Turn, ownerVars, ready, ioVars, pastVars, Destructor
<1>1. port \in Seq(Op)
  BY DEF TypeOK, Op
<1>2. CASE SetOff
  <2>1. TypeOK'
    BY <1>2 DEF TypeOK, SetOff, StateAfter
  <2> QED BY <1>2, <2>1 DEF TypeOK, SetOff, StateAfter
<1>3. CASE DestroyTable
  <2>1. TypeOK'
    BY <1>3 DEF TypeOK, DestroyTable
  <2> QED BY <1>3, <2>1 DEF DestroyTable
<1>4. CASE StopIoService
  <2>1. /\ stopped' /\ port' = IF stopped THEN port ELSE Append(port, "stop")
        /\ life = "untabled" /\ life' = "stopped"
        /\ UNCHANGED <<company, state, started, armed, io, packet, timer, faults, early, unready, revived, robbed>>
    BY <1>4 DEF StopIoService, StopService, Stop
  <2>2. /\ port' \in Seq(Op) /\ port' # <<>> /\ "stop" \in ToSet(port')
        /\ port = <<>> => Head(port') = "stop"
    BY <1>1, <2>1, Appending, EmptyPort DEF Op
  <2>3. TypeOK'
    BY <2>1, <2>2 DEF TypeOK, Op
  <2> QED BY <2>1, <2>2, <2>3
<1>5. CASE CloseSocket
  <2>1. port' = port \/ port' = Append(port, "abort")
    <3>1. port' = port \o (IF armed THEN <<"abort">> ELSE <<>>)
      BY <1>5 DEF CloseSocket, AbortReceive
    <3>2. "abort" \in Op /\ <<>> \in Seq(Op) /\ <<"abort">> \in Seq(Op)
      BY DEF Op
    <3>3. port \o <<"abort">> = Append(port, "abort") /\ port \o <<>> = port
      BY <1>1, <3>2, AppendIsConcat, ConcatEmptySeq
    <3> QED BY <3>1, <3>3
  <2>2. port' \in Seq(Op) /\ (port # <<>> => port' # <<>> /\ Head(port') = Head(port))
    <3>1. CASE port' = port
      BY <1>1, <3>1
    <3>2. CASE port' = Append(port, "abort")
      BY <1>1, <3>2, Appending DEF Op
    <3> QED BY <2>1, <3>1, <3>2
  <2>3. TypeOK'
    BY <1>5, <2>2 DEF TypeOK, CloseSocket, AbortReceive, Op
  <2> QED BY <1>5, <2>2, <2>3 DEF CloseSocket
<1>6. CASE Drain
  <2>1. CASE OutOfWork
    <3>1. TypeOK'
      BY <1>6, <2>1 DEF TypeOK, Drain
    <3> QED BY <1>6, <2>1, <3>1 DEF Drain, OutOfWork
  <2>2. CASE ~OutOfWork
    <3>1. port # <<>> /\ port' = Tail(port) /\ robbed' = (robbed \/ (Head(port) = "stop" /\ io # "ended"))
          /\ UNCHANGED <<life, company, state, started, armed, stopped, io, packet, timer, faults, early, unready, revived>>
          /\ life = "closed"
      BY <1>6, <2>2 DEF Drain
    <3>2. port' \in Seq(Op)
      BY <1>1, <3>1, Taking
    <3>3. TypeOK'
      BY <3>1, <3>2 DEF TypeOK, Op
    <3> QED BY <3>1, <3>3
  <2> QED BY <2>1, <2>2
<1> QED BY <1>2, <1>3, <1>4, <1>5, <1>6

\* The network, and run().
LEMMA ArriveStep ==
    ASSUME IInv, Arrive
    PROVE  IInv'
<1>1. /\ armed /\ ~armed' /\ port' = Append(port, "datagram")
      /\ early' = (early \/ ~(life = "up" \/ Dying)) /\ company' = (company \/ Dying)
      /\ UNCHANGED <<life, state, started, stopped, io, packet, timer, faults, unready, revived, robbed>>
  BY DEF Arrive, ioVars
<1>2. /\ port' \in Seq(Op) /\ port' # <<>>
      /\ ToSet(port') = ToSet(port) \union {"datagram"}
  BY <1>1, Appending DEF IInv, TypeOK, Op
<1>3. TypeOK'
  <2>1. early' \in BOOLEAN /\ company' \in BOOLEAN
    BY <1>1
  <2>2. /\ port' \in Seq(Op) /\ armed' \in BOOLEAN
        /\ UNCHANGED <<life, state, started, stopped, io, packet, timer, faults, unready, revived, robbed>>
    <3>1. armed' \in BOOLEAN
      BY DEF Arrive
    <3>2. UNCHANGED <<life, state, started, stopped, io, packet, timer, faults, unready, revived, robbed>>
      BY DEF Arrive, ioVars
    <3> QED BY <1>2, <3>1, <3>2
  <2> QED BY <2>1, <2>2 DEF IInv, TypeOK, Op
<1>4. life # "none"
  BY <1>1 DEF IInv, Idle
<1> QED BY <1>1, <1>2, <1>3, <1>4 DEF IInv, Idle, Listening, SwitchedOff, Stopped, Quiet, Ready, Building,
           InService, Handling, Dying, Working

LEMMA RunStep ==
    ASSUME IInv, Run
    PROVE  IInv'
<1>1. /\ io = "entering" /\ (IF OutOfWork THEN io' = "ended" /\ Stop(port) ELSE io' = "polling" /\ UNCHANGED ready)
      /\ UNCHANGED <<life, company, state, started, armed, packet, timer, faults, early, unready, revived, robbed>>
  BY DEF Run, ownerVars, pastVars
<1>2. CASE OutOfWork
  <2>1. io' = "ended" /\ stopped' /\ (port' = port \/ port' = Append(port, "stop"))
        /\ (port' = port => stopped)
    BY <1>1, <1>2, Appending DEF Stop, IInv, TypeOK, Op
  <2>2. /\ port' \in Seq(Op) /\ (port' # port => "stop" \in ToSet(port'))
        /\ ToSet(port') \subseteq ToSet(port) \union {"stop"}
    BY <2>1, Appending DEF IInv, TypeOK, Op
  <2>3. TypeOK'
    BY <1>1, <2>1, <2>2 DEF IInv, TypeOK, Op
  <2> QED BY <1>1, <1>2, <2>1, <2>2, <2>3 DEF IInv, Idle, Listening, SwitchedOff, Stopped, Quiet, Ready, Building,
           InService, Handling, Dying, Working, OutOfWork
<1>3. CASE ~OutOfWork
  <2>1. io' = "polling" /\ port' = port /\ stopped' = stopped
    BY <1>1, <1>3 DEF ready
  <2>2. TypeOK'
    BY <1>1, <2>1 DEF IInv, TypeOK
  <2> QED BY <1>1, <2>1, <2>2 DEF IInv, Idle, Listening, SwitchedOff, Stopped, Quiet, Ready, Building,
           InService, Handling, Dying, Working
<1> QED BY <1>2, <1>3

\* What the thread finds tells what it does next.
LEMMA TakeStep ==
    ASSUME IInv, Take
    PROVE  IInv'
<1>1. /\ io = "polling" /\ life # "gone" /\ port # <<>>
      /\ port' = IF Head(port) = "stop" THEN Append(Tail(port), "stop") ELSE Tail(port)
      /\ packet' \in Packet
      /\ UNCHANGED <<life, company, state, started, armed, stopped, timer, faults, early, unready, revived, robbed>>
  BY DEF Take, IInv, TypeOK, ownerVars, pastVars
<1>2. port \in Seq(Op) /\ Tail(port) \in Seq(Op) /\ Head(port) \in Op
      /\ ToSet(port) = ToSet(Tail(port)) \union {Head(port)}
  BY <1>1, Taking DEF IInv, TypeOK, Op
<1>3. /\ Head(port) = "stop" => io' = "ended"
      /\ Head(port) = "task" => io' = "asking"
      /\ Head(port) = "abort" => io' = "rearming"
      /\ Head(port) = "datagram" => io' = "replying"
  BY DEF Take
<1>4. /\ port' \in Seq(Op) /\ ToSet(port') \subseteq ToSet(port)
      /\ \A op \in ToSet(port) : op \in ToSet(port') \/ op = Head(port)
      /\ Head(port) = "stop" => port' # <<>> /\ ToSet(port') = ToSet(port)
  BY <1>1, <1>2, Appending DEF Op
<1>5. io' \in {"ended", "asking", "rearming", "replying"}
  BY <1>2, <1>3 DEF Op
<1>6. TypeOK'
  BY <1>1, <1>4, <1>5 DEF IInv, TypeOK, Op
<1>7. Idle'
  BY <1>1, <1>2, <1>3, <1>4 DEF IInv, Idle, Ready, Building, Handling, Op
<1>8. Listening'
  BY <1>1, <1>2, <1>3, <1>4 DEF IInv, Listening, Ready, InService, Handling, Op
<1>9. SwitchedOff'
  BY <1>1 DEF IInv, SwitchedOff, Dying
<1>10. Quiet'
  BY <1>1, <1>2, <1>3, <1>4 DEF IInv, Quiet, Dying, Working
<1>11. Stopped'
  BY <1>1, <1>4 DEF IInv, Stopped, Ready
<1> QED BY <1>6, <1>7, <1>8, <1>9, <1>10, <1>11 DEF IInv

\* A handler reads _is_started when it is over, and so keeps up the receive, unless it is
\* over before the constructor has set it.
LEMMA FinishStep ==
    ASSUME IInv, NEW rearmed \in BOOLEAN, Finish(rearmed)
    PROVE  /\ io' = "polling" /\ armed' = (armed \/ rearmed)
           /\ port' \in Seq(Op) /\ stopped' \in BOOLEAN
           /\ ToSet(port) \subseteq ToSet(port')
           /\ stopped' /\ ~stopped => "stop" \in ToSet(port')
           /\ \/ port' = port /\ stopped' = stopped
              \/ ~armed' /\ ~Ready("datagram") /\ ToSet(port') \subseteq ToSet(port) \union {"stop"}
<1>1. io' = "polling" /\ armed' = (armed \/ rearmed)
  BY DEF Finish
<1>2. port \in Seq(Op) /\ stopped \in BOOLEAN /\ "stop" \in Op
  BY DEF IInv, TypeOK, Op
<1>3. CASE ~armed' /\ ToSet(port) \subseteq {"stop"}
  <2>1. stopped' = TRUE /\ port' = IF stopped THEN port ELSE Append(port, "stop")
    BY <1>3 DEF Finish, Stop
  <2>2. ~Ready("datagram")
    BY <1>3 DEF Ready
  <2>3. /\ ToSet(port) \subseteq ToSet(port') /\ port' \in Seq(Op)
        /\ ToSet(port') \subseteq ToSet(port) \union {"stop"}
        /\ ~stopped => "stop" \in ToSet(port')
    BY <1>2, <2>1, Appending
  <2>4. stopped' \in BOOLEAN /\ ~armed'
    BY <1>3, <2>1
  <2> QED BY <1>1, <2>2, <2>3, <2>4
<1>4. CASE ~(~armed' /\ ToSet(port) \subseteq {"stop"})
  <2>1. stopped' = stopped /\ port' = port
    BY <1>4 DEF Finish, ready
  <2> QED BY <1>1, <1>2, <2>1
<1> QED BY <1>3, <1>4

\* handle() and what follows, but for its end.
LEMMA HandlerStep ==
    ASSUME IInv, Reply \/ SetBootstrapped \/ Update \/ Ask
    PROVE  IInv'
<1>1. /\ Working /\ io' \in {"bootstrapping", "updating", "rearming", "pinging"}
      /\ Handling <=> Handling'
      /\ io' = "pinging" => io = "asking"
      /\ UNCHANGED <<life, company, started, armed, stopped, port, packet, timer, early, unready, robbed>>
  BY DEF Reply, SetBootstrapped, Update, Ask, Working, Handling, ownerVars, ready, pastVars
<1>2. /\ state' = state \/ state' = "Bootstrapped"
      /\ revived' \in BOOLEAN
      /\ Dying /\ ~revived' => state' = state /\ ~revived
  BY DEF Reply, SetBootstrapped, Update, Ask, IInv, TypeOK, pastVars
<1>3. faults' \subseteq Part
  <2>1. faults \subseteq Part /\ packet \in Packet
    BY DEF IInv, TypeOK
  <2>2. {"table"} \subseteq Part /\ {"table", "service"} \subseteq Part
    BY DEF Part
  <2> QED BY <2>1, <2>2, NeededParts DEF Reply, SetBootstrapped, Update, Ask, Use
<1>4. TypeOK'
  BY <1>1, <1>2, <1>3 DEF IInv, TypeOK
<1>5. Idle' /\ Listening' /\ Stopped'
  BY <1>1 DEF IInv, Idle, Listening, Stopped, Ready, Building, InService, Handling
<1>6. SwitchedOff'
  BY <1>1, <1>2 DEF IInv, SwitchedOff, Dying
<1>7. Quiet'
  BY <1>1 DEF IInv, Quiet, Dying
<1> QED BY <1>4, <1>5, <1>6, <1>7 DEF IInv

\* The end of a handler.
LEMMA EndOfHandler ==
    ASSUME IInv, Rearm \/ PingNodes
    PROVE  IInv'
<1>1. /\ Working
      /\ UNCHANGED <<life, company, state, started, packet, timer, early, revived, robbed>>
  BY DEF Rearm, PingNodes, Working, ownerVars, pastVars
<1>2. PICK rearmed \in BOOLEAN : Finish(rearmed) /\ (io = "rearming" /\ InService /\ started => rearmed)
  <2>1. CASE Rearm
    <3>1. PICK on \in IF ServiceExists THEN {started} ELSE BOOLEAN : Finish(on /\ ServiceExists)
      BY <2>1 DEF Rearm
    <3>2. InService => ServiceExists
      BY DEF InService, ServiceExists, Exists, Part
    <3> QED BY <3>1, <3>2
  <2>2. CASE PingNodes
    BY <2>2 DEF PingNodes
  <2> QED BY <2>1, <2>2
<1>3. /\ unready' = unready \/ (io = "rearming" /\ unready' = (unready \/ life \in {"bound", "spawned"}))
      /\ io = "pinging" => unready' = unready
      /\ io \in {"rearming", "pinging"}
      /\ io = "rearming" /\ life \in {"bound", "spawned"} => unready'
  BY DEF Rearm, PingNodes, pastVars
<1>4. /\ io' = "polling" /\ armed' = (armed \/ rearmed)
      /\ port' \in Seq(Op) /\ stopped' \in BOOLEAN
      /\ ToSet(port) \subseteq ToSet(port')
      /\ stopped' /\ ~stopped => "stop" \in ToSet(port')
      /\ \/ port' = port /\ stopped' = stopped
         \/ ~armed' /\ ~Ready("datagram") /\ ToSet(port') \subseteq ToSet(port) \union {"stop"}
  BY <1>2, FinishStep
<1>5. TypeOK'
  <2>1. faults' \subseteq Part
    BY DEF Rearm, PingNodes, Use, Part, IInv, TypeOK
  <2>2. unready' \in BOOLEAN /\ armed' \in BOOLEAN
    BY <1>3, <1>4 DEF IInv, TypeOK
  <2>3. /\ port' \in Seq(Op) /\ stopped' \in BOOLEAN /\ io' = "polling"
    BY <1>4
  <2> QED BY <1>1, <2>1, <2>2, <2>3 DEF IInv, TypeOK, Op
<1>6. Idle'
  <2>1. ~(life = "none")
    BY <1>1 DEF IInv, Idle, Working
  <2>2. Building => ~Ready("task")' /\ ~Ready("abort")' /\ (~early => ~Ready("datagram")')
    BY <1>4 DEF IInv, Idle, Ready
  <2> QED BY <1>1, <1>4, <2>1, <2>2 DEF IInv, Idle, Working, Building, Handling
<1>7. Listening'
  <2>1. InService => started /\ started'
    BY <1>1 DEF IInv, Listening
  <2>2. SUFFICES ASSUME life \in {"bound", "spawned"} \/ InService, ~unready'
                 PROVE  ~Ready("stop")' /\ io' # "ended" /\ (armed' \/ Ready("datagram")')
    BY <1>1, <2>1 DEF Listening, InService
  <2>3. ~unready /\ (io = "rearming" => InService)
    BY <1>3, <2>2 DEF IInv, TypeOK
  <2>4. ~Ready("stop") /\ (armed \/ Ready("datagram") \/ Handling)
    BY <2>2, <2>3 DEF IInv, Listening
  <2>5. armed' \/ Ready("datagram")
    BY <1>2, <1>3, <1>4, <2>1, <2>3, <2>4 DEF Handling
  <2>6. port' = port
    BY <1>4, <2>5
  <2> QED BY <1>4, <2>4, <2>5, <2>6 DEF Ready
<1>8. SwitchedOff'
  BY <1>1 DEF IInv, SwitchedOff, Dying
<1>9. Quiet'
  BY <1>1 DEF IInv, Quiet, Dying
<1>10. Stopped'
  BY <1>1, <1>4 DEF IInv, Stopped, Ready
<1> QED BY <1>5, <1>6, <1>7, <1>8, <1>9, <1>10 DEF IInv

LEMMA AbandonStep ==
    ASSUME IInv, Abandon
    PROVE  IInv'
<1>1. /\ life = "gone" /\ io = "polling" /\ io' = "ended" /\ faults' = faults \union ({"io_service"} \ Exists)
      /\ UNCHANGED <<life, company, state, started, armed, stopped, port, packet, timer, early, unready, revived, robbed>>
  BY DEF Abandon, Use, ownerVars, ready, pastVars
<1>2. TypeOK'
  BY <1>1 DEF IInv, TypeOK, Part
<1> QED BY <1>1, <1>2 DEF IInv, Idle, Listening, SwitchedOff, Stopped, Quiet, Ready, Building,
           InService, Handling, Dying, Working

LEMMA INext == IInv /\ [Next]_vars => IInv'
<1> SUFFICES ASSUME IInv, [Next]_vars
             PROVE  IInv'
  OBVIOUS
<1>1. CASE UNCHANGED vars
  BY <1>1 DEF vars, ownerVars, IInv, TypeOK, Idle, Listening, SwitchedOff, Stopped, Quiet, Ready, Building,
     InService, Handling, Dying, Working
<1>2. CASE IoThread
  BY <1>2, RunStep, TakeStep, AbandonStep, HandlerStep, EndOfHandler DEF IoThread
<1> QED BY <1>1, <1>2, OwnerStep, DestructorStep, ArriveStep, TimerStep DEF Next

LEMMA Inductive == Spec => []IInv
BY Initially, INext, PTL DEF Spec

-----------------------------------------------------------------------------

\* The threads, the port and the parts of a node keep to their values, the port to a queue
\* of what asio puts there, however many datagrams and tasks come.
THEOREM TypeCorrect == Spec => []TypeOK
<1>1. IInv => TypeOK
  BY DEF IInv
<1> QED BY <1>1, Inductive, PTL

\* The I/O thread of a node that is up does not leave run(): each handler begins the next
\* receive, unless it ended before the constructor had set _is_started.
THEOREM NodeServes == Spec => []ServesWhileUp
<1>1. IInv => ServesWhileUp
  BY DEF IInv, Listening, InService, ServesWhileUp
<1> QED BY <1>1, Inductive, PTL

\* No timer outlives the end of the object by more than its sleep, unless a response sets
\* the state again.
THEOREM TimersStop == Spec => TimersEnd
<1>1. ASSUME IInv, [Next]_vars
      PROVE  [\A t \in Timer : life' \in {"off", "untabled", "stopped", "closed"} /\ timer[t] = "testing"
                 /\ timer'[t] = "asleep" => revived]_vars
  <2>1. SUFFICES ASSUME NEW t \in Timer, Next, life' \in {"off", "untabled", "stopped", "closed"},
                        timer[t] = "testing", timer'[t] = "asleep"
                 PROVE  revived
    BY <1>1
  <2>2. timer' # timer
    BY <2>1
  <2>3. PICK u \in Timer : Bootstrap(u) \/ Test(u) \/ AsyncRun(u)
    BY <2>1, <2>2 DEF Next, Owner, Destructor, IoThread, Bind, SpawnThread, SetStarted, Assign, SetState,
       SetOff, DestroyTable, StopIoService, CloseSocket, Drain, Run, Take, Abandon, Reply,
       SetBootstrapped, Update, Rearm, Ask, PingNodes, Arrive
  <2>4. timer \in [Timer -> {"none", "testing", "asleep", "ended"}]
    BY <1>1 DEF IInv, TypeOK
  <2>5. Test(t)
    BY <2>1, <2>3, <2>4 DEF Bootstrap, Test, AsyncRun
  <2>6. life' = life /\ Dying /\ ObjectExists
    BY <2>1, <2>5 DEF Test, ownerVars, Dying, ObjectExists
  <2>7. state # "Off"
    BY <2>1, <2>4, <2>5, <2>6 DEF Test, GoesOn
  <2> QED BY <1>1, <2>6, <2>7 DEF IInv, SwitchedOff
<1> QED BY <1>1, Inductive, PTL DEF Spec, TimersEnd

\* No thread uses what does not exist, or no longer, unless a datagram came while the
\* object was made, or a thread was at work or came to be while it was destroyed.
THEOREM OnlyCompanyFaults == Spec => FaultsNeedCompany
<1>1. ASSUME IInv, [Next]_vars
      PROVE  [(faults' \ faults) \ {"io_service"} # {} => IF Dying THEN company \/ robbed ELSE early]_vars
  <2>1. SUFFICES ASSUME Next, NEW part \in faults' \ faults, part # "io_service"
                 PROVE  IF Dying THEN company \/ robbed ELSE early
    BY <1>1
  <2>2. ~(life = "up") \/ Exists = Part
    BY DEF Exists
  <2>3. CASE Reply \/ Update \/ Rearm
    <3>1. Handling /\ Working
      BY <2>3 DEF Reply, Update, Rearm, Handling, Working
    <3>2. life # "up" \/ Dying
      <4>1. SUFFICES ASSUME life = "up" PROVE FALSE
        OBVIOUS
      <4>2. Exists = Part /\ ServiceExists
        BY <4>1 DEF Exists, ServiceExists, Part
      <4>3. packet \in Packet
        BY <1>1 DEF IInv, TypeOK
      <4> QED BY <2>1, <2>3, <4>2, <4>3, NeededParts DEF Reply, Update, Rearm, Use, Part
    <3>3. Dying \/ Building
      BY <1>1, <3>2 DEF IInv, TypeOK, Dying, Building
    <3> QED BY <1>1, <3>1, <3>3 DEF IInv, Idle, Quiet
  <2>4. CASE Ask \/ PingNodes
    <3>1. Working /\ io \in {"asking", "pinging"}
      BY <2>4 DEF Ask, PingNodes, Working
    <3>2. life # "up"
      BY <2>1, <2>2, <2>4 DEF Ask, PingNodes, Use, Part
    <3>3. Dying
      BY <1>1, <3>1, <3>2 DEF IInv, TypeOK, Idle, Building, Dying
    <3> QED BY <1>1, <3>1, <3>3 DEF IInv, Quiet
  <2>5. ASSUME NEW t \in Timer, AsyncRun(t)
        PROVE  IF Dying THEN company \/ robbed ELSE early
    <3>1. timer[t] = "asleep"
      BY <2>5 DEF AsyncRun
    <3>2. life # "up"
      BY <2>1, <2>2, <2>5 DEF AsyncRun, Use, Part
    <3>3. Dying
      BY <1>1, <3>1, <3>2 DEF IInv, TypeOK, Idle, Building, Dying
    <3> QED BY <1>1, <3>1, <3>3 DEF IInv, Quiet
  <2>6. CASE Abandon
    BY <2>1, <2>6 DEF Abandon, Use
  <2>7. faults' # faults
    BY <2>1
  <2> QED
    BY <2>1, <2>3, <2>4, <2>5, <2>6, <2>7 DEF Next, Owner, Destructor, IoThread, Bind, SpawnThread, SetStarted,
       Assign, SetState, SetOff, DestroyTable, StopIoService, CloseSocket, Drain, Run, Take,
       SetBootstrapped, Arrive, Bootstrap, Test
<1> QED BY <1>1, Inductive, PTL DEF Spec, FaultsNeedCompany
===============================================================================
