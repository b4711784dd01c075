--------------------------- MODULE NetworkService ---------------------------
(***************************************************************************)
(* The UDP service (class network_service, network/network_service.h) of a *)
(* messenger that goes online and offline (messenger.h), and its I/O       *)
(* threads.                                                                *)
(*                                                                         *)
(* online() creates a service: it starts a receive, then a thread that     *)
(* runs the io_service, then sets _is_started.  offline() destroys it.     *)
(* The io_service is the messenger's and outlives its services.  Other     *)
(* threads call send(), and the I/O thread does, to acknowledge; nothing   *)
(* is locked.                                                              *)
(*                                                                         *)
(* The io_service is asio's for completion ports: the port is a queue of   *)
(* completed operations, which the threads inside run() take in order;     *)
(* stop() puts an event in it once, which each thread that leaves puts     *)
(* back; out of work, the io_service stops itself.  The data of a send is  *)
(* read by the system, whole, at any time until it is done.  The copy to   *)
(* the buffer takes two steps, one for each half of it.                    *)
(*                                                                         *)
(* Definitions introduced as mutants are no part of the model.             *)
(***************************************************************************)
EXTENDS Integers, FiniteSets, Sequences

CONSTANTS
    Datagram,   \* datagrams that arrive
    Sender,     \* threads other than the I/O threads that call send()
    MaxOnline,  \* bound: calls of online()
    MaxSends    \* bound: calls of send()

ASSUME BoundAssumption == MaxOnline \in Nat \ {0} /\ MaxSends \in Nat

Service == 1 .. MaxOnline

\* I/O threads are named for the service that started them.
Writer == Sender \union Service

ASSUME WriterAssumption == Sender \intersect Service = {}

\* Messages are numbered in the order in which their copies to _send_buf begin.
NoMessage == 0

\* A send on a service that has been destroyed since its copy began.
Dangling == -1

Nothing == "nothing"

ASSUME NothingAssumption == Nothing \notin Datagram

VARIABLES
    pc,        \* how far the owner is in online() or offline()
    gen,       \* the service created last, 0 when there has been none
    started,   \* its _is_started
    armed,     \* it has a receive pending
    stopped,   \* the io_service is stopped
    port,      \* the completed operations, in order
    io,        \* the I/O thread that each service has started
    about,     \* the service whose handler it runs
    waiting,   \* datagrams at the socket
    handled,   \* history: datagrams given to the handler
    buf,       \* the messages whose first and second half _send_buf holds
    sends,     \* messages whose copy to it has begun
    sending,   \* the message a thread copies, or has copied and not sent yet
    copying,   \* the threads that have not finished their copy
    inflight,  \* messages handed to the socket and not transmitted yet
    wire,      \* history: what was transmitted for each message
    overlaps,  \* history: messages, each with another that was copied while it was being sent
    early,     \* history: a handler ended before _is_started was set
    returned,  \* history: a run() returned because the io_service was stopped
    fault      \* history: a service was used that does not exist

ownerVars == <<pc, gen>>
portVars == <<stopped, port>>
threadVars == <<io, about>>
socketVars == <<armed, waiting>>
pastVars == <<handled, early, returned, fault>>
sendVars == <<buf, sends, sending, copying, inflight, wire, overlaps>>
vars == <<ownerVars, started, portVars, threadVars, socketVars, pastVars, sendVars>>

\* What completes: a receive of service g that got a datagram or nothing, a send; and the
\* event that stop() posts.
Receipt(g, got) == [op |-> "receive", of |-> g, got |-> got]
Sent == [op |-> "send", of |-> 0, got |-> Nothing]
StopEvent == [op |-> "stop", of |-> 0, got |-> Nothing]

\* The object exists; _network_service points to it.
Exists == pc # "offline"
Reachable == pc \in {"online", "leaving"}
Online == pc = "online"

Alive(g) == g = gen /\ Exists

BeenOffline == gen > 1 \/ (gen = 1 /\ ~Exists)

Busy(t) == about[t] # 0

\* stop(), after which the port holds p and the event.
Stop(p) ==
    /\ stopped' = TRUE
    /\ port' = IF stopped THEN p ELSE Append(p, StopEvent)

Init ==
    /\ pc = "offline"
    /\ gen = 0
    /\ started = FALSE
    /\ armed = FALSE
    /\ stopped = FALSE
    /\ port = <<>>
    /\ io = [t \in Service |-> "none"]
    /\ about = [t \in Service |-> 0]
    /\ waiting = {}
    /\ handled = {}
    /\ buf = <<NoMessage, NoMessage>>
    /\ sends = 0
    /\ sending = [t \in Writer |-> NoMessage]
    /\ copying = {}
    /\ inflight = {}
    /\ wire = {}
    /\ overlaps = {}
    /\ early = FALSE
    /\ returned = FALSE
    /\ fault = FALSE

-----------------------------------------------------------------------------
(* The owner: online(). *)

\* The constructor binds the socket and start() begins a receive.  _is_started
\* has no value yet: it reads as whatever the memory held.  Nor has _send_buf.
Bind ==
    /\ pc = "offline" /\ gen < MaxOnline
    /\ pc' = "bound"
    /\ gen' = gen + 1
    /\ started' \in BOOLEAN
    /\ armed' = TRUE
    /\ buf' = <<NoMessage, NoMessage>>
    /\ UNCHANGED <<portVars, threadVars, waiting, pastVars, sends, sending, copying, inflight,
                   wire, overlaps>>

SpawnThread ==
    /\ pc = "bound"
    /\ pc' = "spawned"
    /\ io' = [io EXCEPT ![gen] = "entering"]
    /\ UNCHANGED <<gen, started, portVars, about, socketVars, pastVars, sendVars>>

\* Mutant: the value is never set.
StartedBefore == started

StartedAfter == TRUE

SetStarted ==
    /\ pc = "spawned"
    /\ pc' = "started"
    /\ started' = StartedAfter
    /\ UNCHANGED <<gen, portVars, threadVars, socketVars, pastVars, sendVars>>

\* The pointer and the status are set.
GoOnline ==
    /\ pc = "started"
    /\ pc' = "online"
    /\ UNCHANGED <<gen, started, portVars, threadVars, socketVars, pastVars, sendVars>>

-----------------------------------------------------------------------------
(* The owner: offline(). *)

GoOffline ==
    /\ pc = "online"
    /\ pc' = "leaving"
    /\ UNCHANGED <<gen, started, portVars, threadVars, socketVars, pastVars, sendVars>>

\* What close() completes: a receive that is pending and the sends in flight.
Aborted ==
    (IF armed THEN <<Receipt(gen, Nothing)>> ELSE <<>>) \o [m \in 1 .. Cardinality(inflight) |-> Sent]

\* The destructor calls stop(), which stops the io_service and closes the socket;
\* nobody waits for the thread.
Destroy ==
    /\ pc = "leaving"
    /\ pc' = "offline"
    /\ stopped' = TRUE
    /\ port' = (IF stopped THEN port ELSE Append(port, StopEvent)) \o Aborted
    /\ started' = FALSE
    /\ armed' = FALSE
    /\ waiting' = {}
    /\ inflight' = {}
    /\ sending' = [t \in Writer |-> IF sending[t] = NoMessage THEN NoMessage ELSE Dangling]
    /\ copying' = {}
    /\ UNCHANGED <<gen, threadVars, pastVars, buf, sends, wire, overlaps>>

-----------------------------------------------------------------------------
(* The socket. *)

Arrive(d) ==
    /\ Exists /\ d \notin waiting \union handled
    /\ \A p \in DOMAIN port : port[p].got # d
    /\ waiting' = waiting \union {d}
    /\ UNCHANGED <<ownerVars, started, portVars, threadVars, armed, pastVars, sendVars>>

\* Mutant: the next receive begins before the handler.
ArmedAtOnce == TRUE

ArmedWhileHandling == FALSE

\* A receive takes a datagram ...
Receive(d) ==
    /\ armed /\ d \in waiting
    /\ armed' = ArmedWhileHandling
    /\ waiting' = waiting \ {d}
    /\ port' = Append(port, Receipt(gen, d))
    /\ UNCHANGED <<ownerVars, started, stopped, threadVars, pastVars, sendVars>>

\* ... or fails, as after an ICMP error, or gets no bytes: nothing is handled.
ReceiveNothing ==
    /\ armed
    /\ armed' = FALSE
    /\ port' = Append(port, Receipt(gen, Nothing))
    /\ UNCHANGED <<ownerVars, started, stopped, threadVars, waiting, pastVars, sendVars>>

-----------------------------------------------------------------------------
(* The one send buffer. *)

\* What is between the beginning of send() and the end of async_send_to().
InProgress == ({sending[t] : t \in Writer} \union inflight) \ {NoMessage, Dangling}
BeingCopied == {sending[t] : t \in copying}

\* send(): the first half of the message is copied to the one buffer, if the service is
\* started.
Begin(t) ==
    /\ started /\ sends < MaxSends /\ sending[t] = NoMessage
    /\ sends' = sends + 1
    /\ buf' = [buf EXCEPT ![1] = sends']
    /\ sending' = [sending EXCEPT ![t] = sends']
    /\ copying' = copying \union {t}
    /\ overlaps' = overlaps \union (InProgress \X {sends'}) \union ({sends'} \X BeingCopied)
    /\ UNCHANGED <<inflight, wire>>

\* ... and the second.
Finish(t) ==
    /\ t \in copying
    /\ buf' = [buf EXCEPT ![2] = sending[t]]
    /\ copying' = copying \ {t}
    /\ UNCHANGED <<ownerVars, started, portVars, threadVars, socketVars, pastVars, sends, sending,
                   inflight, wire, overlaps>>

\* Mutant: the buffer is handed over before it is filled.
CopiedOrNot(t) == TRUE

Copied(t) == t \notin copying

\* async_send_to()
Post(t) ==
    /\ sending[t] # NoMessage /\ Copied(t)
    /\ sending' = [sending EXCEPT ![t] = NoMessage]
    /\ inflight' = IF sending[t] = Dangling THEN inflight ELSE inflight \union {sending[t]}
    /\ fault' = (fault \/ sending[t] = Dangling)
    /\ UNCHANGED <<ownerVars, started, portVars, threadVars, socketVars, handled, early, returned,
                   buf, sends, copying, wire, overlaps>>

\* The socket takes the data from the buffer.
Transmit(m) ==
    /\ m \in inflight
    /\ inflight' = inflight \ {m}
    /\ wire' = wire \union {[sent |-> m, carried |-> buf]}
    /\ port' = Append(port, Sent)
    /\ UNCHANGED <<ownerVars, started, stopped, threadVars, socketVars, pastVars, buf, sends, sending,
                   copying, overlaps>>

-----------------------------------------------------------------------------
(* An I/O thread, which runs the handlers of any service. *)

\* The work there is but for the handler of thread t, when the port holds p.
Work(t, p) ==
    \/ armed' \/ inflight # {}
    \/ \E u \in Service \ {t} : Busy(u)
    \/ \E q \in DOMAIN p : p[q] # StopEvent

\* Without work the io_service stops itself.
StopIfIdle(t, p) ==
    IF Work(t, p) THEN port' = p /\ UNCHANGED stopped ELSE Stop(p)

\* io_service.run()
Run(t) ==
    /\ io[t] = "entering"
    /\ UNCHANGED armed
    /\ StopIfIdle(t, port)
    /\ io' = [io EXCEPT ![t] = IF Work(t, port) THEN "polling" ELSE "ended"]
    /\ returned' = (returned \/ ~Work(t, port))
    /\ UNCHANGED <<ownerVars, started, about, waiting, handled, early, fault, sendVars>>

\* The event is put back for the next thread.
Return(t) ==
    /\ io[t] = "polling" /\ port # <<>> /\ Head(port) = StopEvent
    /\ port' = Append(Tail(port), StopEvent)
    /\ io' = [io EXCEPT ![t] = "ended"]
    /\ returned' = TRUE
    /\ UNCHANGED <<ownerVars, started, stopped, about, socketVars, handled, early, fault, sendVars>>

\* handle_send() only logs.
HandleSend(t) ==
    /\ io[t] = "polling" /\ port # <<>> /\ Head(port) = Sent
    /\ UNCHANGED armed
    /\ StopIfIdle(t, Tail(port))
    /\ UNCHANGED <<ownerVars, started, threadVars, waiting, pastVars, sendVars>>

\* handle_receive(), of a service that may be gone.
HandleReceive(t) ==
    /\ io[t] = "polling" /\ port # <<>> /\ Head(port).op = "receive"
    /\ port' = Tail(port)
    /\ about' = [about EXCEPT ![t] = Head(port).of]
    /\ IF Head(port).got = Nothing
       THEN /\ io' = [io EXCEPT ![t] = "handled"]
            /\ UNCHANGED <<handled, fault>>
       ELSE /\ io' = [io EXCEPT ![t] = "received"]
            /\ handled' = handled \union {Head(port).got}
            /\ fault' = (fault \/ ~Alive(Head(port).of))
    /\ UNCHANGED <<ownerVars, started, stopped, socketVars, early, returned, sendVars>>

\* Mutant: the status is not tested.
HandlesAnyway == TRUE

Handles == Online

\* handle_packets() tests the status ...
Test(t) ==
    /\ io[t] = "received"
    /\ io' = [io EXCEPT ![t] = IF Handles THEN "answering" ELSE "handled"]
    /\ UNCHANGED <<ownerVars, started, portVars, about, socketVars, pastVars, sendVars>>

\* ... and acknowledges a text some time later: it uses the service, by send().
Answer(t) ==
    /\ io[t] = "answering"
    /\ \/ /\ io' = [io EXCEPT ![t] = "handled"]
          /\ UNCHANGED <<fault, sendVars>>
       \/ /\ ~Reachable
          /\ io' = [io EXCEPT ![t] = "handled"]
          /\ fault' = TRUE
          /\ UNCHANGED sendVars
       \/ /\ Reachable
          /\ io' = [io EXCEPT ![t] = "sending"]
          /\ Begin(t)
          /\ UNCHANGED fault
    /\ UNCHANGED <<ownerVars, started, portVars, about, socketVars, handled, early, returned>>

\* The acknowledgement is sent.
Answered(t) ==
    /\ io[t] = "sending" /\ sending[t] = NoMessage
    /\ io' = [io EXCEPT ![t] = "handled"]
    /\ UNCHANGED <<ownerVars, started, portVars, about, socketVars, pastVars, sendVars>>

\* The end of handle_receive(): the next receive, if _is_started can be read and is set.
Rearm(t) ==
    /\ io[t] = "handled"
    /\ io' = [io EXCEPT ![t] = "polling"]
    /\ about' = [about EXCEPT ![t] = 0]
    /\ armed' = (armed \/ (Alive(about[t]) /\ started))
    /\ StopIfIdle(t, port)
    /\ fault' = (fault \/ ~Alive(about[t]))
    /\ early' = (early \/ (Alive(about[t]) /\ pc \in {"bound", "spawned"}))
    /\ UNCHANGED <<ownerVars, started, waiting, handled, returned, sendVars>>

-----------------------------------------------------------------------------
(* Other threads call send() from callbacks set since the messenger was first     *)
(* online, which do not ask whether it still is.                                  *)

BeenOnline == BeenOffline \/ (gen = 1 /\ pc \in {"online", "leaving"})

Call(t) ==
    /\ BeenOnline
    /\ IF Reachable
       THEN Begin(t) /\ UNCHANGED fault
       ELSE /\ sending[t] = NoMessage
            /\ fault' = TRUE
            /\ UNCHANGED sendVars
    /\ UNCHANGED <<ownerVars, started, portVars, threadVars, socketVars, handled, early, returned>>

-----------------------------------------------------------------------------

Next ==
    \/ Bind \/ SpawnThread \/ SetStarted \/ GoOnline
    \/ GoOffline \/ Destroy
    \/ \E d \in Datagram : Arrive(d) \/ Receive(d)
    \/ ReceiveNothing
    \/ \E t \in Service : Run(t) \/ Return(t) \/ HandleSend(t) \/ HandleReceive(t)
    \/ \E t \in Service : Test(t) \/ Answer(t) \/ Answered(t) \/ Rearm(t)
    \/ \E t \in Sender : Call(t)
    \/ \E t \in Writer : Finish(t) \/ Post(t)
    \/ \E m \in 1 .. MaxSends : Transmit(m)

Spec == Init /\ [][Next]_vars

\* online() and the I/O threads go on, and a receive does not fail for ever.  Nobody
\* has to call offline() or send().
Fairness ==
    /\ WF_vars(SpawnThread \/ SetStarted \/ GoOnline)
    /\ \A t \in Service :
        WF_vars(\/ Run(t) \/ HandleSend(t) \/ HandleReceive(t)
                \/ Test(t) \/ Answer(t) \/ Finish(t) \/ Post(t) \/ Answered(t) \/ Rearm(t))
    /\ \A d \in Datagram : SF_vars(Receive(d))

FairSpec == Spec /\ Fairness

-----------------------------------------------------------------------------
(* Properties. *)

Completed ==
    [op : {"receive", "send", "stop"}, of : 0 .. MaxOnline, got : Datagram \union {Nothing}]

TypeOK ==
    /\ pc \in {"offline", "bound", "spawned", "started", "online", "leaving"}
    /\ gen \in 0 .. MaxOnline
    /\ started \in BOOLEAN /\ armed \in BOOLEAN /\ stopped \in BOOLEAN
    /\ port \in Seq(Completed)
    /\ io \in [Service -> {"none", "entering", "polling", "received", "answering", "sending", "handled", "ended"}]
    /\ about \in [Service -> 0 .. MaxOnline]
    /\ waiting \subseteq Datagram /\ handled \subseteq Datagram
    /\ sends \in 0 .. MaxSends
    /\ buf \in (0 .. MaxSends) \X (0 .. MaxSends)
    /\ sending \in [Writer -> Dangling .. MaxSends]
    /\ copying \subseteq Writer
    /\ inflight \subseteq 1 .. MaxSends
    /\ wire \subseteq [sent : 1 .. MaxSends, carried : (0 .. MaxSends) \X (0 .. MaxSends)]
    /\ overlaps \subseteq (1 .. MaxSends) \X (1 .. MaxSends)
    /\ early \in BOOLEAN /\ returned \in BOOLEAN /\ fault \in BOOLEAN

\* The threads that handle a receive of service g; its completed receives in a port.
Handling(g) == {t \in Service : about[t] = g}
Receipts(p, g) == {q \in DOMAIN p : p[q].op = "receive" /\ p[q].of = g}

\* The one receive buffer is written by no receive while handle_receive() reads it,
\* although the first receive begins before there is a thread and the next at the
\* end of each handler: so at most one receive is pending, completed or being handled, even
\* when the thread of an earlier service is still in run() beside the new one's.
ReceiveBufferIsExclusive ==
    gen > 0 =>
        /\ armed => Receipts(port, gen) = {} /\ Handling(gen) = {}
        /\ Receipts(port, gen) = {} \/ Handling(gen) = {}
        /\ \A p, q \in Receipts(port, gen) : p = q
        /\ \A t, u \in Handling(gen) : t = u

\* The one send buffer is shared by all threads and by sends still in flight, and nothing
\* is locked: a datagram may go to its endpoint with another message, newer or older, or
\* with halves of two.  But each half is of its own message, or of one that was being
\* copied at some time while it was being sent; so a send that nothing overlaps carries
\* its own message, whole, and no datagram carries what the memory held before, or what
\* was sent and done with when it began.
CarriesWhatOverlaps ==
    \A w \in wire : \A half \in {1, 2} :
        w.carried[half] = w.sent \/ <<w.sent, w.carried[half]>> \in overlaps

\* A service that is online has its receive, pending, completed or being handled, whatever
\* failed before -- unless a handler ended before _is_started was set and found there what
\* the memory held.
DeafOnlyByRace ==
    Online => armed \/ Receipts(port, gen) # {} \/ Handling(gen) # {} \/ early

\* Before the messenger first goes offline no thread uses a service that does not
\* exist, not even the handler of a datagram that comes while online() is at work.
FaultOnlyAfterOffline == fault => BeenOffline

\* A datagram that reaches the first service is handled, unless the service went deaf
\* at the start or is taken offline.
FirstServiceHears ==
    \A d \in Datagram : d \in waiting /\ ~BeenOffline ~> d \in handled \/ early \/ BeenOffline

\* libs/asio/io_service.hpp:408: reset() "must be called prior to any second or later
\* set of invocations of the run(), ... functions when a previous invocation of these
\* functions returned due to the io_service being stopped or running out of work".  So no
\* run() finds the io_service still stopped after another run() returned for that reason.
ResetBeforeRun ==
    [][\A t \in Service : io[t] = "entering" /\ io'[t] # "entering" => ~(stopped /\ returned)]_vars
=============================================================================
