----------------------------- MODULE DhtLifetime -----------------------------
(***************************************************************************)
(* The life of one dht object (network/dht/dht.h) and of its own service   *)
(* (network/dht/network_service.h): its owner constructs it, bootstraps,   *)
(* and destroys it, while two kinds of detached threads, which nobody      *)
(* joins, go on using it: the I/O thread, and a timer for each bootstrap() *)
(*                                                                         *)
(* asio is external, as its code for completion ports is: the port is a    *)
(* queue; stop() puts an event in it, which a thread inside run() puts     *)
(* back for the next one as it leaves; run() stops the io_service when it  *)
(* is out of work; ~io_service() takes from the port until no work is      *)
(* left.                                                                   *)
(*                                                                         *)
(* Definitions introduced as mutants are no part of the model.             *)
(***************************************************************************)
EXTENDS Integers, SequencesExt

CONSTANTS
    Timer,    \* calls of bootstrap(), each with its timer thread
    MaxTasks  \* bound: periodic tasks in the port

ASSUME TasksAssumption == MaxTasks \in Nat

\* The parts of the object that threads use, and the packets that make them.
Part == {"service", "table", "callbacks", "io_service"}

Needs ==
    [ping |-> {"service"}, pong |-> {"callbacks"}, get_nodes |-> {"table", "service"},
     send_nodes |-> {"service"}, short |-> {}]

Packet == DOMAIN Needs

VARIABLES
    life,     \* how far the owner is in dht() or ~dht()
    state,    \* _state
    started,  \* _is_started of the service
    armed,    \* a receive is pending
    stopped,  \* the io_service is stopped
    port,     \* what the io_service has ready, in order
    io,       \* the I/O thread
    packet,   \* the datagram it handles
    timer,    \* the timer threads
    faults,   \* history: parts used while they did not exist
    early,    \* history: a datagram came before the object was constructed
    unready,  \* history: a handler ended before _is_started was set
    company,  \* history: a thread was at work, or a datagram came, in ~dht()
    revived,  \* history: _state was set by a thread after ~dht() had set it
    robbed    \* history: ~io_service() took the stop event from the I/O thread

ownerVars == <<life, company>>
vars == <<ownerVars, state, started, armed, stopped, port, io, packet, timer, faults, early,
          unready, revived, robbed>>

\* What exists: a part is used from its construction to its destruction.
Exists ==
    CASE life \in {"bound", "spawned", "started"} -> {"callbacks", "io_service"}
      [] life = "serving"                         -> {"callbacks", "io_service", "service"}
      [] life \in {"tabled", "up", "off"}         -> Part
      [] life \in {"untabled", "stopped"}         -> {"service", "io_service"}
      [] life = "closed"                          -> {"io_service"}
      [] OTHER                                    -> {}

\* The memory of the service: it exists before a pointer to it does.
ServiceExists == "service" \in Exists \/ life \in {"bound", "spawned", "started"}

ObjectExists == life \notin {"none", "gone"}

Dying == life \in {"off", "untabled", "stopped", "closed", "gone"}

\* A thread uses the parts p.
Use(p) == faults' = faults \union (p \ Exists)

Working == io \in {"replying", "bootstrapping", "updating", "rearming", "asking", "pinging"}

\* Work the io_service counts.
OutOfWork == ~armed /\ ~Working /\ ToSet(port) \subseteq {"stop"}

\* stop(), after which the port holds p and what stop() adds: it posts once.
Stop(p) ==
    /\ stopped' = TRUE
    /\ port' = IF stopped THEN p ELSE Append(p, "stop")

Init ==
    /\ life = "none"
    /\ state = "Off"
    /\ started = FALSE
    /\ armed = FALSE
    /\ stopped = FALSE
    /\ port = <<>>
    /\ io = "none"
    /\ packet = "short"
    /\ timer = [t \in Timer |-> "none"]
    /\ faults = {}
    /\ early = FALSE
    /\ unready = FALSE
    /\ company = FALSE
    /\ revived = FALSE
    /\ robbed = FALSE

ready == <<stopped, port>>
ioVars == <<io, packet>>
pastVars == <<early, unready, revived, robbed>>

-----------------------------------------------------------------------------
(* The owner. *)

Turn(from, to) == life = from /\ life' = to

\* The service binds its socket and begins a receive; _is_started has no value yet.
Bind ==
    /\ Turn("none", "bound")
    /\ started' \in BOOLEAN
    /\ armed' = TRUE
    /\ UNCHANGED <<company, state, ready, ioVars, timer, faults, pastVars>>

SpawnThread ==
    /\ Turn("bound", "spawned")
    /\ io' = "entering"
    /\ UNCHANGED <<company, state, started, armed, ready, packet, timer, faults, pastVars>>

\* Mutant: the value is left as it is.
StartedBefore == started

StartedAfter == TRUE

SetStarted ==
    /\ Turn("spawned", "started")
    /\ started' = StartedAfter
    /\ UNCHANGED <<company, state, armed, ready, ioVars, timer, faults, pastVars>>

\* The pointer to the service is set, then the table is made.
Assign ==
    /\ Turn("started", "serving") \/ Turn("serving", "tabled")
    /\ UNCHANGED <<company, state, started, armed, ready, ioVars, timer, faults, pastVars>>

SetState ==
    /\ Turn("tabled", "up")
    /\ state' = "Started"
    /\ UNCHANGED <<company, started, armed, ready, ioVars, timer, faults, pastVars>>

\* bootstrap() starts a timer, unless the node is bootstrapped.
Bootstrap(t) ==
    /\ life = "up" /\ state = "Started" /\ timer[t] = "none"
    /\ timer' = [timer EXCEPT ![t] = "testing"]
    /\ UNCHANGED <<ownerVars, state, started, armed, ready, ioVars, faults, pastVars>>

\* Mutant: the state is left alone.
StateKept == state

StateAfter == "Off"

\* ~dht() itself.
SetOff ==
    /\ Turn("up", "off")
    /\ state' = StateAfter
    /\ company' = (Working \/ port # <<>> \/ \E t \in Timer : timer[t] \in {"testing", "asleep"})
    /\ UNCHANGED <<started, armed, ready, ioVars, timer, faults, pastVars>>

\* The members, in reverse order: the callbacks and the table ...
DestroyTable ==
    /\ Turn("off", "untabled")
    /\ UNCHANGED <<company, state, started, armed, ready, ioVars, timer, faults, pastVars>>

\* Mutant: the service is not stopped.
Unstopped == UNCHANGED ready

StopService == Stop(port)

\* ... the service, whose destructor stops the io_service, ...
StopIoService ==
    /\ Turn("untabled", "stopped")
    /\ StopService
    /\ UNCHANGED <<company, state, started, armed, ioVars, timer, faults, pastVars>>

\* Mutant: the socket is left open.
LeaveOpen == UNCHANGED <<armed, port>>

AbortReceive == armed' = FALSE /\ port' = port \o (IF armed THEN <<"abort">> ELSE <<>>)

\* ... and then closes the socket, which aborts the receive ...
CloseSocket ==
    /\ Turn("stopped", "closed")
    /\ AbortReceive
    /\ started' = FALSE
    /\ UNCHANGED <<company, state, stopped, ioVars, timer, faults, pastVars>>

\* ... and the io_service, whose destructor drops what is in the port, the stop event
\* too, until there is no work, or waits for more.
Drain ==
    /\ life = "closed"
    /\ IF OutOfWork
       THEN life' = "gone" /\ UNCHANGED <<port, robbed>>
       ELSE /\ port # <<>>
            /\ port' = Tail(port)
            /\ robbed' = (robbed \/ (Head(port) = "stop" /\ io # "ended"))
            /\ UNCHANGED life
    /\ UNCHANGED <<company, state, started, armed, stopped, ioVars, timer, faults, early, unready, revived>>

-----------------------------------------------------------------------------
(* The I/O thread. *)

Arrive ==
    /\ armed
    /\ armed' = FALSE
    /\ port' = Append(port, "datagram")
    /\ early' = (early \/ ~(life = "up" \/ Dying))
    /\ company' = (company \/ Dying)
    /\ UNCHANGED <<life, state, started, stopped, ioVars, timer, faults, unready, revived, robbed>>

Run ==
    /\ io = "entering"
    /\ IF OutOfWork
       THEN io' = "ended" /\ Stop(port)
       ELSE io' = "polling" /\ UNCHANGED ready
    /\ UNCHANGED <<ownerVars, state, started, armed, packet, timer, faults, pastVars>>

\* Takes what comes first: the abort of a receive is handled as an empty datagram.
Take ==
    /\ io = "polling" /\ life # "gone" /\ port # <<>>
    /\ port' = IF Head(port) = "stop" THEN Append(Tail(port), "stop") ELSE Tail(port)
    /\ io' = [stop |-> "ended", task |-> "asking", abort |-> "rearming", datagram |-> "replying"][Head(port)]
    /\ IF Head(port) = "datagram" THEN packet' \in Packet ELSE UNCHANGED packet
    /\ UNCHANGED <<ownerVars, state, started, armed, stopped, timer, faults, pastVars>>

\* The port is closed under the thread.
Abandon ==
    /\ io = "polling" /\ life = "gone"
    /\ io' = "ended"
    /\ Use({"io_service"})
    /\ UNCHANGED <<ownerVars, state, started, armed, ready, packet, timer, pastVars>>

\* handle(): the switch, ...
Reply ==
    /\ io = "replying"
    /\ IF packet = "send_nodes" /\ state = "Started" THEN io' = "bootstrapping" ELSE io' = "updating"
    /\ Use(Needs[packet])
    /\ UNCHANGED <<ownerVars, state, started, armed, ready, packet, timer, pastVars>>

\* ... with a test of the state that is set some time later, ...
SetBootstrapped ==
    /\ io = "bootstrapping"
    /\ io' = "updating"
    /\ state' = "Bootstrapped"
    /\ revived' = (revived \/ Dying)
    /\ UNCHANGED <<ownerVars, started, armed, ready, packet, timer, faults, early, unready, robbed>>

\* ... then the table is updated, unless the datagram is too short.
Update ==
    /\ io = "updating"
    /\ io' = "rearming"
    /\ Use(IF packet = "short" THEN {} ELSE {"table"})
    /\ UNCHANGED <<ownerVars, state, started, armed, ready, packet, timer, pastVars>>

\* The end of a handler: without any work left the io_service stops.
Finish(rearmed) ==
    /\ io' = "polling"
    /\ armed' = (armed \/ rearmed)
    /\ IF ~armed' /\ ToSet(port) \subseteq {"stop"} THEN Stop(port) ELSE UNCHANGED ready

\* handle_receive() reads _is_started, or what is left of it, and begins a receive.
Rearm ==
    /\ io = "rearming"
    /\ \E on \in IF ServiceExists THEN {started} ELSE BOOLEAN :
        /\ Finish(on /\ ServiceExists)
        /\ faults' = faults \union (IF ServiceExists THEN {} ELSE {"service"})
    /\ unready' = (unready \/ life \in {"bound", "spawned"})
    /\ UNCHANGED <<ownerVars, state, started, packet, timer, early, revived, robbed>>

\* periodic_task(): a request to a peer of the table, ...
Ask ==
    /\ io = "asking"
    /\ io' = "pinging"
    /\ Use({"table", "service"})
    /\ UNCHANGED <<ownerVars, state, started, armed, ready, packet, timer, pastVars>>

\* ... then the table's own pings.
PingNodes ==
    /\ io = "pinging"
    /\ Finish(FALSE)
    /\ Use({"table", "service"})
    /\ UNCHANGED <<ownerVars, state, started, packet, timer, pastVars>>

-----------------------------------------------------------------------------
(* The timer threads. *)

\* The test of _state: what is left of it, when the object is gone.
GoesOn == IF ObjectExists THEN {state # "Off"} ELSE BOOLEAN

Test(t) ==
    /\ timer[t] = "testing"
    /\ \E on \in GoesOn : timer' = [timer EXCEPT ![t] = IF on THEN "asleep" ELSE "ended"]
    /\ UNCHANGED <<ownerVars, state, started, armed, ready, ioVars, faults, pastVars>>

\* The interval is over: the task is posted, if the service is started.
AsyncRun(t) ==
    /\ timer[t] = "asleep"
    /\ timer' = [timer EXCEPT ![t] = "testing"]
    /\ Use({"service"})
    /\ IF "service" \in Exists /\ started
       THEN /\ Len(SelectSeq(port, LAMBDA op : op = "task")) < MaxTasks
            /\ port' = Append(port, "task")
       ELSE UNCHANGED port
    /\ UNCHANGED <<ownerVars, state, started, armed, stopped, ioVars, pastVars>>

-----------------------------------------------------------------------------

Owner == Bind \/ SpawnThread \/ SetStarted \/ Assign \/ SetState

Destructor == SetOff \/ DestroyTable \/ StopIoService \/ CloseSocket \/ Drain

IoThread ==
    \/ Run \/ Take \/ Abandon
    \/ Reply \/ SetBootstrapped \/ Update \/ Rearm
    \/ Ask \/ PingNodes

Next ==
    \/ Owner \/ Destructor \/ IoThread \/ Arrive
    \/ \E t \in Timer : Bootstrap(t) \/ Test(t) \/ AsyncRun(t)

Spec == Init /\ [][Next]_vars

\* Every thread goes on.  Nobody has to bootstrap, or to destroy the object; once begun,
\* the destructor goes on.
Fairness ==
    /\ WF_vars(Owner) /\ WF_vars(IoThread)
    /\ WF_vars(DestroyTable \/ StopIoService \/ CloseSocket \/ Drain)
    /\ \A t \in Timer : WF_vars(Test(t) \/ AsyncRun(t))

FairSpec == Spec /\ Fairness

-----------------------------------------------------------------------------
(* Properties. *)

TypeOK ==
    /\ life \in {"none", "bound", "spawned", "started", "serving", "tabled", "up", "off",
                 "untabled", "stopped", "closed", "gone"}
    /\ state \in {"Off", "Started", "Bootstrapped"}
    /\ started \in BOOLEAN /\ armed \in BOOLEAN /\ stopped \in BOOLEAN
    /\ port \in Seq({"stop", "task", "abort", "datagram"})
    /\ io \in {"none", "entering", "polling", "replying", "bootstrapping", "updating", "rearming",
               "asking", "pinging", "ended"}
    /\ packet \in Packet
    /\ timer \in [Timer -> {"none", "testing", "asleep", "ended"}]
    /\ faults \subseteq Part
    /\ early \in BOOLEAN /\ unready \in BOOLEAN
    /\ company \in BOOLEAN /\ revived \in BOOLEAN /\ robbed \in BOOLEAN

\* No thread uses a service, table or callback that does not exist, unless a datagram
\* came while the object was being constructed, or, when it is being destroyed, a thread
\* was at work, a datagram came, or ~io_service() took the stop event from the thread: to
\* an idle node without a timer the destructor does no other harm, although it waits for
\* no thread.
FaultsNeedCompany ==
    [][(faults' \ faults) \ {"io_service"} # {} =>
          IF Dying THEN company \/ robbed ELSE early]_vars

\* The I/O thread of a node that is up is inside run(), unless a handler ended so early
\* that it read _is_started before it had a value, left no receive, and so no work.
ServesWhileUp == life = "up" /\ io = "ended" => unready

\* A timer that tests the state after ~dht() has begun ends, so each posts one task more
\* at most, unless a response was being handled, which sets the state again.
TimersEnd ==
    [][\A t \in Timer : life' \in {"off", "untabled", "stopped", "closed"} /\ timer[t] = "testing" /\ timer'[t] = "asleep"
          => revived]_vars

\* ~dht() ends, and so does the I/O thread, unless ~io_service() takes the stop event from
\* the thread: then each may wait for ever for an event the other should post.
DestructorEnds == life = "closed" ~> (life = "gone" /\ io = "ended") \/ robbed
=============================================================================
