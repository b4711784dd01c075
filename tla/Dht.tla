-------------------------------- MODULE Dht ---------------------------------
(***************************************************************************)
(* The DHT nodes (class dht, network/dht/dht.h) and the datagrams between  *)
(* them.                                                                   *)
(*                                                                         *)
(* A node handles datagrams and runs its periodic task on the one thread   *)
(* of its io_service: each handler is one step.  bootstrap() and           *)
(* find_node() are called on other threads, with no lock: bootstrap()      *)
(* reads the state in one step, and find_node() the table, and each        *)
(* stores its callback in another.                                         *)
(*                                                                         *)
(* All sends of a node use one buffer, without a lock, and the system      *)
(* reads it some time after send() returns: a datagram may leave with what *)
(* was copied there after it.                                              *)
(*                                                                         *)
(* Datagrams may be lost, duplicated and reordered.  A process may stop    *)
(* and start again, with an empty table, at an endpoint another node had   *)
(* before it.                                                              *)
(*                                                                         *)
(* Definitions introduced as mutants are no part of the model.             *)
(***************************************************************************)
EXTENDS NodeList

CONSTANTS
    Call,                \* calls of find_node()
    caller,              \* [Call -> Id]: the node a call is made on
    target,              \* [Call -> Id]: the id it looks for
    Bootstrap,           \* the bootstrap nodes, known from the configuration
    home,                \* [Id -> Endpoint]: the first endpoint of a node
    Running,             \* the nodes that run initially
    Distance,            \* [Id -> [Id -> Nat]]: id_distance()
    Alpha,               \* ALPHA
    MaxNodesInResponse,  \* MAX_NODES_IN_RESPONSE
    Lossy,               \* datagrams can be lost
    Overwriting,         \* datagrams can leave with what was copied to the buffer after them
    Copied,              \* bound: the types of the datagrams that may be duplicated
    MaxMishaps,          \* bound: datagrams duplicated or overwritten, in all
    Asks,                \* bound: the pairs of a node that calls bootstrap() and the node it names
    MaxBootstraps,       \* bound: calls of bootstrap() on each node
    Periodic,            \* bound: the nodes whose periodic task is run
    MaxPending,          \* bound: datagrams in flight when a periodic task runs
    MaxStops,            \* bound: times processes stop, in all
    MaxTime,             \* bound: ticks in all
    TaskGap,             \* bound: ticks between two runs of a periodic task
    None                 \* no endpoint

PacketType == {"ping", "pong", "get_nodes", "send_nodes"}

ASSUME DhtAssumption ==
    /\ caller \in [Call -> Id]
    /\ target \in [Call -> Id]
    /\ Bootstrap \subseteq Id
    /\ home \in [Id -> Endpoint]
    /\ Running \subseteq Id
    /\ Distance \in [Id -> [Id -> Nat]]
    /\ Alpha \in Nat \ {0} /\ MaxNodesInResponse \in Nat \ {0}
    /\ Lossy \in BOOLEAN /\ Overwriting \in BOOLEAN /\ Copied \subseteq PacketType /\ MaxMishaps \in Nat
    /\ Asks \subseteq Id \X Bootstrap
    /\ Periodic \subseteq Id
    /\ MaxBootstraps \in Nat /\ MaxPending \in Nat /\ MaxStops \in Nat
    /\ MaxTime \in Nat /\ TaskGap \in Nat
    /\ None \notin Endpoint

\* _found_nodes_callbacks at an id: no entry, an entry whose function is empty,
\* or the callback of a call.
Absent == "absent"
Null == "null"

ASSUME CallbackAssumption == Absent \notin Call /\ Null \notin Call

\* The time stamps do not wrap within a run.
ASSUME ClockAssumption == MaxTime < Wrap

\* A port is bound once.
ASSUME HomeAssumption == \A n, o \in Running : home[n] = home[o] => n = o

VARIABLES
    state,     \* _state of each node
    addr,      \* the endpoint its peers see it at
    table,     \* _routing_table
    found,     \* _found_nodes_callbacks
    timers,    \* timer threads of each node, one for each bootstrap() it accepted
    booting,   \* the bootstrap() calls that have passed the test and not gone on
    asked,     \* the nodes whose _bootstrap_callback is set
    status,    \* where each call of find_node() is
    result,    \* the endpoint its callback was given
    net,       \* datagrams in flight
    mishaps,   \* datagrams duplicated or overwritten so far
    stops,     \* processes stopped so far
    now,       \* ticks so far
    used,      \* history: the endpoints each id has had
    fired,     \* history: times each callback of find_node() ran
    booted,    \* history: times each bootstrap callback ran
    met,       \* history: the ids each node has heard from
    sinceTask, \* ticks since the periodic task of each node last ran
    began,     \* history: when the first timer of each node started
    up,        \* history: when its process started
    exposed    \* history: nodes that may get a response nobody asked bootstrap() for

nodeVars == <<state, addr, timers, booting, asked, booted, exposed>>
callVars == <<status, result, fired>>
clockVars == <<now, sinceTask, began, up>>
envVars == <<stops, used, clockVars>>
netVars == <<net, mishaps>>
vars == <<state, addr, table, found, timers, booting, asked, status, result, net, mishaps, stops, now, used,
          fired, booted, met, sinceTask, began, up, exposed>>

Init ==
    /\ state = [n \in Id |-> IF n \in Running THEN "Started" ELSE "Off"]
    /\ addr = home
    /\ table = [n \in Id |-> << >>]
    /\ found = [n \in Id |-> [i \in Id |-> Absent]]
    /\ timers = [n \in Id |-> 0]
    /\ booting = {}
    /\ asked = {}
    /\ status = [c \in Call |-> "new"]
    /\ result = [c \in Call |-> None]
    /\ net = {}
    /\ mishaps = 0
    /\ stops = 0
    /\ now = 0
    /\ used = {<<n, home[n]>> : n \in Running}
    /\ fired = [c \in Call |-> 0]
    /\ booted = [n \in Id |-> 0]
    /\ met = [n \in Id |-> {}]
    /\ sinceTask = [n \in Id |-> 0]
    /\ began = [n \in Id |-> 0]
    /\ up = [n \in Id |-> 0]
    /\ exposed = {}

-----------------------------------------------------------------------------
(* Datagrams: every one carries the id of its sender, and the socket tells  *)
(* the endpoint it came from.  send_message() skips an endpoint equal to    *)
(* _main_node.endpoint, which is the wildcard address 0.0.0.0 with the      *)
(* node's port and so never the endpoint of a peer, nor the node's own.     *)

Ping(n, to) == [type |-> "ping", sender |-> n, src |-> addr[n], dst |-> to]

\* Mutant: the answer is of the type of the request.
PongAsPing(n, to) == Ping(n, to)

Pong(n, to) == [type |-> "pong", sender |-> n, src |-> addr[n], dst |-> to]

GetNodes(n, to, id) ==
    [type |-> "get_nodes", sender |-> n, src |-> addr[n], dst |-> to, requested |-> id]

\* Of the nodes listed the receiver uses the endpoints only.
SendNodes(n, to, endpoints) ==
    [type |-> "send_nodes", sender |-> n, src |-> addr[n], dst |-> to, nodes |-> endpoints]

ClosestEndpoints(n, id, max) ==
    {{table[n][c[p]].endpoint : p \in DOMAIN c} :
        c \in Closest(table[n], max, Distance[id])}

Datagram ==
    [type : {"ping", "pong"}, sender : Id, src : Endpoint, dst : Endpoint]
      \union [type : {"get_nodes"}, sender : Id, src : Endpoint, dst : Endpoint, requested : Id]
      \union [type : {"send_nodes"}, sender : Id, src : Endpoint, dst : Endpoint, nodes : SUBSET Endpoint]

Owners(ep) == {n \in Id : addr[n] = ep /\ state[n] # "Off"}

-----------------------------------------------------------------------------
(* Calls from other threads. *)

\* bootstrap(), its test: refused unless the node is Started.  Every call starts a
\* timer.
CheckStarted(n, b) ==
    /\ n # b /\ <<n, b>> \in Asks \ booting
    /\ timers[n] < MaxBootstraps
    /\ state[n] = "Started"
    /\ timers' = [timers EXCEPT ![n] = @ + 1]
    /\ booting' = booting \union {<<n, b>>}
    /\ began' = IF timers[n] = 0 THEN [began EXCEPT ![n] = now] ELSE began
    /\ UNCHANGED <<state, addr, table, asked, met, found, booted, exposed, callVars, netVars,
                   stops, used, now, sinceTask, up>>

\* bootstrap(), the rest: the state is not read again.
CallBootstrap(n, b) ==
    /\ <<n, b>> \in booting
    /\ booting' = booting \ {<<n, b>>}
    /\ asked' = asked \union {n}
    /\ net' = net \union {GetNodes(n, home[b], n)}
    /\ UNCHANGED <<state, addr, table, timers, met, found, booted, exposed, callVars, mishaps, envVars>>

\* find_node(), its lookup: the callback runs at once when the id is in the table.
LookupHit(c) ==
    LET n == caller[c]
    IN  /\ status[c] = "new" /\ state[n] # "Off"
        /\ FindId(table[n], target[c]) # 0
        /\ status' = [status EXCEPT ![c] = "done"]
        /\ result' = [result EXCEPT ![c] = table[n][FindId(table[n], target[c])].endpoint]
        /\ fired' = [fired EXCEPT ![c] = @ + 1]
        /\ UNCHANGED <<nodeVars, table, met, found, netVars, envVars>>

LookupMiss(c) ==
    LET n == caller[c]
    IN  /\ status[c] = "new" /\ state[n] # "Off"
        /\ FindId(table[n], target[c]) = 0
        /\ status' = [status EXCEPT ![c] = "missed"]
        /\ UNCHANGED <<nodeVars, table, met, found, result, fired, netVars, envVars>>

\* find_node(), the rest: insert() keeps an entry that is there already, an empty
\* one too, and the closest peers are asked whether or not the callback was stored.
\* Mutants: an empty entry is replaced; any entry is.
OccupiedByCall(n, i) == found[n][i] \in Call

OccupiedNever(n, i) == FALSE

Occupied(n, i) == found[n][i] # Absent

Register(c) ==
    LET n == caller[c]
    IN  /\ status[c] = "missed" /\ state[n] # "Off"
        /\ IF Occupied(n, target[c])
           THEN /\ status' = [status EXCEPT ![c] = "dropped"]
                /\ UNCHANGED found
           ELSE /\ status' = [status EXCEPT ![c] = "stored"]
                /\ found' = [found EXCEPT ![n][target[c]] = c]
        /\ \E eps \in ClosestEndpoints(n, target[c], Alpha) :
            /\ net' = net \union {GetNodes(n, ep, target[c]) : ep \in eps}
            /\ exposed' = IF n \notin asked /\ eps # {} THEN exposed \union {n} ELSE exposed
        /\ UNCHANGED <<state, addr, table, met, timers, booting, asked, booted, result, fired, mishaps,
                       envVars>>

-----------------------------------------------------------------------------
(* handle(): the handler of the packet's type, then update() with the sender. *)

\* Mutant: the endpoint listed is the receiver's.
UpdateTableSwapped(n, m) ==
    IF m.sender = n THEN UNCHANGED <<table, met>>
    ELSE /\ table' = [table EXCEPT ![n] = Updated(@, m.sender, m.dst)]
         /\ met' = [met EXCEPT ![n] = @ \union {m.sender}]

UpdateTable(n, m) ==
    IF m.sender = n THEN UNCHANGED <<table, met>>
    ELSE /\ table' = [table EXCEPT ![n] = Updated(@, m.sender, m.src)]
         /\ met' = [met EXCEPT ![n] = @ \union {m.sender}]

\* Mutant: the head goes without a ping.
EvictionUnannounced(n, m) == {}

\* The ping update() sends to the head it evicts.
EvictionPing(n, m) ==
    IF m.sender # n /\ Evicts(table[n], m.sender, m.src)
    THEN {Ping(n, Head(table[n]).endpoint)} ELSE {}

\* A datagram is received: it is gone, unless the network has duplicated it.
Received(m, sent) ==
    \/ net' = (net \ {m}) \union sent /\ UNCHANGED mishaps
    \/ /\ m.type \in Copied /\ mishaps < MaxMishaps
       /\ mishaps' = mishaps + 1
       /\ net' = net \union sent

Handled(n, m, replies) ==
    /\ m \in net /\ m.dst = addr[n] /\ state[n] # "Off"
    /\ Received(m, replies \union EvictionPing(n, m))
    /\ UpdateTable(n, m)

HandlePing(n, m) ==
    /\ m.type = "ping"
    /\ Handled(n, m, {Pong(n, m.src)})
    /\ UNCHANGED <<nodeVars, found, callVars, envVars>>

\* operator[] makes an empty entry for an id that has none, and only the entry of
\* a callback is erased.
HandlePong(n, m) ==
    /\ m.type = "pong"
    /\ Handled(n, m, {})
    /\ IF found[n][m.sender] \in Call
       THEN LET c == found[n][m.sender]
            IN  /\ found' = [found EXCEPT ![n][m.sender] = Absent]
                /\ status' = [status EXCEPT ![c] = "done"]
                /\ result' = [result EXCEPT ![c] = m.src]
                /\ fired' = [fired EXCEPT ![c] = @ + 1]
       ELSE /\ found' = [found EXCEPT ![n][m.sender] = Null]
            /\ UNCHANGED <<status, result, fired>>
    /\ UNCHANGED <<nodeVars, envVars>>

HandleGetNodes(n, m) ==
    /\ m.type = "get_nodes"
    /\ \E eps \in ClosestEndpoints(n, m.requested, MaxNodesInResponse) :
          Handled(n, m, {SendNodes(n, m.src, eps)})
    /\ UNCHANGED <<nodeVars, found, callVars, envVars>>

\* Mutants: nobody is pinged; nobody is once the node is Bootstrapped.
NobodyToPing(n, m) == {}

ToPingOnce(n, m) == IF state[n] = "Bootstrapped" THEN {} ELSE m.nodes

\* The test against the node's own id looks at the sender, not at the node listed.
ToPing(n, m) == IF m.sender = n THEN {} ELSE m.nodes

\* Mutant: the callback runs for every response.
ReportsEvery(n) == n \in asked

Reports(n) == state[n] = "Started" /\ n \in asked

HandleSendNodes(n, m) ==
    /\ m.type = "send_nodes"
    /\ Handled(n, m, {Ping(n, ep) : ep \in ToPing(n, m)})
    /\ state' = [state EXCEPT ![n] = "Bootstrapped"]
    /\ booted' = IF Reports(n) THEN [booted EXCEPT ![n] = @ + 1] ELSE booted
    /\ UNCHANGED <<addr, timers, booting, asked, exposed, found, callVars, envVars>>

Receive(n, m) ==
    \/ HandlePing(n, m)
    \/ HandlePong(n, m)
    \/ HandleGetNodes(n, m)
    \/ HandleSendNodes(n, m)

-----------------------------------------------------------------------------
(* periodic_task(): asks a random good node for nodes, then ping_nodes(). *)

\* The good node it picks, 0 when there is none.
Picks(n) == IF GoodNodes(table[n]) = {} THEN {0} ELSE GoodNodes(table[n])

PeriodicTask(n, p) ==
    /\ n \in Periodic /\ timers[n] > 0 /\ state[n] # "Off"
    /\ Cardinality(net) <= MaxPending
    /\ p \in Picks(n)
    /\ \E swept \in Swept(table[n]) :
        /\ table' = [table EXCEPT ![n] = swept]
        /\ net' = net
              \union (IF p = 0 THEN {} ELSE {GetNodes(n, table[n][p].endpoint, n)})
              \union {Ping(n, swept[q].endpoint) : q \in {r \in DOMAIN swept : Due(swept[r])}}
    /\ exposed' = IF n \notin asked /\ p # 0 THEN exposed \union {n} ELSE exposed
    /\ sinceTask' = [sinceTask EXCEPT ![n] = 0]
    /\ UNCHANGED <<state, addr, timers, booting, asked, booted, met, found, callVars, mishaps, stops,
                   used, now, began, up>>

-----------------------------------------------------------------------------
(* The environment. *)

\* What follows the header, in bytes.
Body(m) ==
    IF m.type = "send_nodes" THEN 2 + 60 * Cardinality(m.nodes)
    ELSE IF m.type = "get_nodes" THEN 32 ELSE 0

\* What may go to the endpoint of m instead of it when the same node sends o: as many
\* bytes as m has, so a longer o is cut, and the receiver, who trusts the type, reads on in
\* whatever its buffer held.
Overwritten(m, o) ==
    {d \in Datagram :
        /\ d.type = o.type /\ d.sender = o.sender /\ d.src = o.src /\ d.dst = m.dst
        /\ Body(o) > Body(m) \/ d = [o EXCEPT !.dst = m.dst]}

\* o is copied to the send buffer before the system has read m from it.
Overwrite(m, o) ==
    /\ Overwriting /\ mishaps < MaxMishaps
    /\ mishaps' = mishaps + 1
    /\ m \in net /\ o \in net \ {m} /\ m.sender = o.sender /\ m.src = o.src
    /\ \E d \in Overwritten(m, o) :
        /\ net' = (net \ {m}) \union {d}
        /\ exposed' = IF d.type = "send_nodes" THEN exposed \union Owners(m.dst) ELSE exposed
    /\ UNCHANGED <<state, addr, timers, booting, asked, booted, table, met, found, callVars, envVars>>

\* A datagram is lost; one for an endpoint where nobody listens always is.
Lose(m) ==
    /\ m \in net
    /\ Lossy \/ Owners(m.dst) = {}
    /\ net' = net \ {m}
    /\ UNCHANGED <<nodeVars, table, met, found, callVars, mishaps, envVars>>

\* The process of a node ends: its table and its callbacks are gone.
Stop(n) ==
    /\ stops < MaxStops
    /\ stops' = stops + 1
    /\ state[n] # "Off"
    /\ state' = [state EXCEPT ![n] = "Off"]
    /\ table' = [table EXCEPT ![n] = << >>]
    /\ found' = [found EXCEPT ![n] = [i \in Id |-> Absent]]
    /\ timers' = [timers EXCEPT ![n] = 0]
    /\ booting' = {q \in booting : q[1] # n}
    /\ asked' = asked \ {n}
    /\ booted' = [booted EXCEPT ![n] = 0]
    /\ exposed' = exposed \ {n}
    /\ met' = [met EXCEPT ![n] = {}]
    /\ sinceTask' = [sinceTask EXCEPT ![n] = 0]
    /\ began' = [began EXCEPT ![n] = 0]
    /\ status' = [c \in Call |-> IF caller[c] = n /\ status[c] \in {"missed", "stored"}
                                 THEN "lost" ELSE status[c]]
    /\ UNCHANGED <<addr, result, fired, netVars, now, used, up>>

\* A response is on its way to an endpoint.
Awaited(ep) == \E m \in net : m.type = "send_nodes" /\ m.dst = ep

\* The constructor: start() takes the node from Off to Started.
Start(n, ep) ==
    /\ state[n] = "Off"
    /\ Owners(ep) = {}
    /\ state' = [state EXCEPT ![n] = "Started"]
    /\ addr' = [addr EXCEPT ![n] = ep]
    /\ used' = used \union {<<n, ep>>}
    /\ up' = [up EXCEPT ![n] = now]
    /\ exposed' = IF Awaited(ep) \/ \E i \in Id : <<i, ep>> \in used
                  THEN exposed \union {n} ELSE exposed
    /\ UNCHANGED <<table, met, found, timers, booting, asked, booted, callVars, netVars, stops,
                   now, sinceTask, began>>

Timed == {n \in Periodic : timers[n] > 0}

\* A tick on the clock of every node.  Ticks are long: a datagram is received or
\* lost before the next, and no periodic task is later than TaskGap.
Tick ==
    /\ now < MaxTime
    /\ net = {}
    /\ \A n \in Timed : sinceTask[n] < TaskGap
    /\ now' = now + 1
    /\ sinceTask' = [n \in Id |-> IF n \in Timed THEN sinceTask[n] + 1 ELSE 0]
    /\ table' = [n \in Id |-> [p \in DOMAIN table[n] |-> [table[n][p] EXCEPT !.idle = @ + 1]]]
    /\ UNCHANGED <<nodeVars, met, found, callVars, netVars, stops, used, began, up>>

Next ==
    \/ \E n \in Id, b \in Bootstrap : CheckStarted(n, b) \/ CallBootstrap(n, b)
    \/ \E c \in Call : LookupHit(c) \/ LookupMiss(c) \/ Register(c)
    \/ \E n \in Id, m \in net : Receive(n, m)
    \/ \E n \in Id, p \in 0 .. K : PeriodicTask(n, p)
    \/ \E m, o \in net : Overwrite(m, o)
    \/ \E m \in net : Lose(m)
    \/ \E n \in Id : Stop(n)
    \/ \E n \in Id, ep \in Endpoint : Start(n, ep)
    \/ Tick

Spec == Init /\ [][Next]_vars

\* Every datagram that is not lost is delivered or discarded, a thread that has
\* begun find_node() goes on, and the timer picks every good node in turn.
Fairness ==
    /\ \A n, s \in Id, t \in PacketType :
          WF_vars(\E m \in net : m.sender = s /\ m.type = t /\ Receive(n, m))
    /\ WF_vars(\E m \in net : Owners(m.dst) = {} /\ Lose(m))
    /\ \A c \in Call : WF_vars(Register(c))
    /\ \A n \in Id, b \in Bootstrap : WF_vars(CallBootstrap(n, b))
    /\ \A n \in Periodic, p \in 0 .. K : SF_vars(PeriodicTask(n, p))

FairSpec == Spec /\ Fairness

-----------------------------------------------------------------------------
(* Properties. *)

TypeOK ==
    /\ state \in [Id -> {"Off", "Started", "Bootstrapped"}]
    /\ addr \in [Id -> Endpoint]
    /\ table \in [Id -> Seq(Entry)]
    /\ \A n \in Id : Len(table[n]) <= K
    /\ found \in [Id -> [Id -> Call \union {Absent, Null}]]
    /\ timers \in [Id -> 0 .. MaxBootstraps]
    /\ booting \subseteq Id \X Bootstrap /\ asked \subseteq Id
    /\ status \in [Call -> {"new", "missed", "stored", "dropped", "done", "lost"}]
    /\ result \in [Call -> Endpoint \union {None}]
    /\ net \subseteq Datagram
    /\ mishaps \in 0 .. MaxMishaps /\ stops \in 0 .. MaxStops /\ now \in 0 .. MaxTime
    /\ used \subseteq Id \X Endpoint
    /\ sinceTask \in [Id -> 0 .. TaskGap] /\ began \in [Id -> 0 .. MaxTime] /\ up \in [Id -> 0 .. MaxTime]
    /\ fired \in [Call -> Nat] /\ booted \in [Id -> Nat]
    /\ met \in [Id -> SUBSET Id]
    /\ exposed \subseteq Id

\* An endpoint listed for an id, or handed to a caller looking for it, is one the
\* id has had, although endpoints change owner and datagrams sent to the old
\* owner reach the new one.
EndpointsAreGenuine ==
    /\ \A n \in Id : \A p \in DOMAIN table[n] : <<table[n][p].id, table[n][p].endpoint>> \in used
    /\ \A c \in Call : status[c] = "done" => <<target[c], result[c]>> \in used

\* The map of callbacks and the calls agree: a call that is waiting is in the
\* slot of its target, so that no later call displaced it, and only there; and
\* each callback runs once, when its call is over, however often the pong comes.
CallbacksAreKept ==
    /\ \A c \in Call : status[c] = "stored" <=> found[caller[c]][target[c]] = c
    /\ \A n, i \in Id : found[n][i] \in Call => caller[found[n][i]] = n /\ target[found[n][i]] = i
    /\ \A c \in Call : fired[c] = IF status[c] = "done" THEN 1 ELSE 0

\* The empty entry that handle_pong() leaves for an id nobody asked for is there
\* until the process ends, and from then on a call for that id is answered only
\* if the id is in the table when the call is made: no pong answers it.
EmptySlotIsForGood ==
    [][\A n, i \in Id : found[n][i] = Null =>
        /\ found'[n][i] = Null \/ state'[n] = "Off"
        /\ \A c \in Call :
              caller[c] = n /\ target[c] = i /\ fired'[c] > fired[c] => FindId(table[n], i) # 0]_vars

\* A node that has become Bootstrapped told so once, to a callback of bootstrap(),
\* and has its periodic task, unless it asked for nodes on behalf of find_node() or from
\* that task before bootstrap() stored a callback, or runs at an endpoint used before, where
\* the answer to an earlier process can arrive, or a peer sent it something else in a
\* buffer that a response overwrote: then it may be Bootstrapped with neither, and
\* bootstrap() is refused.
BootstrapIsReported ==
    \A n \in Id :
        /\ booted[n] <= 1
        /\ booted[n] = 1 => state[n] = "Bootstrapped" /\ n \in asked /\ timers[n] > 0
        /\ state[n] = "Bootstrapped" /\ n \notin exposed => booted[n] = 1

\* As long as no datagram is lost or overwritten, every node that bootstraps from a
\* bootstrap node that runs becomes Bootstrapped, and when all do they come to know each
\* other, although each learns of those that came before it only.
AllCalled == \A n \in Id \ Bootstrap : timers[n] > 0

EveryoneKnowsEveryone == \A n \in Id : Id \ {n} \subseteq Ids(table[n])

BootstrapSpreads ==
    /\ \A n \in Id : timers[n] > 0 ~> state[n] = "Bootstrapped"
    /\ AllCalled ~> [](EveryoneKnowsEveryone)

\* A node that knows the id a call looks for has been asked for it.
KnownTo(c, m) ==
    /\ m.type = "get_nodes" /\ m.sender = caller[c] /\ m.requested = target[c]
    /\ \E o \in Owners(m.dst) : target[c] \in Ids(table[o])

\* As long as nothing is lost or overwritten, a call that waits is answered when a peer it
\* asks knows the id, or else once every node has called bootstrap() and the periodic task
\* runs.
CallsAreAnswered ==
    \A c \in Call :
        status[c] = "stored" /\ (AllCalled \/ \E m \in net : KnownTo(c, m)) ~> status[c] = "done"

\* When the tables have room for all, the exchange of datagrams that a bootstrap, a call
\* or a run of the periodic task begins comes to an end, although every response is met
\* with pings and every datagram can list a peer -- as long as none is overwritten.
SettlesDown == []<>(net = {})

\* A peer evicted from a full table is pinged and its pong puts it back, in the
\* place of another: as long as nothing is lost or overwritten, whoever a node has heard
\* from and has not listed is on its way back.  So the exchange of datagrams among more
\* than K peers never comes to an end.
EvictedIsRecalled ==
    \A n \in Id : \A i \in met[n] \ Ids(table[n]) :
        \E m \in net :
            \/ m.type = "ping" /\ m.sender = n /\ m.dst = addr[i]
            \/ m.sender = i /\ m.dst = addr[n]

\* As long as no datagram is lost or overwritten and no table is full, a peer that runs
\* where a node lists it stays listed, since it is pinged and answers before it expires --
\* unless one of the two came too late for that, the node's periodic task or the peer's
\* process, or a late datagram came from an earlier user of the peer's endpoint.
TooLate(n, p) == table[n][p].idle > now - began[n] \/ table[n][p].idle > now - up[table[n][p].id]

LivePeersStay ==
    [][\A n \in Id : state'[n] # "Off" =>
        \A p \in DOMAIN table[n] : table[n][p].id \notin Ids(table'[n]) =>
            \/ table[n][p].endpoint # addr[table[n][p].id] \/ state[table[n][p].id] = "Off"
            \/ TooLate(n, p)
            \/ FindEndpoint(table'[n], table[n][p].endpoint) # 0]_vars

\* A peer that is gone is forgotten in due time by a node whose periodic task runs.
\* One that never calls bootstrap(), as a bootstrap node does not, has none and
\* forgets nobody.
GoneAreForgotten ==
    \A n \in Timed : \A p \in DOMAIN table[n] :
        table[n][p].idle <= ExpiredTime + sinceTask[n] \/ table[n][p].idle > now - began[n]
=============================================================================
