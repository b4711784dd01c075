# GraceMessenger in TLA+

GraceMessenger is a peer-to-peer messenger: every node keeps a table of peers
found through a DHT over UDP, looks up the current endpoint of a contact by its
id, and sends encrypted messages straight to it.  This directory holds
specifications of the program in TLA+, the TLC configurations that check them,
and proofs for TLAPS.  Paths below are relative to `src/GraceMessenger/`.

## The system

| part | source | state | operations |
|---|---|---|---|
| routing table | `network/dht/routing_table.h` | `_nodes`, the list of peers | `update`, `ping_nodes`, three queries |
| DHT node | `network/dht/dht.h` | `_state`, the two kinds of callback, timer threads | `bootstrap`, `find_node`, four packet handlers, `periodic_task`, `start` |
| DHT packets | `network/dht/messages/packets.h` | none | ping, pong, get_nodes, send_nodes |
| UDP services | `network/network_service.h`, `network/dht/network_service.h` | `_is_started`, one send and one receive buffer, the I/O thread, an `io_service` | `send`, `async_run`, the chain of receives, `start`, `stop` |
| messenger | `messenger.h` | `_network_status`, `_sent_messages`, `_sent_friend_requests` | `online`, `offline`, `send_message`, `send_friend_request`, `handle_packets` |
| message packets | `network/messages/packets.h` | none | `crypt`, `decrypt`, eight packets |
| port forwarding | `network/nat_pmp.h`, `libs/libnatpmp/natpmp.c` | a pending request, its number of tries and the time of the next | `forward_port` |
| configuration | `config/config_loader.h` | a file | `load_config`, `save_config` |
| others | `logger/`, `GraceMessenger.cpp` | none | log, demo |

How they interact:

- The messenger owns a DHT node, which owns a UDP service at the DHT port and a
  routing table; while it is online it owns a second UDP service at the next
  port.  Each service runs its `io_service` on a thread of its own.
- A datagram at the DHT port goes to `dht::handle`, which calls the handler of
  its type and then enters the sender in the routing table.
- `find_node` answers from the table, or stores a callback for the id and asks
  the closest peers.  The callback runs when the id itself sends a pong: a
  response lists nodes, each of them is pinged, and their pongs do the rest.
- `bootstrap` starts a thread that posts `periodic_task` to the I/O thread every
  `FIND_PERIOD`: it asks a random good peer for nodes and lets the table remove
  the expired peers and ping the silent ones.
- `send_message` looks the contact up and sends from the callback, on the
  caller's thread or on the DHT's; acknowledgements arrive on the other service's
  thread.
- A messenger is constructed from a configuration read from a file: it forwards two
  ports through the router, one after the other, before it creates its DHT node.
- Destructors stop a service and destroy what its threads use; no thread is joined.

What is hard in it: there are no locks, and user threads, timer threads and two
I/O threads share the table, the callbacks and the state; UDP loses, duplicates
and reorders; `find_node` and `bootstrap` neither retry nor time out; processes
end and come back, at other endpoints, with an empty table; time stamps are
those of a clock that can be set.

What makes each part correct:

- **Routing table**: bounded; no id twice; nobody is lost but for a stated
  reason; whoever is silent is pinged before it is removed; `is_good` is right.
- **DHT node**: a callback runs at most once, with an endpoint its id has had; a
  bootstrap is reported when and only when it succeeded; peers that bootstrap
  come to know each other; a call is answered when somebody can answer it; live
  peers stay listed and dead ones do not; the exchange of datagrams ends.
- **UDP services**: a service that is started goes on receiving; a datagram
  carries the message it was sent for, or at least none that was over and done with;
  destroyed, it and its threads come to an end, and none of them uses what is gone.
- **Start**: `forward_port()` backs off, spaces its requests and ends; a configuration
  survives a crash.
- **Messenger**: a message is reported delivered only if the contact received
  it, at most once; nothing uses the service after `offline`.

## The modules

| module | models |
|---|---|
| `NodeList` | the list of peers as operators: searching, `update`, expiry, marking, the queries |
| `RoutingTable` | `class routing_table` under its clock and its periodic task |
| `ListWalk` | `find_node()` on the caller's thread, which walks the cells of the list while the I/O thread changes it |
| `PeerDirectory` | what the routing table promises: a bounded directory of peers |
| `MCRoutingTable` | a small instance of the routing table and the walk |
| `Dht` | `class dht`, several nodes, and the datagrams between them |
| `MCDht` | small instances of the DHT |
| `DhtLifetime`, `MCDhtLifetime` | one `dht` object and its UDP service from constructor to destructor, with the threads they start |
| `NetworkService` | `class network_service`, the messenger's UDP service, with `online()` and `offline()`, its threads and their `io_service` |
| `MCNetworkService` | a small instance of the service |
| `Startup`, `MCStartup` | configuration file, port forwarding under a clock that is set, the binding of both services, with crashes |
| `Messenger` | `class messenger`, several of them, and the packets between them |
| `Delivery` | what the messenger promises about a message |
| `MCMessenger` | a small instance of two messengers |
| `PacketSizes`, `MCPacketSizes` | the sizes of the messenger's packets, and a range of texts |
| `NodeListProofs`, `RoutingTableProofs` | lemmas about the operators, theorems about the table and the walk |
| `NetworkServiceProofs` | theorems about the service |
| `MessengerProofs` | theorems about the messenger |
| `PacketSizesProofs` | theorems about the sizes |
| `DhtProofs` | theorems about the DHT |
| `DhtLifetimeProofs` | theorems about the lifetime of a node |
| `StartupProofs` | theorems about configuration and ports |

`RoutingTable` and `Dht` extend `NodeList`: the DHT nodes use the very
operators the proofs are about.  `RoutingTable` is shown to implement
`PeerDirectory`, and `Messenger` to implement `Delivery`.  `Messenger` takes
over from `NetworkService` that only the first service of a process receives, and
from `Dht` that the callback of a lookup runs once at most.

Definitions that a comment calls mutants are no part of a specification: each
is a wrong form of the definition after it, the kind of bug a change might
introduce, and `PROJECT.json` says which property refutes it.

### NodeList and RoutingTable

`nodes` is `_nodes`, first to last.  An entry holds `idle`, the clock minus
`last_activity`, in ticks; `Diff` is the difference as the code computes it, in
an unsigned type of `Wrap` values.  `Update` is `update()` for one datagram;
`PingNodes` is `ping_nodes()`; `Tick` lets time pass, `StepBack` sets the system
clock back (`get_timestamp()` reads the system's clock on the program's
compiler).  `sinceRun` keeps the periodic task punctual: it runs at least every
`TaskGap` ticks, as `FIND_PERIOD` (20 s) is a third of `PING_PERIOD` (60 s).
`probed` is a history of who has been pinged since it was last heard from.  The
periods of the instance (1, 2, 3) keep the order of 60, 130 and 300 s.

A sort that is not stable leaves ties in any order, so `Closest` has several
results; `id_distance()` looks at 8 of an id's 32 bytes, so ties are possible
and the distance is an arbitrary function.

### Dht

One node has the variables of `class dht`: `state`, `table`, `found` (the map of
callbacks), `asked` (`_bootstrap_callback` is set), `timers` (its timer
threads).  `net` is the set of datagrams in flight; two equal ones are one.
The handlers and the periodic task run on the I/O thread and are one step each.
`bootstrap()` is two steps, its test and the rest, and `find_node()` is two, its
lookup and the rest, because they run on other threads: any handler can come
between.  `handle()` is `Handled` with the handler of the packet's type: the
reply, the ping of an eviction, and the entry of the sender in the table.

`found` has three kinds of value: no entry, the empty function that
`_found_nodes_callbacks[id]` leaves behind, and the callback of a call.

All datagrams of a node go through the one `_send_buf` of its service
(`dht/network_service.h:44`), to which the threads of `bootstrap()` and `find_node()` copy
as the I/O thread does, without a lock, and which the system reads some time after
`send()` has returned.  `Overwrite` is a datagram that leaves with what was copied after
it: the type, sender and content of the later one, the destination and length of the
earlier.  A longer message is cut, and as the receiver trusts the type, its content is
then whatever the receive buffer held (`Overwritten`, `Body`).  A response that got into
a datagram so may make a node Bootstrapped that asked for none: whoever it reaches is
`exposed`.  The copy is one step here; that copies mix is in `NetworkService`, which has
the same `send()`.  A receiver that reads past the end of its buffer, when what is cut off
is the count of nodes, is not modelled.

`send_message()` drops what is addressed to `_main_node.endpoint`; that is the
wildcard address, which no peer is seen at, so nothing is ever dropped.

`Stop` ends a process and `Start` starts one, at any endpoint that is free.
Datagrams stay in flight, so the next process at an endpoint receives what was
meant for the last.

`used`, `fired`, `booted`, `met`, `began`, `up` and `exposed` are histories that
only properties read.

### ListWalk

The same table, with its list seen as cells: `cell` numbers the cells of the list in
order, a splice moves a cell, a take-over leaves it where it is, an eviction or expiry
frees it, and a newcomer may get a freed cell, at once too, as `pop_front()` comes
before `push_front()`.  The walk is `dht::find_node()`: it searches (`find_if`),
collects (`find_closest_nodes`), and then reads the endpoint of the cell found, or asks
those collected.  It reads one cell and follows one link in a step, and any `update()`
or `ping_nodes()` may come between.  A read of a freed cell is undefined: `Dangle` gives
the walk up.  That links are read as a whole is an assumption.

### DhtLifetime

`life` is how far the owner's thread is in `dht()`, `start()` and `~dht()`, member by
member; `Exists` says which parts there are.  The I/O thread and the timer threads go
on while that happens.  `port` is the completion port of asio's `io_service`, as
`libs/asio/detail/impl/win_iocp_io_service.ipp` uses it: a queue of completed
operations and posted tasks; `stop()` posts one event, which a thread inside `run()`
takes, posts again for the next one, and leaves; an `io_service` without work stops
itself; and `~io_service()` takes from the same queue until there is no work.  `Use`
records in `faults` a part that a thread used when it did not exist; the code's effect
is then undefined and the model goes on without one.  Memory that is gone reads as
anything (`GoesOn`, `Rearm`).

### NetworkService

`pc` says how far the owner's thread is in `online()` or `offline()`, `io` where each
service's I/O thread is.  `start()` is three steps, the receive, the thread,
`_is_started`, because the new thread runs between them; `handle_receive()` is three
more, the receive, the test of the status and the next receive.  `send()` is three:
`Begin` copies the first half of a message to `_send_buf`, `Finish` the second, and
`Post` is `async_send_to()`; the socket reads the buffer in a step of its own, later
(`Transmit`).  Threads of the user call it (`Call`), and the I/O thread does, for the
acknowledgement of a message (`Answer`, `Answered`): they may copy at once, and a
datagram have halves of two messages.  `overlaps` is a history of which messages were
copied while which were being sent.  `_is_started` has no value before it is set, so
`Bind` chooses one.  The completion port is as in `DhtLifetime`, but belongs to the
messenger and outlives its services: what a destroyed service has left in it, an aborted
receive or a send, is taken by the thread of the next one, if that gets to it before the
stop event; `about` is the service whose handler a thread runs.  `fault` remembers that
a thread used a service that does not exist, which is undefined: the model then goes on
without an effect.

### Messenger

`stage` is how far each message is on its way: `Send` is `send_message()` (or
`send_friend_request()`) up to the lookup, `SendPacket`, `Record` and `Tell` are
the three statements of the lookup's callback, on another thread than the
handlers.  `records` is both maps of what was sent.  `HandleMessage` and
`HandleAck` are the cases of `handle_packets()` that do anything; `Report` is
`message_received()`, which runs after the acknowledgement has been sent.  A lookup
that is never answered is a message that stays `sought`; the branch for a failed
lookup is not modelled, since nothing in the DHT calls back with a failure.

The send buffer is that of `NetworkService`, and is not modelled again.  A packet that
another overwrites is lost, and if the other is for the same contact it may come once
more: both are in the model (`Lose`, `Received`).  For another contact, the key is
another, and it decrypts to nothing.

`Delivery` counts what is reported, to the contact's user and to the sender's: each
report of the messenger is one step of the contract, and a second confirmation of one
message would be none.

### Startup

`Load` is `load_config()` and the entry into the constructor of `messenger`;
`forward_port()` is `Forward`, then `Retry` as often as `readnatpmpresponseorretry()`
gives `NATPMP_TRYAGAIN` at the time of a retry, and `End`.  Time is in ticks of 250 ms,
`due` the ticks until `retry_time`: `SetBack` and `SetForward` set the clock that is
compared with it, and a `Tick` may pass while the process is suspended.  `asleep` is what
is left of the wait in `select()`, which no setting of the clock changes; when it is over
before `retry_time`, the loop waits again (`Again`).  `recognised` is whether the
compiler's `EWOULDBLOCK` is what `recvfrom()` reports: with the headers of Visual Studio
2010 and later it is not, unless redefined, and then the first empty read ends the loop.
The router answers, refuses, or does neither (`Respond`).  `file` is the port in the
configuration file, `Cut` after `save_config()` has opened it and before it has written
it, and for good when it cannot (`WriteFails`): nobody tests the stream.  The port stands
for the whole configuration.  (Of a cut file the id is empty, and read past its end,
`user_id.h:33`; nothing here depends on it.)

A bind that fails throws, which ends the program (`GraceMessenger.cpp:94`): that is
`Crash`.  With port 0 the DHT is bound to any port and the service to port 1
(`messenger.h:53`), and after the last port the service to any (`Bound`, `NextPort`).

### PacketSizes

One packet goes from its constructor (`Compose`, `ComposeFixed`) through `crypt()`
(`Crypt`) and the datagram to `decrypt()` (`Decrypt`).  The variables are the sizes
the code computes on the way, narrowed to 16 bits where its types are.  `wchar_t` has
two bytes, as on the compiler the project files are for.  A text longer than its
array is left out: copying it has no defined meaning.

## The runs

| run | instance | shows |
|---|---|---|
| `routing_table` | 4 peers and the owner, 3 endpoints, K = 3, 2 changes during a walk | types, distinct ids, order, `is_good`, pings, justified losses, refinement of `PeerDirectory`; what a walk finds, collects and reads |
| `dht_lookup` | 3 nodes of which one starts late, 2 calls for one id, one duplicated or overwritten datagram | types; each callback runs once or provably never |
| `dht_churn` | 3 nodes of which one starts late, one stop, loss, one overwritten datagram, a call, 3 endpoints | endpoints are genuine; a bootstrap is reported |
| `dht_spread` | 3 nodes, no loss, K = 2, the periodic task of the caller | everyone comes to know everyone; a call is answered by those it asks, or in the end through the task; after each exchange the network falls silent |
| `dht_contention` | 3 nodes, K = 1 | the evicted come back, for ever |
| `dht_clock` | 2 nodes, 6 ticks, 2 stops, 3 endpoints, one duplicated datagram | live peers stay, dead ones go, wherever they come back |
| `dht_lifetime` | 1 object, 2 calls of `bootstrap()`, 2 tasks in the port, fair | what a thread uses that does not exist needs company; the I/O thread serves while the node is up; timers end; the destructor ends |
| `service` | 2 services one after the other, 2 sends by a thread of the user and the I/O threads, 1 datagram and any number of failed receives, fair | one receive at a time; each half of what a datagram carries is its own or one that overlapped it; deafness only by the race at the start; no use of a missing service before the first `offline()`; the first service handles what reaches it |
| `service_restart` | the same | **violated**: `online()` after `offline()` runs a stopped `io_service` |
| `messenger` | 2 messengers, a text each way of which one may be lost, one duplicate, 2 calls of `online()` each, fair | deliveries reported once and truly; records are what is open; reports of what was sent; refinement of `Delivery`; a text of which nothing is lost is reported delivered, or its acknowledgement overtook its record |
| `packet_sizes` | texts of 0 to 40 and of the 40 largest lengths, and packets without one | sizes fit their types and arrays; a text arrives whole |
| `startup` | 8 port numbers, 7 requests for a port, 2 crashes, 2 saves, a clock set back once and forward once, 2 ticks of suspension, fair | requests back off, and are spaced but for a burst of what is overdue; the port in use is the one saved; the messenger comes online |

What the properties found out about the code, all in their comments too:

- **The head of a full table is no measure of age.**  A newcomer replaces the head
  and stays there, so the next newcomer evicts it.  Only behind the head is the
  list ordered by age (`RecencyOrder`).
- **More peers than places never come to rest.**  The evicted head is pinged, its
  pong makes it a newcomer, and so on (`EvictedIsRecalled`).
- **A clock set back empties the table.**  `last_activity` is then in the future,
  the unsigned difference is huge, and the peer is removed
  (`LossOnlyJustified`).
- **A pong nobody waits for poisons its id.**  It leaves an empty callback that is
  never removed, and `insert()` does not replace it: a later `find_node` for
  this id, once the id is no longer in the table, is never answered
  (`EmptySlotIsForGood`).  So is the second of two calls for one id
  (`CallbacksAreKept`).
- **A node can be Bootstrapped without a timer.**  A response to `find_node`, or
  one meant for an earlier process at the endpoint, is enough; then `bootstrap()`
  is refused and neither the callback nor the periodic task ever runs
  (`BootstrapIsReported`, whose exception is `exposed`).  So is a pong or a request that
  left with a response, copied to the send buffer after it.
- **A bootstrap node forgets nobody**: it never calls `bootstrap()` and has no
  periodic task (`GoneAreForgotten`).
- **Offline is for good.**  `stop()` stops the messenger's `io_service`, which outlives
  the service and is never reset, as asio's documentation asks
  (`libs/asio/io_service.hpp:408`): the `run()` of the next service takes what lies
  before the stop event and returns.  The service sends, but from then on receives
  nothing (`ResetBeforeRun`, violated; `Hears` of `Messenger` takes it to hear nothing
  at all).
- **The next service runs the handlers of the last.**  A receive that `offline()` aborts
  stays in the port; the thread of the next service may run its handler on the object
  that is gone (`FaultOnlyAfterOffline`).
- **A service can be deaf from the start.**  A datagram handled before
  `_is_started` is set may be the last (`DeafOnlyByRace`).
- **The send buffer is shared.**  A datagram may carry another message, later or earlier,
  or halves of two, to an endpoint neither was meant for.  What is left is that each half
  is its own or one that was being copied at the time (`CarriesWhatOverlaps`).
- **After `offline()` a callback may use a service that is gone**: it does not test
  the status again (`FaultOnlyAfterOffline`).
- **An acknowledgement can overtake the record.**  The message is sent before it is
  recorded; acknowledged in between, it is never reported delivered and its record
  is kept for good (`missed`, in `DeliveredOrMissed`).
- **Destroying an idle node may hang.**  `~dht()` joins no thread.  Of the I/O thread
  and `~io_service()` only one gets the stop event: if it is `~io_service()`, which
  drops it, the thread waits for an event nobody will post, and later uses a port that
  is gone (`robbed`, in `DestructorEnds` and `FaultsNeedCompany`).
- **A response can revive a dying node.**  `_state` is tested and set in two steps; with
  `~dht()` in between its timers go on with the object gone (`TimersEnd`).
- **The DHT's I/O thread may leave a node that is up**: a handler that finds
  `_is_started` unset leaves no work, and `run()` returns (`ServesWhileUp`).  A datagram
  that comes earlier still finds no routing table, or none of the services
  (`FaultsNeedCompany`).
- **A walk may miss, repeat or confuse.**  A lookup passes over peers when the entry it
  stands at is moved to the end, asks one twice that was moved after it was collected or
  that it has passed again with the entry it stands at, and may answer with the endpoint
  of another peer that took the entry over and has moved since, or got its memory
  (`FindsWhatStays`, `EndpointWasTargets`).
- **A crash while saving loses both configurations**: the file is truncated first, and
  what is left is read without an error, as port 0 (`PortIsSaved`).  So does a write that
  fails.  The DHT is then bound to any port and the service to port 1, where nobody looks
  for it.
- **Overdue requests are sent in a burst.**  `retry_time` is moved by the delay from where
  it was, so a process that was suspended, or whose clock was set forward, repeats its
  request at once until the delays have caught up (`RequestsAreSpaced` says by how much);
  and a clock set forward brings requests nearer (`BacksOff`).
- **Friend requests are neither acknowledged nor reported**: the case of
  `handle_packets()` is empty, so their records are never removed.

### Bounds

- `routing_table`: K = 3 has a head, a middle and a back; a fourth peer makes an
  eviction, and fewer endpoints than peers make take-overs.  `MaxSkew` = 2 sets
  the clock back twice, or behind what was last heard.  Peers and endpoints are
  interchangeable and a symmetry set.  A walk begins when no entry is silent or pinged
  (`Young`), takes less than a tick, and sees two changes: one to disturb it where it
  stands, and one more that moves what took its place.  The theorems are about walks
  that see any number of changes.
- DHT: a bootstrap node and two peers are the fewest with a third party to learn
  of.  K = 2 holds all the others, K = 1 does not.  `Copied`, `MaxMishaps`, `MaxStops`,
  `MaxBootstraps` and `MaxTime` bound what would be endless; `Periodic` says whose
  timer runs, `MaxPending` how many datagrams may be in flight when it does, and `Asks`
  who calls `bootstrap()` with which node.  `Overwriting` is on in `dht_lookup` and
  `dht_churn`, with one datagram each, and off where the property assumes that nothing is
  lost, since whatever is overwritten is lost and not sent again.  `dht_churn` has what it
  takes for a response to overwrite something else, a second node that is asked, and a call
  of `find_node()`: without the exception for such a response `BootstrapIsReported` is
  violated there.
  The two calls of `dht_lookup` are interchangeable and a symmetry set.
- `service`: two services are the fewest with a restart; two sends, by a thread of the
  user and by an I/O thread, or one after the other by either, let one be copied while the
  other is copied, between its steps or in flight.  Receives that fail take the place of
  further datagrams.
- `dht_lifetime`: two timers, and a task of each in the port, which runs when the object
  is gone.
- `startup`: 8 ports with 7, the last, for 2^16; 7 of the 9 requests of the code, each of
  which doubles the time, where the proofs have all 9; a tick by which the clock is set
  back, one by which it is set forward and two of suspension, which is enough for a request
  that is overdue by more than the first delay; two configurations, two saves and two
  crashes, each at any step, so that the second may come before what the first lost is
  saved again.
- `packet_sizes`: lengths around both ends, in every phase of a block; the proof
  covers those between.
- `messenger`: the ways a packet can be late, early, lost or duplicated concern one
  message each; the second message runs beside it and shares the thread and the
  records.  Friend requests are in the model and the proofs and not in this instance:
  they do less than a text does.  Two calls of `online()` give a messenger that
  hears and one that does not.
- A tick is long: datagrams do not outlive it (`Tick` waits for `net = {}`).  No
  property is about a datagram older than that.
- Deadlock is not checked: a network without loss and timers falls silent, which
  is what `SettlesDown` says, and a service or messenger may have nothing left to do.

### Fairness

The I/O thread handles what arrives (weak fairness for each sender and type of
packet), a datagram nobody listens for disappears, a thread inside `bootstrap()`
or `find_node()` goes on, and the periodic task, which runs for ever and picks
a good peer at random, picks each of them again and again (strong fairness for
each place in the list).  Nothing makes a user call anything, a datagram arrive
where loss is allowed, or a process start.

`NetworkService`: `online()` and the I/O threads go on; a receive that is tried again
and again does not fail every time (strong fairness of `Receive`).  `Messenger`:
the DHT calls back and the callback runs to its end; the thread of the service takes
every packet in its turn, and since it is busy in between, that is strong fairness.
Nobody has to go online or to send.  `Startup`: the process goes on, the wait in
`select()` and the writing of a file included, whether or not it succeeds, and so does time;
the router need not answer.  That crashes, suspensions and settings of the clock come to
an end is what their bounds say.

## The proofs

`RoutingTableProofs` proves, for every set of ids and endpoints, every K, and all
periods that satisfy the named assumptions:

| theorem | property |
|---|---|
| `TypeCorrect` | `TypeOK`, with the bound K |
| `IdsAreDistinct` | `DistinctIds` |
| `ListIsByRecency` | `RecencyOrder` |
| `GoodnessIsRight` | `GoodnessIsAccurate` |
| `SilenceIsNoticed` | `SilentPeersAreProbed` |
| `LossIsJustified` | `LossOnlyJustified`, an action property |
| `TableImplementsDirectory` | `ImplementsDirectory`, the refinement of `PeerDirectory` |
| `WalkUsesTable` | each behaviour of `ListWalk` is one of the table: `WalkSpec => Spec` |
| `WalkFindsWhatStays` | `FindsWhatStays`, an action property of the walk |
| `WalkGivesTargetsEndpoint` | `EndpointWasTargets`, an action property of the walk |

The assumptions: K is positive; `PingPeriod < BadPeriod < ExpiredTime`; the task
runs often enough (`GapAssumption`); and the type of the time stamps is wider
than any time that can pass before an entry is removed.

The five invariants together with `NotFromFuture` (no entry is further in the
future than the clock was set back) are inductive, `IInv`.  They need one
another: that a silent peer was probed rests on the bound of its age, that on
`NotFromFuture` (else the difference wraps and says nothing), and what
`update()` does to a list rests on its ids being distinct.  `NodeListProofs`
reduces `update()` to three shapes of list, an entry touched, the head
replaced, an entry appended (`UpdatedLemma`), and a sweep to an increasing
choice of positions (`SweptLemma`); the steps of `RoutingTableProofs` then have
one case for each shape and each conjunct.

A state of the table is one of `PeerDirectory` by its ids, their endpoints and who is
past expiry.  `UpdateImplements` and `PingNodesImplements` say which of the abstract
steps the two operations take, `AgedImplements` that the clock takes the third.  A step
that is right for the list may be wrong for the directory only if an id is listed twice,
so the refinement too rests on `DistinctIds`.

The walk needs more than the three shapes: which entry stands where, before and after.
`Reordered` of `NodeListProofs` maps each position of the new list to one of the old and
keeps their order but for one entry, and `Rearranged` says the same of cells.  A cell is
still to be seen if it is not before the iterator (`Ahead`).  The invariant `WInv` says
that the id searched for is ahead (`TargetAhead`), that what stays is collected or ahead,
and what is both was spliced (`RestAhead`), and that the entry found is the target's or
was taken over (`FoundWasTargets`).  A change keeps these unless it splices or frees the
entry the iterator points to, which is the exception in the properties.  Among the
exceptions are duplicates: a walk that goes on from a spliced entry may collect an id a
second time though that id was not heard from, which takes three changes to show, one
more than the run has.

`MessengerProofs` proves, for every set of messengers and messages, any number of
duplicates and of calls of `online()`, with loss or without:

| theorem | property |
|---|---|
| `TypeCorrect` | `TypeOK` |
| `DeliveryIsReportedOnce` | `DeliveredOnce` |
| `RecordsAreKept` | `RecordsAreOpen` |
| `ReportsAreOfWhatWasSent` | `ReportedAsOften` |
| `MessengerImplementsDelivery` | `ImplementsDelivery`, the refinement of `Delivery` |

Its inductive invariant adds three facts to the properties: what is acknowledged was
accepted (`AckedIsAccepted`); a message is in one place only, in flight, with the
handler or with the user, once for each time it was sent or duplicated
(`SeenAsSent`); and what waits to be reported waits where it is addressed
(`HandledIsReported`).  That a delivery is reported once rests on the records: a
record exists only while nothing was reported.  The assumptions are that
`from` and `to` are total and that ids of messages are distinct.

`PacketSizesProofs` proves `TypeOK` (`SizesFit`) and `TextArrives` (`WholeTextArrives`)
for every set of lengths up to that of the array.  Its lemmas say what the
operators return: `Rounds` is the least number of blocks that hold so many bytes,
and no sum on the way is cut off by `Narrow`.

`NetworkServiceProofs` proves, for every number of services, senders, sends and
datagrams:

| theorem | property |
|---|---|
| `TypeCorrect` | `TypeOK` |
| `CarriesOwnOrOverlapping` | `CarriesWhatOverlaps` |
| `BufferIsExclusive` | `ReceiveBufferIsExclusive` |
| `OnlyTheRaceDeafens` | `DeafOnlyByRace` |
| `FaultsAwaitOffline` | `FaultOnlyAfterOffline` |

There are four inductive invariants.  `TInv` adds to the types that what is copied is a
message, and that nothing in flight or copied outlives its service (`SendsOfService`).
`BInv` says of the buffer what the property says of datagrams (`Overlapping`): of every
message between the beginning of its copy and its transmission, the first half in the
buffer is its own or of one that overlaps it, and once it is copied whole the second too.
That needs a third part: whoever has its second half still to copy overlaps with all that
is in progress, so that nothing is surprised by that half, however late it comes.
`RInv` counts the receives of a service: with `armed` there is none in the
port and no handler, and nothing in the port is of a service to come.  `Faultless` says
that a thread about to answer finds a service, and that no sender holds on to one that
is gone, unless the messenger has been offline.

`DhtProofs` proves, for every number of nodes, endpoints and calls, every K, with loss,
copies, overwritten datagrams, ends of processes and ticks without bound but for the types:

| theorem | property |
|---|---|
| `TypeCorrect` | `TypeOK` |
| `CallbacksKept` | `CallbacksAreKept` |
| `EmptySlotForGood` | `EmptySlotIsForGood`, an action property |
| `GenuineEndpoints` | `EndpointsAreGenuine` |
| `BootstrapReported` | `BootstrapIsReported` |
| `GoneForgotten` | `GoneAreForgotten` |
| `EvictedRecalled` | `EvictedIsRecalled`, if `Reliable` |
| `LivePeersStayListed` | `LivePeersStay`, an action property, if `Timely` |

They rest on the lemmas of `NodeListProofs` about `update()` and the sweep, which
`UpdatedEntries` and `SweptEntries` turn into what the DHT needs: each entry is the
sender's or was there before.  `TypeOK` is proved in parts that an action changes or
leaves alone as a whole.  `CallbacksAreKept` is inductive with the types (`CInv`).
That endpoints are genuine needs the same of the datagrams in flight, that a process
that runs has had its endpoint, and that a thread in `bootstrap()` belongs to one that
runs (`GInv`).  That a bootstrap is reported needs the way a response comes about:
whoever is sent one, or will be by a request in flight, has called `bootstrap()` or is
`exposed` (`BNet`), and no two processes share an endpoint (`BOwners`), so that a late
response reaches another process only at an endpoint used before.  An overwritten datagram
goes where its node sent something else, and carries a response to whoever is there, or
starts there before it arrives (`Awaited`): all of them are `exposed`.  `GoneAreForgotten`
needs that no entry is older than the run (`NAges`), or the difference would wrap.  The
assumptions: callbacks are distinct from the two marks of a slot, nodes that run
initially have endpoints of their own, and the time stamps do not wrap within a run.

The last two theorems have hypotheses on the constants, which the properties are not true
without; the runs that check them satisfy these (`DhtContention.cfg`, `DhtClock.cfg`).

- `Reliable`: nothing is lost or overwritten, no process ends and nothing gets old
  enough to expire.  Any of these breaks the way back of an evicted peer, which is a
  single chain of datagrams: the ping, its pong, or whatever else the peer has sent.
  The peer can be anywhere on that chain only if whoever is listed, heard from or in
  flight is still where it was (`ENet`, `ETables`, `EMet`); then the step that takes a
  datagram off the chain puts the next one on it, or enters the peer.  No number of
  nodes and no K is assumed.
- `Timely`: nothing is lost or overwritten; `PingPeriod + TaskGap <= ExpiredTime`, as
  60 s and a task every 20 s are within 300 s; and a table has room for all the other
  nodes, or it evicts live ones.  Processes may end, come back and move, and datagrams
  may be copied.  The invariant (`LHeard`) says of a live peer that it was heard from
  within `PingPeriod` of the last sweep, or that the sweep has pinged it and the answer
  is in flight, which the next tick waits for: one sweep finds it silent at
  `PingPeriod + TaskGap` at most, before it can expire, and no second one does.  That there is room
  is a matter of counting: the ids of a table are distinct and none is the node's own
  (`LDistinct`, `LSelf`), so a table of K lists everybody.

`DhtLifetimeProofs` proves, for every number of timers, tasks and datagrams:

| theorem | property |
|---|---|
| `TypeCorrect` | `TypeOK` |
| `NodeServes` | `ServesWhileUp` |
| `TimersStop` | `TimersEnd`, an action property |
| `OnlyCompanyFaults` | `FaultsNeedCompany`, an action property |

The invariant says what a thread can find at each stage of the owner's: before the object
is up, nothing but what a datagram brought (`Idle`); in service, a receive, a datagram to
handle or a handler at work, so that the `io_service` never runs out of work and has not
stopped itself (`Listening`); in the destructor, the state `Off` (`SwitchedOff`), and
without company nothing in the port but the stop event, at its head (`Quiet`), which
stays until `~io_service()` (`Stopped`).

`StartupProofs` proves, for every number of ports, requests up to 9, saves and crashes,
any setting of the clock and any suspension:

| theorem | property |
|---|---|
| `SavedPortIsUsed` | `PortIsSaved` |
| `RetriesBackOff` | `BacksOff` |
| `RequestsSpaced` | `RequestsAreSpaced`, an action property |

One invariant says that the file is the one saved last, but for a save that has begun,
in a process that is online, or was interrupted (`FileIsSaved`).  The other says that
what is left until `retry_time` is what is left of the sum of all delays so far, moved
by the settings of the clock (`DelaysAddUp`); that `select()` does not sleep past
`retry_time` but for what the clock was set forward and the process suspended
(`SleepIsShort`), so that a request is overdue by no more; and so that the time since
the last request and the time left make up the delay between them, but for the same
(`LastWasDue`).  A clock set back brings no request nearer.  `MaxTries` is at most 9,
the number of requests in libnatpmp: that the delay doubles (`Doubling`) is proved case
by case, since an induction on the exponent is beyond the provers.

The types of the messenger, the service and the lifetime of a node are proved and not
checked by a run; of those of `Startup` the proofs use, and prove, the parts they name
(`FileType`, `ForwardType`).

Every invariant, action property and refinement that a passing run checks is proved.
Only model-checked is what is beyond the prover, liveness under fairness:
`BootstrapSpreads`, `SettlesDown`, `CallsAreAnswered`, `FirstServiceHears`,
`DeliveredOrMissed`, `DestructorEnds` and `StartsUp`.

## What is not modelled

- The ciphers, JSON, and of asio and libnatpmp whatever the modules do not name.
- `ping()`, `pong()` and the packets of adding and deleting friends: they keep no
  state, and nothing but a ping makes a messenger send one.
- Torn reads and writes: a step reads or writes a pointer, a link or a map as a whole.
  In the code `_sent_messages` and the maps of callbacks are shared without a lock.  Of
  the two send buffers, `NetworkService` has copies that mix, half by half; in `Dht` a
  copy is whole, and one datagram overwrites another as a whole.  The system's read of a
  send buffer is one step in both.
- A datagram whose contents make its receiver read or write past the end of a buffer.
- The lifetime of a port mapping, 43200 s: nothing in the code counts or renews it.
- The resolution of host names and the log, which hold no state.  (The logger is a
  function-local static that several threads may initialise at once.)
- The destruction of a `messenger` while its threads run: as for `dht`, none is joined.

## Plan

Done: all of the parts above, with the theorems about the table and the walk, the DHT, the
lifetime of a node, the messenger, its service, the start and the sizes.  Left, in this
order:

1. Composition: a `Lookup` specification (a call is answered at most once, with a
   genuine endpoint) implemented by `Dht` and used by `Messenger`, whose contacts may
   then move.  `CallbacksKept` and `GenuineEndpoints` are most of its proof.
2. The destruction of a messenger, as `DhtLifetime` has it for a node.
3. What is proved of `LivePeersStay` when tables are smaller than the network: who is
   evicted is then a live peer, and what remains true is that it is pinged again.
