---------------------------- MODULE RoutingTable ----------------------------
(***************************************************************************)
(* class routing_table (network/dht/routing_table.h): the peers one DHT    *)
(* node knows.  Its two mutators run on the thread of the io_service:      *)
(* update() for every datagram received, ping_nodes() from the periodic    *)
(* task.  Time passes in ticks, and the system clock may be set back.      *)
(***************************************************************************)
EXTENDS NodeList

CONSTANTS
    MainId,    \* the identifier of the node that owns the table
    TaskGap,   \* bound: ticks between two runs of the periodic task
    MaxSkew    \* bound: ticks by which the clock is set back in all

ASSUME MainAssumption == MainId \in Id

ASSUME ClockAssumption == MaxSkew \in Nat

\* The task runs every FIND_PERIOD, well within the time that separates the
\* first ping of a silent peer from its expiry.
ASSUME GapAssumption ==
    /\ TaskGap \in Nat
    /\ PingPeriod + TaskGap <= ExpiredTime
    /\ ExpiredTime + TaskGap < Wrap
    /\ ExpiredTime + MaxSkew < Wrap

VARIABLES
    nodes,     \* _nodes
    sinceRun,  \* ticks since ping_nodes() last ran
    skew,      \* ticks by which the clock has been set back so far
    probed     \* history: the ids pinged since they were last heard from

vars == <<nodes, sinceRun, skew, probed>>

Init ==
    /\ nodes = << >>
    /\ sinceRun = 0
    /\ skew = 0
    /\ probed = {}

-----------------------------------------------------------------------------

\* update(id, endpoint): a datagram from this id came from this endpoint.
Update(i, ep) ==
    /\ i # MainId
    /\ nodes' = Updated(nodes, i, ep)
    /\ probed' = probed \ {i}
    /\ UNCHANGED <<sinceRun, skew>>

\* ping_nodes()
PingNodes ==
    /\ nodes' \in Swept(nodes)
    /\ probed' = probed \union {nodes'[p].id : p \in {q \in DOMAIN nodes' : Due(nodes'[q])}}
    /\ sinceRun' = 0
    /\ UNCHANGED skew

Aged(d) == [p \in DOMAIN nodes |-> [nodes[p] EXCEPT !.idle = @ + d]]

\* A unit of time passes; the periodic task is never later than TaskGap.
Tick ==
    /\ sinceRun < TaskGap
    /\ sinceRun' = sinceRun + 1
    /\ nodes' = Aged(1)
    /\ UNCHANGED <<skew, probed>>

\* The system clock is set back.
StepBack(d) ==
    /\ skew + d <= MaxSkew
    /\ skew' = skew + d
    /\ nodes' = Aged(-d)
    /\ UNCHANGED <<sinceRun, probed>>

Next ==
    \/ \E i \in Id, ep \in Endpoint : Update(i, ep)
    \/ PingNodes
    \/ Tick
    \/ \E d \in 1 .. MaxSkew : StepBack(d)

Spec == Init /\ [][Next]_vars

-----------------------------------------------------------------------------
(* Properties. *)

\* The list is well typed and never longer than K.
TypeOK ==
    /\ nodes \in Seq(Entry)
    /\ Len(nodes) <= K
    /\ sinceRun \in 0 .. TaskGap
    /\ skew \in 0 .. MaxSkew
    /\ probed \subseteq Id

\* No id is in the list twice, and the node itself is never in it, although
\* update() overwrites the id of an entry when a peer reappears at a known
\* endpoint under a new id.
DistinctIds ==
    /\ \A p, q \in DOMAIN nodes : nodes[p].id = nodes[q].id => p = q
    /\ \A p \in DOMAIN nodes : nodes[p].id # MainId

\* While the clock is not set back, the list is kept oldest first but for its
\* head: a newcomer to a full list is put in front.  So the head, which the
\* next newcomer evicts, is the oldest entry or the last newcomer.
RecencyOrder ==
    skew = 0 => \A p, q \in DOMAIN nodes : 2 <= p /\ p < q => nodes[p].idle >= nodes[q].idle

\* is_good tells what the periodic task could know: an entry marked bad has
\* been silent for BAD_PERIOD (up to what the clock was set back since), and
\* one still good was not silent that long when the task last ran.
GoodnessIsAccurate ==
    \A p \in DOMAIN nodes :
        IF nodes[p].is_good
        THEN nodes[p].idle <= BadPeriod + sinceRun
        ELSE nodes[p].idle + skew > BadPeriod

\* No peer is kept long after its expiry, and every peer silent for longer than
\* PING_PERIOD when the task last ran has been pinged since it was heard from.
SilentPeersAreProbed ==
    \A p \in DOMAIN nodes :
        /\ nodes[p].idle <= ExpiredTime + sinceRun
        /\ nodes[p].idle > PingPeriod + sinceRun => nodes[p].id \in probed

\* The ways a known id can leave the list in one step: the entry of its
\* endpoint was taken over by a new id; a new id at a new endpoint evicted the
\* head of a full list; or it expired in ping_nodes() after it was pinged in
\* vain -- unless the clock was set back past its last activity, when it is
\* removed however recently it was heard from.
JustifiedLoss(p) ==
    \/ \E i \in Id \ Ids(nodes) :
        /\ i # MainId
        /\ Ids(nodes') = (Ids(nodes) \ {nodes[p].id}) \union {i}
        /\ \/ \E q \in DOMAIN nodes' : nodes'[q] = Fresh(i, nodes[p].endpoint)
           \/ p = 1 /\ Len(nodes) = K
    \/ /\ nodes[p].idle > ExpiredTime
       /\ nodes[p].id \in probed
    \/ /\ nodes[p].idle < 0
       /\ skew > 0

LossOnlyJustified ==
    [][\A p \in DOMAIN nodes : nodes[p].id \notin Ids(nodes') => JustifiedLoss(p)]_vars

-----------------------------------------------------------------------------
(* The directory the table implements. *)

Directory == [i \in Ids(nodes) |-> nodes[FindId(nodes, i)].endpoint]

Lapsed == {nodes[p].id : p \in {q \in DOMAIN nodes : Expired(nodes[q])}}

Dir == INSTANCE PeerDirectory WITH
        Peer <- Id \ {MainId}, Capacity <- K, directory <- Directory, lapsed <- Lapsed

\* The table is a bounded directory of peers: update() forgets at most one other
\* peer, and only for a new one; ping_nodes() forgets the expired, all of them
\* and nobody else.
ImplementsDirectory == Dir!Spec
=============================================================================
