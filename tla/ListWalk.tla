------------------------------- MODULE ListWalk -------------------------------
(***************************************************************************)
(* dht::find_node() (network/dht/dht.h) looks through the list of the      *)
(* routing table on the caller's thread, while the thread of the           *)
(* io_service changes it: find_node() and find_closest_nodes() of          *)
(* routing_table.h follow the links of a std::list without a lock.         *)
(*                                                                         *)
(* The list is the routing table's, seen as linked cells: an entry that is *)
(* spliced keeps its cell, one that is taken over too; an evicted or       *)
(* expired entry frees its cell, which a new one may get.  A field of a    *)
(* cell is read, and a link followed, in one step.                         *)
(*                                                                         *)
(* Definitions introduced as mutants are no part of the model.             *)
(***************************************************************************)
EXTENDS RoutingTable

CONSTANT MaxChanges  \* bound: changes of the list during one walk

ASSUME ChangesAssumption == MaxChanges \in Nat

VARIABLES
    walk,     \* what the caller's thread is doing
    target,   \* the id it searches for
    cell,     \* the cells of the list, numbered as they are when a walk begins
    at,       \* the cell its iterator points to, or End
    visited,  \* the cells it has collected, in order
    changes,  \* changes of the list during this walk
    slipped,  \* history: the cell it stood at was spliced or freed
    moved,    \* history: the cells spliced while it collected
    kept,     \* history: the cells in the list during all of this walk
    steady,   \* history: the target was listed during all of this walk
    homes     \* history: the endpoints the target was listed at since it was found

walkVars == <<walk, target, cell, at, visited, changes, slipped, moved, kept, steady, homes>>
allVars == <<vars, walkVars>>

End == 0

Cell == 1 .. K + 1

Position(c) == SelectInSeq(cell, LAMBDA x : x = c)

Freed(c) == Position(c) = 0

\* The link of a cell that is in the list.
Link(c) == IF Position(c) = Len(cell) THEN End ELSE cell[Position(c) + 1]

Walking == walk \in {"searching", "collecting"}

WalkInit ==
    /\ Init
    /\ walk = "idle"
    /\ target = MainId
    /\ cell = <<>>
    /\ at = End
    /\ visited = <<>>
    /\ changes = 0
    /\ slipped = FALSE
    /\ moved = {}
    /\ kept = {}
    /\ steady = FALSE
    /\ homes = {}

-----------------------------------------------------------------------------
(* The caller's thread. *)

Forget ==
    /\ walk' = "idle" /\ target' = MainId /\ cell' = <<>> /\ at' = End /\ visited' = <<>>
    /\ changes' = 0 /\ slipped' = FALSE /\ moved' = {} /\ kept' = {} /\ steady' = FALSE
    /\ homes' = {}

FirstOf(cells) == IF cells = <<>> THEN End ELSE cells[1]

\* A walk begins at the first cell.
Begin(cells) ==
    /\ at' = FirstOf(cells)
    /\ visited' = <<>>
    /\ slipped' = FALSE
    /\ moved' = {}
    /\ kept' = ToSet(cells)

\* Bound: a walk begins just after the periodic task, with no entry that is silent for a
\* tick or has been pinged; those whose clock was set back expire.
Young == sinceRun = 0 /\ probed = {} /\ \A p \in DOMAIN nodes : nodes[p].idle <= 0

\* find_node(i)
Call(i) ==
    /\ walk = "idle" /\ i # MainId
    /\ Young
    /\ walk' = "searching"
    /\ target' = i
    /\ cell' = [p \in DOMAIN nodes |-> p]
    /\ Begin(cell')
    /\ steady' = (i \in Ids(nodes))
    /\ UNCHANGED <<vars, changes, homes>>

\* Mutant: the iterator is advanced before the cell is taken.
TakesNext(c) == IF Link(c) = End THEN visited ELSE Append(visited, Link(c))

Takes(c) == Append(visited, c)

\* find_if(): the cell pointed to is the target's ...
Find ==
    /\ walk = "searching" /\ at # End /\ ~Freed(at)
    /\ nodes[Position(at)].id = target
    /\ walk' = "found"
    /\ homes' = {nodes[Position(at)].endpoint}
    /\ UNCHANGED <<vars, target, cell, at, visited, changes, slipped, moved, kept, steady>>

\* ... or it is not; a walk that collects takes every cell.
Step ==
    /\ Walking /\ at # End /\ ~Freed(at)
    /\ walk = "searching" => nodes[Position(at)].id # target
    /\ at' = Link(at)
    /\ visited' = IF walk = "collecting" THEN Takes(at) ELSE visited
    /\ UNCHANGED <<vars, walk, target, cell, changes, slipped, moved, kept, steady, homes>>

\* nullptr: find_closest_nodes() walks the list again.
NotFound ==
    /\ walk = "searching" /\ at = End
    /\ walk' = "collecting"
    /\ Begin(cell)
    /\ target' = MainId /\ steady' = FALSE
    /\ UNCHANGED <<vars, cell, changes, homes>>

Collected ==
    /\ walk = "collecting" /\ at = End
    /\ walk' = "asking"
    /\ slipped' = FALSE /\ moved' = {}
    /\ UNCHANGED <<vars, target, cell, at, visited, changes, kept, steady, homes>>

\* The ids of the cells collected are sorted by, then the nearest are sent requests.
Ask ==
    /\ walk = "asking"
    /\ ~\E c \in ToSet(visited) : Freed(c)
    /\ Forget
    /\ UNCHANGED vars

\* The callback is called with the endpoint in the cell found.
Answer ==
    /\ walk = "found" /\ ~Freed(at)
    /\ Forget
    /\ UNCHANGED vars

\* A cell is read that has been freed: what follows is undefined, and not modelled.
Dangle ==
    /\ \/ Walking /\ at # End /\ Freed(at)
       \/ walk = "found" /\ Freed(at)
       \/ walk = "asking" /\ \E c \in ToSet(visited) : Freed(c)
    /\ Forget
    /\ UNCHANGED vars

-----------------------------------------------------------------------------
(* The thread of the io_service. *)

\* Mutant: the newcomer is written over the head.
FreedNever(i, ep) == {}

\* What update() frees: pop_front() comes before push_front(), so the newcomer may get
\* the cell at once.
FreedBy(i, ep) == IF Evicts(nodes, i, ep) THEN {Head(cell)} ELSE {}

Spare == Cell \ ToSet(cell)

\* The cells after update().
CellsUpdated(i, ep) ==
    LET p == Slot(nodes, i, ep)
    IN  CASE p # 0                -> {Append(RemoveAt(cell, p), cell[p])}
          [] Evicts(nodes, i, ep) -> {<<c>> \o Tail(cell) : c \in Spare \union {Head(cell)}}
          [] OTHER                -> {Append(cell, c) : c \in Spare}

\* The cells after ping_nodes().
CellsLeft ==
    {[p \in 1 .. Cardinality(Kept(nodes)) |-> cell[f[p]]] : f \in Enumerations(Kept(nodes))}

\* The cell that update() splices, even when it is the last already.
Spliced(i, ep) == IF Slot(nodes, i, ep) = 0 THEN {} ELSE {cell[Slot(nodes, i, ep)]}

\* What the walk's histories make of a change of the list: cells, what it splices and
\* what it frees.
Note(splice, free) ==
    /\ changes < MaxChanges
    /\ changes' = changes + 1
    /\ slipped' = (slipped \/ at \in splice \union free)
    /\ moved' = IF walk = "collecting" THEN moved \union splice ELSE {}
    /\ kept' = kept \ free
    /\ steady' = (steady /\ target \in Ids(nodes'))
    /\ homes' = homes \union {nodes'[p].endpoint : p \in {q \in DOMAIN nodes' :
                                   walk = "found" /\ nodes'[q].id = target}}
    /\ UNCHANGED <<walk, target, at, visited>>

Changing(i, ep) ==
    /\ Update(i, ep)
    /\ IF walk = "idle"
       THEN UNCHANGED walkVars
       ELSE /\ cell' \in CellsUpdated(i, ep)
            /\ Note(Spliced(i, ep), FreedBy(i, ep))

Sweeping ==
    /\ PingNodes
    /\ IF walk = "idle"
       THEN UNCHANGED walkVars
       ELSE /\ cell' \in CellsLeft
            /\ Note({}, ToSet(cell) \ ToSet(cell'))

\* A walk takes less than a tick.
Passing ==
    /\ walk = "idle"
    /\ Tick \/ \E d \in 1 .. MaxSkew : StepBack(d)
    /\ UNCHANGED walkVars

-----------------------------------------------------------------------------

WalkNext ==
    \/ \E i \in Id : Call(i)
    \/ Find \/ Step \/ NotFound \/ Collected \/ Ask \/ Answer \/ Dangle
    \/ \E i \in Id, ep \in Endpoint : Changing(i, ep)
    \/ Sweeping \/ Passing

WalkSpec == WalkInit /\ [][WalkNext]_allVars

-----------------------------------------------------------------------------
(* Properties. *)

\* find_node() finds an id that is listed all the while, and find_closest_nodes() collects
\* all that stays, however the list is changed, unless the very entry the walk stands at
\* is spliced or freed: it then goes on from there, misses what it has jumped over, and may
\* see again what it has seen, when a newcomer at the head of the list gets the freed cell.
\* Otherwise it takes one cell twice only when its peer was heard from in between, and is
\* then asked twice, or when it was freed in between and got a newcomer.
FindsWhatStays ==
    [][ /\ walk = "searching" /\ walk' = "collecting" => ~steady \/ slipped
        /\ walk = "collecting" /\ walk' = "asking" /\ ~slipped =>
             /\ kept \subseteq ToSet(visited)
             /\ \A p, q \in DOMAIN visited :
                   p # q /\ visited[p] = visited[q] => visited[p] \in moved \/ visited[p] \notin kept
      ]_allVars

\* The endpoint given to the callback is one where the id looked for was listed since it
\* was found, even when another id has taken over its entry -- unless that one has moved
\* since, or the entry was freed and its memory got a newcomer.
EndpointWasTargets ==
    [][walk = "found" /\ ~Freed(at) /\ walk' = "idle" =>
        \/ nodes[Position(at)].endpoint \in homes
        \/ nodes[Position(at)].id # target /\ changes >= 2
        \/ at \notin kept]_allVars
=============================================================================
