------------------------- MODULE RoutingTableProofs -------------------------
(***************************************************************************)
(* Proofs about RoutingTable and ListWalk, for every number of peers,      *)
(* capacity, period and bound on the clock and on the changes of the list. *)
(***************************************************************************)
EXTENDS ListWalk, NodeListProofs

\* No entry was heard from in a future the clock was not set back from.
NotFromFuture == \A p \in DOMAIN nodes : nodes[p].idle + skew >= 0

\* The inductive invariant: the properties support each other.  The order needs
\* NotFromFuture to place a fresh entry last, and what ping_nodes() does about
\* an entry needs the bounds on idle to know that Diff did not wrap.
IInv ==
    /\ TypeOK
    /\ DistinctIds
    /\ NotFromFuture
    /\ RecencyOrder
    /\ GoodnessIsAccurate
    /\ SilentPeersAreProbed

USE CapacityAssumption, PeriodAssumption, WrapAssumption,
    MainAssumption, ClockAssumption, GapAssumption

\* The list is a sequence of entries.
LEMMA EntryFacts ==
    ASSUME TypeOK
    PROVE  /\ nodes \in Seq(Entry)
           /\ Len(nodes) \in Nat
           /\ DOMAIN nodes = 1 .. Len(nodes)
           /\ \A p \in DOMAIN nodes :
                /\ nodes[p] \in Entry
                /\ nodes[p].id \in Id
                /\ nodes[p].endpoint \in Endpoint
                /\ nodes[p].idle \in Int
                /\ nodes[p].is_good \in BOOLEAN
<1>1. nodes \in Seq(Entry) /\ Len(nodes) \in Nat /\ DOMAIN nodes = 1 .. Len(nodes)
  BY LenProperties DEF TypeOK
<1>2. \A p \in DOMAIN nodes : nodes[p] \in Entry
  BY <1>1, ElementOfSeq
<1> QED BY <1>1, <1>2 DEF Entry

-----------------------------------------------------------------------------
(* Diff on the values idle can take. *)

LEMMA DiffOfPast ==
    ASSUME NEW n \in Entry, n.idle \in 0 .. Wrap - 1
    PROVE  Diff(n) = n.idle
BY DEF Diff, Entry

LEMMA DiffOfFuture ==
    ASSUME NEW n \in Entry, n.idle \in (-Wrap) .. -1
    PROVE  Diff(n) = n.idle + Wrap
BY DEF Diff, Entry

\* In every reachable state Diff does not wrap for an entry whose last activity
\* is in the past, and makes one from the future look expired.
LEMMA DiffLemma ==
    ASSUME IInv, NEW p \in DOMAIN nodes
    PROVE  /\ nodes[p] \in Entry
           /\ nodes[p].idle >= 0 => Diff(nodes[p]) = nodes[p].idle
           /\ nodes[p].idle < 0 => Diff(nodes[p]) > ExpiredTime
<1>1. /\ nodes[p] \in Entry
      /\ nodes[p].idle \in Int
      /\ nodes[p].idle <= ExpiredTime + sinceRun
      /\ nodes[p].idle + skew >= 0
      /\ skew \in 0 .. MaxSkew
      /\ sinceRun \in 0 .. TaskGap
  BY EntryFacts DEF IInv, TypeOK, NotFromFuture, SilentPeersAreProbed
<1>2. CASE nodes[p].idle >= 0
  <2>1. nodes[p].idle \in 0 .. Wrap - 1
    BY <1>1, <1>2
  <2> QED BY <1>1, <1>2, <2>1, DiffOfPast
<1>3. CASE nodes[p].idle < 0
  <2>1. nodes[p].idle \in (-Wrap) .. -1
    BY <1>1, <1>3
  <2>2. Diff(nodes[p]) = nodes[p].idle + Wrap
    BY <1>1, <2>1, DiffOfFuture
  <2> QED BY <1>1, <1>3, <2>2
<1> QED BY <1>1, <1>2, <1>3

-----------------------------------------------------------------------------
(* The initial state. *)

LEMMA InitIInv == Init => IInv
<1> SUFFICES ASSUME Init
             PROVE  IInv
  OBVIOUS
<1>1. nodes = << >> /\ sinceRun = 0 /\ skew = 0 /\ probed = {}
  BY DEF Init
<1>2. << >> \in Seq(Entry) /\ Len(<< >>) = 0 /\ DOMAIN << >> = {}
  BY EmptySeq
<1>3. TypeOK
  BY <1>1, <1>2 DEF TypeOK
<1> QED BY <1>1, <1>2, <1>3 DEF IInv, DistinctIds, NotFromFuture, RecencyOrder,
                               GoodnessIsAccurate, SilentPeersAreProbed

-----------------------------------------------------------------------------
(* The passage of time. *)

\* Tick and StepBack shift every idle time by the same amount.
LEMMA AgedLemma ==
    ASSUME TypeOK, NEW d \in Int
    PROVE  /\ Aged(d) \in Seq(Entry)
           /\ Len(Aged(d)) = Len(nodes)
           /\ DOMAIN Aged(d) = DOMAIN nodes
           /\ \A p \in DOMAIN nodes :
                /\ nodes[p] \in Entry
                /\ Aged(d)[p].id = nodes[p].id
                /\ Aged(d)[p].endpoint = nodes[p].endpoint
                /\ Aged(d)[p].is_good = nodes[p].is_good
                /\ Aged(d)[p].idle = nodes[p].idle + d
<1>1. nodes \in Seq(Entry) /\ Len(nodes) \in Nat /\ DOMAIN nodes = 1 .. Len(nodes)
  BY EntryFacts
<1>2. ASSUME NEW e \in Entry
      PROVE  /\ [e EXCEPT !.idle = @ + d] \in Entry
             /\ [e EXCEPT !.idle = @ + d].id = e.id
             /\ [e EXCEPT !.idle = @ + d].endpoint = e.endpoint
             /\ [e EXCEPT !.idle = @ + d].is_good = e.is_good
             /\ [e EXCEPT !.idle = @ + d].idle = e.idle + d
  BY DEF Entry
<1>3. \A p \in DOMAIN nodes : nodes[p] \in Entry
  BY EntryFacts
<1>4. Aged(d) = [p \in 1 .. Len(nodes) |-> [nodes[p] EXCEPT !.idle = @ + d]]
  BY <1>1 DEF Aged
<1>5. \A p \in 1 .. Len(nodes) : [nodes[p] EXCEPT !.idle = @ + d] \in Entry
  BY <1>1, <1>2, <1>3
<1>6. Aged(d) \in Seq(Entry) /\ Len(Aged(d)) = Len(nodes)
  BY <1>1, <1>4, <1>5, IsASeq
<1> QED BY <1>1, <1>2, <1>3, <1>4, <1>6

LEMMA TickIInv == IInv /\ Tick => IInv'
<1> SUFFICES ASSUME IInv, Tick
             PROVE  IInv'
  OBVIOUS
<1>1. /\ nodes' \in Seq(Entry)
      /\ Len(nodes') = Len(nodes)
      /\ DOMAIN nodes' = DOMAIN nodes
      /\ \A p \in DOMAIN nodes :
           /\ nodes[p].idle \in Int
           /\ nodes'[p].id = nodes[p].id
           /\ nodes'[p].is_good = nodes[p].is_good
           /\ nodes'[p].idle = nodes[p].idle + 1
  <2>1. TypeOK /\ nodes' = Aged(1) /\ 1 \in Int
    BY DEF IInv, Tick
  <2>2. \A p \in DOMAIN nodes : nodes[p].idle \in Int
    BY <2>1, EntryFacts
  <2>3. \A p \in DOMAIN nodes : nodes[p].idle + (1) = nodes[p].idle + 1
    BY <2>2
  <2> QED BY <2>1, <2>2, <2>3, AgedLemma
<1>2. /\ sinceRun < TaskGap /\ sinceRun' = sinceRun + 1
      /\ skew' = skew /\ probed' = probed
  BY DEF Tick
<1>3. TypeOK'
  BY <1>1, <1>2 DEF IInv, TypeOK
<1>4. DistinctIds'
  BY <1>1 DEF IInv, DistinctIds
<1>5. NotFromFuture'
  <2>1. skew \in Int /\ \A p \in DOMAIN nodes : nodes[p].idle + skew >= 0
    BY DEF IInv, TypeOK, NotFromFuture
  <2>2. ASSUME NEW p \in DOMAIN nodes
        PROVE  nodes[p].idle + 1 + skew >= 0
    BY <1>1, <2>1
  <2> QED BY <1>1, <1>2, <2>2 DEF NotFromFuture
<1>6. RecencyOrder'
  BY <1>1, <1>2 DEF IInv, RecencyOrder
<1>7. GoodnessIsAccurate'
  BY <1>1, <1>2 DEF IInv, TypeOK, GoodnessIsAccurate
<1>8. SilentPeersAreProbed'
  BY <1>1, <1>2 DEF IInv, TypeOK, SilentPeersAreProbed
<1> QED BY <1>3, <1>4, <1>5, <1>6, <1>7, <1>8 DEF IInv

LEMMA StepBackIInv ==
    ASSUME NEW d \in 1 .. MaxSkew
    PROVE  IInv /\ StepBack(d) => IInv'
<1> SUFFICES ASSUME IInv, StepBack(d)
             PROVE  IInv'
  OBVIOUS
<1>1. /\ nodes' \in Seq(Entry)
      /\ Len(nodes') = Len(nodes)
      /\ DOMAIN nodes' = DOMAIN nodes
      /\ \A p \in DOMAIN nodes :
           /\ nodes[p].idle \in Int
           /\ nodes'[p].id = nodes[p].id
           /\ nodes'[p].is_good = nodes[p].is_good
           /\ nodes'[p].idle = nodes[p].idle - d
  <2>1. TypeOK /\ nodes' = Aged(-d) /\ -d \in Int
    BY DEF IInv, StepBack
  <2>2. \A p \in DOMAIN nodes : nodes[p].idle \in Int
    BY <2>1, EntryFacts
  <2>3. \A p \in DOMAIN nodes : nodes[p].idle + (-d) = nodes[p].idle - d
    BY <2>2
  <2> QED BY <2>1, <2>2, <2>3, AgedLemma
<1>2. /\ skew' = skew + d /\ skew' <= MaxSkew /\ skew' > 0
      /\ sinceRun' = sinceRun /\ probed' = probed
  BY DEF StepBack, IInv, TypeOK
<1>3. TypeOK'
  BY <1>1, <1>2 DEF IInv, TypeOK
<1>4. DistinctIds'
  BY <1>1 DEF IInv, DistinctIds
<1>5. NotFromFuture'
  BY <1>1, <1>2 DEF IInv, TypeOK, NotFromFuture
<1>6. RecencyOrder'
  BY <1>2 DEF RecencyOrder
<1>7. GoodnessIsAccurate'
  BY <1>1, <1>2 DEF IInv, TypeOK, GoodnessIsAccurate
<1>8. SilentPeersAreProbed'
  <2>1. /\ sinceRun \in Int
        /\ \A p \in DOMAIN nodes :
             /\ nodes[p].idle <= ExpiredTime + sinceRun
             /\ nodes[p].idle > PingPeriod + sinceRun => nodes[p].id \in probed
    BY DEF IInv, TypeOK, SilentPeersAreProbed
  <2>2. \A p \in DOMAIN nodes : nodes'[p].idle < nodes[p].idle
    BY <1>1
  <2>3. ASSUME NEW p \in DOMAIN nodes
        PROVE  /\ nodes'[p].idle <= ExpiredTime + sinceRun
               /\ nodes'[p].idle > PingPeriod + sinceRun => nodes[p].id \in probed
    BY <1>1, <2>1, <2>2
  <2> QED BY <1>1, <1>2, <2>3 DEF SilentPeersAreProbed
<1> QED BY <1>3, <1>4, <1>5, <1>6, <1>7, <1>8 DEF IInv

-----------------------------------------------------------------------------
(* ping_nodes() *)

\* Every entry it leaves was in the list, in the same order, and had not expired.
LEMMA PingNodesLemma ==
    ASSUME IInv, PingNodes
    PROVE  /\ nodes' \in Seq(Entry)
           /\ Len(nodes') <= Len(nodes)
           /\ DOMAIN nodes' = 1 .. Len(nodes')
           /\ \E f \in [DOMAIN nodes' -> DOMAIN nodes] :
                /\ \A p, q \in DOMAIN nodes' : p < q => f[p] < f[q]
                /\ \A k \in Kept(nodes) : \E p \in DOMAIN nodes' : f[p] = k
                /\ \A p \in DOMAIN nodes' :
                     /\ nodes'[p].id = nodes[f[p]].id
                     /\ nodes'[p].endpoint = nodes[f[p]].endpoint
                     /\ nodes'[p].idle = nodes[f[p]].idle
                     /\ nodes'[p].idle \in 0 .. ExpiredTime
                     /\ Diff(nodes'[p]) = nodes'[p].idle
                     /\ nodes'[p].is_good = (nodes[f[p]].is_good /\ nodes'[p].idle <= BadPeriod)
<1>1. nodes \in Seq(Entry) /\ nodes' \in Swept(nodes)
  BY DEF IInv, TypeOK, PingNodes
<1>2. nodes' \in Seq(Entry) /\ Len(nodes') <= Len(nodes)
  BY <1>1, SweptLemma
<1>3. DOMAIN nodes' = 1 .. Len(nodes')
  BY <1>2, LenProperties
<1>4. PICK f \in [DOMAIN nodes' -> Kept(nodes)] :
         /\ \A p \in DOMAIN nodes' : nodes'[p] = Marked(nodes[f[p]])
         /\ \A p, q \in DOMAIN nodes' : p < q => f[p] < f[q]
         /\ \A k \in Kept(nodes) : \E p \in DOMAIN nodes' : f[p] = k
  <2>1. \E f \in [1 .. Len(nodes') -> Kept(nodes)] :
           /\ \A p \in 1 .. Len(nodes') : nodes'[p] = Marked(nodes[f[p]])
           /\ \A p, q \in 1 .. Len(nodes') : p < q => f[p] < f[q]
           /\ \A k \in Kept(nodes) : \E p \in 1 .. Len(nodes') : f[p] = k
    BY <1>1, SweptLemma
  <2> QED BY <1>3, <2>1, Zenon
<1>5. Kept(nodes) \subseteq DOMAIN nodes
  BY DEF Kept
<1>6. ASSUME NEW k \in Kept(nodes)
      PROVE  /\ nodes[k] \in Entry
             /\ nodes[k].idle \in 0 .. ExpiredTime
             /\ Diff(nodes[k]) = nodes[k].idle
  <2>1. k \in DOMAIN nodes /\ ~(Diff(nodes[k]) > ExpiredTime)
    BY DEF Kept, Expired
  <2>2. nodes[k] \in Entry /\ nodes[k].idle \in Int
    BY <2>1, EntryFacts DEF IInv
  <2>3. nodes[k].idle >= 0 /\ Diff(nodes[k]) = nodes[k].idle
    BY <2>1, <2>2, DiffLemma
  <2> QED BY <2>1, <2>2, <2>3
<1>7. ASSUME NEW e \in Entry
      PROVE  /\ Marked(e).id = e.id
             /\ Marked(e).endpoint = e.endpoint
             /\ Marked(e).idle = e.idle
             /\ Marked(e).is_good = (e.is_good /\ Diff(e) <= BadPeriod)
             /\ Diff(Marked(e)) = Diff(e)
  BY DEF Marked, Diff, Entry
<1>8. ASSUME NEW p \in DOMAIN nodes'
      PROVE  /\ nodes'[p].id = nodes[f[p]].id
             /\ nodes'[p].endpoint = nodes[f[p]].endpoint
             /\ nodes'[p].idle = nodes[f[p]].idle
             /\ nodes'[p].idle \in 0 .. ExpiredTime
             /\ Diff(nodes'[p]) = nodes'[p].idle
             /\ nodes'[p].is_good = (nodes[f[p]].is_good /\ nodes'[p].idle <= BadPeriod)
  <2>1. f[p] \in Kept(nodes) /\ nodes'[p] = Marked(nodes[f[p]])
    BY <1>4
  <2> QED BY <1>6, <1>7, <2>1
<1>9. f \in [DOMAIN nodes' -> DOMAIN nodes]
  BY <1>4, <1>5
<1> QED BY <1>2, <1>3, <1>4, <1>8, <1>9

LEMMA PingNodesIInv == IInv /\ PingNodes => IInv'
<1> SUFFICES ASSUME IInv, PingNodes
             PROVE  IInv'
  OBVIOUS
<1>1. /\ nodes' \in Seq(Entry)
      /\ Len(nodes') <= Len(nodes)
      /\ DOMAIN nodes' = 1 .. Len(nodes')
      /\ Len(nodes') \in Nat
  BY PingNodesLemma, LenProperties
<1>2. PICK f \in [DOMAIN nodes' -> DOMAIN nodes] :
         /\ \A p, q \in DOMAIN nodes' : p < q => f[p] < f[q]
         /\ \A p \in DOMAIN nodes' :
              /\ nodes'[p].id = nodes[f[p]].id
              /\ nodes'[p].idle = nodes[f[p]].idle
              /\ nodes'[p].idle \in 0 .. ExpiredTime
              /\ Diff(nodes'[p]) = nodes'[p].idle
              /\ nodes'[p].is_good = (nodes[f[p]].is_good /\ nodes'[p].idle <= BadPeriod)
  BY PingNodesLemma
<1>3. /\ sinceRun' = 0 /\ skew' = skew
      /\ probed' = probed \union {nodes'[p].id : p \in {q \in DOMAIN nodes' : Due(nodes'[q])}}
  BY DEF PingNodes
<1>4. \A p \in DOMAIN nodes :
         /\ nodes[p].id \in Id /\ nodes[p].idle \in Int /\ nodes[p].is_good \in BOOLEAN
         /\ p \in Nat /\ p >= 1
  BY EntryFacts DEF IInv
<1>5. TypeOK'
  <2>1. \A p \in DOMAIN nodes' : nodes'[p].id \in Id
    BY <1>2, <1>4
  <2>2. probed' \subseteq Id
    BY <1>3, <2>1 DEF IInv, TypeOK
  <2>3. Len(nodes') <= K
    BY <1>1, EntryFacts DEF IInv, TypeOK
  <2> QED BY <1>1, <1>3, <2>2, <2>3 DEF IInv, TypeOK
<1>6. DistinctIds'
  <2>1. ASSUME NEW p \in DOMAIN nodes', NEW q \in DOMAIN nodes', nodes'[p].id = nodes'[q].id
        PROVE  p = q
    <3>1. f[p] = f[q]
      BY <1>2, <2>1 DEF IInv, DistinctIds
    <3>2. f[p] \in Nat /\ f[q] \in Nat /\ p \in Nat /\ q \in Nat
      <4>1. f[p] \in DOMAIN nodes /\ f[q] \in DOMAIN nodes
        BY <1>2
      <4>2. p \in Nat /\ q \in Nat
        BY <1>1
      <4> QED BY <1>4, <4>1, <4>2
    <3>3. ~(p < q) /\ ~(q < p)
      BY <1>2, <3>1, <3>2
    <3> QED BY <3>2, <3>3
  <2>2. \A p \in DOMAIN nodes' : nodes'[p].id # MainId
    BY <1>2 DEF IInv, DistinctIds
  <2> QED BY <2>1, <2>2 DEF DistinctIds
<1>7. NotFromFuture'
  BY <1>2, <1>3 DEF NotFromFuture, IInv, TypeOK
<1>8. RecencyOrder'
  <2>1. SUFFICES ASSUME skew = 0, NEW p \in DOMAIN nodes', NEW q \in DOMAIN nodes', 2 <= p, p < q
                 PROVE  nodes'[p].idle >= nodes'[q].idle
    BY <1>3 DEF RecencyOrder
  <2>2. 1 \in DOMAIN nodes' /\ 1 < p
    BY <1>1, <2>1
  <2>3. f[1] < f[p] /\ f[p] < f[q] /\ f[1] >= 1
    BY <1>2, <1>4, <2>1, <2>2
  <2>4. 2 <= f[p]
    BY <1>2, <1>4, <2>2, <2>3
  <2>5. nodes[f[p]].idle >= nodes[f[q]].idle
    BY <1>2, <2>1, <2>3, <2>4 DEF IInv, RecencyOrder
  <2> QED BY <1>2, <2>5
<1>9. GoodnessIsAccurate'
  <2>1. SUFFICES ASSUME NEW p \in DOMAIN nodes'
                 PROVE  IF nodes'[p].is_good THEN nodes'[p].idle <= BadPeriod
                                             ELSE nodes'[p].idle + skew > BadPeriod
    BY <1>3 DEF GoodnessIsAccurate
  <2>2. /\ skew \in Nat
        /\ ~nodes[f[p]].is_good => nodes[f[p]].idle + skew > BadPeriod
    BY <1>2 DEF IInv, TypeOK, GoodnessIsAccurate
  <2>3. /\ nodes'[p].is_good = (nodes[f[p]].is_good /\ nodes'[p].idle <= BadPeriod)
        /\ nodes'[p].idle = nodes[f[p]].idle
        /\ nodes'[p].idle \in Int
    BY <1>2
  <2>4. CASE nodes[f[p]].is_good
    <3>1. nodes'[p].is_good <=> nodes'[p].idle <= BadPeriod
      BY <2>3, <2>4, Zenon
    <3>2. CASE nodes'[p].idle <= BadPeriod
      BY <3>1, <3>2, Zenon
    <3>3. CASE nodes'[p].idle > BadPeriod
      <4>1. nodes'[p].idle + skew > BadPeriod /\ ~(nodes'[p].idle <= BadPeriod)
        BY <2>2, <2>3, <3>3
      <4> QED BY <3>1, <4>1, Zenon
    <3>4. nodes'[p].idle <= BadPeriod \/ nodes'[p].idle > BadPeriod
      BY <2>3
    <3> QED BY <3>2, <3>3, <3>4, Zenon
  <2>5. CASE ~nodes[f[p]].is_good
    BY <2>2, <2>3, <2>5
  <2> QED BY <2>4, <2>5
<1>10. SilentPeersAreProbed'
  <2>1. ASSUME NEW p \in DOMAIN nodes'
        PROVE  /\ nodes'[p].idle <= ExpiredTime
               /\ nodes'[p].idle > PingPeriod => nodes'[p].id \in probed'
    BY <1>2, <1>3 DEF Due
  <2> QED BY <1>2, <1>3, <2>1 DEF SilentPeersAreProbed
<1> QED BY <1>5, <1>6, <1>7, <1>8, <1>9, <1>10 DEF IInv

-----------------------------------------------------------------------------
(* update() *)

\* The shape of the list after update().
LEMMA UpdateLemma ==
    ASSUME IInv, NEW i \in Id, NEW ep \in Endpoint, Update(i, ep)
    PROVE  /\ nodes' \in Seq(Entry)
           /\ Len(nodes') <= K
           /\ DOMAIN nodes' = 1 .. Len(nodes')
           /\ \E new \in DOMAIN nodes', g \in [DOMAIN nodes' -> Int] :
                Reordered(nodes, i, ep, nodes', new, g)
<1>1. /\ nodes \in Seq(Entry) /\ Len(nodes) <= K /\ nodes' = Updated(nodes, i, ep)
      /\ \A p, q \in DOMAIN nodes : nodes[p].id = nodes[q].id => p = q
  BY DEF IInv, TypeOK, DistinctIds, Update
<1> QED BY <1>1, UpdatedShape

LEMMA UpdateIInv ==
    ASSUME NEW i \in Id, NEW ep \in Endpoint
    PROVE  IInv /\ Update(i, ep) => IInv'
<1> SUFFICES ASSUME IInv, Update(i, ep)
             PROVE  IInv'
  OBVIOUS
<1>1. /\ nodes' \in Seq(Entry) /\ Len(nodes') <= K
      /\ DOMAIN nodes' = 1 .. Len(nodes') /\ Len(nodes') \in Nat
  BY UpdateLemma, LenProperties
<1>2. PICK new \in DOMAIN nodes', g \in [DOMAIN nodes' -> Int] :
         /\ nodes'[new] = Fresh(i, ep)
         /\ new = 1 \/ new = Len(nodes')
         /\ \A k \in DOMAIN nodes' \ {new} :
              /\ g[k] \in DOMAIN nodes
              /\ nodes'[k] = nodes[g[k]]
              /\ nodes[g[k]].id # i
              /\ k >= 2 => g[k] >= 2
         /\ \A k, l \in DOMAIN nodes' \ {new} : k < l => g[k] < g[l]
  BY UpdateLemma DEF Reordered
<1>3. i # MainId /\ sinceRun' = sinceRun /\ skew' = skew /\ probed' = probed \ {i}
  BY DEF Update
<1>4. /\ nodes'[new].id = i
      /\ nodes'[new].idle = 0
      /\ nodes'[new].is_good = TRUE
  BY <1>2 DEF Fresh
<1>5. /\ sinceRun \in Nat /\ skew \in Nat
      /\ \A q \in DOMAIN nodes :
           /\ nodes[q].idle \in Int
           /\ nodes[q].id # MainId
           /\ nodes[q].idle + skew >= 0
           /\ nodes[q].is_good => nodes[q].idle <= BadPeriod + sinceRun
           /\ ~nodes[q].is_good => nodes[q].idle + skew > BadPeriod
           /\ nodes[q].idle <= ExpiredTime + sinceRun
           /\ nodes[q].idle > PingPeriod + sinceRun => nodes[q].id \in probed
  BY EntryFacts DEF IInv, TypeOK, DistinctIds, NotFromFuture, GoodnessIsAccurate,
                    SilentPeersAreProbed
<1>6. TypeOK'
  BY <1>1, <1>3 DEF IInv, TypeOK
<1>7. DistinctIds'
  <2>1. ASSUME NEW k \in DOMAIN nodes' \ {new}, NEW l \in DOMAIN nodes' \ {new},
               nodes'[k].id = nodes'[l].id
        PROVE  k = l
    <3>1. g[k] = g[l]
      BY <1>2, <2>1 DEF IInv, DistinctIds
    <3>2. k \in Int /\ l \in Int /\ g[k] \in Int /\ g[l] \in Int
      BY <1>1, <1>2
    <3>3. ~(k < l) /\ ~(l < k)
      BY <1>2, <3>1, <3>2
    <3> QED BY <3>2, <3>3
  <2>2. \A k \in DOMAIN nodes' \ {new} : nodes'[k].id # nodes'[new].id
    BY <1>2, <1>4
  <2>3. \A k \in DOMAIN nodes' : nodes'[k].id # MainId
    BY <1>2, <1>3, <1>4, <1>5
  <2> QED BY <2>1, <2>2, <2>3 DEF DistinctIds
<1>8. NotFromFuture'
  <2>1. ASSUME NEW k \in DOMAIN nodes'
        PROVE  nodes'[k].idle + skew >= 0
    BY <1>2, <1>4, <1>5
  <2> QED BY <1>3, <2>1 DEF NotFromFuture
<1>9. RecencyOrder'
  <2>1. SUFFICES ASSUME skew = 0, NEW k \in DOMAIN nodes', NEW l \in DOMAIN nodes', 2 <= k, k < l
                 PROVE  nodes'[k].idle >= nodes'[l].idle
    BY <1>3 DEF RecencyOrder
  <2>2. k # new
    BY <1>1, <1>2, <2>1
  <2>3. g[k] \in DOMAIN nodes /\ g[k] >= 2 /\ nodes'[k] = nodes[g[k]]
    BY <1>2, <2>1, <2>2
  <2>4. CASE l = new
    BY <1>4, <1>5, <2>1, <2>3, <2>4
  <2>5. CASE l # new
    <3>1. g[l] \in DOMAIN nodes /\ g[k] < g[l] /\ nodes'[l] = nodes[g[l]]
      BY <1>2, <2>1, <2>2, <2>5
    <3> QED BY <2>1, <2>3, <3>1 DEF IInv, RecencyOrder
  <2> QED BY <2>4, <2>5
<1>10. GoodnessIsAccurate'
  <2>1. ASSUME NEW k \in DOMAIN nodes'
        PROVE  IF nodes'[k].is_good THEN nodes'[k].idle <= BadPeriod + sinceRun
                                    ELSE nodes'[k].idle + skew > BadPeriod
    <3>1. CASE k = new
      BY <1>4, <1>5, <3>1
    <3>2. CASE k # new
      BY <1>2, <1>5, <3>2
    <3> QED BY <3>1, <3>2
  <2> QED BY <1>3, <2>1 DEF GoodnessIsAccurate
<1>11. SilentPeersAreProbed'
  <2>1. ASSUME NEW k \in DOMAIN nodes'
        PROVE  /\ nodes'[k].idle <= ExpiredTime + sinceRun
               /\ nodes'[k].idle > PingPeriod + sinceRun => nodes'[k].id \in probed \ {i}
    <3>1. CASE k = new
      BY <1>4, <1>5, <3>1
    <3>2. CASE k # new
      BY <1>2, <1>5, <3>2
    <3> QED BY <3>1, <3>2
  <2> QED BY <1>3, <2>1 DEF SilentPeersAreProbed
<1> QED BY <1>6, <1>7, <1>8, <1>9, <1>10, <1>11 DEF IInv

-----------------------------------------------------------------------------
(* The theorems. *)

\* IInv is an invariant.
LEMMA Inductive == Spec => []IInv
<1>1. Init => IInv
  BY InitIInv
<1>2. IInv /\ [Next]_vars => IInv'
  <2> SUFFICES ASSUME IInv, [Next]_vars
               PROVE  IInv'
    OBVIOUS
  <2>1. ASSUME NEW i \in Id, NEW ep \in Endpoint, Update(i, ep)
        PROVE  IInv'
    BY <2>1, UpdateIInv
  <2>2. CASE PingNodes
    BY <2>2, PingNodesIInv
  <2>3. CASE Tick
    BY <2>3, TickIInv
  <2>4. ASSUME NEW d \in 1 .. MaxSkew, StepBack(d)
        PROVE  IInv'
    BY <2>4, StepBackIInv
  <2>5. CASE UNCHANGED vars
    BY <2>5 DEF vars, IInv, TypeOK, DistinctIds, NotFromFuture, RecencyOrder,
                GoodnessIsAccurate, SilentPeersAreProbed
  <2> QED BY <2>1, <2>2, <2>3, <2>4, <2>5 DEF Next
<1> QED BY <1>1, <1>2, PTL DEF Spec

\* The list of routing_table stays well typed and within K entries.
THEOREM TypeCorrect == Spec => []TypeOK
<1>1. IInv => TypeOK
  BY DEF IInv
<1> QED BY <1>1, Inductive, PTL

\* update() never lists an id twice, nor the node itself.
THEOREM IdsAreDistinct == Spec => []DistinctIds
<1>1. IInv => DistinctIds
  BY DEF IInv
<1> QED BY <1>1, Inductive, PTL

\* Behind its head the list is sorted by last_activity, oldest first.
THEOREM ListIsByRecency == Spec => []RecencyOrder
<1>1. IInv => RecencyOrder
  BY DEF IInv
<1> QED BY <1>1, Inductive, PTL

\* is_good and last_activity agree, up to the last run of the periodic task.
THEOREM GoodnessIsRight == Spec => []GoodnessIsAccurate
<1>1. IInv => GoodnessIsAccurate
  BY DEF IInv
<1> QED BY <1>1, Inductive, PTL

\* ping_nodes() keeps nobody past its expiry and probes whoever falls silent.
THEOREM SilenceIsNoticed == Spec => []SilentPeersAreProbed
<1>1. IInv => SilentPeersAreProbed
  BY DEF IInv
<1> QED BY <1>1, Inductive, PTL

\* update() forgets at most one peer, and only for a new one, which takes over its
\* endpoint or the place of the head of a full list.
LEMMA UpdateForgets ==
    ASSUME IInv, NEW i \in Id, NEW ep \in Endpoint, Update(i, ep),
           NEW p \in DOMAIN nodes, nodes[p].id \notin Ids(nodes')
    PROVE  /\ i # MainId /\ i \in Id \ Ids(nodes)
           /\ nodes[p].endpoint = ep \/ (p = 1 /\ Len(nodes) = K)
           /\ Ids(nodes') = (Ids(nodes) \ {nodes[p].id}) \union {i}
           /\ \E q \in DOMAIN nodes' : nodes'[q] = Fresh(i, ep)
<1>1. PICK new \in DOMAIN nodes', g \in [DOMAIN nodes' -> Int] :
         /\ nodes'[new] = Fresh(i, ep)
         /\ \A k \in DOMAIN nodes' \ {new} :
              g[k] \in DOMAIN nodes /\ nodes'[k] = nodes[g[k]]
         /\ \A q \in DOMAIN nodes :
              \/ \E k \in DOMAIN nodes' \ {new} : g[k] = q
              \/ nodes[q].id = i
              \/ /\ i \notin Ids(nodes)
                 /\ nodes[q].endpoint = ep \/ (q = 1 /\ Len(nodes) = K)
         /\ \A q, r \in DOMAIN nodes :
              \/ q = r
              \/ \E k \in DOMAIN nodes' \ {new} : g[k] = q \/ g[k] = r
  BY UpdateLemma DEF Reordered
<1>2. i # MainId /\ Fresh(i, ep).id = i
  BY DEF Update, Fresh
<1>3. ~ \E k \in DOMAIN nodes' \ {new} : g[k] = p
  BY <1>1 DEF Ids
<1>4. nodes[p].id # i
  BY <1>1, <1>2 DEF Ids
<1>5. i \in Id \ Ids(nodes) /\ (nodes[p].endpoint = ep \/ (p = 1 /\ Len(nodes) = K))
  BY <1>1, <1>3, <1>4
<1>6. Ids(nodes') = (Ids(nodes) \ {nodes[p].id}) \union {i}
  <2>1. ASSUME NEW x \in Ids(nodes'), x # i
        PROVE  x \in Ids(nodes) \ {nodes[p].id}
    <3>1. PICK k \in DOMAIN nodes' : nodes'[k].id = x
      BY DEF Ids
    <3>2. k # new
      BY <1>1, <1>2, <2>1, <3>1
    <3> QED BY <1>1, <3>1, <3>2 DEF Ids
  <2>2. ASSUME NEW q \in DOMAIN nodes, nodes[q].id # nodes[p].id
        PROVE  nodes[q].id \in Ids(nodes')
    <3>1. PICK k \in DOMAIN nodes' \ {new} : g[k] = q
      BY <1>1, <1>3, <2>2
    <3> QED BY <1>1, <3>1 DEF Ids
  <2>3. i \in Ids(nodes')
    BY <1>1, <1>2 DEF Ids
  <2> QED BY <2>1, <2>2, <2>3 DEF Ids
<1> QED BY <1>1, <1>2, <1>5, <1>6

LEMMA UpdateLosses ==
    ASSUME IInv, NEW i \in Id, NEW ep \in Endpoint, Update(i, ep),
           NEW p \in DOMAIN nodes, nodes[p].id \notin Ids(nodes')
    PROVE  JustifiedLoss(p)
<1>1. /\ i # MainId /\ i \in Id \ Ids(nodes)
      /\ nodes[p].endpoint = ep \/ (p = 1 /\ Len(nodes) = K)
      /\ Ids(nodes') = (Ids(nodes) \ {nodes[p].id}) \union {i}
      /\ \E q \in DOMAIN nodes' : nodes'[q] = Fresh(i, ep)
  BY UpdateForgets
<1> QED BY <1>1 DEF JustifiedLoss

LEMMA PingNodesLosses ==
    ASSUME IInv, PingNodes, NEW p \in DOMAIN nodes, nodes[p].id \notin Ids(nodes')
    PROVE  JustifiedLoss(p)
<1>1. p \notin Kept(nodes)
  <2>1. SUFFICES ASSUME p \in Kept(nodes)
                 PROVE  FALSE
    OBVIOUS
  <2>2. PICK k \in DOMAIN nodes' : nodes'[k].id = nodes[p].id
    BY <2>1, PingNodesLemma
  <2> QED BY <2>2 DEF Ids
<1>2. Diff(nodes[p]) > ExpiredTime
  BY <1>1 DEF Kept, Expired
<1>3. /\ nodes[p].idle \in Int /\ sinceRun \in 0 .. TaskGap /\ skew \in Nat
      /\ nodes[p].idle + skew >= 0
      /\ nodes[p].idle > PingPeriod + sinceRun => nodes[p].id \in probed
  BY EntryFacts DEF IInv, TypeOK, NotFromFuture, SilentPeersAreProbed
<1>4. CASE nodes[p].idle < 0
  BY <1>3, <1>4 DEF JustifiedLoss
<1>5. CASE nodes[p].idle >= 0
  <2>1. nodes[p].idle > ExpiredTime
    BY <1>2, <1>5, DiffLemma
  <2>2. nodes[p].idle > PingPeriod + sinceRun
    BY <1>3, <2>1
  <2> QED BY <1>3, <2>1, <2>2 DEF JustifiedLoss
<1> QED BY <1>3, <1>4, <1>5

\* A known peer is lost only to a new peer, by expiry after unanswered pings, or
\* by a clock set back past its last activity.
THEOREM LossIsJustified == Spec => LossOnlyJustified
<1>1. ASSUME IInv, [Next]_vars
      PROVE  [\A p \in DOMAIN nodes :
                nodes[p].id \notin Ids(nodes') => JustifiedLoss(p)]_vars
  <2>1. SUFFICES ASSUME Next, NEW p \in DOMAIN nodes, nodes[p].id \notin Ids(nodes')
                 PROVE  JustifiedLoss(p)
    BY <1>1
  <2>2. ASSUME NEW i \in Id, NEW ep \in Endpoint, Update(i, ep)
        PROVE  JustifiedLoss(p)
    BY <1>1, <2>1, <2>2, UpdateLosses
  <2>3. CASE PingNodes
    BY <1>1, <2>1, <2>3, PingNodesLosses
  <2>4. ASSUME NEW d \in Int, nodes' = Aged(d)
        PROVE  FALSE
    <3>1. DOMAIN nodes' = DOMAIN nodes /\ nodes'[p].id = nodes[p].id
      BY <1>1, <2>4, AgedLemma DEF IInv
    <3> QED BY <2>1, <3>1 DEF Ids
  <2>5. CASE Tick
    BY <2>4, <2>5 DEF Tick
  <2>6. ASSUME NEW d \in 1 .. MaxSkew, StepBack(d)
        PROVE  FALSE
    <3>1. -d \in Int /\ nodes' = Aged(-d)
      BY <2>6 DEF StepBack
    <3> QED BY <2>4, <3>1
  <2> QED BY <2>1, <2>2, <2>3, <2>5, <2>6 DEF Next
<1> QED BY <1>1, Inductive, PTL DEF Spec, LossOnlyJustified

-----------------------------------------------------------------------------
(* The directory the table implements. *)

\* In a list of distinct ids FindId finds every entry, and there are as many ids
\* as entries.
LEMMA DistinctIdsLemma ==
    ASSUME NEW s \in Seq(Entry),
           \A p, q \in DOMAIN s : s[p].id = s[q].id => p = q
    PROVE  /\ \A p \in DOMAIN s : FindId(s, s[p].id) = p
           /\ IsFiniteSet(Ids(s)) /\ Cardinality(Ids(s)) = Len(s)
<1>1. DOMAIN s = 1 .. Len(s) /\ Len(s) \in Nat
  BY LenProperties
<1>2. ASSUME NEW p \in DOMAIN s
      PROVE  FindId(s, s[p].id) = p
  <2>1. s[p].id \in Ids(s)
    BY DEF Ids
  <2>2. FindId(s, s[p].id) \in DOMAIN s /\ s[FindId(s, s[p].id)].id = s[p].id
    BY <1>1, <2>1, FindIdLemma
  <2> QED BY <2>2
<1>3. [p \in 1 .. Len(s) |-> s[p].id] \in Bijection(1 .. Len(s), Ids(s))
  BY <1>1 DEF Bijection, Injection, IsInjective, Surjection, Ids
<1>4. IsFiniteSet(1 .. Len(s)) /\ Cardinality(1 .. Len(s)) = Len(s)
  BY <1>1, UpToCardinality
<1>5. IsFiniteSet(Ids(s)) /\ Cardinality(Ids(s)) = Len(s)
  BY <1>3, <1>4, FS_Bijection DEF ExistsBijection
<1> QED BY <1>2, <1>5

\* The directory counts as the table does.
LEMMA SameCardinality == \A S : Dir!Cardinality(S) = Cardinality(S)
BY Zenon DEF Dir!Cardinality, Cardinality

\* The empty list is the empty directory.
LEMMA InitImplements == Init => Dir!Init
<1> SUFFICES ASSUME Init
             PROVE  Dir!Init
  OBVIOUS
<1>1. Ids(nodes) = {} /\ DOMAIN nodes = {}
  BY DEF Init, Ids
<1>2. Directory = [i \in {} |-> CHOOSE ep \in Endpoint : TRUE]
  BY <1>1 DEF Directory
<1>3. Lapsed = {}
  BY <1>1 DEF Lapsed
<1> QED BY <1>2, <1>3 DEF Dir!Init

\* update() is hearing from a peer.
LEMMA UpdateImplements ==
    ASSUME IInv, IInv', NEW i \in Id, NEW ep \in Endpoint, Update(i, ep)
    PROVE  Dir!Hear(i, ep)
<1> DEFINE lost == Ids(nodes) \ Ids(nodes')
<1>1. /\ nodes \in Seq(Entry) /\ nodes' \in Seq(Entry) /\ Len(nodes') <= K
      /\ \A p, q \in DOMAIN nodes : nodes[p].id = nodes[q].id => p = q
      /\ \A p, q \in DOMAIN nodes' : nodes'[p].id = nodes'[q].id => p = q
  BY DEF IInv, TypeOK, DistinctIds
<1>2. /\ \A p \in DOMAIN nodes : FindId(nodes, nodes[p].id) = p
      /\ Cardinality(Ids(nodes)) = Len(nodes)
  BY <1>1, DistinctIdsLemma
<1>3. /\ \A p \in DOMAIN nodes' : FindId(nodes', nodes'[p].id) = p
      /\ Cardinality(Ids(nodes')) = Len(nodes')
  BY <1>1, DistinctIdsLemma
<1>4. /\ \A p \in DOMAIN nodes : nodes[p].id \in Ids(nodes) /\ Directory[nodes[p].id] = nodes[p].endpoint
      /\ DOMAIN Directory = Ids(nodes)
  BY <1>2 DEF Directory, Ids
<1>5. /\ \A p \in DOMAIN nodes' : nodes'[p].id \in Ids(nodes') /\ Directory'[nodes'[p].id] = nodes'[p].endpoint
      /\ Directory' = [j \in Ids(nodes') |-> Directory'[j]]
      /\ DOMAIN Directory' = Ids(nodes')
  BY <1>3 DEF Directory, Ids
<1>6. PICK new \in DOMAIN nodes', g \in [DOMAIN nodes' -> Int] :
         /\ nodes'[new] = Fresh(i, ep)
         /\ \A k \in DOMAIN nodes' \ {new} :
              /\ g[k] \in DOMAIN nodes
              /\ nodes'[k] = nodes[g[k]]
              /\ nodes[g[k]].id # i
  BY UpdateLemma DEF Reordered
<1>7. nodes'[new].id = i /\ nodes'[new].endpoint = ep /\ ~Expired(nodes'[new])
  BY <1>6 DEF Fresh, Expired, Diff
<1>8. i \in Ids(nodes') /\ Directory'[i] = ep
  BY <1>5, <1>7
<1>9. ASSUME NEW j \in Ids(nodes'), j # i
      PROVE  \E k \in DOMAIN nodes', q \in DOMAIN nodes :
               nodes'[k] = nodes[q] /\ nodes[q].id = j
  <2>1. PICK k \in DOMAIN nodes' : nodes'[k].id = j
    BY DEF Ids
  <2> QED BY <1>6, <1>7, <1>9, <2>1
<1>10. ASSUME NEW j \in Ids(nodes'), j # i
       PROVE  j \in Ids(nodes) /\ Directory'[j] = Directory[j]
  BY <1>4, <1>5, <1>9, <1>10
<1>11. \/ lost = {}
       \/ \E j \in DOMAIN Directory :
            /\ i \notin DOMAIN Directory
            /\ lost = {j}
            /\ Directory[j] = ep \/ Cardinality(DOMAIN Directory) = K
  <2>1. SUFFICES ASSUME NEW j \in lost
                 PROVE  /\ i \notin Ids(nodes)
                        /\ lost = {j}
                        /\ Directory[j] = ep \/ Cardinality(Ids(nodes)) = K
    BY <1>4
  <2>2. PICK p \in DOMAIN nodes : nodes[p].id = j
    BY DEF Ids
  <2>3. /\ i \notin Ids(nodes)
        /\ nodes[p].endpoint = ep \/ Len(nodes) = K
        /\ Ids(nodes') = (Ids(nodes) \ {j}) \union {i}
    BY <2>2, UpdateForgets
  <2> QED BY <1>2, <1>4, <2>2, <2>3
<1>12. Ids(nodes') = (Ids(nodes) \ lost) \union {i}
  BY <1>8, <1>10
<1>13. Directory' = [j \in (DOMAIN Directory \ lost) \union {i} |-> IF j = i THEN ep ELSE Directory[j]]
  BY <1>4, <1>5, <1>8, <1>10, <1>12
<1>14. Lapsed' = Lapsed \ (lost \union {i})
  <2>1. ASSUME NEW j \in Lapsed'
        PROVE  j \in Lapsed \ (lost \union {i})
    <3>1. PICK k \in DOMAIN nodes' : nodes'[k].id = j /\ Expired(nodes'[k])
      BY DEF Lapsed
    <3>2. k # new
      BY <1>7, <3>1
    <3>3. j # i /\ j \in Ids(nodes') /\ j \in Lapsed
      BY <1>5, <1>6, <3>1, <3>2 DEF Lapsed
    <3> QED BY <3>3
  <2>2. ASSUME NEW j \in Lapsed \ (lost \union {i})
        PROVE  j \in Lapsed'
    <3>1. PICK q \in DOMAIN nodes : nodes[q].id = j /\ Expired(nodes[q])
      BY DEF Lapsed
    <3>2. j \in Ids(nodes') /\ j # i
      BY <1>4, <2>2, <3>1
    <3>3. PICK k \in DOMAIN nodes' : nodes'[k] = nodes[q]
      BY <1>1, <1>9, <3>1, <3>2
    <3> QED BY <3>1, <3>3 DEF Lapsed
  <2> QED BY <2>1, <2>2
<1>15. Cardinality(DOMAIN Directory') <= K
  BY <1>1, <1>3, <1>5
<1>16. lost \in SUBSET DOMAIN Directory
  BY <1>4
<1> HIDE DEF lost
<1> QED BY <1>11, <1>13, <1>14, <1>15, <1>16, SameCardinality DEF Dir!Hear

\* ping_nodes() is the clean-up: it forgets the expired, all of them, and no one else.
LEMMA PingNodesImplements == IInv /\ IInv' /\ PingNodes => Dir!CleanUp
<1> SUFFICES ASSUME IInv, IInv', PingNodes
             PROVE  Dir!CleanUp
  OBVIOUS
<1>1. /\ nodes \in Seq(Entry) /\ nodes' \in Seq(Entry)
      /\ \A p, q \in DOMAIN nodes : nodes[p].id = nodes[q].id => p = q
      /\ \A p, q \in DOMAIN nodes' : nodes'[p].id = nodes'[q].id => p = q
  BY DEF IInv, TypeOK, DistinctIds
<1>2. \A p \in DOMAIN nodes : FindId(nodes, nodes[p].id) = p
  BY <1>1, DistinctIdsLemma
<1>3. \A p \in DOMAIN nodes' : FindId(nodes', nodes'[p].id) = p
  BY <1>1, DistinctIdsLemma
<1>4. /\ \A p \in DOMAIN nodes : nodes[p].id \in Ids(nodes) /\ Directory[nodes[p].id] = nodes[p].endpoint
      /\ DOMAIN Directory = Ids(nodes)
  BY <1>2 DEF Directory, Ids
<1>5. /\ \A p \in DOMAIN nodes' : nodes'[p].id \in Ids(nodes') /\ Directory'[nodes'[p].id] = nodes'[p].endpoint
      /\ Directory' = [j \in Ids(nodes') |-> Directory'[j]]
  BY <1>3 DEF Directory, Ids
<1>6. PICK f \in [DOMAIN nodes' -> DOMAIN nodes] :
         /\ \A p, q \in DOMAIN nodes' : p < q => f[p] < f[q]
         /\ \A k \in Kept(nodes) : \E p \in DOMAIN nodes' : f[p] = k
         /\ \A p \in DOMAIN nodes' :
              /\ nodes'[p].id = nodes[f[p]].id
              /\ nodes'[p].endpoint = nodes[f[p]].endpoint
              /\ nodes'[p].idle = nodes[f[p]].idle
              /\ nodes'[p].idle \in 0 .. ExpiredTime
              /\ Diff(nodes'[p]) = nodes'[p].idle
              /\ nodes'[p].is_good = (nodes[f[p]].is_good /\ nodes'[p].idle <= BadPeriod)
  BY PingNodesLemma
<1>7. ASSUME NEW p \in DOMAIN nodes'
      PROVE  ~Expired(nodes'[p]) /\ f[p] \in Kept(nodes)
  <2>1. ~Expired(nodes'[p])
    BY <1>6 DEF Expired
  <2>2. Diff(nodes[f[p]]) = Diff(nodes'[p])
    BY <1>6 DEF Diff
  <2> QED BY <1>6, <2>1, <2>2 DEF Expired, Kept
<1>8. Lapsed' = {}
  BY <1>7 DEF Lapsed
<1>9. ASSUME NEW q \in DOMAIN nodes
      PROVE  nodes[q].id \in Ids(nodes') <=> nodes[q].id \notin Lapsed
  <2>1. nodes[q].id \in Lapsed <=> Expired(nodes[q])
    BY <1>1 DEF Lapsed
  <2>2. nodes[q].id \in Ids(nodes') <=> q \in Kept(nodes)
    BY <1>1, <1>6, <1>7 DEF Ids
  <2> QED BY <2>1, <2>2 DEF Kept
<1>10. Ids(nodes') = DOMAIN Directory \ Lapsed
  <2>1. Ids(nodes') \subseteq Ids(nodes)
    BY <1>6 DEF Ids
  <2>2. \A j \in Ids(nodes) : j \in Ids(nodes') <=> j \notin Lapsed
    <3>1. \A j \in Ids(nodes) : \E q \in DOMAIN nodes : nodes[q].id = j
      BY DEF Ids
    <3> QED BY <1>9, <3>1
  <2> QED BY <1>4, <2>1, <2>2
<1>11. ASSUME NEW j \in Ids(nodes')
       PROVE  Directory'[j] = Directory[j]
  <2>1. PICK p \in DOMAIN nodes' : nodes'[p].id = j
    BY DEF Ids
  <2> QED BY <1>4, <1>5, <1>6, <2>1
<1>12. Directory' = [j \in DOMAIN Directory \ Lapsed |-> Directory[j]]
  BY <1>5, <1>10, <1>11
<1> QED BY <1>8, <1>12 DEF Dir!CleanUp

\* As time passes, or the clock is set back, nobody is forgotten.
LEMMA AgedImplements ==
    ASSUME IInv, IInv', NEW d \in Int, nodes' = Aged(d)
    PROVE  Dir!Lapse
<1>1. /\ nodes \in Seq(Entry) /\ nodes' \in Seq(Entry)
      /\ \A p, q \in DOMAIN nodes : nodes[p].id = nodes[q].id => p = q
      /\ \A p, q \in DOMAIN nodes' : nodes'[p].id = nodes'[q].id => p = q
  BY DEF IInv, TypeOK, DistinctIds
<1>2. \A p \in DOMAIN nodes : FindId(nodes, nodes[p].id) = p
  BY <1>1, DistinctIdsLemma
<1>3. \A p \in DOMAIN nodes' : FindId(nodes', nodes'[p].id) = p
  BY <1>1, DistinctIdsLemma
<1>4. /\ DOMAIN nodes' = DOMAIN nodes
      /\ \A p \in DOMAIN nodes :
           nodes'[p].id = nodes[p].id /\ nodes'[p].endpoint = nodes[p].endpoint
  BY AgedLemma DEF IInv
<1>5. Ids(nodes') = Ids(nodes)
  BY <1>4 DEF Ids
<1>6. ASSUME NEW j \in Ids(nodes)
      PROVE  nodes'[FindId(nodes', j)].endpoint = nodes[FindId(nodes, j)].endpoint
  <2>1. PICK p \in DOMAIN nodes : nodes[p].id = j
    BY DEF Ids
  <2> QED BY <1>2, <1>3, <1>4, <2>1
<1>7. Directory' = Directory
  BY <1>5, <1>6 DEF Directory
<1>8. Lapsed' \in SUBSET DOMAIN Directory
  BY <1>5 DEF Lapsed, Directory, Ids
<1> QED BY <1>7, <1>8 DEF Dir!Lapse

\* routing_table is a bounded directory of the peers heard from: update() records where
\* a peer is, and forgets at most one other, for a new one; ping_nodes() forgets the
\* expired and nobody else.
THEOREM TableImplementsDirectory == Spec => ImplementsDirectory
<1>1. Init => Dir!Init
  BY InitImplements
<1>2. ASSUME IInv, IInv', [Next]_vars
      PROVE  [Dir!Next]_(Dir!vars)
  <2>1. ASSUME NEW i \in Id, NEW ep \in Endpoint, Update(i, ep)
        PROVE  Dir!Next
    <3>1. i \in Id \ {MainId}
      BY <2>1 DEF Update
    <3>2. Dir!Hear(i, ep)
      BY <1>2, <2>1, UpdateImplements
    <3> QED BY <3>1, <3>2 DEF Dir!Next
  <2>2. CASE PingNodes
    BY <1>2, <2>2, PingNodesImplements DEF Dir!Next
  <2>3. CASE Tick
    BY <1>2, <2>3, AgedImplements DEF Tick, Dir!Next
  <2>4. ASSUME NEW d \in 1 .. MaxSkew, StepBack(d)
        PROVE  Dir!Next
    <3>1. -d \in Int /\ nodes' = Aged(-d)
      BY <2>4 DEF StepBack
    <3> QED BY <1>2, <3>1, AgedImplements DEF Dir!Next
  <2>5. CASE UNCHANGED vars
    BY <2>5 DEF vars, Dir!vars, Directory, Lapsed
  <2> QED BY <1>2, <2>1, <2>2, <2>3, <2>4, <2>5 DEF Next
<1> QED BY <1>1, <1>2, Inductive, PTL DEF Spec, ImplementsDirectory, Dir!Spec

-----------------------------------------------------------------------------
(* The walk of find_node(). *)

\* What the thread of the io_service does meanwhile, it does to the table.
THEOREM WalkUsesTable == WalkSpec => Spec
<1>1. WalkInit => Init
  BY DEF WalkInit
<1>2. [WalkNext]_allVars => [Next]_vars
  BY DEF WalkNext, Call, Find, Step, NotFound, Collected, Ask, Answer, Dangle, Changing, Sweeping,
         Passing, Next, allVars
<1> QED BY <1>1, <1>2, PTL DEF WalkSpec, Spec

\* The cells from c to the end of the list.
From(cells, c) ==
    {cells[q] : q \in {r \in DOMAIN cells : \E a \in DOMAIN cells : cells[a] = c /\ a <= r}}

\* The cells a walk is still to see.
Ahead == From(cell, at)

WalkType ==
    /\ cell \in Seq(Cell) /\ Len(cell) = Len(nodes)
    /\ \A p, q \in DOMAIN cell : cell[p] = cell[q] => p = q
    /\ visited \in Seq(Cell)
    /\ kept \subseteq ToSet(cell)

\* The id searched for is still to come.
TargetAhead ==
    walk = "searching" /\ steady /\ ~slipped =>
        at \in ToSet(cell) /\ \E p \in DOMAIN cell : nodes[p].id = target /\ cell[p] \in Ahead

\* What stays is collected or still to come, and what is both was spliced.
RestAhead ==
    walk = "collecting" /\ ~slipped =>
        /\ at = End \/ at \in ToSet(cell)
        /\ kept \subseteq ToSet(visited) \union Ahead
        /\ \A c \in Ahead : c \in ToSet(visited) /\ c \in kept => c \in moved
        /\ \A p, q \in DOMAIN visited :
              p # q /\ visited[p] = visited[q] => visited[p] \in moved \/ visited[p] \notin kept

\* The entry found is the target's, or was taken over by an id that may have moved since.
FoundWasTargets ==
    walk = "found" /\ at \in kept =>
        \A a \in DOMAIN cell : cell[a] = at =>
            /\ nodes[a].id = target => nodes[a].endpoint \in homes
            /\ changes = 0 => nodes[a].id = target
            /\ changes <= 1 => nodes[a].endpoint \in homes

WInv ==
    /\ IInv
    /\ changes \in Nat
    /\ walk # "idle" => WalkType /\ TargetAhead /\ RestAhead /\ FoundWasTargets

\* A change of the list, seen from the cells: those that are neither spliced nor freed keep
\* their entry and their order; a spliced or new one is the last, or the head's successor.
Rearranged(splice, free, new, g) ==
    /\ cell' \in Seq(Cell) /\ Len(cell') = Len(nodes')
    /\ splice \cap free = {}
    /\ \A k \in DOMAIN cell' \ {new} :
         /\ g[k] \in DOMAIN cell /\ cell'[k] = cell[g[k]] /\ cell'[k] \notin splice \union free
         /\ nodes'[k].id = nodes[g[k]].id /\ nodes'[k].endpoint = nodes[g[k]].endpoint
    /\ \A k, l \in DOMAIN cell' \ {new} : k < l => g[k] < g[l]
    /\ \A q \in DOMAIN cell :
         \/ cell[q] \in free
         \/ /\ cell[q] \in splice /\ new \in DOMAIN cell' /\ cell'[new] = cell[q]
            /\ nodes[q].id = nodes'[new].id \/ nodes[q].endpoint = nodes'[new].endpoint
         \/ \E k \in DOMAIN cell' \ {new} : g[k] = q
    /\ new \in DOMAIN cell' =>
         /\ cell'[new] \in splice \union free \/ cell'[new] \notin ToSet(cell)
         /\ \/ new = Len(cell')
            \/ new = 1 /\ splice = {} /\ cell[1] \in free /\ nodes'[1].id \notin Ids(nodes)

LEMMA CellFacts ==
    ASSUME IInv, WalkType
    PROVE  /\ nodes \in Seq(Entry) /\ Len(nodes) \in Nat /\ Len(nodes) <= K
           /\ DOMAIN nodes = 1 .. Len(nodes) /\ DOMAIN cell = 1 .. Len(nodes)
           /\ \A p, q \in DOMAIN nodes : nodes[p].id = nodes[q].id => p = q
           /\ \A c : c \in ToSet(cell) <=> \E q \in DOMAIN cell : cell[q] = c
           /\ \A q \in DOMAIN cell : cell[q] \in Cell
<1>1. nodes \in Seq(Entry) /\ Len(nodes) \in Nat /\ DOMAIN nodes = 1 .. Len(nodes) /\ Len(nodes) <= K
  BY EntryFacts DEF IInv, TypeOK
<1>2. DOMAIN cell = 1 .. Len(nodes) /\ \A q \in DOMAIN cell : cell[q] \in Cell
  BY <1>1, LenProperties, ElementOfSeq DEF WalkType
<1>3. \A c : c \in ToSet(cell) <=> \E q \in DOMAIN cell : cell[q] = c
  BY DEF ToSet
<1> QED BY <1>1, <1>2, <1>3 DEF IInv, DistinctIds

\* Position returns the position of a cell, 0 for one that is not in the list.
LEMMA PositionLemma ==
    ASSUME WalkType, NEW c
    PROVE  /\ c \in ToSet(cell) <=> ~Freed(c)
           /\ ~Freed(c) => Position(c) \in DOMAIN cell /\ cell[Position(c)] = c
<1> DEFINE I == {p \in 1 .. Len(cell) : cell[p] = c}
<1>1. Position(c) = IF I # {} THEN Min(I) ELSE 0
  BY DEF Position, SelectInSeq
<1>2. I \in SUBSET Nat /\ DOMAIN cell = 1 .. Len(cell)
  BY LenProperties DEF WalkType
<1>3. I # {} => Min(I) \in I
  BY <1>2, MinOfIndices
<1>4. I # {} <=> c \in ToSet(cell)
  BY <1>2 DEF ToSet
<1>5. 0 \notin I
  OBVIOUS
<1>6. \A p \in I : p \in DOMAIN cell /\ cell[p] = c
  BY <1>2
<1> HIDE DEF I
<1> QED BY <1>1, <1>3, <1>4, <1>5, <1>6 DEF Freed

\* update() rearranges the cells so.
LEMMA UpdateRearranges ==
    ASSUME IInv, IInv', WalkType, NEW i \in Id, NEW ep \in Endpoint, Update(i, ep),
           cell' \in CellsUpdated(i, ep)
    PROVE  \E new, g : Rearranged(Spliced(i, ep), FreedBy(i, ep), new, g)
<1> DEFINE p == Slot(nodes, i, ep)
           n == Len(nodes)
<1>1. /\ nodes \in Seq(Entry) /\ n \in Nat /\ n <= K
      /\ DOMAIN nodes = 1 .. n /\ DOMAIN cell = 1 .. n
      /\ \A c : c \in ToSet(cell) <=> \E q \in DOMAIN cell : cell[q] = c
      /\ \A q \in DOMAIN cell : cell[q] \in Cell
      /\ cell \in Seq(Cell) /\ Len(cell) = n
      /\ \A q, r \in DOMAIN cell : cell[q] = cell[r] => q = r
  BY CellFacts DEF WalkType
<1>2. \/ p # 0 /\ Touched(nodes, i, ep, nodes')
      \/ p = 0 /\ Evicts(nodes, i, ep) /\ HeadReplaced(nodes, i, ep, nodes')
      \/ p = 0 /\ ~Evicts(nodes, i, ep) /\ Appended(nodes, i, ep, nodes')
  BY <1>1, UpdatedLemma DEF Update
<1>3. Fresh(i, ep).id = i /\ Fresh(i, ep).endpoint = ep
  BY DEF Fresh
<1>4. CASE p # 0 /\ Touched(nodes, i, ep, nodes')
  <2>1. /\ p \in 1 .. n /\ Len(nodes') = n
        /\ \A k \in 1 .. n - 1 : nodes'[k] = IF k < p THEN nodes[k] ELSE nodes[k + 1]
        /\ nodes'[n] = Fresh(i, ep)
    BY <1>4 DEF Touched
  <2>2. nodes[p].id = i \/ nodes[p].endpoint = ep
    BY <1>1, <1>4, SlotLemma
  <2>3. cell' = Append(RemoveAt(cell, p), cell[p])
    BY <1>4 DEF CellsUpdated, Evicts
  <2>4. Spliced(i, ep) = {cell[p]} /\ FreedBy(i, ep) = {}
    BY <1>4 DEF Spliced, FreedBy, Evicts
  <2> HIDE DEF p, n
  <2>5. /\ RemoveAt(cell, p) \in Seq(Cell) /\ Len(RemoveAt(cell, p)) = n - 1
        /\ \A k \in 1 .. n - 1 : RemoveAt(cell, p)[k] = IF k < p THEN cell[k] ELSE cell[k + 1]
    <3>1. cell \in Seq(Cell) /\ p \in 1 .. Len(cell) /\ Len(cell) = n
      BY <1>1, <2>1
    <3> QED BY <3>1, RemoveAtLemma
  <2>6. /\ cell' \in Seq(Cell) /\ Len(cell') = n /\ DOMAIN cell' = 1 .. n
        /\ \A k \in 1 .. n - 1 : cell'[k] = IF k < p THEN cell[k] ELSE cell[k + 1]
        /\ cell'[n] = cell[p]
    <3>1. cell[p] \in Cell
      BY <1>1, <2>1
    <3>2. /\ cell' \in Seq(Cell) /\ Len(cell') = n /\ cell'[n] = cell[p]
          /\ \A k \in 1 .. n - 1 : cell'[k] = RemoveAt(cell, p)[k]
      BY <1>1, <2>3, <2>5, <3>1, AppendProperties
    <3>3. DOMAIN cell' = 1 .. n
      BY <3>2, LenProperties
    <3>4. \A k \in 1 .. n - 1 : cell'[k] = IF k < p THEN cell[k] ELSE cell[k + 1]
      BY <2>5, <3>2
    <3> QED BY <3>2, <3>3, <3>4
  <2> DEFINE g == [k \in 1 .. n |-> IF k < p THEN k ELSE k + 1]
  <2>7. ASSUME NEW k \in DOMAIN cell' \ {n}
        PROVE  /\ g[k] \in DOMAIN cell /\ cell'[k] = cell[g[k]] /\ g[k] # p
               /\ nodes'[k] = nodes[g[k]]
    <3>1. k \in 1 .. n - 1 /\ k \in 1 .. n
      BY <1>1, <2>6
    <3> QED BY <1>1, <2>1, <2>6, <3>1
  <2>8. \A k, l \in DOMAIN cell' \ {n} : k < l => g[k] < g[l]
    BY <1>1, <2>1, <2>6
  <2>9. \A q \in DOMAIN cell : q = p \/ \E k \in DOMAIN cell' \ {n} : g[k] = q
    <3>0. DOMAIN cell = 1 .. n /\ \A k \in 1 .. n - 1 : k \in DOMAIN cell' \ {n}
      BY <1>1, <2>6
    <3>1. SUFFICES ASSUME NEW q \in 1 .. n, q # p
                   PROVE  \E k \in 1 .. n - 1 : g[k] = q
      <4> HIDE DEF g
      <4> QED BY <3>0, <3>1
    <3>2. CASE q < p
      <4>1. q \in 1 .. n - 1 /\ g[q] = q
        BY <1>1, <2>1, <3>2
      <4> QED BY <4>1
    <3>3. CASE q > p
      <4>1. q - 1 \in 1 .. n - 1 /\ g[q - 1] = q
        BY <1>1, <2>1, <3>3
      <4> QED BY <4>1
    <3>4. q < p \/ q > p
      BY <1>1, <2>1, <3>1
    <3> QED BY <3>2, <3>3, <3>4
  <2> HIDE DEF g
  <2>10. Rearranged({cell[p]}, {}, n, g)
    <3>1. \A k \in DOMAIN cell' \ {n} : cell'[k] # cell[p]
      BY <1>1, <2>1, <2>7
    <3>2. n \in DOMAIN cell'
      BY <1>1, <2>1, <2>6
    <3>3. \A q \in DOMAIN cell :
             \/ /\ cell[q] \in {cell[p]} /\ cell'[n] = cell[q]
                /\ nodes[q].id = nodes'[n].id \/ nodes[q].endpoint = nodes'[n].endpoint
             \/ \E k \in DOMAIN cell' \ {n} : g[k] = q
      BY <1>3, <2>1, <2>2, <2>6, <2>9
    <3> QED BY <2>1, <2>6, <2>7, <2>8, <3>1, <3>2, <3>3 DEF Rearranged
  <2> QED BY <2>4, <2>10
<1>5. CASE p = 0 /\ Evicts(nodes, i, ep) /\ HeadReplaced(nodes, i, ep, nodes')
  <2>1. /\ n = K /\ Len(nodes') = K /\ i \notin Ids(nodes)
        /\ nodes'[1] = Fresh(i, ep) /\ \A k \in 2 .. K : nodes'[k] = nodes[k]
    BY <1>5 DEF HeadReplaced
  <2>2. PICK c \in Spare \union {Head(cell)} : cell' = <<c>> \o Tail(cell)
    BY <1>5 DEF CellsUpdated
  <2>3. Spliced(i, ep) = {} /\ FreedBy(i, ep) = {Head(cell)}
    BY <1>5 DEF Spliced, FreedBy
  <2> HIDE DEF p, n
  <2>4. cell # << >> /\ Head(cell) = cell[1] /\ 1 \in DOMAIN cell
    <3>1. cell # << >>
      BY <1>1, <2>1
    <3> QED BY <1>1, <2>1, <3>1, HeadTailProperties
  <2>5. /\ Tail(cell) \in Seq(Cell) /\ Len(Tail(cell)) = K - 1
        /\ \A k \in 1 .. K - 1 : Tail(cell)[k] = cell[k + 1]
    BY <1>1, <2>1, <2>4, HeadTailProperties
  <2>6. c \in Cell /\ (c = cell[1] \/ c \notin ToSet(cell))
    BY <1>1, <2>2, <2>4 DEF Spare
  <2>7. /\ cell' \in Seq(Cell) /\ Len(cell') = K /\ DOMAIN cell' = 1 .. K
        /\ cell'[1] = c /\ \A k \in 2 .. K : cell'[k] = cell[k]
    <3>1. <<c>> \in Seq(Cell) /\ Len(<<c>>) = 1 /\ <<c>>[1] = c
      BY <2>6
    <3>2. /\ cell' \in Seq(Cell) /\ Len(cell') = K
          /\ \A k \in 1 .. K : cell'[k] = IF k <= 1 THEN <<c>>[k] ELSE Tail(cell)[k - 1]
      BY <2>2, <2>5, <3>1, ConcatProperties
    <3>3. \A k \in 2 .. K : Tail(cell)[k - 1] = cell[k]
      BY <2>5
    <3>4. K \in Nat \ {0}
      BY CapacityAssumption
    <3>5. cell'[1] = c
      BY <3>1, <3>2, <3>4
    <3>6. ASSUME NEW k \in 2 .. K
          PROVE  cell'[k] = Tail(cell)[k - 1]
      <4>1. k \in 1 .. K /\ ~(k <= 1)
        BY <3>4
      <4> QED BY <3>2, <4>1
    <3>7. DOMAIN cell' = 1 .. K
      BY <3>2, LenProperties
    <3> QED BY <3>2, <3>3, <3>5, <3>6, <3>7
  <2> DEFINE g == [k \in 1 .. K |-> k]
  <2>8. ASSUME NEW k \in DOMAIN cell' \ {1}
        PROVE  /\ g[k] \in DOMAIN cell /\ cell'[k] = cell[g[k]] /\ g[k] # 1
               /\ nodes'[k] = nodes[g[k]]
    BY <1>1, <2>1, <2>7
  <2>9. \A k, l \in DOMAIN cell' \ {1} : k < l => g[k] < g[l]
    BY <2>7
  <2>10. \A q \in DOMAIN cell : q = 1 \/ \E k \in DOMAIN cell' \ {1} : g[k] = q
    BY <1>1, <2>1, <2>7
  <2> HIDE DEF g
  <2>11. Rearranged({}, {cell[1]}, 1, g)
    <3>1. \A k \in DOMAIN cell' \ {1} : cell'[k] # cell[1]
      BY <1>1, <2>4, <2>8
    <3>2. nodes'[1].id \notin Ids(nodes)
      BY <1>3, <2>1
    <3> QED BY <2>1, <2>6, <2>7, <2>8, <2>9, <2>10, <3>1, <3>2 DEF Rearranged
  <2> QED BY <2>3, <2>4, <2>11
<1>6. CASE p = 0 /\ ~Evicts(nodes, i, ep) /\ Appended(nodes, i, ep, nodes')
  <2>1. /\ Len(nodes') = n + 1 /\ \A k \in 1 .. n : nodes'[k] = nodes[k]
    BY <1>6 DEF Appended
  <2>2. PICK c \in Spare : cell' = Append(cell, c)
    BY <1>6 DEF CellsUpdated
  <2>3. Spliced(i, ep) = {} /\ FreedBy(i, ep) = {}
    BY <1>6 DEF Spliced, FreedBy
  <2>4. c \in Cell /\ c \notin ToSet(cell)
    BY DEF Spare
  <2> HIDE DEF p, n
  <2>5. /\ cell' \in Seq(Cell) /\ Len(cell') = n + 1 /\ DOMAIN cell' = 1 .. n + 1
        /\ cell'[n + 1] = c /\ \A k \in 1 .. n : cell'[k] = cell[k]
    <3>1. /\ cell' \in Seq(Cell) /\ Len(cell') = n + 1
          /\ cell'[n + 1] = c /\ \A k \in 1 .. n : cell'[k] = cell[k]
      BY <1>1, <2>2, <2>4, AppendProperties
    <3> QED BY <3>1, LenProperties
  <2> DEFINE g == [k \in 1 .. n |-> k]
  <2>6. ASSUME NEW k \in DOMAIN cell' \ {n + 1}
        PROVE  /\ g[k] \in DOMAIN cell /\ cell'[k] = cell[g[k]]
               /\ nodes'[k] = nodes[g[k]]
    <3>1. k \in 1 .. n
      BY <1>1, <2>5
    <3> QED BY <1>1, <2>1, <2>5, <3>1
  <2>7. \A k, l \in DOMAIN cell' \ {n + 1} : k < l => g[k] < g[l]
    BY <1>1, <2>5
  <2>8. \A q \in DOMAIN cell : \E k \in DOMAIN cell' \ {n + 1} : g[k] = q
    BY <1>1, <2>5
  <2> HIDE DEF g
  <2>9. Rearranged({}, {}, n + 1, g)
    BY <2>1, <2>4, <2>5, <2>6, <2>7, <2>8 DEF Rearranged
  <2> QED BY <2>3, <2>9
<1> QED BY <1>2, <1>4, <1>5, <1>6

\* ping_nodes() does too: a cell goes with its entry.
LEMMA SweepRearranges ==
    ASSUME IInv, IInv', WalkType, PingNodes, cell' \in CellsLeft
    PROVE  \E new, g : Rearranged({}, ToSet(cell) \ ToSet(cell'), new, g)
<1> DEFINE P == Kept(nodes)
           n == Cardinality(P)
           m == Len(nodes)
<1>1. /\ nodes \in Seq(Entry) /\ m \in Nat
      /\ DOMAIN nodes = 1 .. m /\ DOMAIN cell = 1 .. m
      /\ \A c : c \in ToSet(cell) <=> \E q \in DOMAIN cell : cell[q] = c
      /\ \A q \in DOMAIN cell : cell[q] \in Cell
      /\ \A q, r \in DOMAIN cell : cell[q] = cell[r] => q = r
  BY CellFacts DEF WalkType
<1>2. P \in SUBSET (1 .. m)
  BY <1>1 DEF Kept
<1>3. PICK f \in Enumerations(P) : nodes' = [p \in 1 .. n |-> Marked(nodes[f[p]])]
  BY DEF PingNodes, Swept
<1>4. PICK h \in Enumerations(P) : cell' = [p \in 1 .. n |-> cell[h[p]]]
  BY DEF CellsLeft
<1> HIDE DEF n, m, P
<1>5. f = h
  BY <1>1, <1>2, EnumerationIsUnique
<1>6. /\ n \in Nat /\ h \in [1 .. n -> P]
      /\ \A p, q \in 1 .. n : p < q => h[p] < h[q]
      /\ \A k \in P : \E p \in 1 .. n : h[p] = k
  BY <1>1, <1>2, EnumerationLemma DEF n
<1>7. DOMAIN cell' = 1 .. n /\ \A k \in 1 .. n : h[k] \in 1 .. m /\ cell'[k] = cell[h[k]]
  BY <1>2, <1>4, <1>6
<1>8. \A k \in 1 .. n : nodes'[k].id = nodes[h[k]].id /\ nodes'[k].endpoint = nodes[h[k]].endpoint
  <2>1. ASSUME NEW e \in Entry
        PROVE  Marked(e).id = e.id /\ Marked(e).endpoint = e.endpoint
    BY DEF Marked, Entry
  <2>2. \A k \in 1 .. m : nodes[k] \in Entry
    BY <1>1, ElementOfSeq
  <2> QED BY <1>3, <1>5, <1>7, <2>1, <2>2
<1>9. cell' \in Seq(Cell) /\ Len(cell') = n
  <2>1. \A k \in 1 .. n : cell[h[k]] \in Cell
    BY <1>1, <1>7
  <2> QED BY <1>4, <1>6, <2>1, IsASeq
<1>10. Len(nodes') = n
  <2>1. ASSUME NEW e \in Entry
        PROVE  Marked(e) \in Entry
    BY DEF Marked, Entry
  <2>2. \A k \in 1 .. n : nodes[h[k]] \in Entry
    BY <1>1, <1>7, ElementOfSeq
  <2>3. \A k \in 1 .. n : Marked(nodes[f[k]]) \in Entry
    BY <1>5, <2>1, <2>2
  <2> QED BY <1>3, <1>6, <2>3, IsASeq
<1>11. ASSUME NEW q \in 1 .. m
       PROVE  cell[q] \in ToSet(cell) \ ToSet(cell') \/ \E k \in 1 .. n : h[k] = q
  <2>1. CASE q \in P
    BY <1>6, <2>1
  <2>2. CASE q \notin P
    <3>1. \A k \in 1 .. n : h[k] # q
      BY <1>6, <2>2
    <3>2. \A k \in 1 .. n : cell'[k] # cell[q]
      BY <1>1, <1>7, <3>1
    <3>3. cell[q] \notin ToSet(cell')
      BY <1>7, <3>2 DEF ToSet
    <3> QED BY <1>1, <3>3
  <2> QED BY <2>1, <2>2
<1>12. \A k \in 1 .. n : cell'[k] \in ToSet(cell')
  BY <1>7 DEF ToSet
<1>13. 0 \notin DOMAIN cell' /\ DOMAIN cell' \ {0} = 1 .. n
  BY <1>7
<1>14. Rearranged({}, ToSet(cell) \ ToSet(cell'), 0, h)
  BY <1>1, <1>6, <1>7, <1>8, <1>9, <1>10, <1>11, <1>12, <1>13 DEF Rearranged
<1> QED BY <1>14

\* The cells that follow one of the list; none follows one that is not in it.
LEMMA FromLemma ==
    ASSUME NEW cells, \A p, q \in DOMAIN cells : cells[p] = cells[q] => p = q, NEW c
    PROVE  /\ c \notin ToSet(cells) => From(cells, c) = {}
           /\ \A a \in DOMAIN cells : cells[a] = c =>
                \A x : x \in From(cells, c) <=> \E q \in DOMAIN cells : a <= q /\ cells[q] = x
<1>1. \A a \in DOMAIN cells : cells[a] = c => c \in ToSet(cells)
  BY DEF ToSet
<1>2. c \notin ToSet(cells) => From(cells, c) = {}
  BY <1>1 DEF From
<1>3. ASSUME NEW a \in DOMAIN cells, cells[a] = c
      PROVE  \A x : x \in From(cells, c) <=> \E q \in DOMAIN cells : a <= q /\ cells[q] = x
  BY <1>3 DEF From
<1> QED BY <1>2, <1>3

LEMMA EndIsNoCell ==
    ASSUME NEW cells \in Seq(Cell)
    PROVE  End \notin ToSet(cells)
<1>1. \A q \in DOMAIN cells : cells[q] \in Cell
  BY LenProperties, ElementOfSeq
<1>2. End \notin Cell
  BY DEF End, Cell
<1> QED BY <1>1, <1>2 DEF ToSet

\* The walk's invariant survives a change of the list: the cells ahead stay ahead but for
\* those freed, and only cells spliced or new come to be ahead.
LEMMA RearrangedWInv ==
    ASSUME WInv, IInv', walk # "idle", NEW splice, NEW free, NEW new, NEW g,
           Rearranged(splice, free, new, g), Note(splice, free)
    PROVE  WInv'
<1>0. /\ IInv /\ WalkType /\ TargetAhead /\ RestAhead /\ FoundWasTargets /\ changes \in Nat
  BY DEF WInv
<1>1. /\ nodes \in Seq(Entry) /\ Len(nodes) \in Nat
      /\ DOMAIN nodes = 1 .. Len(nodes) /\ DOMAIN cell = 1 .. Len(nodes)
      /\ \A p, q \in DOMAIN nodes : nodes[p].id = nodes[q].id => p = q
      /\ \A c : c \in ToSet(cell) <=> \E q \in DOMAIN cell : cell[q] = c
  BY <1>0, CellFacts
<1>2. /\ cell \in Seq(Cell)
      /\ \A p, q \in DOMAIN cell : cell[p] = cell[q] => p = q
      /\ visited \in Seq(Cell) /\ kept \subseteq ToSet(cell)
  BY <1>0 DEF WalkType
<1> DEFINE old == DOMAIN cell' \ {new}
<1>3. /\ cell' \in Seq(Cell) /\ Len(cell') = Len(nodes')
      /\ \A k \in old :
           /\ g[k] \in DOMAIN cell /\ cell'[k] = cell[g[k]] /\ cell'[k] \notin splice \union free
           /\ nodes'[k].id = nodes[g[k]].id /\ nodes'[k].endpoint = nodes[g[k]].endpoint
      /\ \A k, l \in old : k < l => g[k] < g[l]
      /\ splice \cap free = {}
  BY DEF Rearranged
<1>4. \A q \in DOMAIN cell :
        \/ cell[q] \in free
        \/ /\ cell[q] \in splice /\ new \in DOMAIN cell' /\ cell'[new] = cell[q]
           /\ nodes[q].id = nodes'[new].id \/ nodes[q].endpoint = nodes'[new].endpoint
        \/ \E k \in old : g[k] = q
  BY DEF Rearranged
<1>5. new \in DOMAIN cell' =>
         /\ cell'[new] \in splice \union free \/ cell'[new] \notin ToSet(cell)
         /\ \/ new = Len(cell')
            \/ new = 1 /\ splice = {} /\ cell[1] \in free /\ nodes'[1].id \notin Ids(nodes)
  BY DEF Rearranged
<1>6. /\ DOMAIN cell' = 1 .. Len(cell') /\ Len(cell') \in Nat /\ DOMAIN nodes' = DOMAIN cell'
      /\ \A c : c \in ToSet(cell') <=> \E k \in DOMAIN cell' : cell'[k] = c
      /\ \A k \in DOMAIN cell' : k = new \/ k \in old
  <2>1. nodes' \in Seq(Entry)
    BY DEF IInv, TypeOK
  <2>2. \A c : c \in ToSet(cell') <=> \E k \in DOMAIN cell' : cell'[k] = c
    BY DEF ToSet
  <2> QED BY <1>3, <2>1, <2>2, LenProperties
<1>7. /\ walk' = walk /\ target' = target /\ at' = at /\ visited' = visited
      /\ changes' = changes + 1 /\ kept' = kept \ free
      /\ slipped' = (slipped \/ at \in splice \union free)
      /\ moved' = IF walk = "collecting" THEN moved \union splice ELSE {}
      /\ steady' = (steady /\ target \in Ids(nodes'))
      /\ homes' = homes \union {nodes'[p].endpoint : p \in {q \in DOMAIN nodes' :
                                     walk = "found" /\ nodes'[q].id = target}}
  BY DEF Note
<1>8. \A p, q \in DOMAIN cell' : cell'[p] = cell'[q] => p = q
  <2>1. ASSUME NEW p \in old, NEW q \in old, cell'[p] = cell'[q]
        PROVE  p = q
    <3>1. g[p] = g[q]
      BY <1>2, <1>3, <2>1
    <3>2. p < q \/ q < p \/ p = q
      BY <1>6
    <3>3. g[p] \in Nat
      BY <1>1, <1>3
    <3> QED BY <1>3, <3>1, <3>2, <3>3
  <2>2. ASSUME NEW q \in old, new \in DOMAIN cell', cell'[new] = cell'[q]
        PROVE  FALSE
    BY <1>1, <1>3, <1>5, <2>2
  <2> QED BY <1>6, <2>1, <2>2
<1>9. \A c \in ToSet(cell) : c \notin free => c \in ToSet(cell')
  BY <1>1, <1>3, <1>4, <1>6
<1>10. WalkType'
  <2>1. kept' \subseteq ToSet(cell')
    BY <1>2, <1>7, <1>9
  <2> QED BY <1>2, <1>3, <1>7, <1>8, <2>1 DEF WalkType
<1> HIDE DEF old
<1>11. ASSUME NEW a \in DOMAIN cell, cell[a] = at, at \notin splice \union free
       PROVE  \E b \in old : g[b] = a /\ cell'[b] = at
  BY <1>3, <1>4, <1>11
<1>12. ASSUME at \in ToSet(cell), at \notin splice \union free
       PROVE  /\ at \in ToSet(cell')
              /\ \A c \in Ahead' : c \in Ahead \/ c \in splice \union free \/ c \notin ToSet(cell)
              /\ \A c \in Ahead \ free : c \in Ahead'
              /\ new = Len(cell') /\ new \in DOMAIN cell' => cell'[new] \in Ahead'
              /\ \A c \in splice : c \in ToSet(cell) => c \in Ahead'
  <2>1. PICK a \in DOMAIN cell : cell[a] = at
    BY <1>1, <1>12
  <2>2. PICK b \in old : g[b] = a /\ cell'[b] = at
    BY <1>11, <1>12, <2>1
  <2>3. b \in DOMAIN cell'
    BY <2>2 DEF old
  <2>4. \A x : x \in Ahead <=> \E q \in DOMAIN cell : a <= q /\ cell[q] = x
    BY <1>2, <2>1, FromLemma DEF Ahead
  <2>5. \A x : x \in Ahead' <=> \E k \in DOMAIN cell' : b <= k /\ cell'[k] = x
    <3>1. \A x : x \in From(cell', at) <=> \E k \in DOMAIN cell' : b <= k /\ cell'[k] = x
      BY <1>8, <2>2, <2>3, FromLemma
    <3> QED BY <1>7, <3>1 DEF Ahead
  <2>6. at \in ToSet(cell')
    BY <1>6, <2>2, <2>3
  <2>7. ASSUME NEW c \in Ahead'
        PROVE  c \in Ahead \/ c \in splice \union free \/ c \notin ToSet(cell)
    <3>1. PICK k \in DOMAIN cell' : b <= k /\ cell'[k] = c
      BY <2>5
    <3>2. CASE k = new
      BY <1>5, <3>1, <3>2
    <3>3. CASE k \in old
      <4>1. b = k \/ b < k
        BY <1>6, <2>3, <3>1
      <4>2. g[k] \in DOMAIN cell /\ cell[g[k]] = c
        BY <1>3, <3>1, <3>3
      <4>3. a <= g[k]
        BY <1>1, <1>3, <2>1, <2>2, <3>3, <4>1, <4>2
      <4> QED BY <2>4, <4>2, <4>3
    <3> QED BY <1>6, <3>2, <3>3
  <2>8. new = Len(cell') /\ new \in DOMAIN cell' => cell'[new] \in Ahead'
    BY <1>6, <2>3, <2>5
  <2>9. ASSUME NEW c \in splice, c \in ToSet(cell)
        PROVE  c \in Ahead'
    <3>1. PICK q \in DOMAIN cell : cell[q] = c
      BY <1>1, <2>9
    <3>2. new \in DOMAIN cell' /\ cell'[new] = c
      BY <1>3, <1>4, <3>1
    <3>3. new = Len(cell')
      BY <1>5, <3>2
    <3> QED BY <2>8, <3>2, <3>3
  <2>10. ASSUME NEW c \in Ahead \ free
         PROVE  c \in Ahead'
    <3>1. PICK q \in DOMAIN cell : a <= q /\ cell[q] = c
      BY <2>4
    <3>2. CASE c \in splice
      BY <1>1, <2>9, <3>1, <3>2
    <3>3. CASE c \notin splice
      <4>1. PICK k \in old : g[k] = q
        BY <1>4, <2>10, <3>1, <3>3
      <4>2. k \in DOMAIN cell' /\ cell'[k] = c
        BY <1>3, <3>1, <4>1 DEF old
      <4>3. ~(k < b)
        <5>1. k < b => q < a
          BY <1>3, <2>2, <4>1
        <5> QED BY <1>1, <2>1, <3>1, <5>1
      <4>4. b <= k
        BY <1>6, <2>3, <4>2, <4>3
      <4> QED BY <2>5, <4>2, <4>4
    <3> QED BY <3>2, <3>3
  <2> QED BY <2>6, <2>7, <2>8, <2>9, <2>10
<1>13. TargetAhead'
  <2>1. SUFFICES ASSUME walk = "searching", steady, target \in Ids(nodes'), ~slipped,
                        at \notin splice \union free
                 PROVE  /\ at \in ToSet(cell')
                        /\ \E k \in DOMAIN cell' : nodes'[k].id = target /\ cell'[k] \in Ahead'
    BY <1>7 DEF TargetAhead
  <2>2. at \in ToSet(cell)
    BY <1>0, <2>1 DEF TargetAhead
  <2>3. PICK p \in DOMAIN cell : nodes[p].id = target /\ cell[p] \in Ahead
    BY <1>0, <2>1 DEF TargetAhead
  <2>4. target \in Ids(nodes)
    BY <1>1, <2>3 DEF Ids
  <2>5. PICK k \in DOMAIN cell' : nodes'[k].id = target
    BY <1>6, <2>1 DEF Ids
  <2>6. CASE k \in old
    <3>1. g[k] = p
      BY <1>1, <1>3, <2>3, <2>5, <2>6
    <3>2. cell'[k] \in Ahead \ free
      BY <1>3, <2>3, <2>6, <3>1
    <3> QED BY <1>12, <2>1, <2>2, <2>5, <3>2
  <2>7. CASE k = new
    <3>1. new = Len(cell')
      BY <1>5, <2>4, <2>5, <2>7
    <3> QED BY <1>12, <2>1, <2>2, <2>5, <2>7, <3>1
  <2> QED BY <1>6, <2>6, <2>7
<1>14. RestAhead'
  <2>1. SUFFICES ASSUME walk = "collecting", ~slipped, at \notin splice \union free
                 PROVE  /\ at = End \/ at \in ToSet(cell')
                        /\ kept' \subseteq ToSet(visited) \union Ahead'
                        /\ \A c \in Ahead' : c \in ToSet(visited) /\ c \in kept' => c \in moved'
                        /\ \A p, q \in DOMAIN visited :
                              p # q /\ visited[p] = visited[q] =>
                                  visited[p] \in moved' \/ visited[p] \notin kept'
    BY <1>7 DEF RestAhead
  <2>2. /\ at = End \/ at \in ToSet(cell)
        /\ kept \subseteq ToSet(visited) \union Ahead
        /\ \A c \in Ahead : c \in ToSet(visited) /\ c \in kept => c \in moved
        /\ \A p, q \in DOMAIN visited :
              p # q /\ visited[p] = visited[q] => visited[p] \in moved \/ visited[p] \notin kept
    BY <1>0, <2>1 DEF RestAhead
  <2>3. moved' = moved \union splice /\ kept' = kept \ free
    BY <1>7, <2>1
  <2>4. CASE at = End
    <3>1. Ahead = {}
      BY <1>2, <2>4, EndIsNoCell, FromLemma DEF Ahead
    <3>2. Ahead' = {}
      <4>1. From(cell', at) = {}
        BY <1>3, <1>8, <2>4, EndIsNoCell, FromLemma
      <4> QED BY <1>7, <4>1 DEF Ahead
    <3> QED BY <2>2, <2>3, <2>4, <3>1, <3>2
  <2>5. CASE at \in ToSet(cell)
    <3>1. at \in ToSet(cell')
      BY <1>12, <2>1, <2>5
    <3>2. kept' \subseteq ToSet(visited) \union Ahead'
      BY <1>12, <2>1, <2>2, <2>3, <2>5
    <3>3. \A c \in Ahead' : c \in ToSet(visited) /\ c \in kept' => c \in moved'
      BY <1>2, <1>12, <2>1, <2>2, <2>3, <2>5
    <3> QED BY <2>2, <2>3, <3>1, <3>2, <3>3
  <2> QED BY <2>2, <2>4, <2>5
<1>15. FoundWasTargets'
  <2>1. SUFFICES ASSUME walk = "found", at \in kept, at \notin free,
                        NEW a \in DOMAIN cell', cell'[a] = at
                 PROVE  /\ nodes'[a].id = target => nodes'[a].endpoint \in homes'
                        /\ changes' = 0 => nodes'[a].id = target
                        /\ changes' <= 1 => nodes'[a].endpoint \in homes'
    BY <1>7 DEF FoundWasTargets
  <2>2. nodes'[a].id = target => nodes'[a].endpoint \in homes'
    BY <1>6, <1>7, <2>1
  <2>3. changes' # 0 /\ (changes' <= 1 => changes = 0)
    BY <1>0, <1>7
  <2>4. ASSUME changes = 0
        PROVE  nodes'[a].endpoint \in homes'
    <3>1. PICK q \in DOMAIN cell : cell[q] = at
      BY <1>1, <1>2, <2>1
    <3>2. nodes[q].id = target /\ nodes[q].endpoint \in homes
      BY <1>0, <2>1, <2>4, <3>1 DEF FoundWasTargets
    <3>3. CASE a \in old
      <4>1. g[a] = q
        BY <1>2, <1>3, <2>1, <3>1, <3>3
      <4> QED BY <1>3, <1>7, <3>2, <3>3, <4>1
    <3>4. CASE a = new
      <4>1. ~\E k \in old : g[k] = q
        BY <1>3, <1>8, <2>1, <3>1, <3>4 DEF old
      <4>2. nodes[q].id = nodes'[new].id \/ nodes[q].endpoint = nodes'[new].endpoint
        BY <1>4, <2>1, <3>1, <4>1
      <4> QED BY <1>7, <2>2, <3>2, <3>4, <4>2
    <3> QED BY <1>6, <3>3, <3>4
  <2> QED BY <2>2, <2>3, <2>4
<1> QED BY <1>0, <1>7, <1>10, <1>13, <1>14, <1>15 DEF WInv

\* A walk begins with all of the list ahead.
LEMMA BeginLemma ==
    ASSUME NEW cells \in Seq(Cell), \A p, q \in DOMAIN cells : cells[p] = cells[q] => p = q
    PROVE  /\ FirstOf(cells) = End \/ FirstOf(cells) \in ToSet(cells)
           /\ ToSet(cells) \subseteq From(cells, FirstOf(cells))
           /\ \A p \in DOMAIN cells : cells[p] \in ToSet(cells)
<1>1. \A p \in DOMAIN cells : cells[p] \in ToSet(cells)
  BY DEF ToSet
<1>2. CASE cells = << >>
  BY <1>1, <1>2 DEF FirstOf, ToSet
<1>3. CASE cells # << >>
  <2>1. DOMAIN cells = 1 .. Len(cells) /\ Len(cells) \in Nat /\ Len(cells) # 0
    BY <1>3, LenProperties, EmptySeq
  <2>2. 1 \in DOMAIN cells /\ FirstOf(cells) = cells[1]
    BY <1>3, <2>1 DEF FirstOf
  <2>3. \A x : x \in From(cells, FirstOf(cells)) <=> \E q \in DOMAIN cells : 1 <= q /\ cells[q] = x
    BY <2>2, FromLemma
  <2>4. \A q \in DOMAIN cells : 1 <= q
    BY <2>1
  <2> QED BY <1>1, <2>2, <2>3, <2>4 DEF ToSet
<1> QED BY <1>1, <1>2, <1>3

LEMMA CallWInv ==
    ASSUME WInv, IInv', NEW i \in Id, Call(i)
    PROVE  WInv'
<1>1. /\ nodes \in Seq(Entry) /\ Len(nodes) \in Nat /\ Len(nodes) <= K
      /\ DOMAIN nodes = 1 .. Len(nodes)
  BY LenProperties DEF WInv, IInv, TypeOK
<1>2. /\ walk' = "searching" /\ nodes' = nodes /\ target' = i /\ changes' = changes
      /\ cell' = [p \in DOMAIN nodes |-> p] /\ at' = FirstOf(cell') /\ visited' = << >>
      /\ kept' = ToSet(cell') /\ steady' = (i \in Ids(nodes))
  BY DEF Call, Begin, vars
<1>3. /\ cell' \in Seq(Cell) /\ Len(cell') = Len(nodes) /\ DOMAIN cell' = DOMAIN nodes
      /\ \A p, q \in DOMAIN cell' : cell'[p] = cell'[q] => p = q
  <2>1. \A p \in 1 .. Len(nodes) : p \in Cell
    BY <1>1, CapacityAssumption DEF Cell
  <2>2. [p \in 1 .. Len(nodes) |-> p] \in Seq(Cell) /\ Len([p \in 1 .. Len(nodes) |-> p]) = Len(nodes)
    BY <1>1, <2>1, IsASeq
  <2> QED BY <1>1, <1>2, <2>2
<1>4. WalkType'
  BY <1>2, <1>3, EmptySeq DEF WalkType
<1>5. TargetAhead'
  <2>1. SUFFICES ASSUME i \in Ids(nodes)
                 PROVE  at' \in ToSet(cell') /\ \E p \in DOMAIN cell' :
                            nodes[p].id = i /\ cell'[p] \in Ahead'
    BY <1>2 DEF TargetAhead
  <2>2. PICK p \in DOMAIN nodes : nodes[p].id = i
    BY <2>1 DEF Ids
  <2>3. /\ ToSet(cell') \subseteq Ahead'
        /\ \A q \in DOMAIN cell' : cell'[q] \in ToSet(cell')
    BY <1>2, <1>3, BeginLemma DEF Ahead
  <2>4. at' \in ToSet(cell')
    <3>1. at' = End \/ at' \in ToSet(cell')
      BY <1>2, <1>3, BeginLemma
    <3>2. at' # End
      <4>1. From(cell', at') # {}
        BY <1>3, <2>2, <2>3 DEF Ahead
      <4> QED BY <1>3, <4>1, EndIsNoCell, FromLemma
    <3> QED BY <3>1, <3>2
  <2> QED BY <1>3, <2>2, <2>3, <2>4
<1>6. RestAhead' /\ FoundWasTargets'
  BY <1>2 DEF RestAhead, FoundWasTargets
<1> QED BY <1>2, <1>4, <1>5, <1>6 DEF WInv

LEMMA FindWInv == WInv /\ IInv' /\ Find => WInv'
<1> SUFFICES ASSUME WInv, IInv', Find
             PROVE  WInv'
  OBVIOUS
<1>1. /\ walk' = "found" /\ nodes' = nodes /\ target' = target /\ changes' = changes
      /\ cell' = cell /\ at' = at /\ visited' = visited /\ kept' = kept
      /\ homes' = {nodes[Position(at)].endpoint}
      /\ nodes[Position(at)].id = target /\ ~Freed(at)
  BY DEF Find, vars
<1>2. WalkType
  BY DEF Find, WInv
<1>3. WalkType'
  BY <1>1, <1>2 DEF WalkType
<1>4. \A a \in DOMAIN cell : cell[a] = at => a = Position(at)
  BY <1>1, <1>2, PositionLemma DEF WalkType
<1>5. FoundWasTargets'
  BY <1>1, <1>4 DEF FoundWasTargets
<1>6. TargetAhead' /\ RestAhead'
  BY <1>1 DEF TargetAhead, RestAhead
<1> QED BY <1>1, <1>3, <1>5, <1>6 DEF WInv

LEMMA StepWInv == WInv /\ IInv' /\ Step => WInv'
<1> SUFFICES ASSUME WInv, IInv', Step
             PROVE  WInv'
  OBVIOUS
<1> DEFINE a == Position(at)
<1>1. /\ walk' = walk /\ walk \in {"searching", "collecting"} /\ nodes' = nodes
      /\ target' = target /\ changes' = changes /\ cell' = cell /\ kept' = kept
      /\ slipped' = slipped /\ moved' = moved /\ steady' = steady
      /\ visited' = IF walk = "collecting" THEN Append(visited, at) ELSE visited
      /\ walk = "searching" => nodes[a].id # target
      /\ ~Freed(at) /\ at # End
      /\ at' = Link(at)
  BY DEF Step, Walking, Takes, vars
<1>2. WalkType /\ TargetAhead /\ RestAhead /\ changes \in Nat /\ IInv
  BY <1>1 DEF WInv
<1>3. a \in DOMAIN cell /\ cell[a] = at /\ at \in ToSet(cell)
  BY <1>1, <1>2, PositionLemma
<1>4. at' = IF a = Len(cell) THEN End ELSE cell[a + 1]
  BY <1>1 DEF Link
<1> HIDE DEF a
<1>5. /\ cell \in Seq(Cell) /\ DOMAIN cell = 1 .. Len(cell) /\ Len(cell) \in Nat
      /\ \A p, q \in DOMAIN cell : cell[p] = cell[q] => p = q
      /\ visited \in Seq(Cell) /\ at \in Cell
      /\ \A p, q \in DOMAIN nodes : nodes[p].id = nodes[q].id => p = q
      /\ \A q \in DOMAIN cell : cell[q] \in ToSet(cell)
  <2>1. at \in Cell
    BY <1>2, <1>3, CellFacts
  <2> QED BY <1>2, <2>1, LenProperties DEF WalkType, IInv, DistinctIds, ToSet
<1>6. \A x : x \in Ahead <=> \E q \in DOMAIN cell : a <= q /\ cell[q] = x
  BY <1>3, <1>5, FromLemma DEF Ahead
<1>7. /\ at' = End \/ at' \in ToSet(cell)
      /\ \A x : x \in Ahead' <=> \E q \in DOMAIN cell : a < q /\ cell[q] = x
  <2>1. CASE a = Len(cell)
    <3>1. at' = End
      BY <1>4, <2>1
    <3>2. From(cell, End) = {}
      BY <1>5, EndIsNoCell, FromLemma
    <3>3. Ahead' = {}
      BY <1>1, <3>1, <3>2 DEF Ahead
    <3>4. ~\E q \in DOMAIN cell : a < q
      BY <1>5, <2>1
    <3> QED BY <3>1, <3>3, <3>4
  <2>2. CASE a # Len(cell)
    <3>1. a + 1 \in DOMAIN cell
      BY <1>3, <1>5, <2>2
    <3>2. at' = cell[a + 1]
      BY <1>4, <2>2
    <3>3. \A x : x \in From(cell, at') <=> \E q \in DOMAIN cell : a + 1 <= q /\ cell[q] = x
      BY <1>5, <3>1, <3>2, FromLemma
    <3>4. \A q \in DOMAIN cell : a + 1 <= q <=> a < q
      BY <1>3, <1>5
    <3>5. Ahead' = From(cell, at')
      BY <1>1 DEF Ahead
    <3> HIDE DEF Ahead
    <3> QED BY <1>5, <3>1, <3>2, <3>3, <3>4, <3>5
  <2> QED BY <2>1, <2>2
<1>8. Ahead = Ahead' \union {at} /\ at \notin Ahead'
  <2>1. \A q \in DOMAIN cell : a <= q <=> a = q \/ a < q
    BY <1>3, <1>5
  <2>2. ~\E q \in DOMAIN cell : a < q /\ cell[q] = at
    BY <1>3, <1>5
  <2> QED BY <1>3, <1>6, <1>7, <2>1, <2>2
<1>9. WalkType'
  <2>1. Append(visited, at) \in Seq(Cell)
    BY <1>5, AppendProperties
  <2> QED BY <1>1, <1>2, <2>1 DEF WalkType
<1>10. TargetAhead'
  <2>1. SUFFICES ASSUME walk = "searching", steady, ~slipped
                 PROVE  at' \in ToSet(cell) /\ \E p \in DOMAIN cell :
                            nodes[p].id = target /\ cell[p] \in Ahead'
    BY <1>1 DEF TargetAhead
  <2>2. PICK p \in DOMAIN cell : nodes[p].id = target /\ cell[p] \in Ahead
    BY <1>2, <2>1 DEF TargetAhead
  <2>3. p # a
    BY <1>1, <2>1, <2>2
  <2>4. cell[p] \in Ahead'
    BY <1>3, <1>5, <1>8, <2>2, <2>3
  <2>5. at' # End
    <3>1. Ahead' = From(cell, at')
      BY <1>1 DEF Ahead
    <3>2. From(cell, End) = {}
      BY <1>5, EndIsNoCell, FromLemma
    <3> QED BY <2>4, <3>1, <3>2
  <2> QED BY <1>7, <2>2, <2>4, <2>5
<1>11. RestAhead'
  <2>1. SUFFICES ASSUME walk = "collecting", ~slipped
                 PROVE  /\ at' = End \/ at' \in ToSet(cell)
                        /\ kept \subseteq ToSet(visited') \union Ahead'
                        /\ \A c \in Ahead' : c \in ToSet(visited') /\ c \in kept => c \in moved
                        /\ \A p, q \in DOMAIN visited' : p # q /\ visited'[p] = visited'[q] =>
                              visited'[p] \in moved \/ visited'[p] \notin kept
    BY <1>1 DEF RestAhead
  <2>2. /\ kept \subseteq ToSet(visited) \union Ahead
        /\ \A c \in Ahead : c \in ToSet(visited) /\ c \in kept => c \in moved
        /\ \A p, q \in DOMAIN visited :
              p # q /\ visited[p] = visited[q] => visited[p] \in moved \/ visited[p] \notin kept
    BY <1>2, <2>1 DEF RestAhead
  <2> DEFINE v == Len(visited)
  <2>3. /\ v \in Nat /\ DOMAIN visited = 1 .. v /\ DOMAIN visited' = 1 .. v + 1
        /\ visited'[v + 1] = at /\ \A p \in 1 .. v : visited'[p] = visited[p]
    <3>1. v \in Nat /\ DOMAIN visited = 1 .. v
      BY <1>5, LenProperties
    <3>2. visited' = Append(visited, at)
      BY <1>1, <2>1
    <3>3. /\ visited' \in Seq(Cell) /\ Len(visited') = v + 1 /\ visited'[v + 1] = at
          /\ \A p \in 1 .. v : visited'[p] = visited[p]
      BY <1>5, <3>2, AppendProperties
    <3> QED BY <3>1, <3>3, LenProperties
  <2> HIDE DEF v
  <2>4. \A c : c \in ToSet(visited) <=> \E p \in 1 .. v : visited[p] = c
    BY <2>3 DEF ToSet
  <2>5. \A c : c \in ToSet(visited') <=> c \in ToSet(visited) \/ c = at
    <3>1. \A c : c \in ToSet(visited') <=> \E p \in 1 .. v + 1 : visited'[p] = c
      BY <2>3 DEF ToSet
    <3>2. \A p : p \in 1 .. v + 1 <=> p \in 1 .. v \/ p = v + 1
      BY <2>3
    <3> QED BY <2>3, <2>4, <3>1, <3>2
  <2>6. kept \subseteq ToSet(visited') \union Ahead'
    BY <1>8, <2>2, <2>5
  <2>7. \A c \in Ahead' : c \in ToSet(visited') /\ c \in kept => c \in moved
    BY <1>8, <2>2, <2>5
  <2>8. ASSUME NEW p \in DOMAIN visited', NEW q \in DOMAIN visited', p # q,
               visited'[p] = visited'[q]
        PROVE  visited'[p] \in moved \/ visited'[p] \notin kept
    <3>1. \A r \in DOMAIN visited' : r \in 1 .. v \/ r = v + 1
      BY <2>3
    <3>2. at \in ToSet(visited) => at \in moved \/ at \notin kept
      BY <1>8, <2>2
    <3>3. CASE p \in 1 .. v /\ q \in 1 .. v
      BY <2>2, <2>3, <2>8, <3>3
    <3>4. CASE p = v + 1 /\ q \in 1 .. v
      BY <2>3, <2>4, <2>8, <3>2, <3>4
    <3>5. CASE p \in 1 .. v /\ q = v + 1
      BY <2>3, <2>4, <2>8, <3>2, <3>5
    <3> QED BY <2>8, <3>1, <3>3, <3>4, <3>5
  <2> QED BY <1>7, <2>6, <2>7, <2>8
<1>12. FoundWasTargets'
  BY <1>1 DEF FoundWasTargets
<1> QED BY <1>1, <1>2, <1>9, <1>10, <1>11, <1>12 DEF WInv

LEMMA NotFoundWInv == WInv /\ IInv' /\ NotFound => WInv'
<1> SUFFICES ASSUME WInv, IInv', NotFound
             PROVE  WInv'
  OBVIOUS
<1>1. /\ walk' = "collecting" /\ nodes' = nodes /\ cell' = cell /\ changes' = changes
      /\ at' = FirstOf(cell) /\ visited' = << >> /\ moved' = {} /\ kept' = ToSet(cell)
  BY DEF NotFound, Begin, vars
<1>2. WalkType /\ changes \in Nat
  BY DEF NotFound, WInv
<1>3. WalkType'
  BY <1>1, <1>2, EmptySeq DEF WalkType
<1>4. RestAhead'
  <2>1. DOMAIN visited' = {} /\ ToSet(visited') = {}
    BY <1>1 DEF ToSet
  <2>2. (at' = End \/ at' \in ToSet(cell)) /\ ToSet(cell) \subseteq Ahead'
    BY <1>1, <1>2, BeginLemma DEF WalkType, Ahead
  <2> QED BY <1>1, <2>1, <2>2 DEF RestAhead
<1>5. TargetAhead' /\ FoundWasTargets'
  BY <1>1 DEF TargetAhead, FoundWasTargets
<1> QED BY <1>1, <1>2, <1>3, <1>4, <1>5 DEF WInv

LEMMA WalkInductive == WalkSpec => []WInv
<1>1. WalkInit /\ IInv => WInv
  BY DEF WalkInit, WInv
<1>2. ASSUME WInv, IInv', [WalkNext]_allVars
      PROVE  WInv'
  <2>1. ASSUME NEW i \in Id, Call(i)
        PROVE  WInv'
    BY <1>2, <2>1, CallWInv
  <2>2. CASE Find
    BY <1>2, <2>2, FindWInv
  <2>3. CASE Step
    BY <1>2, <2>3, StepWInv
  <2>4. CASE NotFound
    BY <1>2, <2>4, NotFoundWInv
  <2>5. CASE Collected
    <3>1. /\ walk' = "asking" /\ walk = "collecting" /\ nodes' = nodes /\ cell' = cell
          /\ visited' = visited /\ kept' = kept /\ changes' = changes
      BY <2>5 DEF Collected, vars
    <3>2. WalkType' /\ changes' \in Nat
      BY <1>2, <3>1 DEF WInv, WalkType
    <3>3. TargetAhead' /\ RestAhead' /\ FoundWasTargets'
      BY <3>1 DEF TargetAhead, RestAhead, FoundWasTargets
    <3> QED BY <1>2, <3>2, <3>3 DEF WInv
  <2>6. CASE Ask \/ Answer \/ Dangle
    <3>1. walk' = "idle" /\ changes' = 0
      BY <2>6 DEF Ask, Answer, Dangle, Forget
    <3> QED BY <1>2, <3>1 DEF WInv
  <2>7. ASSUME NEW i \in Id, NEW ep \in Endpoint, Changing(i, ep)
        PROVE  WInv'
    <3>1. CASE walk = "idle"
      BY <1>2, <2>7, <3>1 DEF Changing, walkVars, WInv
    <3>2. CASE walk # "idle"
      <4>1. /\ Update(i, ep) /\ cell' \in CellsUpdated(i, ep)
            /\ Note(Spliced(i, ep), FreedBy(i, ep))
        BY <2>7, <3>2 DEF Changing
      <4>2. IInv /\ WalkType
        BY <1>2, <3>2 DEF WInv
      <4>3. PICK new, g : Rearranged(Spliced(i, ep), FreedBy(i, ep), new, g)
        BY <1>2, <4>1, <4>2, UpdateRearranges
      <4> QED BY <1>2, <3>2, <4>1, <4>3, RearrangedWInv
    <3> QED BY <3>1, <3>2
  <2>8. CASE Sweeping
    <3>1. CASE walk = "idle"
      BY <1>2, <2>8, <3>1 DEF Sweeping, walkVars, WInv
    <3>2. CASE walk # "idle"
      <4>1. PingNodes /\ cell' \in CellsLeft /\ Note({}, ToSet(cell) \ ToSet(cell'))
        BY <2>8, <3>2 DEF Sweeping
      <4>2. IInv /\ WalkType
        BY <1>2, <3>2 DEF WInv
      <4>3. PICK new, g : Rearranged({}, ToSet(cell) \ ToSet(cell'), new, g)
        BY <1>2, <4>1, <4>2, SweepRearranges
      <4> QED BY <1>2, <3>2, <4>1, <4>3, RearrangedWInv
    <3> QED BY <3>1, <3>2
  <2>9. CASE Passing
    BY <1>2, <2>9 DEF Passing, walkVars, WInv
  <2>10. CASE UNCHANGED allVars
    BY <1>2, <2>10 DEF allVars, vars, walkVars, WInv, WalkType, TargetAhead, RestAhead,
                       FoundWasTargets, Ahead
  <2> QED BY <1>2, <2>1, <2>2, <2>3, <2>4, <2>5, <2>6, <2>7, <2>8, <2>9, <2>10 DEF WalkNext
<1>3. WalkSpec => []IInv
  BY WalkUsesTable, Inductive, PTL
<1> QED BY <1>1, <1>2, <1>3, PTL DEF WalkSpec

\* find_node() finds an id that is listed all the while, and find_closest_nodes() collects
\* all that stays, however the list is changed between two of their steps, unless the entry
\* the iterator points to is spliced or freed.
THEOREM WalkFindsWhatStays == WalkSpec => FindsWhatStays
<1>1. ASSUME WInv, [WalkNext]_allVars, walk = "searching", walk' = "collecting"
      PROVE  ~steady \/ slipped
  <2>1. at = End
    BY <1>1 DEF WalkNext, Call, Find, Step, NotFound, Collected, Ask, Answer, Dangle, Forget,
                Changing, Sweeping, Note, Passing, allVars, walkVars
  <2>2. TargetAhead /\ cell \in Seq(Cell)
    BY <1>1 DEF WInv, WalkType
  <2>3. at \notin ToSet(cell)
    BY <2>1, <2>2, EndIsNoCell
  <2> QED BY <1>1, <2>2, <2>3 DEF TargetAhead
<1>2. ASSUME WInv, [WalkNext]_allVars, walk = "collecting", walk' = "asking", ~slipped
      PROVE  /\ kept \subseteq ToSet(visited)
             /\ \A p, q \in DOMAIN visited :
                   p # q /\ visited[p] = visited[q] => visited[p] \in moved \/ visited[p] \notin kept
  <2>1. at = End
    BY <1>2 DEF WalkNext, Call, Find, Step, NotFound, Collected, Ask, Answer, Dangle, Forget,
                Changing, Sweeping, Note, Passing, allVars, walkVars
  <2>2. WalkType /\ RestAhead
    BY <1>2 DEF WInv
  <2>3. Ahead = {}
    BY <2>1, <2>2, EndIsNoCell, FromLemma DEF WalkType, Ahead
  <2> QED BY <1>2, <2>2, <2>3 DEF RestAhead
<1>3. WInv /\ [WalkNext]_allVars =>
        [ /\ walk = "searching" /\ walk' = "collecting" => ~steady \/ slipped
          /\ walk = "collecting" /\ walk' = "asking" /\ ~slipped =>
               /\ kept \subseteq ToSet(visited)
               /\ \A p, q \in DOMAIN visited :
                     p # q /\ visited[p] = visited[q] =>
                         visited[p] \in moved \/ visited[p] \notin kept
        ]_allVars
  BY <1>1, <1>2
<1> QED BY <1>3, WalkInductive, PTL DEF WalkSpec, FindsWhatStays

\* The callback of find_node() is given an endpoint the id had since it was found, unless
\* another id took the entry over and has moved since, or the entry was freed.
THEOREM WalkGivesTargetsEndpoint == WalkSpec => EndpointWasTargets
<1>1. ASSUME WInv, walk = "found", ~Freed(at)
      PROVE  \/ nodes[Position(at)].endpoint \in homes
             \/ nodes[Position(at)].id # target /\ changes >= 2
             \/ at \notin kept
  <2>1. WalkType /\ FoundWasTargets /\ changes \in Nat
    BY <1>1 DEF WInv
  <2>2. Position(at) \in DOMAIN cell /\ cell[Position(at)] = at
    BY <1>1, <2>1, PositionLemma
  <2>3. at \in kept =>
            /\ nodes[Position(at)].id = target => nodes[Position(at)].endpoint \in homes
            /\ changes <= 1 => nodes[Position(at)].endpoint \in homes
    BY <1>1, <2>1, <2>2 DEF FoundWasTargets
  <2> QED BY <2>1, <2>3
<1> QED BY <1>1, WalkInductive, PTL DEF EndpointWasTargets
=============================================================================
