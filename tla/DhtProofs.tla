----------------------------- MODULE DhtProofs ------------------------------
(***************************************************************************)
(* Proofs about Dht, for every number of nodes, endpoints and calls, every *)
(* size of the tables, and all bounds: types; what becomes of the          *)
(* callbacks of find_node() and of bootstrap(); whose endpoints the tables *)
(* hold, for how long, and who comes back to them.                         *)
(***************************************************************************)
EXTENDS Dht, NodeListProofs

USE CapacityAssumption, PeriodAssumption, WrapAssumption

-----------------------------------------------------------------------------
(* The tables. *)

\* Every entry after update() is the sender's, or was there before.
LEMMA UpdatedEntries ==
    ASSUME NEW s \in Seq(Entry), Len(s) <= K, NEW i \in Id, NEW ep \in Endpoint,
           NEW t, t = Updated(s, i, ep)
    PROVE  /\ t \in Seq(Entry) /\ Len(t) <= K
           /\ \A p \in DOMAIN t : t[p] = Fresh(i, ep) \/ \E q \in DOMAIN s : t[p] = s[q]
<1>1. /\ t \in Seq(Entry) /\ Len(t) <= K
      /\ Touched(s, i, ep, t) \/ HeadReplaced(s, i, ep, t) \/ Appended(s, i, ep, t)
  BY UpdatedLemma
<1>2. DOMAIN s = 1 .. Len(s) /\ DOMAIN t = 1 .. Len(t) /\ Len(s) \in Nat
  BY <1>1
<1>3. ASSUME NEW p \in 1 .. Len(t)
      PROVE  t[p] = Fresh(i, ep) \/ \E q \in 1 .. Len(s) : t[p] = s[q]
  <2>1. CASE Touched(s, i, ep, t)
    <3>1. PICK r \in 1 .. Len(s) :
             /\ Len(t) = Len(s)
             /\ \A k \in 1 .. Len(s) - 1 : t[k] = IF k < r THEN s[k] ELSE s[k + 1]
             /\ t[Len(s)] = Fresh(i, ep)
      BY <2>1 DEF Touched
    <3>2. CASE p = Len(s)
      BY <3>1, <3>2
    <3>3. CASE p # Len(s)
      <4>1. p \in 1 .. Len(s) - 1 /\ p \in 1 .. Len(s) /\ p + 1 \in 1 .. Len(s)
        BY <1>2, <3>1, <3>3
      <4> QED BY <3>1, <4>1
    <3> QED BY <3>2, <3>3
  <2>2. CASE HeadReplaced(s, i, ep, t)
    BY <1>2, <2>2 DEF HeadReplaced
  <2>3. CASE Appended(s, i, ep, t)
    BY <1>2, <2>3 DEF Appended
  <2> QED BY <1>1, <2>1, <2>2, <2>3
<1> QED BY <1>1, <1>2, <1>3

\* Every entry after ping_nodes() is one that has not expired, marked.
LEMMA SweptEntries ==
    ASSUME NEW s \in Seq(Entry), Len(s) <= K, NEW t \in Swept(s)
    PROVE  /\ t \in Seq(Entry) /\ Len(t) <= K
           /\ \A p \in DOMAIN t : \E q \in DOMAIN s : t[p] = Marked(s[q]) /\ ~Expired(s[q])
<1>1. /\ t \in Seq(Entry) /\ Len(t) <= Len(s)
      /\ \E f \in [1 .. Len(t) -> Kept(s)] : \A p \in 1 .. Len(t) : t[p] = Marked(s[f[p]])
  BY SweptLemma
<1>2. DOMAIN t = 1 .. Len(t) /\ Len(s) \in Nat /\ Len(t) \in Nat
  BY <1>1
<1> QED BY <1>1, <1>2 DEF Kept

-----------------------------------------------------------------------------
(* Types, in parts that actions change or leave alone as one.               *)

NodesType ==
    /\ state \in [Id -> {"Off", "Started", "Bootstrapped"}]
    /\ addr \in [Id -> Endpoint]
    /\ timers \in [Id -> 0 .. MaxBootstraps]
    /\ booting \subseteq Id \X Bootstrap
    /\ asked \subseteq Id
    /\ booted \in [Id -> Nat]
    /\ exposed \subseteq Id

TablesType ==
    /\ table \in [Id -> Seq(Entry)]
    /\ \A n \in Id : Len(table[n]) <= K
    /\ met \in [Id -> SUBSET Id]

FoundType == found \in [Id -> [Id -> Call \union {Absent, Null}]]

CallsType ==
    /\ status \in [Call -> {"new", "missed", "stored", "dropped", "done", "lost"}]
    /\ result \in [Call -> Endpoint \union {None}]
    /\ fired \in [Call -> Nat]

NetType == net \subseteq Datagram /\ mishaps \in 0 .. MaxMishaps

HistoryType ==
    /\ stops \in 0 .. MaxStops /\ now \in 0 .. MaxTime
    /\ used \subseteq Id \X Endpoint
    /\ sinceTask \in [Id -> 0 .. TaskGap]
    /\ began \in [Id -> 0 .. MaxTime]
    /\ up \in [Id -> 0 .. MaxTime]

LEMMA TypeParts ==
    TypeOK <=> /\ NodesType /\ TablesType /\ FoundType /\ CallsType /\ NetType /\ HistoryType
BY DEF TypeOK, NodesType, TablesType, FoundType, CallsType, NetType, HistoryType

LEMMA TypePartsNext ==
    TypeOK' <=> /\ NodesType' /\ TablesType' /\ FoundType' /\ CallsType' /\ NetType' /\ HistoryType'
BY DEF TypeOK, NodesType, TablesType, FoundType, CallsType, NetType, HistoryType

LEMMA TypeUnchanged ==
    ASSUME TypeOK
    PROVE  /\ UNCHANGED nodeVars => NodesType'
           /\ UNCHANGED <<table, met>> => TablesType'
           /\ UNCHANGED found => FoundType'
           /\ UNCHANGED callVars => CallsType'
           /\ UNCHANGED netVars => NetType'
           /\ UNCHANGED envVars => HistoryType'
BY DEF TypeOK, NodesType, TablesType, FoundType, CallsType, NetType, HistoryType, nodeVars,
       callVars, netVars, envVars, clockVars

\* The fields of an entry of a list.
LEMMA EntryFields ==
    ASSUME NEW s \in Seq(Entry), NEW p \in DOMAIN s
    PROVE  s[p] \in Entry /\ s[p].id \in Id /\ s[p].endpoint \in Endpoint /\ s[p].idle \in Int
<1>1. s[p] \in Entry
  OBVIOUS
<1> QED BY <1>1 DEF Entry

\* A slot of _found_nodes_callbacks is given another value.
LEMMA SlotSet ==
    ASSUME FoundType, NEW n \in Id, NEW i \in Id, NEW v,
           found' = [found EXCEPT ![n][i] = v]
    PROVE  /\ \A o, j \in Id : found'[o][j] = IF o = n /\ j = i THEN v ELSE found[o][j]
           /\ v \in Call \union {Absent, Null} => FoundType'
<1> DEFINE row == [found[n] EXCEPT ![i] = v]
<1>1. found' = [found EXCEPT ![n] = row]
  OBVIOUS
<1>2. found[n] \in [Id -> Call \union {Absent, Null}]
  BY DEF FoundType
<1>3. \A j \in Id : row[j] = IF j = i THEN v ELSE found[n][j]
  BY <1>2
<1>4. v \in Call \union {Absent, Null} => row \in [Id -> Call \union {Absent, Null}]
  BY <1>2
<1> HIDE DEF row
<1> QED BY <1>1, <1>3, <1>4 DEF FoundType

LEMMA ClosestType ==
    ASSUME TypeOK, NEW n \in Id, NEW id \in Id, NEW max, NEW eps \in ClosestEndpoints(n, id, max)
    PROVE  eps \subseteq Endpoint
<1>1. PICK c \in Closest(table[n], max, Distance[id]) : eps = {table[n][c[p]].endpoint : p \in DOMAIN c}
  BY DEF ClosestEndpoints
<1>2. table[n] \in Seq(Entry)
  BY DEF TypeOK
<1>3. \A p \in DOMAIN c : c[p] \in DOMAIN table[n]
  BY <1>1 DEF Closest
<1> QED BY <1>1, <1>2, <1>3, EntryFields

LEMMA PacketTypes ==
    ASSUME TypeOK, NEW n \in Id, NEW to \in Endpoint
    PROVE  /\ Ping(n, to) \in Datagram /\ Pong(n, to) \in Datagram
           /\ \A id \in Id : GetNodes(n, to, id) \in Datagram
           /\ \A eps \in SUBSET Endpoint : SendNodes(n, to, eps) \in Datagram
<1>1. addr[n] \in Endpoint
  BY DEF TypeOK
<1> QED BY <1>1 DEF Ping, Pong, GetNodes, SendNodes, Datagram

LEMMA DatagramFields ==
    ASSUME TypeOK, NEW m \in net
    PROVE  /\ m.type \in PacketType /\ m.sender \in Id /\ m.src \in Endpoint /\ m.dst \in Endpoint
           /\ m.type = "get_nodes" => m.requested \in Id
           /\ m.type = "send_nodes" => m.nodes \in SUBSET Endpoint
BY DEF TypeOK, Datagram, PacketType

\* What handle() does whatever the packet's type.
LEMMA HandledType ==
    ASSUME TypeOK, NEW n \in Id, NEW m, NEW replies \in SUBSET Datagram, Handled(n, m, replies)
    PROVE  TablesType' /\ NetType'
<1>1. m \in net /\ m.sender \in Id /\ m.src \in Endpoint
  BY DatagramFields DEF Handled
<1>2. TablesType /\ NetType
  BY TypeParts
<1>3. EvictionPing(n, m) \subseteq Datagram
  <2>1. CASE Evicts(table[n], m.sender, m.src)
    <3>1. Len(table[n]) >= K /\ table[n] \in Seq(Entry)
      BY <1>2, <2>1 DEF Evicts, TablesType
    <3>2. Head(table[n]) \in Entry
      BY <3>1
    <3> QED BY <3>2, PacketTypes DEF EvictionPing, Entry
  <2> QED BY <2>1 DEF EvictionPing
<1>4. NetType'
  <2>1. /\ net' \subseteq net \union (replies \union EvictionPing(n, m))
        /\ mishaps' = mishaps \/ (mishaps < MaxMishaps /\ mishaps' = mishaps + 1)
    BY DEF Handled, Received
  <2>2. net' \subseteq Datagram
    BY <1>2, <1>3, <2>1 DEF NetType
  <2>3. mishaps' \in 0 .. MaxMishaps
    BY <1>2, <2>1, DhtAssumption DEF NetType
  <2> QED BY <2>2, <2>3 DEF NetType
<1>5. CASE m.sender = n
  BY <1>2, <1>4, <1>5 DEF Handled, UpdateTable, TablesType
<1>6. CASE m.sender # n
  <2>1. /\ table' = [table EXCEPT ![n] = Updated(table[n], m.sender, m.src)]
        /\ met' = [met EXCEPT ![n] = met[n] \union {m.sender}]
    BY <1>6 DEF Handled, UpdateTable
  <2>2. table[n] \in Seq(Entry) /\ Len(table[n]) <= K
    BY <1>2 DEF TablesType
  <2>3. Updated(table[n], m.sender, m.src) \in Seq(Entry) /\ Len(Updated(table[n], m.sender, m.src)) <= K
    BY <1>1, <2>2, UpdatedEntries
  <2>4. TablesType'
    BY <1>1, <1>2, <2>1, <2>3 DEF TablesType
  <2> QED BY <1>4, <2>4
<1> QED BY <1>5, <1>6

LEMMA TInit == Init => TypeOK
<1> SUFFICES ASSUME Init PROVE TypeOK
  OBVIOUS
<1>1. << >> \in Seq(Entry) /\ Len(<< >>) <= K
  OBVIOUS
<1> QED BY <1>1, DhtAssumption DEF Init, TypeOK

\* Calls from other threads.
LEMMA TBootstrap ==
    ASSUME TypeOK, NEW n \in Id, NEW b \in Bootstrap, CheckStarted(n, b) \/ CallBootstrap(n, b)
    PROVE  TypeOK'
<1>1. CASE CheckStarted(n, b)
  <2>1. NodesType'
    BY <1>1, DhtAssumption, TypeParts DEF CheckStarted, NodesType
  <2>2. HistoryType'
    BY <1>1, TypeParts DEF CheckStarted, HistoryType
  <2>3. UNCHANGED <<table, met>> /\ UNCHANGED found /\ UNCHANGED callVars /\ UNCHANGED netVars
    BY <1>1 DEF CheckStarted
  <2> QED BY <2>1, <2>2, <2>3, TypeUnchanged, TypePartsNext
<1>2. CASE CallBootstrap(n, b)
  <2>1. GetNodes(n, home[b], n) \in Datagram
    BY PacketTypes, DhtAssumption
  <2>2. NodesType'
    BY <1>2, TypeParts DEF CallBootstrap, NodesType
  <2>3. NetType'
    BY <1>2, <2>1, TypeParts DEF CallBootstrap, NetType
  <2>4. UNCHANGED <<table, met>> /\ UNCHANGED found /\ UNCHANGED callVars /\ UNCHANGED envVars
    BY <1>2 DEF CallBootstrap
  <2> QED BY <2>2, <2>3, <2>4, TypeUnchanged, TypePartsNext
<1> QED BY <1>1, <1>2

LEMMA TFindNode ==
    ASSUME TypeOK, NEW c \in Call, LookupHit(c) \/ LookupMiss(c) \/ Register(c)
    PROVE  TypeOK'
<1> DEFINE n == caller[c]
<1>0. n \in Id /\ target[c] \in Id /\ table[n] \in Seq(Entry)
  BY DhtAssumption DEF TypeOK
<1>1. CASE LookupHit(c)
  <2> DEFINE p == FindId(table[n], target[c])
             ep == table[n][p].endpoint
  <2>1. p \in DOMAIN table[n]
    BY <1>0, <1>1, FindIdLemma DEF LookupHit
  <2> HIDE DEF p, n
  <2>2. ep \in Endpoint
    BY <1>0, <2>1, EntryFields
  <2>3. /\ status' = [status EXCEPT ![c] = "done"]
        /\ result' = [result EXCEPT ![c] = ep]
        /\ fired' = [fired EXCEPT ![c] = fired[c] + 1]
        /\ UNCHANGED nodeVars /\ UNCHANGED <<table, met>> /\ UNCHANGED found
        /\ UNCHANGED netVars /\ UNCHANGED envVars
    BY <1>1 DEF LookupHit, p, n
  <2> HIDE DEF ep
  <2>4. CallsType'
    BY <2>2, <2>3, TypeParts DEF CallsType
  <2> QED BY <2>3, <2>4, TypeUnchanged, TypePartsNext
<1>2. CASE LookupMiss(c)
  <2>1. CallsType'
    BY <1>2, TypeParts DEF LookupMiss, CallsType
  <2>2. /\ UNCHANGED nodeVars /\ UNCHANGED <<table, met>> /\ UNCHANGED found
        /\ UNCHANGED netVars /\ UNCHANGED envVars
    BY <1>2 DEF LookupMiss
  <2> QED BY <2>1, <2>2, TypeUnchanged, TypePartsNext
<1>3. CASE Register(c)
  <2>1. PICK eps \in ClosestEndpoints(n, target[c], Alpha) :
           /\ net' = net \union {GetNodes(n, ep, target[c]) : ep \in eps}
           /\ exposed' \in {exposed, exposed \union {n}}
    BY <1>3 DEF Register
  <2> HIDE DEF n
  <2>2. eps \subseteq Endpoint
    BY <1>0, ClosestType
  <2>3. \A ep \in eps : GetNodes(n, ep, target[c]) \in Datagram
    BY <1>0, <2>2, PacketTypes
  <2>4. NetType'
    BY <1>3, <2>1, <2>3, TypeParts DEF NetType, Register
  <2>5. NodesType'
    BY <1>0, <1>3, <2>1, TypeParts DEF NodesType, Register
  <2>6. FoundType'
    <3>1. CASE UNCHANGED found
      BY <3>1, TypeParts DEF FoundType
    <3>2. CASE found' = [found EXCEPT ![n][target[c]] = c]
      BY <1>0, <3>2, TypeParts, SlotSet
    <3> QED BY <1>3, <3>1, <3>2 DEF Register, n
  <2>7. CallsType'
    BY <1>3, TypeParts DEF CallsType, Register
  <2>8. UNCHANGED <<table, met>> /\ UNCHANGED envVars
    BY <1>3 DEF Register
  <2> QED BY <2>4, <2>5, <2>6, <2>7, <2>8, TypeUnchanged, TypePartsNext
<1> QED BY <1>1, <1>2, <1>3

\* The handlers.
LEMMA TReceive ==
    ASSUME TypeOK, NEW n \in Id, NEW m \in net, Receive(n, m)
    PROVE  TypeOK'
<1>0. /\ m.type \in PacketType /\ m.sender \in Id /\ m.src \in Endpoint /\ m.dst \in Endpoint
      /\ m.type = "get_nodes" => m.requested \in Id
      /\ m.type = "send_nodes" => m.nodes \in SUBSET Endpoint
  BY DatagramFields
<1>1. CASE HandlePing(n, m)
  <2>1. {Pong(n, m.src)} \in SUBSET Datagram
    BY <1>0, PacketTypes
  <2>2. TablesType' /\ NetType'
    BY <1>1, <2>1, HandledType DEF HandlePing
  <2>3. UNCHANGED nodeVars /\ UNCHANGED found /\ UNCHANGED callVars /\ UNCHANGED envVars
    BY <1>1 DEF HandlePing
  <2> QED BY <2>2, <2>3, TypeUnchanged, TypePartsNext
<1>2. CASE HandlePong(n, m)
  <2>1. TablesType' /\ NetType'
    BY <1>2, HandledType DEF HandlePong
  <2>2. UNCHANGED nodeVars /\ UNCHANGED envVars
    BY <1>2 DEF HandlePong
  <2>3. CASE found[n][m.sender] \in Call
    <3> DEFINE c == found[n][m.sender]
    <3>1. /\ found' = [found EXCEPT ![n][m.sender] = Absent]
          /\ status' = [status EXCEPT ![c] = "done"]
          /\ result' = [result EXCEPT ![c] = m.src]
          /\ fired' = [fired EXCEPT ![c] = fired[c] + 1]
      BY <1>2, <2>3 DEF HandlePong
    <3>2. FoundType'
      BY <1>0, <3>1, TypeParts, SlotSet
    <3>3. c \in Call
      BY <2>3
    <3> HIDE DEF c
    <3>4. CallsType'
      BY <1>0, <3>1, <3>3, TypeParts DEF CallsType
    <3> QED BY <2>1, <2>2, <3>2, <3>4, TypeUnchanged, TypePartsNext
  <2>4. CASE found[n][m.sender] \notin Call
    <3>1. found' = [found EXCEPT ![n][m.sender] = Null] /\ UNCHANGED callVars
      BY <1>2, <2>4 DEF HandlePong, callVars
    <3>2. FoundType'
      BY <1>0, <3>1, TypeParts, SlotSet
    <3> QED BY <2>1, <2>2, <3>1, <3>2, TypeUnchanged, TypePartsNext
  <2> QED BY <2>3, <2>4
<1>3. CASE HandleGetNodes(n, m)
  <2>1. PICK eps \in ClosestEndpoints(n, m.requested, MaxNodesInResponse) :
           Handled(n, m, {SendNodes(n, m.src, eps)})
    BY <1>3 DEF HandleGetNodes
  <2>2. eps \subseteq Endpoint
    BY <1>0, <1>3, ClosestType DEF HandleGetNodes
  <2>3. {SendNodes(n, m.src, eps)} \in SUBSET Datagram
    BY <1>0, <2>2, PacketTypes
  <2>4. TablesType' /\ NetType'
    BY <2>1, <2>3, HandledType
  <2>5. UNCHANGED nodeVars /\ UNCHANGED found /\ UNCHANGED callVars /\ UNCHANGED envVars
    BY <1>3 DEF HandleGetNodes
  <2> QED BY <2>4, <2>5, TypeUnchanged, TypePartsNext
<1>4. CASE HandleSendNodes(n, m)
  <2>1. {Ping(n, ep) : ep \in ToPing(n, m)} \in SUBSET Datagram
    <3>1. ToPing(n, m) \subseteq Endpoint
      BY <1>0, <1>4 DEF HandleSendNodes, ToPing
    <3> QED BY <3>1, PacketTypes
  <2>2. TablesType' /\ NetType'
    BY <1>4, <2>1, HandledType DEF HandleSendNodes
  <2>3. NodesType'
    BY <1>4, TypeParts DEF HandleSendNodes, NodesType
  <2>4. UNCHANGED found /\ UNCHANGED callVars /\ UNCHANGED envVars
    BY <1>4 DEF HandleSendNodes
  <2> QED BY <2>2, <2>3, <2>4, TypeUnchanged, TypePartsNext
<1> QED BY <1>1, <1>2, <1>3, <1>4 DEF Receive

\* periodic_task(): what it leaves of the table, and what it sends.
LEMMA PeriodicTaskSteps ==
    ASSUME TypeOK, NEW n \in Id, NEW p \in 0 .. K, PeriodicTask(n, p)
    PROVE  /\ timers[n] > 0 /\ state[n] # "Off"
           /\ p # 0 => p \in DOMAIN table[n] /\ table[n][p].endpoint \in Endpoint
           /\ exposed' = IF n \notin asked /\ p # 0 THEN exposed \union {n} ELSE exposed
           /\ sinceTask' = [sinceTask EXCEPT ![n] = 0]
           /\ \E swept \in Swept(table[n]) :
                /\ swept \in Seq(Entry) /\ Len(swept) <= K
                /\ \A q \in DOMAIN swept : \E r \in DOMAIN table[n] :
                     swept[q] = Marked(table[n][r]) /\ ~Expired(table[n][r])
                /\ table' = [table EXCEPT ![n] = swept]
                /\ net' \subseteq net
                      \union (IF p = 0 THEN {} ELSE {GetNodes(n, table[n][p].endpoint, n)})
                      \union {Ping(n, swept[q].endpoint) : q \in DOMAIN swept}
<1>1. PICK swept \in Swept(table[n]) :
        /\ table' = [table EXCEPT ![n] = swept]
        /\ net' = net
              \union (IF p = 0 THEN {} ELSE {GetNodes(n, table[n][p].endpoint, n)})
              \union {Ping(n, swept[q].endpoint) : q \in {r \in DOMAIN swept : Due(swept[r])}}
  BY DEF PeriodicTask
<1>2. table[n] \in Seq(Entry) /\ Len(table[n]) <= K
  BY DEF TypeOK
<1>3. /\ swept \in Seq(Entry) /\ Len(swept) <= K
      /\ \A q \in DOMAIN swept : \E r \in DOMAIN table[n] :
           swept[q] = Marked(table[n][r]) /\ ~Expired(table[n][r])
  BY <1>2, SweptEntries
<1>4. p # 0 => p \in DOMAIN table[n]
  BY DEF PeriodicTask, Picks, GoodNodes
<1>5. p # 0 => table[n][p].endpoint \in Endpoint
  BY <1>2, <1>4, EntryFields
<1>6. net' \subseteq net
              \union (IF p = 0 THEN {} ELSE {GetNodes(n, table[n][p].endpoint, n)})
              \union {Ping(n, swept[q].endpoint) : q \in DOMAIN swept}
  BY <1>1
<1> QED BY <1>1, <1>3, <1>4, <1>5, <1>6 DEF PeriodicTask

LEMMA TPeriodicTask ==
    ASSUME TypeOK, NEW n \in Id, NEW p \in 0 .. K, PeriodicTask(n, p)
    PROVE  TypeOK'
<1>1. PICK swept \in Swept(table[n]) :
        /\ swept \in Seq(Entry) /\ Len(swept) <= K
        /\ table' = [table EXCEPT ![n] = swept]
        /\ net' \subseteq net
              \union (IF p = 0 THEN {} ELSE {GetNodes(n, table[n][p].endpoint, n)})
              \union {Ping(n, swept[q].endpoint) : q \in DOMAIN swept}
  BY PeriodicTaskSteps
<1>2. TablesType'
  BY <1>1, TypeParts DEF TablesType, PeriodicTask
<1>3. p # 0 => GetNodes(n, table[n][p].endpoint, n) \in Datagram
  BY PacketTypes, PeriodicTaskSteps
<1>4. \A q \in DOMAIN swept : swept[q].endpoint \in Endpoint
  BY <1>1, EntryFields
<1>5. {Ping(n, swept[q].endpoint) : q \in DOMAIN swept} \subseteq Datagram
  BY <1>4, PacketTypes
<1>6. net' \subseteq Datagram
  BY <1>1, <1>3, <1>5, TypeParts DEF NetType
<1>7. NetType'
  BY <1>6, TypeParts DEF NetType, PeriodicTask
<1>8. NodesType'
  BY PeriodicTaskSteps, TypeParts DEF NodesType, PeriodicTask
<1>9. HistoryType'
  BY PeriodicTaskSteps, TypeParts, DhtAssumption DEF HistoryType, PeriodicTask
<1>10. UNCHANGED found /\ UNCHANGED callVars
  BY DEF PeriodicTask
<1> QED BY <1>2, <1>7, <1>8, <1>9, <1>10, TypeUnchanged, TypePartsNext

\* The environment: a datagram that is overwritten goes to its endpoint with what another
\* of its sender held.
LEMMA OverwriteSteps ==
    ASSUME TypeOK, NEW m \in net, NEW o \in net, Overwrite(m, o)
    PROVE  /\ UNCHANGED <<state, addr, timers, booting, asked, booted, table, met, found>>
           /\ UNCHANGED callVars /\ UNCHANGED envVars
           /\ exposed \subseteq exposed' /\ exposed' \subseteq Id
           /\ mishaps' \in 0 .. MaxMishaps
           /\ \E d \in Datagram :
                /\ net' = (net \ {m}) \union {d}
                /\ d.type = o.type /\ d.sender = o.sender /\ d.src = o.src /\ d.dst = m.dst
                /\ d.type = "send_nodes" => Owners(m.dst) \subseteq exposed'
<1>1. PICK d \in Overwritten(m, o) :
         /\ net' = (net \ {m}) \union {d}
         /\ exposed' = IF d.type = "send_nodes" THEN exposed \union Owners(m.dst) ELSE exposed
  BY DEF Overwrite
<1>2. /\ d \in Datagram /\ d.type = o.type /\ d.sender = o.sender /\ d.src = o.src
      /\ d.dst = m.dst
  BY DEF Overwritten
<1>3. Owners(m.dst) \subseteq Id /\ exposed \subseteq Id
  BY TypeParts DEF Owners, NodesType
<1>4. mishaps' \in 0 .. MaxMishaps
  <2>1. mishaps \in 0 .. MaxMishaps /\ mishaps < MaxMishaps /\ mishaps' = mishaps + 1
    BY TypeParts DEF NetType, Overwrite
  <2> QED BY <2>1, DhtAssumption
<1>5. /\ UNCHANGED <<state, addr, timers, booting, asked, booted, table, met, found>>
      /\ UNCHANGED callVars /\ UNCHANGED envVars
  BY DEF Overwrite
<1> QED BY <1>1, <1>2, <1>3, <1>4, <1>5

LEMMA TOverwrite ==
    ASSUME TypeOK, NEW m \in net, NEW o \in net, Overwrite(m, o)
    PROVE  TypeOK'
<1>1. /\ UNCHANGED <<state, addr, timers, booting, asked, booted, table, met, found>>
      /\ UNCHANGED callVars /\ UNCHANGED envVars
      /\ exposed' \subseteq Id /\ mishaps' \in 0 .. MaxMishaps
  BY OverwriteSteps
<1>2. NetType'
  <2>1. PICK d \in Datagram : net' = (net \ {m}) \union {d}
    BY OverwriteSteps
  <2> QED BY <1>1, <2>1, TypeParts DEF NetType
<1>3. NodesType'
  BY <1>1, TypeParts DEF NodesType
<1>4. UNCHANGED <<table, met>> /\ UNCHANGED found
  BY <1>1
<1> QED BY <1>1, <1>2, <1>3, <1>4, TypeUnchanged, TypePartsNext

LEMMA TLose ==
    ASSUME TypeOK, NEW m \in net, Lose(m)
    PROVE  TypeOK'
<1>1. NetType'
  BY TypeParts DEF NetType, Lose
<1>2. /\ UNCHANGED nodeVars /\ UNCHANGED <<table, met>> /\ UNCHANGED found
      /\ UNCHANGED callVars /\ UNCHANGED envVars
  BY DEF Lose
<1> QED BY <1>1, <1>2, TypeUnchanged, TypePartsNext

LEMMA TStop ==
    ASSUME TypeOK, NEW n \in Id, Stop(n)
    PROVE  TypeOK'
<1>0. << >> \in Seq(Entry) /\ Len(<< >>) <= K /\ MaxStops \in Nat /\ TaskGap \in Nat /\ MaxTime \in Nat
  BY DhtAssumption
<1>1. TablesType'
  BY <1>0, TypeParts DEF TablesType, Stop
<1>2. NodesType'
  <2>1. timers' \in [Id -> 0 .. MaxBootstraps] /\ booted' \in [Id -> Nat]
    BY TypeParts, DhtAssumption DEF NodesType, Stop
  <2>2. booting' \subseteq Id \X Bootstrap /\ asked' \subseteq Id /\ exposed' \subseteq Id
    BY TypeParts DEF NodesType, Stop
  <2>3. state' \in [Id -> {"Off", "Started", "Bootstrapped"}] /\ addr' \in [Id -> Endpoint]
    BY TypeParts DEF NodesType, Stop
  <2> QED BY <2>1, <2>2, <2>3 DEF NodesType
<1>3. FoundType'
  BY TypeParts DEF FoundType, Stop
<1>4. CallsType'
  <2>1. status' \in [Call -> {"new", "missed", "stored", "dropped", "done", "lost"}]
    BY TypeParts DEF CallsType, Stop
  <2> QED BY <2>1, TypeParts DEF CallsType, Stop
<1>5. HistoryType'
  BY <1>0, TypeParts DEF HistoryType, Stop
<1>6. UNCHANGED netVars
  BY DEF Stop
<1> QED BY <1>1, <1>2, <1>3, <1>4, <1>5, <1>6, TypeUnchanged, TypePartsNext

LEMMA TStart ==
    ASSUME TypeOK, NEW n \in Id, NEW ep \in Endpoint, Start(n, ep)
    PROVE  TypeOK'
<1>1. NodesType'
  <2>1. exposed' \subseteq Id
    BY TypeParts DEF NodesType, Start
  <2> QED BY <2>1, TypeParts DEF NodesType, Start
<1>2. HistoryType'
  BY TypeParts DEF HistoryType, Start
<1>3. /\ UNCHANGED <<table, met>> /\ UNCHANGED found /\ UNCHANGED callVars /\ UNCHANGED netVars
  BY DEF Start
<1> QED BY <1>1, <1>2, <1>3, TypeUnchanged, TypePartsNext

\* A tick ages every entry and changes nothing else of the tables.
LEMMA TickSteps ==
    ASSUME TypeOK, Tick
    PROVE  /\ now' = now + 1 /\ now < MaxTime
           /\ \A n \in Id :
                /\ table'[n] \in Seq(Entry) /\ Len(table'[n]) <= K
                /\ DOMAIN table'[n] = DOMAIN table[n]
                /\ \A p \in DOMAIN table[n] :
                     /\ table'[n][p].id = table[n][p].id
                     /\ table'[n][p].endpoint = table[n][p].endpoint
                     /\ table'[n][p].idle = table[n][p].idle + 1
<1>1. SUFFICES ASSUME NEW n \in Id
               PROVE  /\ table'[n] \in Seq(Entry) /\ Len(table'[n]) <= K
                      /\ DOMAIN table'[n] = DOMAIN table[n]
                      /\ \A p \in DOMAIN table[n] :
                           /\ table'[n][p].id = table[n][p].id
                           /\ table'[n][p].endpoint = table[n][p].endpoint
                           /\ table'[n][p].idle = table[n][p].idle + 1
  BY DEF Tick
<1> DEFINE s == table[n]
           t == [p \in DOMAIN s |-> [s[p] EXCEPT !.idle = s[p].idle + 1]]
<1>2. s \in Seq(Entry) /\ Len(s) <= K
  BY DEF TypeOK
<1>3. table'[n] = t
  BY DEF Tick
<1> HIDE DEF s
<1>4. \A p \in DOMAIN s : s[p] \in Entry
  BY <1>2, EntryFields
<1>5. ASSUME NEW e \in Entry
      PROVE  /\ [e EXCEPT !.idle = e.idle + 1] \in Entry
             /\ [e EXCEPT !.idle = e.idle + 1].id = e.id
             /\ [e EXCEPT !.idle = e.idle + 1].endpoint = e.endpoint
             /\ [e EXCEPT !.idle = e.idle + 1].idle = e.idle + 1
  BY DEF Entry
<1>6. \A p \in DOMAIN s :
        t[p] \in Entry /\ t[p].id = s[p].id /\ t[p].endpoint = s[p].endpoint /\ t[p].idle = s[p].idle + 1
  BY <1>4, <1>5
<1>7. DOMAIN s = 1 .. Len(s) /\ Len(s) \in Nat /\ t = [p \in 1 .. Len(s) |-> t[p]]
  BY <1>2
<1>8. \A p \in 1 .. Len(s) : t[p] \in Entry
  BY <1>6, <1>7
<1>9. t \in Seq(Entry) /\ Len(t) = Len(s)
  <2> HIDE DEF t
  <2> QED BY <1>7, <1>8, IsASeq
<1>10. DOMAIN t = DOMAIN s
  OBVIOUS
<1> HIDE DEF t
<1> QED BY <1>2, <1>3, <1>6, <1>9, <1>10 DEF s

LEMMA TTick ==
    ASSUME TypeOK, Tick
    PROVE  TypeOK'
<1>1. TablesType'
  <2>1. table' = [n \in Id |-> table'[n]]
    BY DEF Tick
  <2>2. table' \in [Id -> Seq(Entry)] /\ \A n \in Id : Len(table'[n]) <= K
    BY <2>1, TickSteps
  <2>3. met' \in [Id -> SUBSET Id]
    BY TypeParts DEF TablesType, Tick
  <2> QED BY <2>2, <2>3 DEF TablesType
<1>2. HistoryType'
  <2>1. now' \in 0 .. MaxTime
    BY TypeParts, DhtAssumption DEF HistoryType, Tick
  <2>2. sinceTask' \in [Id -> 0 .. TaskGap]
    <3>1. \A n \in Id : (IF n \in Timed THEN sinceTask[n] + 1 ELSE 0) \in 0 .. TaskGap
      BY TypeParts, DhtAssumption DEF HistoryType, Tick
    <3> QED BY <3>1 DEF Tick
  <2> QED BY <2>1, <2>2, TypeParts DEF HistoryType, Tick
<1>3. /\ UNCHANGED nodeVars /\ UNCHANGED found /\ UNCHANGED callVars /\ UNCHANGED netVars
  BY DEF Tick
<1> QED BY <1>1, <1>2, <1>3, TypeUnchanged, TypePartsNext

LEMMA TNext == TypeOK /\ [Next]_vars => TypeOK'
<1> SUFFICES ASSUME TypeOK, [Next]_vars PROVE TypeOK'
  OBVIOUS
<1>1. CASE UNCHANGED vars
  <2>1. /\ UNCHANGED nodeVars /\ UNCHANGED <<table, met>> /\ UNCHANGED found
        /\ UNCHANGED callVars /\ UNCHANGED netVars /\ UNCHANGED envVars
    BY <1>1 DEF vars, nodeVars, callVars, netVars, envVars, clockVars
  <2> QED BY <2>1, TypeUnchanged, TypePartsNext
<1>2. CASE Next
  BY <1>2, TBootstrap, TFindNode, TReceive, TPeriodicTask, TOverwrite, TLose, TStop, TStart, TTick DEF Next
<1> QED BY <1>1, <1>2

\* Every state is of the types: the tables within K entries, which are whole; the
\* datagrams with endpoints as addresses and whole contents; the callbacks in slots.
THEOREM TypeCorrect == Spec => []TypeOK
<1>1. Init => TypeOK
  BY TInit
<1>2. TypeOK /\ [Next]_vars => TypeOK'
  BY TNext
<1> QED BY <1>1, <1>2, PTL DEF Spec

-----------------------------------------------------------------------------
(* The callbacks of find_node(). *)

CInv == TypeOK /\ CallbacksAreKept

\* Actions that are no part of find_node() and answer nobody.
LEMMA CallsUnchanged ==
    ASSUME CallbacksAreKept, UNCHANGED found, UNCHANGED callVars
    PROVE  CallbacksAreKept'
BY DEF CallbacksAreKept, callVars

LEMMA CFindNode ==
    ASSUME CInv, NEW c \in Call, LookupHit(c) \/ LookupMiss(c) \/ Register(c)
    PROVE  CallbacksAreKept'
<1> DEFINE n == caller[c]
           i == target[c]
<1>0. /\ n \in Id /\ i \in Id /\ FoundType /\ CallsType
      /\ \A d \in Call : caller[d] \in Id /\ target[d] \in Id
  BY DhtAssumption, TypeParts DEF CInv
<1>1. CASE LookupHit(c)
  <2>1. /\ status[c] = "new" /\ UNCHANGED found
        /\ status' = [status EXCEPT ![c] = "done"]
        /\ fired' = [fired EXCEPT ![c] = fired[c] + 1]
    BY <1>1 DEF LookupHit
  <2>2. \A d \in Call : /\ status'[d] = IF d = c THEN "done" ELSE status[d]
                        /\ fired'[d] = IF d = c THEN fired[d] + 1 ELSE fired[d]
    BY <1>0, <2>1 DEF CallsType
  <2> QED BY <2>1, <2>2 DEF CInv, CallbacksAreKept
<1>2. CASE LookupMiss(c)
  <2>1. /\ status[c] = "new" /\ UNCHANGED found /\ UNCHANGED fired
        /\ status' = [status EXCEPT ![c] = "missed"]
    BY <1>2 DEF LookupMiss
  <2>2. \A d \in Call : status'[d] = IF d = c THEN "missed" ELSE status[d]
    BY <1>0, <2>1 DEF CallsType
  <2> QED BY <2>1, <2>2 DEF CInv, CallbacksAreKept
<1>3. CASE Register(c)
  <2>1. status[c] = "missed" /\ UNCHANGED fired
    BY <1>3 DEF Register
  <2>2. CASE Occupied(n, i)
    <3>1. UNCHANGED found /\ status' = [status EXCEPT ![c] = "dropped"]
      BY <1>3, <2>2 DEF Register
    <3>2. \A d \in Call : status'[d] = IF d = c THEN "dropped" ELSE status[d]
      BY <1>0, <3>1 DEF CallsType
    <3> QED BY <2>1, <3>1, <3>2 DEF CInv, CallbacksAreKept
  <2>3. CASE ~Occupied(n, i)
    <3>1. found[n][i] = Absent
      BY <2>3 DEF Occupied
    <3>2. found' = [found EXCEPT ![n][i] = c] /\ status' = [status EXCEPT ![c] = "stored"]
      BY <1>3, <2>3 DEF Register
    <3>3. \A d \in Call : status'[d] = IF d = c THEN "stored" ELSE status[d]
      BY <1>0, <3>2 DEF CallsType
    <3> HIDE DEF n, i
    <3>4. \A o, j \in Id : found'[o][j] = IF o = n /\ j = i THEN c ELSE found[o][j]
      BY <1>0, <3>2 DEF FoundType
    <3>5. \A d \in Call : status'[d] = "stored" <=> found'[caller[d]][target[d]] = d
      <4>1. SUFFICES ASSUME NEW d \in Call
                     PROVE  status'[d] = "stored" <=> found'[caller[d]][target[d]] = d
        OBVIOUS
      <4>2. CASE d = c
        BY <1>0, <3>3, <3>4, <4>2 DEF n, i
      <4>3. CASE d # c /\ caller[d] = n /\ target[d] = i
        <5>1. found[caller[d]][target[d]] # d
          BY <3>1, <4>3, CallbackAssumption
        <5> QED BY <1>0, <3>3, <3>4, <4>3, <5>1 DEF CInv, CallbacksAreKept
      <4>4. CASE d # c /\ ~(caller[d] = n /\ target[d] = i)
        BY <1>0, <3>3, <3>4, <4>4 DEF CInv, CallbacksAreKept
      <4> QED BY <4>2, <4>3, <4>4
    <3>6. \A o, j \in Id : found'[o][j] \in Call => caller[found'[o][j]] = o /\ target[found'[o][j]] = j
      BY <3>4 DEF CInv, CallbacksAreKept, n, i
    <3>7. \A d \in Call : fired'[d] = IF status'[d] = "done" THEN 1 ELSE 0
      BY <2>1, <3>3 DEF CInv, CallbacksAreKept
    <3> QED BY <3>5, <3>6, <3>7 DEF CallbacksAreKept
  <2> QED BY <2>2, <2>3
<1> QED BY <1>1, <1>2, <1>3

\* A pong: the call in its slot, if there is one, is the one whose callback runs.
LEMMA CHandlePong ==
    ASSUME CInv, NEW n \in Id, NEW m \in net, HandlePong(n, m)
    PROVE  CallbacksAreKept'
<1> DEFINE i == m.sender
           c == found[n][i]
<1>0. /\ i \in Id /\ FoundType /\ CallsType
      /\ \A d \in Call : caller[d] \in Id /\ target[d] \in Id
  BY DhtAssumption, TypeParts, DatagramFields DEF CInv
<1>1. CASE c \in Call
  <2>1. /\ found' = [found EXCEPT ![n][i] = Absent]
        /\ status' = [status EXCEPT ![c] = "done"]
        /\ fired' = [fired EXCEPT ![c] = fired[c] + 1]
    BY <1>1 DEF HandlePong
  <2>2. caller[c] = n /\ target[c] = i
    BY <1>0, <1>1 DEF CInv, CallbacksAreKept
  <2>3. status[c] = "stored" /\ fired[c] = 0
    BY <1>1, <2>2 DEF CInv, CallbacksAreKept
  <2>4. \A d \in Call, o \in Id, j \in Id : d # c /\ found[o][j] = d => ~(o = n /\ j = i)
    OBVIOUS
  <2> HIDE DEF c, i
  <2>5. \A o, j \in Id : found'[o][j] = IF o = n /\ j = i THEN Absent ELSE found[o][j]
    BY <1>0, <2>1 DEF FoundType
  <2>6. \A d \in Call : /\ status'[d] = IF d = c THEN "done" ELSE status[d]
                        /\ fired'[d] = IF d = c THEN 1 ELSE fired[d]
    BY <1>0, <1>1, <2>1, <2>3 DEF CallsType
  <2>7. \A d \in Call : status'[d] = "stored" <=> found'[caller[d]][target[d]] = d
    <3>1. SUFFICES ASSUME NEW d \in Call
                   PROVE  status'[d] = "stored" <=> found'[caller[d]][target[d]] = d
      OBVIOUS
    <3>2. CASE d = c
      BY <1>0, <2>2, <2>5, <2>6, <3>2, CallbackAssumption
    <3>3. CASE d # c /\ caller[d] = n /\ target[d] = i
      <4>1. found[caller[d]][target[d]] # d
        BY <1>0, <2>4, <3>3
      <4> QED BY <1>0, <2>5, <2>6, <3>3, <4>1, CallbackAssumption DEF CInv, CallbacksAreKept
    <3>4. CASE d # c /\ ~(caller[d] = n /\ target[d] = i)
      BY <1>0, <2>5, <2>6, <3>4 DEF CInv, CallbacksAreKept
    <3> QED BY <3>2, <3>3, <3>4
  <2>8. \A o, j \in Id : found'[o][j] \in Call => caller[found'[o][j]] = o /\ target[found'[o][j]] = j
    BY <2>5, CallbackAssumption DEF CInv, CallbacksAreKept
  <2>9. \A d \in Call : fired'[d] = IF status'[d] = "done" THEN 1 ELSE 0
    BY <2>6 DEF CInv, CallbacksAreKept
  <2> QED BY <2>7, <2>8, <2>9 DEF CallbacksAreKept
<1>2. CASE c \notin Call
  <2>1. found' = [found EXCEPT ![n][i] = Null] /\ UNCHANGED <<status, fired>>
    BY <1>2 DEF HandlePong
  <2>2. \A d \in Call : found[n][i] # d
    BY <1>2
  <2> HIDE DEF c, i
  <2>3. \A o, j \in Id : found'[o][j] = IF o = n /\ j = i THEN Null ELSE found[o][j]
    BY <1>0, <2>1 DEF FoundType
  <2>4. \A d \in Call : status[d] = "stored" <=> found'[caller[d]][target[d]] = d
    BY <1>0, <2>2, <2>3, CallbackAssumption DEF CInv, CallbacksAreKept
  <2>5. \A o, j \in Id : found'[o][j] \in Call => caller[found'[o][j]] = o /\ target[found'[o][j]] = j
    BY <2>3, CallbackAssumption DEF CInv, CallbacksAreKept
  <2> QED BY <2>1, <2>4, <2>5 DEF CInv, CallbacksAreKept
<1> QED BY <1>1, <1>2

\* The process ends: the callbacks it kept are gone, and so are the calls.
LEMMA CStop ==
    ASSUME CInv, NEW n \in Id, Stop(n)
    PROVE  CallbacksAreKept'
<1>0. /\ FoundType /\ CallsType /\ \A d \in Call : caller[d] \in Id /\ target[d] \in Id
  BY DhtAssumption, TypeParts DEF CInv
<1>1. /\ \A o, j \in Id : found'[o][j] = IF o = n THEN Absent ELSE found[o][j]
      /\ \A d \in Call : status'[d] = IF caller[d] = n /\ status[d] \in {"missed", "stored"}
                                      THEN "lost" ELSE status[d]
      /\ UNCHANGED fired
  BY <1>0 DEF Stop, FoundType
<1>2. \A d \in Call : status'[d] = "stored" <=> found'[caller[d]][target[d]] = d
  BY <1>0, <1>1, CallbackAssumption DEF CInv, CallbacksAreKept
<1>3. \A o, j \in Id : found'[o][j] \in Call => caller[found'[o][j]] = o /\ target[found'[o][j]] = j
  BY <1>1, CallbackAssumption DEF CInv, CallbacksAreKept
<1>4. \A d \in Call : fired'[d] = IF status'[d] = "done" THEN 1 ELSE 0
  BY <1>1 DEF CInv, CallbacksAreKept
<1> QED BY <1>2, <1>3, <1>4 DEF CallbacksAreKept

LEMMA CNext == CInv /\ [Next]_vars => CInv'
<1> SUFFICES ASSUME CInv, [Next]_vars PROVE CallbacksAreKept'
  BY TNext DEF CInv
<1>1. CASE UNCHANGED vars
  BY <1>1, CallsUnchanged DEF CInv, vars, callVars
<1>2. ASSUME NEW n \in Id, NEW b \in Bootstrap, CheckStarted(n, b) \/ CallBootstrap(n, b)
      PROVE  CallbacksAreKept'
  BY <1>2, CallsUnchanged DEF CInv, CheckStarted, CallBootstrap
<1>3. ASSUME NEW n \in Id, NEW m \in net, Receive(n, m)
      PROVE  CallbacksAreKept'
  <2>1. CASE HandlePong(n, m)
    BY <2>1, CHandlePong
  <2>2. CASE HandlePing(n, m) \/ HandleGetNodes(n, m) \/ HandleSendNodes(n, m)
    BY <2>2, CallsUnchanged DEF CInv, HandlePing, HandleGetNodes, HandleSendNodes
  <2> QED BY <1>3, <2>1, <2>2 DEF Receive
<1>4. ASSUME NEW n \in Id, NEW p \in 0 .. K, PeriodicTask(n, p)
      PROVE  CallbacksAreKept'
  BY <1>4, CallsUnchanged DEF CInv, PeriodicTask
<1>5. ASSUME NEW m \in net, Lose(m)
      PROVE  CallbacksAreKept'
  BY <1>5, CallsUnchanged DEF CInv, Lose
<1>6. ASSUME NEW n \in Id, NEW ep \in Endpoint, Start(n, ep)
      PROVE  CallbacksAreKept'
  BY <1>6, CallsUnchanged DEF CInv, Start
<1>7. CASE Tick
  BY <1>7, CallsUnchanged DEF CInv, Tick
<1>8. ASSUME NEW m \in net, NEW o \in net, Overwrite(m, o)
      PROVE  CallbacksAreKept'
  BY <1>8, CallsUnchanged DEF CInv, Overwrite
<1> QED BY <1>1, <1>2, <1>3, <1>4, <1>5, <1>6, <1>7, <1>8, CFindNode, CStop DEF Next

LEMMA CInit == Init => CInv
<1> SUFFICES ASSUME Init PROVE CallbacksAreKept
  BY TInit DEF CInv
<1> QED BY DhtAssumption, CallbackAssumption DEF Init, CallbacksAreKept

LEMMA CAlways == Spec => []CInv
BY CInit, CNext, PTL DEF Spec

\* A call that waits is in the slot of its target, and in no other; the callback of a
\* call runs once, when the call is over.
THEOREM CallbacksKept == Spec => []CallbacksAreKept
<1>1. CInv => CallbacksAreKept
  BY DEF CInv
<1> QED BY <1>1, CAlways, PTL

\* An empty slot stays as it is for as long as the process runs, and a call for its id is
\* answered from the table only.
THEOREM EmptySlotForGood == Spec => EmptySlotIsForGood
<1> DEFINE Forgood ==
        \A n, i \in Id : found[n][i] = Null =>
            /\ found'[n][i] = Null \/ state'[n] = "Off"
            /\ \A c \in Call :
                  caller[c] = n /\ target[c] = i /\ fired'[c] > fired[c] => FindId(table[n], i) # 0
<1>1. ASSUME CInv, [Next]_vars
      PROVE  Forgood \/ UNCHANGED vars
  <2> SUFFICES ASSUME NEW n \in Id, NEW i \in Id, found[n][i] = Null
               PROVE  /\ found'[n][i] = Null \/ state'[n] = "Off"
                      /\ \A c \in Call :
                            caller[c] = n /\ target[c] = i /\ fired'[c] > fired[c]
                              => FindId(table[n], i) # 0
    BY <1>1, Zenon
  <2>0. FoundType /\ CallsType /\ (\A c \in Call : ~(fired[c] > fired[c])) /\ n \in Id
    BY <1>1, TypeParts DEF CInv, CallsType
  <2>1. CASE UNCHANGED found /\ UNCHANGED fired
    BY <2>0, <2>1
  <2>2. ASSUME NEW c \in Call, LookupHit(c)
        PROVE  /\ UNCHANGED found
               /\ \A d \in Call : fired'[d] > fired[d] => FindId(table[caller[d]], target[d]) # 0
    <3>1. /\ UNCHANGED found /\ fired' = [fired EXCEPT ![c] = fired[c] + 1]
          /\ FindId(table[caller[c]], target[c]) # 0
      BY <2>2 DEF LookupHit
    <3>2. \A d \in Call : d # c => fired'[d] = fired[d]
      BY <2>0, <3>1 DEF CallsType
    <3> QED BY <2>0, <3>1, <3>2
  <2>3. ASSUME NEW c \in Call, Register(c)
        PROVE  found'[n][i] = Null /\ UNCHANGED fired
    <3>1. UNCHANGED fired
      BY <2>3 DEF Register
    <3>2. CASE UNCHANGED found
      BY <3>1, <3>2
    <3>3. CASE ~Occupied(caller[c], target[c]) /\ found' = [found EXCEPT ![caller[c]][target[c]] = c]
      <4>1. ~(caller[c] = n /\ target[c] = i)
        BY <3>3 DEF Occupied, Absent, Null
      <4>2. caller[c] \in Id /\ target[c] \in Id
        BY DhtAssumption
      <4> QED BY <2>0, <3>1, <3>3, <4>1, <4>2, SlotSet
    <3> QED BY <2>3, <3>2, <3>3 DEF Register
  <2>4. ASSUME NEW o \in Id, NEW m \in net, HandlePong(o, m)
        PROVE  /\ found'[n][i] = Null
               /\ \A d \in Call : caller[d] = n /\ target[d] = i => ~(fired'[d] > fired[d])
    <3>0. m.sender \in Id
      BY <1>1, DatagramFields DEF CInv
    <3>1. CASE found[o][m.sender] \in Call
      <4>1. PICK c \in Call : c = found[o][m.sender]
        BY <3>1
      <4>2. /\ found' = [found EXCEPT ![o][m.sender] = Absent]
            /\ fired' = [fired EXCEPT ![c] = fired[c] + 1]
        BY <2>4, <3>1, <4>1 DEF HandlePong
      <4>3. ~(o = n /\ m.sender = i) /\ caller[c] = o /\ target[c] = m.sender
        BY <1>1, <3>0, <3>1, <4>1, CallbackAssumption DEF CInv, CallbacksAreKept
      <4>4. \A d \in Call : d # c => fired'[d] = fired[d]
        BY <2>0, <4>2 DEF CallsType
      <4> QED BY <2>0, <3>0, <4>2, <4>3, <4>4, SlotSet
    <3>2. CASE found[o][m.sender] \notin Call
      <4>1. found' = [found EXCEPT ![o][m.sender] = Null] /\ UNCHANGED fired
        BY <2>4, <3>2 DEF HandlePong
      <4> QED BY <2>0, <3>0, <4>1, SlotSet
    <3> QED BY <3>1, <3>2
  <2>5. ASSUME NEW o \in Id, Stop(o)
        PROVE  (found'[n][i] = Null \/ state'[n] = "Off") /\ UNCHANGED fired
    <3>1. CASE o = n
      BY <1>1, <2>5, <3>1, TypeParts DEF Stop, CInv, NodesType
    <3>2. CASE o # n
      BY <2>0, <2>5, <3>2 DEF Stop, FoundType
    <3> QED BY <2>5, <3>1, <3>2 DEF Stop
  <2>6. ASSUME NEW o \in Id, NEW m \in net, Receive(o, m), ~HandlePong(o, m)
        PROVE  UNCHANGED found /\ UNCHANGED fired
    BY <2>6 DEF Receive, HandlePing, HandleGetNodes, HandleSendNodes, callVars
  <2>7. ASSUME NEW o \in Id, NEW b \in Bootstrap, CheckStarted(o, b) \/ CallBootstrap(o, b)
        PROVE  UNCHANGED found /\ UNCHANGED fired
    BY <2>7 DEF CheckStarted, CallBootstrap, callVars
  <2>8. ASSUME NEW c \in Call, LookupMiss(c)
        PROVE  UNCHANGED found /\ UNCHANGED fired
    BY <2>8 DEF LookupMiss
  <2>9. ASSUME NEW o \in Id, NEW p \in 0 .. K, PeriodicTask(o, p)
        PROVE  UNCHANGED found /\ UNCHANGED fired
    BY <2>9 DEF PeriodicTask, callVars
  <2>10. ASSUME NEW m \in net, Lose(m)
         PROVE  UNCHANGED found /\ UNCHANGED fired
    BY <2>10 DEF Lose, callVars
  <2>11. ASSUME NEW o \in Id, NEW ep \in Endpoint, Start(o, ep)
         PROVE  UNCHANGED found /\ UNCHANGED fired
    BY <2>11 DEF Start, callVars
  <2>12. CASE Tick
    BY <2>1, <2>12 DEF Tick, callVars
  <2>13. CASE UNCHANGED vars
    BY <2>1, <2>13 DEF vars
  <2>14. ASSUME NEW o \in Id, NEW m \in net, Receive(o, m)
         PROVE  /\ found'[n][i] = Null
                /\ \A d \in Call : caller[d] = n /\ target[d] = i => ~(fired'[d] > fired[d])
    BY <2>0, <2>4, <2>6, <2>14
  <2>15. ASSUME NEW m \in net, NEW o \in net, Overwrite(m, o)
         PROVE  UNCHANGED found /\ UNCHANGED fired
    BY <2>15 DEF Overwrite, callVars
  <2> QED BY <1>1, <2>0, <2>2, <2>3, <2>5, <2>7, <2>8, <2>9, <2>10, <2>11, <2>12, <2>13, <2>14, <2>15
          DEF Next
<1>2. ASSUME CInv, [Next]_vars
      PROVE  [Forgood]_vars
  BY <1>1, <1>2
<1>3. CInv /\ [Next]_vars => [Forgood]_vars
  BY <1>2
<1>4. [][Forgood]_vars <=> EmptySlotIsForGood
  BY DEF EmptySlotIsForGood
<1> HIDE DEF Forgood
<1> QED BY <1>3, <1>4, CAlways, PTL DEF Spec

-----------------------------------------------------------------------------
(* Whose endpoints the tables and the datagrams hold. *)

GTables == \A n \in Id : \A p \in DOMAIN table[n] : <<table[n][p].id, table[n][p].endpoint>> \in used

GCalls == \A c \in Call : status[c] = "done" => <<target[c], result[c]>> \in used

GNet == \A m \in net : <<m.sender, m.src>> \in used

GNodes == \A n \in Id : state[n] # "Off" => <<n, addr[n]>> \in used

GBooting == \A n \in Id, b \in Bootstrap : <<n, b>> \in booting => state[n] # "Off" /\ timers[n] > 0

\* A datagram comes from where its sender is or was, and only a process that runs sends.
GInv == CInv /\ GTables /\ GCalls /\ GNet /\ GNodes /\ GBooting

LEMMA GUnchanged ==
    ASSUME GInv, used \subseteq used'
    PROVE  /\ UNCHANGED table => GTables'
           /\ UNCHANGED <<status, result>> => GCalls'
           /\ net' \subseteq net => GNet'
           /\ UNCHANGED <<state, addr>> => GNodes'
           /\ UNCHANGED <<state, timers, booting>> => GBooting'
<1>1. UNCHANGED table => GTables'
  BY DEF GInv, GTables
<1>2. UNCHANGED <<status, result>> => GCalls'
  BY DEF GInv, GCalls
<1>3. net' \subseteq net => GNet'
  BY DEF GInv, GNet
<1>4. UNCHANGED <<state, addr>> => GNodes'
  BY DEF GInv, GNodes
<1>5. UNCHANGED <<state, timers, booting>> => GBooting'
  BY DEF GInv, GBooting
<1> QED BY <1>1, <1>2, <1>3, <1>4, <1>5

\* The datagrams a running node sends bear its id and its endpoint.
LEMMA GSent ==
    ASSUME GInv, NEW n \in Id, state[n] # "Off", NEW sent, UNCHANGED used,
           \A r \in sent : r.sender = n /\ r.src = addr[n],
           net' \subseteq net \union sent
    PROVE  GNet'
BY DEF GInv, GNet, GNodes

LEMMA SenderFields ==
    ASSUME NEW n, NEW to
    PROVE  /\ Ping(n, to).sender = n /\ Ping(n, to).src = addr[n] /\ Ping(n, to).type = "ping"
           /\ Pong(n, to).sender = n /\ Pong(n, to).src = addr[n] /\ Pong(n, to).type = "pong"
           /\ \A id : /\ GetNodes(n, to, id).sender = n /\ GetNodes(n, to, id).src = addr[n]
                      /\ GetNodes(n, to, id).type = "get_nodes"
           /\ \A eps : /\ SendNodes(n, to, eps).sender = n /\ SendNodes(n, to, eps).src = addr[n]
                       /\ SendNodes(n, to, eps).type = "send_nodes"
                       /\ SendNodes(n, to, eps).dst = to
BY DEF Ping, Pong, GetNodes, SendNodes

\* What handle() sends, and what it makes of the table.
LEMMA HandledNet ==
    ASSUME NEW n, NEW m, NEW replies, Handled(n, m, replies)
    PROVE  /\ m \in net /\ m.dst = addr[n] /\ state[n] # "Off"
           /\ net' \subseteq net \union replies \union EvictionPing(n, m)
           /\ \A r \in EvictionPing(n, m) : r.sender = n /\ r.src = addr[n] /\ r.type = "ping"
<1>1. \A r \in EvictionPing(n, m) : r.sender = n /\ r.src = addr[n] /\ r.type = "ping"
  BY SenderFields DEF EvictionPing
<1> QED BY <1>1 DEF Handled, Received

LEMMA HandledTable ==
    ASSUME TypeOK, NEW n \in Id, NEW m, NEW replies, Handled(n, m, replies)
    PROVE  \A o \in Id : \A p \in DOMAIN table'[o] :
              \/ table'[o][p] = Fresh(m.sender, m.src)
              \/ \E q \in DOMAIN table[o] : table'[o][p] = table[o][q]
<1>1. m \in net /\ m.sender \in Id /\ m.src \in Endpoint
  BY DatagramFields DEF Handled
<1>2. CASE UNCHANGED table
  BY <1>2
<1>3. CASE table' = [table EXCEPT ![n] = Updated(table[n], m.sender, m.src)]
  <2>1. table[n] \in Seq(Entry) /\ Len(table[n]) <= K /\ table \in [Id -> Seq(Entry)]
    BY DEF TypeOK
  <2>2. \A p \in DOMAIN table'[n] :
           table'[n][p] = Fresh(m.sender, m.src) \/ \E q \in DOMAIN table[n] : table'[n][p] = table[n][q]
    BY <1>1, <1>3, <2>1, UpdatedEntries
  <2>3. \A o \in Id : o # n => table'[o] = table[o]
    BY <1>3, <2>1
  <2> QED BY <2>2, <2>3
<1> QED BY <1>2, <1>3 DEF Handled, UpdateTable

LEMMA GHandled ==
    ASSUME GInv, NEW n \in Id, NEW m, NEW replies, Handled(n, m, replies), UNCHANGED used,
           \A r \in replies : r.sender = n /\ r.src = addr[n]
    PROVE  GTables' /\ GNet'
<1>1. GNet'
  <2> DEFINE sent == replies \union EvictionPing(n, m)
  <2>1. net' \subseteq net \union sent /\ state[n] # "Off"
    BY HandledNet
  <2>2. \A r \in sent : r.sender = n /\ r.src = addr[n]
    BY HandledNet
  <2> HIDE DEF sent
  <2> QED BY <2>1, <2>2, GSent
<1>2. <<m.sender, m.src>> \in used
  BY HandledNet DEF GInv, GNet
<1>3. \A o \in Id : \A p \in DOMAIN table'[o] :
         \/ table'[o][p] = Fresh(m.sender, m.src)
         \/ \E q \in DOMAIN table[o] : table'[o][p] = table[o][q]
  BY HandledTable DEF GInv, CInv
<1>4. GTables'
  BY <1>2, <1>3 DEF GInv, GTables, Fresh
<1> QED BY <1>1, <1>4

LEMMA GReceive ==
    ASSUME GInv, NEW n \in Id, NEW m \in net, Receive(n, m)
    PROVE  GInv'
<1>0. CInv' /\ UNCHANGED used
  <2>1. CInv'
    BY CNext DEF GInv, Next
  <2>2. UNCHANGED used
    BY DEF Receive, HandlePing, HandlePong, HandleGetNodes, HandleSendNodes, envVars
  <2> QED BY <2>1, <2>2
<1>1. CASE HandlePing(n, m)
  <2>1. GTables' /\ GNet'
    BY <1>0, <1>1, GHandled, SenderFields DEF HandlePing
  <2> QED BY <1>0, <1>1, <2>1, GUnchanged DEF GInv, HandlePing, nodeVars, callVars
<1>2. CASE HandlePong(n, m)
  <2>1. GTables' /\ GNet'
    BY <1>0, <1>2, GHandled DEF HandlePong
  <2>2. <<m.sender, m.src>> \in used /\ m.sender \in Id
    BY DatagramFields DEF GInv, GNet, CInv
  <2>3. GCalls'
    <3>1. CASE found[n][m.sender] \in Call
      <4>1. PICK c \in Call : c = found[n][m.sender]
        BY <3>1
      <4>2. status' = [status EXCEPT ![c] = "done"] /\ result' = [result EXCEPT ![c] = m.src]
        BY <1>2, <3>1, <4>1 DEF HandlePong
      <4>3. target[c] = m.sender
        BY <2>2, <4>1 DEF GInv, CInv, CallbacksAreKept
      <4>4. CallsType
        BY TypeParts DEF GInv, CInv
      <4> QED BY <1>0, <2>2, <4>2, <4>3, <4>4 DEF GInv, GCalls, CallsType
    <3>2. CASE found[n][m.sender] \notin Call
      BY <1>0, <1>2, <3>2, GUnchanged DEF HandlePong
    <3> QED BY <3>1, <3>2
  <2> QED BY <1>0, <1>2, <2>1, <2>3, GUnchanged DEF GInv, HandlePong, nodeVars
<1>3. CASE HandleGetNodes(n, m)
  <2>1. PICK eps : Handled(n, m, {SendNodes(n, m.src, eps)})
    BY <1>3 DEF HandleGetNodes
  <2>2. GTables' /\ GNet'
    <3> DEFINE replies == {SendNodes(n, m.src, eps)}
    <3>1. \A r \in replies : r.sender = n /\ r.src = addr[n]
      BY DEF SendNodes
    <3>2. Handled(n, m, replies)
      BY <2>1
    <3> HIDE DEF replies
    <3> QED BY <1>0, <3>1, <3>2, GHandled
  <2> QED BY <1>0, <1>3, <2>2, GUnchanged DEF GInv, HandleGetNodes, nodeVars, callVars
<1>4. CASE HandleSendNodes(n, m)
  <2>1. GTables' /\ GNet'
    BY <1>0, <1>4, GHandled, SenderFields DEF HandleSendNodes
  <2>2. GNodes' /\ GBooting'
    <3>1. /\ state' = [state EXCEPT ![n] = "Bootstrapped"] /\ state[n] # "Off"
          /\ UNCHANGED <<addr, timers, booting>>
      BY <1>4, HandledNet DEF HandleSendNodes
    <3>2. NodesType
      BY TypeParts DEF GInv, CInv
    <3>3. \A o \in Id : state'[o] # "Off" <=> state[o] # "Off"
      BY <3>1, <3>2 DEF NodesType
    <3> QED BY <1>0, <3>1, <3>3 DEF GInv, GNodes, GBooting
  <2> QED BY <1>0, <1>4, <2>1, <2>2, GUnchanged DEF GInv, HandleSendNodes, callVars
<1> QED BY <1>1, <1>2, <1>3, <1>4 DEF Receive

LEMMA GFindNode ==
    ASSUME GInv, NEW c \in Call, LookupHit(c) \/ LookupMiss(c) \/ Register(c)
    PROVE  GInv'
<1> DEFINE n == caller[c]
<1>0. /\ CInv' /\ UNCHANGED used /\ CallsType /\ NodesType /\ n \in Id /\ target[c] \in Id
      /\ table[n] \in Seq(Entry)
  <2>1. CInv'
    BY CNext DEF GInv, Next
  <2>2. UNCHANGED used
    BY DEF LookupHit, LookupMiss, Register, envVars
  <2> QED BY <2>1, <2>2, TypeParts, DhtAssumption DEF GInv, CInv, TablesType
<1>1. CASE LookupHit(c)
  <2> DEFINE p == FindId(table[n], target[c])
  <2>1. /\ status' = [status EXCEPT ![c] = "done"]
        /\ result' = [result EXCEPT ![c] = table[n][p].endpoint]
        /\ p # 0
    BY <1>1 DEF LookupHit
  <2>2. p \in DOMAIN table[n] /\ table[n][p].id = target[c]
    BY <1>0, <2>1, FindIdLemma
  <2> HIDE DEF p, n
  <2>3. GCalls'
    BY <1>0, <2>1, <2>2 DEF GInv, GCalls, GTables, CallsType
  <2> QED BY <1>0, <1>1, <2>3, GUnchanged DEF GInv, LookupHit, nodeVars, netVars
<1>2. CASE LookupMiss(c)
  <2>1. status' = [status EXCEPT ![c] = "missed"] /\ UNCHANGED result
    BY <1>2 DEF LookupMiss
  <2>2. GCalls'
    BY <1>0, <2>1 DEF GInv, GCalls, CallsType
  <2> QED BY <1>0, <1>2, <2>2, GUnchanged DEF GInv, LookupMiss, nodeVars, netVars
<1>3. CASE Register(c)
  <2>1. PICK eps : net' = net \union {GetNodes(n, ep, target[c]) : ep \in eps}
    BY <1>3 DEF Register
  <2>2. GNet'
    <3> DEFINE sent == {GetNodes(n, ep, target[c]) : ep \in eps}
    <3>1. \A r \in sent : r.sender = n /\ r.src = addr[n]
      BY DEF GetNodes
    <3>2. net' \subseteq net \union sent /\ state[n] # "Off"
      BY <1>3, <2>1 DEF Register
    <3> HIDE DEF sent, n
    <3> QED BY <1>0, <3>1, <3>2, GSent
  <2>3. \E v \in {"dropped", "stored"} : status' = [status EXCEPT ![c] = v]
    BY <1>3 DEF Register
  <2>4. GCalls'
    BY <1>0, <1>3, <2>3 DEF GInv, GCalls, CallsType, Register
  <2> QED BY <1>0, <1>3, <2>2, <2>4, GUnchanged DEF GInv, Register
<1> QED BY <1>1, <1>2, <1>3

LEMMA GBootstrap ==
    ASSUME GInv, NEW n \in Id, NEW b \in Bootstrap, CheckStarted(n, b) \/ CallBootstrap(n, b)
    PROVE  GInv'
<1>0. CInv' /\ UNCHANGED <<used, table, callVars, addr, state>> /\ NodesType
  <2>1. CInv'
    BY CNext DEF GInv, Next
  <2>2. UNCHANGED <<used, table, callVars, addr, state>>
    BY DEF CheckStarted, CallBootstrap, envVars
  <2> QED BY <2>1, <2>2, TypeParts DEF GInv, CInv
<1>1. CASE CheckStarted(n, b)
  <2>1. /\ UNCHANGED net /\ state[n] = "Started"
        /\ timers' = [timers EXCEPT ![n] = timers[n] + 1]
        /\ booting' = booting \union {<<n, b>>}
    BY <1>1 DEF CheckStarted, netVars
  <2>2. timers[n] \in Nat /\ \A o \in Id : timers'[o] = IF o = n THEN timers[n] + 1 ELSE timers[o]
    BY <1>0, <2>1, DhtAssumption DEF NodesType
  <2>3. GBooting'
    BY <1>0, <2>1, <2>2 DEF GInv, GBooting
  <2> QED BY <1>0, <2>1, <2>3, GUnchanged DEF GInv, callVars
<1>2. CASE CallBootstrap(n, b)
  <2>1. /\ net' = net \union {GetNodes(n, home[b], n)} /\ UNCHANGED timers
        /\ booting' \subseteq booting /\ <<n, b>> \in booting
    BY <1>2 DEF CallBootstrap
  <2>2. state[n] # "Off"
    BY <2>1 DEF GInv, GBooting
  <2>3. GNet'
    <3> DEFINE sent == {GetNodes(n, home[b], n)}
    <3>1. \A r \in sent : r.sender = n /\ r.src = addr[n]
      BY DEF GetNodes
    <3>2. net' \subseteq net \union sent
      BY <2>1
    <3> HIDE DEF sent
    <3> QED BY <1>0, <2>2, <3>1, <3>2, GSent
  <2>4. GBooting'
    BY <1>0, <2>1 DEF GInv, GBooting
  <2> QED BY <1>0, <2>3, <2>4, GUnchanged DEF GInv, callVars
<1> QED BY <1>1, <1>2

LEMMA GPeriodicTask ==
    ASSUME GInv, NEW n \in Id, NEW p \in 0 .. K, PeriodicTask(n, p)
    PROVE  GInv'
<1>0. TypeOK /\ CInv' /\ UNCHANGED <<state, addr, timers, booting, used, callVars>>
  BY CNext DEF GInv, CInv, Next, PeriodicTask
<1>1. PICK swept \in Swept(table[n]) :
        /\ \A q \in DOMAIN swept : \E r \in DOMAIN table[n] :
             swept[q] = Marked(table[n][r]) /\ ~Expired(table[n][r])
        /\ table' = [table EXCEPT ![n] = swept]
        /\ net' \subseteq net
              \union (IF p = 0 THEN {} ELSE {GetNodes(n, table[n][p].endpoint, n)})
              \union {Ping(n, swept[q].endpoint) : q \in DOMAIN swept}
  <2>1. \E swept \in Swept(table[n]) :
          /\ swept \in Seq(Entry) /\ Len(swept) <= K
          /\ \A q \in DOMAIN swept : \E r \in DOMAIN table[n] :
               swept[q] = Marked(table[n][r]) /\ ~Expired(table[n][r])
          /\ table' = [table EXCEPT ![n] = swept]
          /\ net' \subseteq net
                \union (IF p = 0 THEN {} ELSE {GetNodes(n, table[n][p].endpoint, n)})
                \union {Ping(n, swept[q].endpoint) : q \in DOMAIN swept}
    BY <1>0, PeriodicTaskSteps
  <2> QED BY <2>1, Zenon
<1>2. state[n] # "Off"
  BY DEF PeriodicTask
<1>3. GNet'
  <2> DEFINE sent == (IF p = 0 THEN {} ELSE {GetNodes(n, table[n][p].endpoint, n)})
                       \union {Ping(n, swept[q].endpoint) : q \in DOMAIN swept}
  <2>1. \A r \in sent : r.sender = n /\ r.src = addr[n]
    <3>1. \A r \in (IF p = 0 THEN {} ELSE {GetNodes(n, table[n][p].endpoint, n)}) :
             r.sender = n /\ r.src = addr[n]
      BY DEF GetNodes
    <3>2. \A r \in {Ping(n, swept[q].endpoint) : q \in DOMAIN swept} :
             r.sender = n /\ r.src = addr[n]
      BY DEF Ping
    <3> QED BY <3>1, <3>2
  <2>2. net' \subseteq net \union sent
    BY <1>1
  <2> HIDE DEF sent
  <2> QED BY <1>0, <1>2, <2>1, <2>2, GSent
<1>4. GTables'
  <2>1. table \in [Id -> Seq(Entry)]
    BY <1>0 DEF TypeOK
  <2>2. \A r \in DOMAIN table[n] : /\ Marked(table[n][r]).id = table[n][r].id
                                   /\ Marked(table[n][r]).endpoint = table[n][r].endpoint
    <3>1. \A e \in Entry : Marked(e).id = e.id /\ Marked(e).endpoint = e.endpoint
      BY DEF Marked, Entry
    <3> QED BY <2>1, <3>1, EntryFields
  <2>3. \A q \in DOMAIN swept : <<swept[q].id, swept[q].endpoint>> \in used
    BY <1>1, <2>2 DEF GInv, GTables
  <2> QED BY <1>0, <1>1, <2>1, <2>3 DEF GInv, GTables
<1> QED BY <1>0, <1>3, <1>4, GUnchanged DEF GInv, callVars

LEMMA GEnvironment ==
    ASSUME GInv, [Next]_vars
    PROVE  /\ \A n \in Id : Stop(n) => GInv'
           /\ \A n \in Id, ep \in Endpoint : Start(n, ep) => GInv'
           /\ \A m \in net : Lose(m) => GInv'
           /\ \A m, o \in net : Overwrite(m, o) => GInv'
           /\ Tick => GInv'
           /\ UNCHANGED vars => GInv'
<1>0. CInv' /\ TypeOK /\ NodesType /\ TablesType /\ CallsType
  BY CNext, TypeParts DEF GInv, CInv
<1>1. ASSUME NEW n \in Id, Stop(n)
      PROVE  GInv'
  <2>0. UNCHANGED <<used, addr, result, net>>
    BY <1>1 DEF Stop, netVars
  <2>1. \A o \in Id : /\ table'[o] = IF o = n THEN << >> ELSE table[o]
                      /\ state'[o] = IF o = n THEN "Off" ELSE state[o]
                      /\ timers'[o] = IF o = n THEN 0 ELSE timers[o]
    BY <1>0, <1>1 DEF Stop, NodesType, TablesType
  <2>2. \A c \in Call : status'[c] = "done" => status[c] = "done"
    BY <1>0, <1>1 DEF Stop, CallsType
  <2>3. \A o \in Id, b \in Bootstrap : <<o, b>> \in booting' => o # n /\ <<o, b>> \in booting
    BY <1>1 DEF Stop
  <2>4. GTables' /\ GCalls' /\ GNodes' /\ GBooting'
    <3>1. GTables'
      BY <2>0, <2>1 DEF GInv, GTables
    <3>2. GCalls'
      BY <2>0, <2>2 DEF GInv, GCalls
    <3>3. GNodes'
      BY <2>0, <2>1 DEF GInv, GNodes
    <3>4. GBooting'
      BY <2>1, <2>3 DEF GInv, GBooting
    <3> QED BY <3>1, <3>2, <3>3, <3>4
  <2> QED BY <1>0, <2>0, <2>4, GUnchanged DEF GInv
<1>2. ASSUME NEW n \in Id, NEW ep \in Endpoint, Start(n, ep)
      PROVE  GInv'
  <2>1. /\ used' = used \union {<<n, ep>>} /\ addr' = [addr EXCEPT ![n] = ep]
        /\ state' = [state EXCEPT ![n] = "Started"]
        /\ UNCHANGED <<table, timers, booting, status, result, net>>
    BY <1>2 DEF Start, callVars, netVars
  <2>2. \A o \in Id : state'[o] # "Off" => <<o, addr'[o]>> \in used'
    BY <1>0, <2>1 DEF GInv, GNodes, NodesType
  <2>3. GNodes' /\ GBooting'
    BY <1>0, <2>1, <2>2 DEF GInv, GNodes, GBooting, NodesType
  <2> QED BY <1>0, <2>1, <2>3, GUnchanged DEF GInv
<1>3. ASSUME NEW m \in net, Lose(m)
      PROVE  GInv'
  <2>1. UNCHANGED <<used, table, state, addr, timers, booting, status, result>> /\ net' \subseteq net
    BY <1>3 DEF Lose, nodeVars, callVars, envVars
  <2> QED BY <1>0, <2>1, GUnchanged DEF GInv
<1>4. CASE Tick
  <2>1. UNCHANGED <<used, state, addr, timers, booting, status, result, net>>
    BY <1>4 DEF Tick, nodeVars, callVars, netVars
  <2>2. GTables'
    BY <1>0, <1>4, <2>1, TickSteps DEF GInv, GTables
  <2> QED BY <1>0, <2>1, <2>2, GUnchanged DEF GInv
<1>5. CASE UNCHANGED vars
  <2>1. UNCHANGED <<used, table, state, addr, timers, booting, status, result, net>>
    BY <1>5 DEF vars
  <2> QED BY <1>0, <2>1, GUnchanged DEF GInv
<1>6. ASSUME NEW m \in net, NEW o \in net, Overwrite(m, o)
      PROVE  GInv'
  <2>1. /\ UNCHANGED <<used, table, state, addr, timers, booting, status, result>>
        /\ \E d : net' = (net \ {m}) \union {d} /\ d.sender = o.sender /\ d.src = o.src
    BY <1>0, <1>6, OverwriteSteps DEF callVars, envVars
  <2>2. GNet'
    BY <1>6, <2>1 DEF GInv, GNet
  <2> QED BY <1>0, <2>1, <2>2, GUnchanged DEF GInv
<1> QED BY <1>1, <1>2, <1>3, <1>4, <1>5, <1>6

LEMMA GNext == GInv /\ [Next]_vars => GInv'
BY GReceive, GFindNode, GBootstrap, GPeriodicTask, GEnvironment DEF Next

LEMMA GInit == Init => GInv
<1> SUFFICES ASSUME Init PROVE GInv
  OBVIOUS
<1>1. GTables /\ GNet /\ GBooting
  BY DEF Init, GTables, GNet, GBooting
<1>2. GCalls /\ GNodes
  BY DhtAssumption DEF Init, GCalls, GNodes
<1> QED BY <1>1, <1>2, CInit DEF GInv

LEMMA GAlways == Spec => []GInv
BY GInit, GNext, PTL DEF Spec

\* Whoever a node lists, or hands to a caller, had the endpoint it is listed at, whatever
\* datagrams are lost, repeated or late, and whoever has the endpoint now.
THEOREM GenuineEndpoints == Spec => []EndpointsAreGenuine
<1>1. GInv => EndpointsAreGenuine
  BY DEF GInv, GTables, GCalls, EndpointsAreGenuine
<1> QED BY <1>1, GAlways, PTL

-----------------------------------------------------------------------------
(* The callbacks of bootstrap(). *)

\* m leads to a response to ep.
Expects(m, ep) == \/ m.type = "get_nodes" /\ m.src = ep
                  \/ m.type = "send_nodes" /\ m.dst = ep

\* Whoever gets a response at ep has called bootstrap(), or may get one nobody asked for.
Cleared(ep) == \A o \in Id : state[o] # "Off" /\ addr[o] = ep => o \in asked \union exposed

BNet == \A m \in net, ep \in Endpoint : Expects(m, ep) => Cleared(ep)

\* No two processes have the same endpoint.
BOwners == \A n, o \in Id : state[n] # "Off" /\ state[o] # "Off" /\ addr[n] = addr[o] => n = o

BAsked == \A n \in asked : state[n] # "Off" /\ timers[n] > 0

BReported ==
    \A n \in Id :
        /\ booted[n] \in {0, 1}
        /\ state[n] \in {"Off", "Started"} => booted[n] = 0
        /\ booted[n] = 1 => n \in asked
        /\ state[n] = "Bootstrapped" /\ n \notin exposed => booted[n] = 1

BInv == GInv /\ BNet /\ BOwners /\ BAsked /\ BReported

\* No process starts; what is sent expects no response, or one that may come.
LEMMA BKept ==
    ASSUME BInv, UNCHANGED <<addr, used>>, asked \subseteq asked', exposed \subseteq exposed',
           \A o \in Id : state'[o] # "Off" => state[o] # "Off",
           NEW sent, net' \subseteq net \union sent,
           \A m \in sent, ep \in Endpoint : Expects(m, ep) => Cleared(ep)'
    PROVE  BNet' /\ BOwners'
<1>1. \A ep \in Endpoint : Cleared(ep) => Cleared(ep)'
  BY DEF Cleared
<1>2. BNet'
  BY <1>1 DEF BInv, BNet, Expects
<1>3. BOwners'
  BY DEF BInv, BOwners
<1> QED BY <1>2, <1>3

\* A running node that has called bootstrap(), or may get a response, may ask for nodes.
LEMMA BAsks ==
    ASSUME BInv, NEW n \in Id, state[n] # "Off", UNCHANGED <<addr, used>>,
           \A o \in Id : state'[o] # "Off" => state[o] # "Off",
           n \in asked' \union exposed'
    PROVE  \A ep : ep = addr[n] => Cleared(ep)'
<1>1. \A o \in Id : state[o] # "Off" /\ addr[o] = addr[n] => o = n
  BY DEF BInv, BOwners
<1> QED BY <1>1 DEF Cleared

\* Nothing of bootstrap() changes.
LEMMA BUnchanged ==
    ASSUME BInv, UNCHANGED <<state, addr, timers, asked, booted, exposed, used>>, net' \subseteq net
    PROVE  BNet' /\ BOwners' /\ BAsked' /\ BReported'
<1>1. BNet' /\ BOwners'
  <2> DEFINE sent == {}
  <2>1. net' \subseteq net \union sent /\ \A m \in sent, ep \in Endpoint : Expects(m, ep) => Cleared(ep)'
    OBVIOUS
  <2>2. /\ UNCHANGED <<addr, used>> /\ asked \subseteq asked' /\ exposed \subseteq exposed'
        /\ \A o \in Id : state'[o] # "Off" => state[o] # "Off"
    OBVIOUS
  <2> HIDE DEF sent
  <2> QED BY <2>1, <2>2, BKept
<1>2. BAsked'
  BY DEF BInv, BAsked
<1>3. BReported'
  BY DEF BInv, BReported
<1> QED BY <1>1, <1>2, <1>3

LEMMA BBootstrap ==
    ASSUME BInv, NEW n \in Id, NEW b \in Bootstrap, CheckStarted(n, b) \/ CallBootstrap(n, b)
    PROVE  BNet' /\ BOwners' /\ BAsked' /\ BReported'
<1>0. NodesType /\ UNCHANGED <<state, addr, booted, exposed, used>>
  <2>1. NodesType
    BY TypeParts DEF BInv, GInv, CInv
  <2> QED BY <2>1 DEF CheckStarted, CallBootstrap, envVars
<1>1. CASE CheckStarted(n, b)
  <2>1. timers' = [timers EXCEPT ![n] = timers[n] + 1] /\ UNCHANGED <<asked, net>>
    BY <1>1 DEF CheckStarted, netVars
  <2>2. BNet' /\ BOwners'
    <3> DEFINE sent == {}
    <3>1. net' \subseteq net \union sent /\ \A m \in sent, ep \in Endpoint : Expects(m, ep) => Cleared(ep)'
      BY <2>1
    <3>2. /\ UNCHANGED <<addr, used>> /\ asked \subseteq asked' /\ exposed \subseteq exposed'
          /\ \A o \in Id : state'[o] # "Off" => state[o] # "Off"
      BY <1>0, <2>1
    <3> HIDE DEF sent
    <3> QED BY <3>1, <3>2, BKept
  <2>3. \A o \in Id : timers[o] > 0 => timers'[o] > 0
    BY <1>0, <2>1, DhtAssumption DEF NodesType
  <2>4. BAsked'
    BY <1>0, <2>1, <2>3 DEF BInv, BAsked, NodesType
  <2>5. BReported'
    BY <1>0, <2>1 DEF BInv, BReported
  <2> QED BY <2>2, <2>4, <2>5
<1>2. CASE CallBootstrap(n, b)
  <2>1. /\ asked' = asked \union {n} /\ UNCHANGED timers /\ <<n, b>> \in booting
        /\ net' = net \union {GetNodes(n, home[b], n)}
    BY <1>2 DEF CallBootstrap
  <2>2. state[n] # "Off" /\ timers[n] > 0
    BY <2>1 DEF BInv, GInv, GBooting
  <2>3. BNet' /\ BOwners'
    <3> DEFINE sent == {GetNodes(n, home[b], n)}
    <3>1. \A ep : ep = addr[n] => Cleared(ep)'
      BY <1>0, <2>1, <2>2, BAsks
    <3>2. \A m \in sent : m.type = "get_nodes" /\ m.src = addr[n]
      BY DEF GetNodes
    <3>3. net' \subseteq net \union sent
      BY <2>1
    <3> HIDE DEF sent
    <3>4. \A m \in sent, ep \in Endpoint : Expects(m, ep) => Cleared(ep)'
      BY <3>1, <3>2 DEF Expects
    <3> QED BY <1>0, <2>1, <3>3, <3>4, BKept
  <2>4. BAsked'
    BY <1>0, <2>1, <2>2 DEF BInv, BAsked
  <2>5. BReported'
    BY <1>0, <2>1 DEF BInv, BReported
  <2> QED BY <2>3, <2>4, <2>5
<1> QED BY <1>1, <1>2

LEMMA BFindNode ==
    ASSUME BInv, NEW c \in Call, LookupHit(c) \/ LookupMiss(c) \/ Register(c)
    PROVE  BNet' /\ BOwners' /\ BAsked' /\ BReported'
<1> DEFINE n == caller[c]
<1>1. CASE LookupHit(c) \/ LookupMiss(c)
  <2>1. UNCHANGED <<state, addr, timers, asked, booted, exposed, used>> /\ UNCHANGED net
    BY <1>1 DEF LookupHit, LookupMiss, nodeVars, netVars, envVars
  <2> QED BY <2>1, BUnchanged
<1>2. CASE Register(c)
  <2>1. PICK eps :
           /\ net' = net \union {GetNodes(n, ep, target[c]) : ep \in eps}
           /\ exposed' = IF n \notin asked /\ eps # {} THEN exposed \union {n} ELSE exposed
    BY <1>2 DEF Register
  <2>2. n \in Id /\ state[n] # "Off" /\ UNCHANGED <<state, addr, timers, asked, booted, used>>
    BY <1>2, DhtAssumption DEF Register, envVars
  <2>3. BNet' /\ BOwners'
    <3> DEFINE sent == {GetNodes(n, ep, target[c]) : ep \in eps}
    <3>1. eps # {} => \A ep : ep = addr[n] => Cleared(ep)'
      <4>1. eps # {} => n \in asked' \union exposed'
        BY <2>1, <2>2
      <4> HIDE DEF n
      <4> QED BY <2>2, <4>1, BAsks
    <3>2. \A m \in sent : eps # {} /\ m.type = "get_nodes" /\ m.src = addr[n]
      BY DEF GetNodes
    <3>3. net' \subseteq net \union sent
      BY <2>1
    <3>4. asked \subseteq asked' /\ exposed \subseteq exposed'
      BY <2>1, <2>2
    <3> HIDE DEF sent, n
    <3>5. \A m \in sent, ep \in Endpoint : Expects(m, ep) => Cleared(ep)'
      BY <3>1, <3>2 DEF Expects
    <3> QED BY <2>2, <3>3, <3>4, <3>5, BKept
  <2>4. BAsked'
    BY <2>2 DEF BInv, BAsked
  <2>5. BReported'
    BY <2>1, <2>2 DEF BInv, BReported
  <2> QED BY <2>3, <2>4, <2>5
<1> QED BY <1>1, <1>2

LEMMA BReceive ==
    ASSUME BInv, NEW n \in Id, NEW m \in net, Receive(n, m)
    PROVE  BNet' /\ BOwners' /\ BAsked' /\ BReported'
<1>0. NodesType /\ UNCHANGED <<addr, timers, asked, exposed, used>>
  <2>1. NodesType
    BY TypeParts DEF BInv, GInv, CInv
  <2> QED BY <2>1 DEF Receive, HandlePing, HandlePong, HandleGetNodes, HandleSendNodes, nodeVars, envVars
<1>1. CASE HandlePing(n, m) \/ HandlePong(n, m) \/ HandleGetNodes(n, m)
  <2>1. UNCHANGED <<state, booted>>
    BY <1>1 DEF HandlePing, HandlePong, HandleGetNodes, nodeVars
  <2>2. PICK replies :
           /\ Handled(n, m, replies)
           /\ \A r \in replies :
                \/ r.type \in {"ping", "pong"}
                \/ m.type = "get_nodes" /\ r.type = "send_nodes" /\ r.dst = m.src
    <3>1. CASE HandlePing(n, m)
      BY <3>1 DEF HandlePing, Pong
    <3>2. CASE HandlePong(n, m)
      BY <3>2 DEF HandlePong
    <3>3. CASE HandleGetNodes(n, m)
      BY <3>3 DEF HandleGetNodes, SendNodes
    <3> QED BY <1>1, <3>1, <3>2, <3>3
  <2>3. BNet' /\ BOwners'
    <3> DEFINE sent == replies \union EvictionPing(n, m)
    <3>1. net' \subseteq net \union sent
      BY <2>2, HandledNet
    <3>2. ASSUME NEW r \in sent, NEW ep \in Endpoint, Expects(r, ep)
          PROVE  Cleared(ep)'
      <4>1. m.type = "get_nodes" /\ m.src = ep
        BY <2>2, <3>2, HandledNet DEF Expects
      <4>2. Cleared(ep)
        BY <4>1 DEF BInv, BNet, Expects
      <4> QED BY <1>0, <2>1, <4>2 DEF Cleared
    <3> HIDE DEF sent
    <3> QED BY <1>0, <2>1, <3>1, <3>2, BKept
  <2>4. BAsked'
    BY <1>0, <2>1 DEF BInv, BAsked
  <2>5. BReported'
    BY <1>0, <2>1 DEF BInv, BReported
  <2> QED BY <2>3, <2>4, <2>5
<1>2. CASE HandleSendNodes(n, m)
  <2>1. /\ m.type = "send_nodes" /\ state' = [state EXCEPT ![n] = "Bootstrapped"]
        /\ Handled(n, m, {Ping(n, ep) : ep \in ToPing(n, m)})
        /\ booted' = IF Reports(n) THEN [booted EXCEPT ![n] = booted[n] + 1] ELSE booted
    BY <1>2 DEF HandleSendNodes
  <2>2. m.dst = addr[n] /\ state[n] # "Off"
    BY <2>1, HandledNet
  <2>3. \A o \in Id : state'[o] = IF o = n THEN "Bootstrapped" ELSE state[o]
    BY <1>0, <2>1 DEF NodesType
  <2>4. \A o \in Id : booted'[o] = IF o = n /\ Reports(n) THEN booted[n] + 1 ELSE booted[o]
    BY <1>0, <2>1 DEF NodesType
  <2>5. n \in asked \union exposed
    <3>1. m.dst \in Endpoint
      BY DatagramFields DEF BInv, GInv, CInv
    <3> QED BY <2>1, <2>2, <3>1 DEF BInv, BNet, Expects, Cleared
  <2>6. BNet' /\ BOwners'
    <3> DEFINE replies == {Ping(n, ep) : ep \in ToPing(n, m)}
               sent == replies \union EvictionPing(n, m)
    <3>1. net' \subseteq net \union sent
      BY <2>1, HandledNet
    <3>2. \A r \in replies : r.type = "ping"
      BY DEF Ping
    <3>3. \A r \in EvictionPing(n, m) : r.type = "ping"
      BY <2>1, HandledNet
    <3>4. \A r \in sent, ep \in Endpoint : Expects(r, ep) => Cleared(ep)'
      BY <3>2, <3>3 DEF Expects
    <3>5. \A o \in Id : state'[o] # "Off" => state[o] # "Off"
      BY <2>2, <2>3
    <3> HIDE DEF sent
    <3> QED BY <1>0, <3>1, <3>4, <3>5, BKept
  <2>7. BAsked'
    BY <1>0, <2>3 DEF BInv, BAsked, NodesType
  <2>8. BReported'
    <3>1. SUFFICES ASSUME NEW o \in Id
                   PROVE  /\ booted'[o] \in {0, 1}
                          /\ state'[o] \in {"Off", "Started"} => booted'[o] = 0
                          /\ booted'[o] = 1 => o \in asked
                          /\ state'[o] = "Bootstrapped" /\ o \notin exposed => booted'[o] = 1
      BY <1>0 DEF BReported
    <3>2. CASE o # n
      BY <2>3, <2>4, <3>2 DEF BInv, BReported
    <3>3. CASE o = n /\ Reports(n)
      BY <2>3, <2>4, <3>3 DEF BInv, BReported, Reports
    <3>4. CASE o = n /\ ~Reports(n)
      <4>1. booted'[n] = booted[n] /\ state'[n] = "Bootstrapped"
        BY <2>3, <2>4, <3>4
      <4>2. n \notin exposed => state[n] = "Bootstrapped"
        BY <1>0, <2>2, <2>5, <3>4 DEF Reports, NodesType
      <4> QED BY <3>4, <4>1, <4>2 DEF BInv, BReported
    <3> QED BY <3>2, <3>3, <3>4
  <2> QED BY <2>6, <2>7, <2>8
<1> QED BY <1>1, <1>2 DEF Receive

LEMMA BPeriodicTask ==
    ASSUME BInv, NEW n \in Id, NEW p \in 0 .. K, PeriodicTask(n, p)
    PROVE  BNet' /\ BOwners' /\ BAsked' /\ BReported'
<1>0. TypeOK /\ UNCHANGED <<state, addr, timers, asked, booted, used>>
  BY DEF BInv, GInv, CInv, PeriodicTask
<1>1. /\ state[n] # "Off"
      /\ exposed' = IF n \notin asked /\ p # 0 THEN exposed \union {n} ELSE exposed
  BY DEF PeriodicTask
<1>2. PICK swept :
         net' = net
              \union (IF p = 0 THEN {} ELSE {GetNodes(n, table[n][p].endpoint, n)})
              \union {Ping(n, swept[q].endpoint) : q \in {r \in DOMAIN swept : Due(swept[r])}}
  BY DEF PeriodicTask
<1>3. BNet' /\ BOwners'
  <2> DEFINE requests == IF p = 0 THEN {} ELSE {GetNodes(n, table[n][p].endpoint, n)}
             pings == {Ping(n, swept[q].endpoint) : q \in {r \in DOMAIN swept : Due(swept[r])}}
             sent == requests \union pings
  <2>1. net' \subseteq net \union sent
    BY <1>2
  <2>2. \A r \in pings : r.type = "ping"
    BY DEF Ping
  <2>3. \A r \in requests : p # 0 /\ r.type = "get_nodes" /\ r.src = addr[n]
    BY DEF GetNodes
  <2>4. p # 0 => \A ep : ep = addr[n] => Cleared(ep)'
    <3>1. p # 0 => n \in asked' \union exposed'
      BY <1>0, <1>1
    <3> QED BY <1>0, <1>1, <3>1, BAsks
  <2> HIDE DEF requests, pings
  <2>5. \A r \in sent, ep \in Endpoint : Expects(r, ep) => Cleared(ep)'
    BY <2>2, <2>3, <2>4 DEF Expects
  <2>6. asked \subseteq asked' /\ exposed \subseteq exposed'
    BY <1>0, <1>1
  <2> HIDE DEF sent
  <2> QED BY <1>0, <2>1, <2>5, <2>6, BKept
<1>4. BAsked'
  BY <1>0 DEF BInv, BAsked
<1>5. BReported'
  BY <1>0, <1>1 DEF BInv, BReported
<1> QED BY <1>3, <1>4, <1>5

LEMMA BStop ==
    ASSUME BInv, NEW n \in Id, Stop(n)
    PROVE  BNet' /\ BOwners' /\ BAsked' /\ BReported'
<1>0. /\ UNCHANGED <<addr, used, net>> /\ NodesType
      /\ asked' = asked \ {n} /\ exposed' = exposed \ {n}
  BY TypeParts DEF BInv, GInv, CInv, Stop, netVars
<1>1. \A o \in Id : /\ state'[o] = IF o = n THEN "Off" ELSE state[o]
                    /\ timers'[o] = IF o = n THEN 0 ELSE timers[o]
                    /\ booted'[o] = IF o = n THEN 0 ELSE booted[o]
  BY <1>0 DEF Stop, NodesType
<1>2. \A ep \in Endpoint : Cleared(ep) => Cleared(ep)'
  BY <1>0, <1>1 DEF Cleared
<1>3. BNet'
  BY <1>0, <1>2 DEF BInv, BNet, Expects
<1>4. BOwners'
  BY <1>0, <1>1 DEF BInv, BOwners
<1>5. BAsked'
  BY <1>0, <1>1 DEF BInv, BAsked, NodesType
<1>6. BReported'
  BY <1>0, <1>1 DEF BInv, BReported
<1> QED BY <1>3, <1>4, <1>5, <1>6

\* What overwrites a request asks on behalf of the same sender, and whoever gets a response
\* that overwrites something else is exposed.
LEMMA BOverwrite ==
    ASSUME BInv, NEW m \in net, NEW o \in net, Overwrite(m, o)
    PROVE  BNet' /\ BOwners' /\ BAsked' /\ BReported'
<1>0. TypeOK
  BY DEF BInv, GInv, CInv
<1>1. PICK d \in Datagram :
         /\ net' = (net \ {m}) \union {d}
         /\ d.type = o.type /\ d.sender = o.sender /\ d.src = o.src /\ d.dst = m.dst
         /\ d.type = "send_nodes" => Owners(m.dst) \subseteq exposed'
  BY <1>0, OverwriteSteps
<1>2. UNCHANGED <<state, addr, timers, asked, booted, used>> /\ exposed \subseteq exposed'
  BY <1>0, OverwriteSteps DEF envVars
<1>3. ASSUME NEW ep \in Endpoint, Expects(d, ep)
      PROVE  Cleared(ep)'
  <2>1. CASE d.type = "get_nodes" /\ d.src = ep
    <3>1. Expects(o, ep)
      BY <1>1, <2>1 DEF Expects
    <3>2. Cleared(ep)
      BY <3>1 DEF BInv, BNet
    <3> QED BY <1>2, <3>2 DEF Cleared
  <2>2. CASE d.type = "send_nodes" /\ d.dst = ep
    BY <1>1, <1>2, <2>2 DEF Cleared, Owners
  <2> QED BY <1>3, <2>1, <2>2 DEF Expects
<1>4. BNet' /\ BOwners'
  <2> DEFINE sent == {d}
  <2>1. net' \subseteq net \union sent /\ \A r \in sent, ep \in Endpoint : Expects(r, ep) => Cleared(ep)'
    BY <1>1, <1>3
  <2> HIDE DEF sent
  <2> QED BY <1>2, <2>1, BKept
<1>5. BAsked'
  BY <1>2 DEF BInv, BAsked
<1>6. BReported'
  BY <1>2 DEF BInv, BReported
<1> QED BY <1>4, <1>5, <1>6

\* A process starts at an endpoint nobody has: a response to it may be under way only if
\* somebody had it before, or it is on its way already.
LEMMA BStart ==
    ASSUME BInv, NEW n \in Id, NEW ep \in Endpoint, Start(n, ep)
    PROVE  BNet' /\ BOwners' /\ BAsked' /\ BReported'
<1>0. /\ NodesType /\ state[n] = "Off" /\ Owners(ep) = {}
      /\ used' = used \union {<<n, ep>>} /\ UNCHANGED <<timers, asked, booted, net>>
      /\ exposed' = IF Awaited(ep) \/ \E i \in Id : <<i, ep>> \in used
                    THEN exposed \union {n} ELSE exposed
  BY TypeParts DEF BInv, GInv, CInv, Start, netVars
<1>1. \A o \in Id : /\ state'[o] = IF o = n THEN "Started" ELSE state[o]
                    /\ addr'[o] = IF o = n THEN ep ELSE addr[o]
  BY <1>0 DEF Start, NodesType
<1>2. \A o \in Id : state[o] # "Off" => addr[o] # ep
  BY <1>0 DEF Owners
<1>3. ASSUME NEW m \in net, NEW e \in Endpoint, Expects(m, e)
      PROVE  Cleared(e)'
  <2>1. CASE e = ep
    <3>1. n \in exposed'
      <4>1. CASE m.type = "get_nodes" /\ m.src = ep
        <5>1. m.sender \in Id /\ <<m.sender, ep>> \in used
          BY <4>1, DatagramFields DEF BInv, GInv, CInv, GNet
        <5> QED BY <1>0, <5>1
      <4>2. CASE m.type = "send_nodes" /\ m.dst = ep
        <5>1. Awaited(ep)
          BY <4>2 DEF Awaited
        <5> QED BY <1>0, <5>1
      <4> QED BY <1>3, <2>1, <4>1, <4>2 DEF Expects
    <3> QED BY <1>1, <1>2, <2>1, <3>1 DEF Cleared
  <2>2. CASE e # ep
    <3>1. Cleared(e)
      BY <1>3 DEF BInv, BNet
    <3>2. asked' = asked /\ exposed \subseteq exposed'
      BY <1>0
    <3> QED BY <1>1, <2>2, <3>1, <3>2 DEF Cleared
  <2> QED BY <2>1, <2>2
<1>4. BNet'
  BY <1>0, <1>3 DEF BNet, Expects
<1>5. BOwners'
  BY <1>1, <1>2 DEF BInv, BOwners
<1>6. BAsked'
  BY <1>0, <1>1 DEF BInv, BAsked, NodesType
<1>7. BReported'
  BY <1>0, <1>1 DEF BInv, BReported
<1> QED BY <1>4, <1>5, <1>6, <1>7

LEMMA BNext == BInv /\ [Next]_vars => BInv'
<1> SUFFICES ASSUME BInv, [Next]_vars
             PROVE  BNet' /\ BOwners' /\ BAsked' /\ BReported'
  BY GNext DEF BInv
<1>1. CASE UNCHANGED vars
  <2>1. UNCHANGED <<state, addr, timers, asked, booted, exposed, used>> /\ UNCHANGED net
    BY <1>1 DEF vars
  <2> QED BY <2>1, BUnchanged
<1>2. ASSUME NEW m \in net, Lose(m)
      PROVE  BNet' /\ BOwners' /\ BAsked' /\ BReported'
  <2>1. UNCHANGED <<state, addr, timers, asked, booted, exposed, used>> /\ net' \subseteq net
    BY <1>2 DEF Lose, nodeVars, envVars
  <2> QED BY <2>1, BUnchanged
<1>3. CASE Tick
  <2>1. UNCHANGED <<state, addr, timers, asked, booted, exposed, used>> /\ UNCHANGED net
    BY <1>3 DEF Tick, nodeVars, netVars
  <2> QED BY <2>1, BUnchanged
<1> QED BY <1>1, <1>2, <1>3, BBootstrap, BFindNode, BReceive, BPeriodicTask, BOverwrite, BStop, BStart DEF Next

LEMMA BInit == Init => BInv
<1> SUFFICES ASSUME Init PROVE BInv
  OBVIOUS
<1>1. BNet /\ BAsked
  BY DEF Init, BNet, BAsked
<1>2. BOwners
  BY DhtAssumption, HomeAssumption DEF Init, BOwners
<1>3. BReported
  BY DEF Init, BReported
<1> QED BY <1>1, <1>2, <1>3, GInit DEF BInv

\* A process tells its callers at most once that it is Bootstrapped, and does so unless a
\* response came that bootstrap() had not asked for.
THEOREM BootstrapReported == Spec => []BootstrapIsReported
<1>1. BInv => BootstrapIsReported
  <2> SUFFICES ASSUME BInv, NEW n \in Id
               PROVE  /\ booted[n] <= 1
                      /\ booted[n] = 1 => state[n] = "Bootstrapped" /\ n \in asked /\ timers[n] > 0
                      /\ state[n] = "Bootstrapped" /\ n \notin exposed => booted[n] = 1
    BY DEF BootstrapIsReported
  <2>1. state[n] \in {"Off", "Started", "Bootstrapped"}
    BY TypeParts DEF BInv, GInv, CInv, NodesType
  <2> QED BY <2>1 DEF BInv, BReported, BAsked
<1>2. Spec => []BInv
  BY BInit, BNext, PTL DEF Spec
<1> QED BY <1>1, <1>2, PTL

-----------------------------------------------------------------------------
(* Expiry. *)

\* No entry is older than the run, so that the subtraction of the time stamps does not wrap.
NAges == \A n \in Id : \A p \in DOMAIN table[n] : table[n][p].idle \in 0 .. now

NInv == TypeOK /\ NAges /\ GoneAreForgotten

LEMMA DiffOfAge ==
    ASSUME NEW e \in Entry, e.idle \in 0 .. MaxTime
    PROVE  Diff(e) = e.idle
<1>1. e.idle \in Nat /\ e.idle < Wrap /\ Wrap \in Nat
  BY ClockAssumption, DhtAssumption
<1>2. \A x, w \in Nat : x < w => x % w = x
  OBVIOUS
<1> QED BY <1>1, <1>2 DEF Diff

\* The tables grow no older, and what the clocks and timers say of them stays.
LEMMA NKept ==
    ASSUME NInv, UNCHANGED <<now, timers, began, sinceTask>>,
           \A n \in Id : \A p \in DOMAIN table'[n] :
              table'[n][p].idle = 0 \/ \E q \in DOMAIN table[n] : table'[n][p].idle = table[n][q].idle
    PROVE  NAges' /\ GoneAreForgotten'
<1>0. now \in Nat /\ sinceTask \in [Id -> Nat]
  BY TypeParts, DhtAssumption DEF NInv, HistoryType
<1>1. NAges'
  BY <1>0 DEF NInv, NAges
<1>2. GoneAreForgotten'
  <2>1. Timed' = Timed /\ Timed \subseteq Id
    BY DhtAssumption DEF Timed
  <2>2. ASSUME NEW n \in Timed, NEW p \in DOMAIN table'[n]
        PROVE  table'[n][p].idle <= ExpiredTime + sinceTask[n] \/ table'[n][p].idle > now - began[n]
    <3>1. n \in Id /\ sinceTask[n] \in Nat
      BY <1>0, <2>1
    <3>2. CASE table'[n][p].idle = 0
      BY <3>1, <3>2
    <3>3. CASE \E q \in DOMAIN table[n] : table'[n][p].idle = table[n][q].idle
      BY <3>3 DEF NInv, GoneAreForgotten
    <3> QED BY <3>1, <3>2, <3>3
  <2> QED BY <2>1, <2>2 DEF GoneAreForgotten
<1> QED BY <1>1, <1>2

LEMMA NReceive ==
    ASSUME NInv, NEW n \in Id, NEW m \in net, Receive(n, m)
    PROVE  NAges' /\ GoneAreForgotten'
<1>1. UNCHANGED <<now, timers, began, sinceTask>>
  BY DEF Receive, HandlePing, HandlePong, HandleGetNodes, HandleSendNodes, nodeVars, envVars, clockVars
<1>2. \E replies : Handled(n, m, replies)
  BY DEF Receive, HandlePing, HandlePong, HandleGetNodes, HandleSendNodes
<1>3. \A o \in Id : \A p \in DOMAIN table'[o] :
         \/ table'[o][p] = Fresh(m.sender, m.src)
         \/ \E q \in DOMAIN table[o] : table'[o][p] = table[o][q]
  BY <1>2, HandledTable DEF NInv
<1>4. Fresh(m.sender, m.src).idle = 0
  BY DEF Fresh
<1>5. \A o \in Id : \A p \in DOMAIN table'[o] :
         table'[o][p].idle = 0 \/ \E q \in DOMAIN table[o] : table'[o][p].idle = table[o][q].idle
  BY <1>3, <1>4
<1> QED BY <1>1, <1>5, NKept

LEMMA NPeriodicTask ==
    ASSUME NInv, NEW n \in Id, NEW p \in 0 .. K, PeriodicTask(n, p)
    PROVE  NAges' /\ GoneAreForgotten'
<1>0. /\ TypeOK /\ HistoryType /\ TablesType /\ UNCHANGED <<now, timers, began>>
      /\ sinceTask' = [sinceTask EXCEPT ![n] = 0]
  BY TypeParts DEF NInv, PeriodicTask
<1>1. \E swept \in Swept(table[n]) :
        /\ \A q \in DOMAIN swept : \E r \in DOMAIN table[n] :
             swept[q] = Marked(table[n][r]) /\ ~Expired(table[n][r])
        /\ table' = [table EXCEPT ![n] = swept]
  BY <1>0, PeriodicTaskSteps
<1>2. PICK swept \in Swept(table[n]) :
        /\ \A q \in DOMAIN swept : \E r \in DOMAIN table[n] :
             swept[q] = Marked(table[n][r]) /\ ~Expired(table[n][r])
        /\ table' = [table EXCEPT ![n] = swept]
  BY <1>1
<1>3. \A o \in Id : table'[o] = IF o = n THEN swept ELSE table[o]
  BY <1>0, <1>2 DEF TablesType
<1>4. ASSUME NEW q \in DOMAIN swept
      PROVE  swept[q].idle \in 0 .. now /\ swept[q].idle <= ExpiredTime
  <2>1. PICK r \in DOMAIN table[n] : swept[q] = Marked(table[n][r]) /\ ~Expired(table[n][r])
    BY <1>2
  <2>2. table[n][r] \in Entry
    BY <1>0, EntryFields DEF TablesType
  <2>3. swept[q].idle = table[n][r].idle
    BY <2>1, <2>2 DEF Marked, Entry
  <2>4. table[n][r].idle \in 0 .. now /\ now \in 0 .. MaxTime
    BY <1>0 DEF NInv, NAges, HistoryType
  <2>5. Diff(table[n][r]) = table[n][r].idle
    BY <2>2, <2>4, DiffOfAge, DhtAssumption
  <2> QED BY <2>1, <2>3, <2>4, <2>5 DEF Expired
<1>5. NAges'
  BY <1>0, <1>3, <1>4 DEF NInv, NAges
<1>6. GoneAreForgotten'
  <2>1. \A o \in Id : sinceTask'[o] = IF o = n THEN 0 ELSE sinceTask[o]
    BY <1>0 DEF HistoryType
  <2>2. Timed' = Timed /\ Timed \subseteq Id
    BY <1>0, DhtAssumption DEF Timed
  <2>3. \A o \in Timed : \A q \in DOMAIN table'[o] :
           table'[o][q].idle <= ExpiredTime + sinceTask'[o] \/ table'[o][q].idle > now - began[o]
    <3>1. \A q \in DOMAIN table'[n] : table'[n][q].idle <= ExpiredTime + sinceTask'[n]
      BY <1>3, <1>4, <2>1
    <3>2. \A o \in Timed : o # n => table'[o] = table[o] /\ sinceTask'[o] = sinceTask[o]
      BY <1>3, <2>1, <2>2
    <3> QED BY <3>1, <3>2 DEF NInv, GoneAreForgotten
  <2> QED BY <1>0, <2>2, <2>3 DEF GoneAreForgotten
<1> QED BY <1>5, <1>6

LEMMA NCheckStarted ==
    ASSUME NInv, NEW n \in Id, NEW b \in Bootstrap, CheckStarted(n, b)
    PROVE  NAges' /\ GoneAreForgotten'
<1>0. /\ NodesType /\ HistoryType /\ UNCHANGED <<now, table, sinceTask>>
      /\ timers' = [timers EXCEPT ![n] = timers[n] + 1]
      /\ began' = IF timers[n] = 0 THEN [began EXCEPT ![n] = now] ELSE began
  BY TypeParts DEF NInv, CheckStarted, netVars
<1>1. NAges'
  BY <1>0 DEF NInv, NAges
<1>2. ASSUME NEW o \in Timed', NEW p \in DOMAIN table[o]
      PROVE  table[o][p].idle <= ExpiredTime + sinceTask[o] \/ table[o][p].idle > now - began'[o]
  <2>0. o \in Id /\ o \in Periodic /\ timers'[o] > 0
    BY DhtAssumption DEF Timed
  <2>1. table[o][p].idle \in 0 .. now /\ now \in Nat /\ sinceTask[o] \in Nat
    BY <1>0, <2>0, DhtAssumption DEF NInv, NAges, HistoryType
  <2>2. CASE o = n /\ timers[n] = 0
    <3>1. began'[o] = now
      BY <1>0, <2>0, <2>2 DEF HistoryType
    <3> QED BY <2>1, <3>1
  <2>3. CASE ~(o = n /\ timers[n] = 0)
    <3>1. timers[o] > 0 /\ began'[o] = began[o]
      BY <1>0, <2>0, <2>3, DhtAssumption DEF NodesType, HistoryType
    <3> QED BY <2>0, <3>1 DEF NInv, GoneAreForgotten, Timed
  <2> QED BY <2>2, <2>3
<1>3. GoneAreForgotten'
  BY <1>0, <1>2 DEF GoneAreForgotten
<1> QED BY <1>1, <1>3

LEMMA NStop ==
    ASSUME NInv, NEW n \in Id, Stop(n)
    PROVE  NAges' /\ GoneAreForgotten'
<1>0. /\ NodesType /\ HistoryType /\ TablesType /\ UNCHANGED now
  BY TypeParts DEF NInv, Stop
<1>1. \A o \in Id : /\ table'[o] = IF o = n THEN << >> ELSE table[o]
                    /\ timers'[o] = IF o = n THEN 0 ELSE timers[o]
                    /\ sinceTask'[o] = IF o = n THEN 0 ELSE sinceTask[o]
                    /\ began'[o] = IF o = n THEN 0 ELSE began[o]
  BY <1>0 DEF Stop, NodesType, HistoryType, TablesType
<1>2. NAges'
  BY <1>0, <1>1 DEF NInv, NAges
<1>3. \A o \in Timed' : o \in Timed /\ o # n /\ o \in Id
  BY <1>1, DhtAssumption DEF Timed
<1>4. GoneAreForgotten'
  BY <1>0, <1>1, <1>3 DEF NInv, GoneAreForgotten
<1> QED BY <1>2, <1>4

LEMMA NTick ==
    ASSUME NInv, Tick
    PROVE  NAges' /\ GoneAreForgotten'
<1>0. TypeOK /\ HistoryType /\ TablesType /\ UNCHANGED <<timers, began>>
  BY TypeParts DEF NInv, Tick, nodeVars
<1>1. /\ now' = now + 1
      /\ \A n \in Id : /\ DOMAIN table'[n] = DOMAIN table[n]
                       /\ \A p \in DOMAIN table[n] : table'[n][p].idle = table[n][p].idle + 1
  BY <1>0, TickSteps DEF NInv
<1>2. NAges'
  <2>1. now \in Nat
    BY <1>0, DhtAssumption DEF HistoryType
  <2> QED BY <1>1, <2>1 DEF NInv, NAges
<1>3. Timed' = Timed /\ Timed \subseteq Id
  BY <1>0, DhtAssumption DEF Timed
<1>4. ASSUME NEW n \in Timed, NEW p \in DOMAIN table'[n]
      PROVE  table'[n][p].idle <= ExpiredTime + sinceTask'[n] \/ table'[n][p].idle > now' - began[n]
  <2>1. sinceTask'[n] = sinceTask[n] + 1
    BY <1>3 DEF Tick
  <2>2. p \in DOMAIN table[n] /\ table'[n][p].idle = table[n][p].idle + 1
    BY <1>1, <1>3
  <2>3. table[n][p].idle <= ExpiredTime + sinceTask[n] \/ table[n][p].idle > now - began[n]
    BY <2>2 DEF NInv, GoneAreForgotten
  <2>4. table[n][p].idle \in Int /\ sinceTask[n] \in Nat /\ now \in Nat /\ began[n] \in Nat
    BY <1>0, <1>3, <2>2, EntryFields, DhtAssumption DEF HistoryType, TablesType
  <2> QED BY <1>1, <2>1, <2>2, <2>3, <2>4
<1>5. GoneAreForgotten'
  BY <1>0, <1>3, <1>4 DEF GoneAreForgotten
<1> QED BY <1>2, <1>5

LEMMA NNext == NInv /\ [Next]_vars => NInv'
<1> SUFFICES ASSUME NInv, [Next]_vars PROVE NAges' /\ GoneAreForgotten'
  BY TNext DEF NInv
<1>1. ASSUME UNCHANGED <<now, timers, began, sinceTask, table>>
      PROVE  NAges' /\ GoneAreForgotten'
  BY <1>1, NKept
<1>2. CASE UNCHANGED vars
  BY <1>1, <1>2 DEF vars
<1>3. ASSUME NEW n \in Id, NEW b \in Bootstrap, CallBootstrap(n, b)
      PROVE  NAges' /\ GoneAreForgotten'
  BY <1>1, <1>3 DEF CallBootstrap, envVars, clockVars
<1>4. ASSUME NEW c \in Call, LookupHit(c) \/ LookupMiss(c) \/ Register(c)
      PROVE  NAges' /\ GoneAreForgotten'
  BY <1>1, <1>4 DEF LookupHit, LookupMiss, Register, nodeVars, envVars, clockVars
<1>5. ASSUME NEW m \in net, Lose(m)
      PROVE  NAges' /\ GoneAreForgotten'
  BY <1>1, <1>5 DEF Lose, nodeVars, envVars, clockVars
<1>6. ASSUME NEW n \in Id, NEW ep \in Endpoint, Start(n, ep)
      PROVE  NAges' /\ GoneAreForgotten'
  BY <1>1, <1>6 DEF Start
<1>7. ASSUME NEW m \in net, NEW o \in net, Overwrite(m, o)
      PROVE  NAges' /\ GoneAreForgotten'
  BY <1>1, <1>7 DEF Overwrite, envVars, clockVars
<1> QED BY <1>2, <1>3, <1>4, <1>5, <1>6, <1>7, NCheckStarted, NReceive, NPeriodicTask, NStop, NTick DEF Next

LEMMA NInit == Init => NInv
<1> SUFFICES ASSUME Init PROVE NInv
  OBVIOUS
<1>1. \A n \in Id : table[n] = << >>
  BY DEF Init
<1>2. NAges
  BY <1>1 DEF NAges
<1>3. GoneAreForgotten
  BY <1>1, DhtAssumption DEF GoneAreForgotten, Timed
<1> QED BY <1>2, <1>3, TInit DEF NInv

\* A node whose timer runs keeps no peer that has been silent for longer than the limit
\* and the time since its last sweep, once its timer has run that long.
THEOREM GoneForgotten == Spec => []GoneAreForgotten
<1>1. NInv => GoneAreForgotten
  BY DEF NInv
<1>2. Spec => []NInv
  BY NInit, NNext, PTL DEF Spec
<1> QED BY <1>1, <1>2, PTL

-----------------------------------------------------------------------------
(* Who comes back to a full table. *)

\* Nothing is lost or overwritten, no process stops, and no entry is old enough to expire.
Reliable == ~Lossy /\ ~Overwriting /\ MaxStops = 0 /\ MaxTime <= ExpiredTime

\* While processes only start, whoever has sent a datagram, is listed or was heard from
\* is still where it was.
ENet == \A m \in net : state[m.sender] # "Off" /\ m.src = addr[m.sender]

ETables ==
    \A n \in Id : \A p \in DOMAIN table[n] :
        state[table[n][p].id] # "Off" /\ table[n][p].endpoint = addr[table[n][p].id]

EMet == \A n \in Id : \A i \in met[n] : i # n /\ state[i] # "Off" /\ state[n] # "Off"

EInv == BInv /\ NInv /\ ENet /\ ETables /\ EMet /\ EvictedIsRecalled

\* A step that tables only whose datagram came, and that sends from nodes that run.
LEMMA EKept ==
    ASSUME EInv, TypeOK', UNCHANGED addr,
           \A o \in Id : state[o] # "Off" => state'[o] # "Off",
           \A m \in net' : m \in net \/ \E n \in Id : state[n] # "Off" /\ m.sender = n /\ m.src = addr[n],
           \A o \in Id : \A p \in DOMAIN table'[o] :
              \/ \E m \in net : table'[o][p].id = m.sender /\ table'[o][p].endpoint = m.src
              \/ \E q \in DOMAIN table[o] :
                   table'[o][p].id = table[o][q].id /\ table'[o][p].endpoint = table[o][q].endpoint,
           \A o \in Id :
              \/ met'[o] = met[o]
              \/ state[o] # "Off" /\ \E m \in net : m.sender # o /\ met'[o] = met[o] \union {m.sender}
    PROVE  ENet' /\ ETables' /\ EMet'
<1>1. TypeOK /\ \A m \in net : m.sender \in Id
  BY DatagramFields DEF EInv, NInv
<1>2. /\ \A o \in Id : met[o] \subseteq Id
      /\ \A o \in Id : \A p \in DOMAIN table[o] : table[o][p].id \in Id
  BY <1>1, EntryFields DEF TypeOK
<1>3. ENet'
  BY <1>1 DEF EInv, ENet
<1>4. ETables'
  BY <1>1, <1>2 DEF EInv, ENet, ETables
<1>5. EMet'
  BY <1>1, <1>2 DEF EInv, ENet, EMet
<1> QED BY <1>3, <1>4, <1>5

\* A step that forgets nobody, hears from nobody and takes no datagram.
LEMMA ERecalled ==
    ASSUME EvictedIsRecalled, UNCHANGED <<addr, met>>, net \subseteq net',
           \A n \in Id : Ids(table[n]) \subseteq Ids(table'[n])
    PROVE  EvictedIsRecalled'
BY DEF EvictedIsRecalled

\* A datagram is handled: a peer that goes from the table gets a ping, and the ping gets
\* its pong.
LEMMA EReceiveSteps ==
    ASSUME NEW n \in Id, NEW m \in net, Receive(n, m)
    PROVE  /\ addr' = addr
           /\ \E replies :
                /\ Handled(n, m, replies)
                /\ \A r \in replies : r.sender = n /\ r.src = addr[n]
                /\ m.type = "ping" => Pong(n, m.src) \in replies
<1>1. CASE HandlePing(n, m)
  BY <1>1, SenderFields DEF HandlePing, nodeVars
<1>2. CASE HandlePong(n, m)
  BY <1>2 DEF HandlePong, nodeVars
<1>3. CASE HandleGetNodes(n, m)
  <2>1. PICK eps : Handled(n, m, {SendNodes(n, m.src, eps)})
    BY <1>3 DEF HandleGetNodes
  <2>2. \A r \in {SendNodes(n, m.src, eps)} : r.sender = n /\ r.src = addr[n]
    BY DEF SendNodes
  <2>3. m.type # "ping" /\ addr' = addr
    BY <1>3 DEF HandleGetNodes, nodeVars
  <2> QED BY <2>1, <2>2, <2>3
<1>4. CASE HandleSendNodes(n, m)
  <2>1. \A r \in {Ping(n, ep) : ep \in ToPing(n, m)} : r.sender = n /\ r.src = addr[n]
    BY DEF Ping
  <2> QED BY <1>4, <2>1 DEF HandleSendNodes
<1> QED BY <1>1, <1>2, <1>3, <1>4 DEF Receive

LEMMA EReceive ==
    ASSUME EInv, TypeOK', NEW n \in Id, NEW m \in net, Receive(n, m)
    PROVE  ENet' /\ ETables' /\ EMet' /\ EvictedIsRecalled'
<1>1. PICK replies :
         /\ Handled(n, m, replies)
         /\ \A r \in replies : r.sender = n /\ r.src = addr[n]
         /\ m.type = "ping" => Pong(n, m.src) \in replies
  BY EReceiveSteps
<1>2. addr' = addr
  BY EReceiveSteps
<1>3. /\ TypeOK /\ NodesType /\ TablesType /\ m.sender \in Id /\ m.src \in Endpoint
      /\ m.dst = addr[n] /\ state[n] # "Off" /\ UpdateTable(n, m)
  BY <1>1, TypeParts, DatagramFields DEF EInv, NInv, Handled
<1>4. \A o \in Id : state[o] # "Off" => state'[o] # "Off"
  <2>1. state' = state \/ state' = [state EXCEPT ![n] = "Bootstrapped"]
    BY DEF Receive, HandlePing, HandlePong, HandleGetNodes, HandleSendNodes, nodeVars
  <2> QED BY <1>3, <2>1 DEF NodesType
<1>5. \A o \in Id : met'[o] = IF o = n /\ m.sender # n THEN met[n] \union {m.sender} ELSE met[o]
  BY <1>3 DEF UpdateTable, TablesType
<1>6. ENet' /\ ETables' /\ EMet'
  <2>1. \A r \in net' : r \in net \/ (r.sender = n /\ r.src = addr[n])
    BY <1>1, HandledNet
  <2>2. ASSUME NEW o \in Id, NEW p \in DOMAIN table'[o]
        PROVE  \/ \E w \in net : table'[o][p].id = w.sender /\ table'[o][p].endpoint = w.src
               \/ \E q \in DOMAIN table[o] :
                    table'[o][p].id = table[o][q].id /\ table'[o][p].endpoint = table[o][q].endpoint
    <3>1. \/ table'[o][p] = Fresh(m.sender, m.src)
          \/ \E q \in DOMAIN table[o] : table'[o][p] = table[o][q]
      BY <1>1, <1>3, HandledTable
    <3>2. Fresh(m.sender, m.src).id = m.sender /\ Fresh(m.sender, m.src).endpoint = m.src
      BY DEF Fresh
    <3> QED BY <3>1, <3>2
  <2>3. \A o \in Id :
           \/ met'[o] = met[o]
           \/ state[o] # "Off" /\ \E w \in net : w.sender # o /\ met'[o] = met[o] \union {w.sender}
    BY <1>3, <1>5
  <2>4. \A r \in net' : r \in net \/ \E o \in Id : state[o] # "Off" /\ r.sender = o /\ r.src = addr[o]
    BY <1>3, <2>1
  <2> QED BY <1>2, <1>4, <2>2, <2>3, <2>4, EKept
<1>7. ASSUME NEW o \in Id, NEW i \in met'[o], i \notin Ids(table'[o])
      PROVE  \E w \in net' : \/ w.type = "ping" /\ w.sender = o /\ w.dst = addr[i]
                             \/ w.sender = i /\ w.dst = addr[o]
  <2>1. i \in met[o] /\ i # o /\ state[i] # "Off" /\ state[o] # "Off" /\ i \in Id
    <3>1. o = n /\ m.sender # n => m.sender \in Ids(table'[n])
      <4>1. SUFFICES ASSUME m.sender # n
                     PROVE  m.sender \in Ids(table'[n])
        OBVIOUS
      <4>2. table'[n] = Updated(table[n], m.sender, m.src) /\ table[n] \in Seq(Entry) /\ Len(table[n]) <= K
        BY <1>3, <4>1 DEF UpdateTable, TablesType
      <4> QED BY <1>3, <4>2, UpdatedLists
    <3>2. i \in met[o]
      BY <1>5, <1>7, <3>1
    <3> QED BY <1>3, <3>2 DEF EInv, EMet, TypeOK
  <2>2. CASE i \in Ids(table[o])
    <3>1. o = n /\ m.sender # n /\ table'[n] = Updated(table[n], m.sender, m.src)
      BY <1>3, <1>7, <2>2 DEF UpdateTable, TablesType
    <3>2. PICK q \in DOMAIN table[n] : table[n][q].id = i
      BY <2>2, <3>1 DEF Ids
    <3>3. table[n] \in Seq(Entry) /\ table[n][q].endpoint = addr[i]
      BY <1>3, <3>2 DEF TablesType, EInv, ETables
    <3>4. i # m.sender
      <4>1. m.sender \in Ids(table'[n])
        BY <1>3, <3>1, <3>3, UpdatedLists DEF TablesType
      <4> QED BY <1>7, <3>1, <4>1
    <3>5. table[n][q].endpoint # m.src
      <4>1. m.src = addr[m.sender] /\ state[m.sender] # "Off"
        BY DEF EInv, ENet
      <4> QED BY <1>3, <2>1, <3>3, <3>4, <4>1 DEF EInv, BInv, BOwners
    <3>6. Evicts(table[n], m.sender, m.src) /\ Head(table[n]) = table[n][q]
      BY <1>3, <1>7, <3>1, <3>2, <3>3, <3>4, <3>5, UpdatedLoses
    <3>7. Ping(n, addr[i]) \in net'
      BY <1>1, <3>1, <3>3, <3>6 DEF Handled, Received, EvictionPing
    <3> QED BY <3>1, <3>7 DEF Ping
  <2>3. CASE i \notin Ids(table[o])
    <3>1. PICK w \in net : \/ w.type = "ping" /\ w.sender = o /\ w.dst = addr[i]
                           \/ w.sender = i /\ w.dst = addr[o]
      BY <2>1, <2>3 DEF EInv, EvictedIsRecalled
    <3>2. CASE w # m
      <4>1. w \in net'
        BY <1>1, <3>2 DEF Handled, Received
      <4> QED BY <3>1, <4>1
    <3>3. CASE w = m /\ w.type = "ping" /\ w.sender = o /\ w.dst = addr[i]
      <4>1. i = n /\ m.src = addr[o]
        BY <1>3, <2>1, <3>3 DEF EInv, BInv, BOwners, ENet
      <4>2. Pong(n, addr[o]) \in net'
        BY <1>1, <3>3, <4>1 DEF Handled, Received
      <4> QED BY <4>1, <4>2 DEF Pong
    <3>4. CASE w = m /\ w.sender = i /\ w.dst = addr[o]
      <4>1. o = n
        BY <1>3, <2>1, <3>4 DEF EInv, BInv, BOwners
      <4>2. m.sender # n
        BY <2>1, <3>4, <4>1
      <4>3. table'[n] = Updated(table[n], m.sender, m.src) /\ table[n] \in Seq(Entry) /\ Len(table[n]) <= K
        BY <1>3, <4>2 DEF UpdateTable, TablesType
      <4>4. i \in Ids(table'[o])
        BY <1>3, <3>4, <4>1, <4>3, UpdatedLists
      <4> QED BY <1>7, <4>4
    <3> QED BY <3>1, <3>2, <3>3, <3>4
  <2> QED BY <2>2, <2>3
<1>8. EvictedIsRecalled'
  BY <1>2, <1>7 DEF EvictedIsRecalled
<1> QED BY <1>6, <1>8

\* No entry expires in the periodic task, which forgets nobody then.
LEMMA EPeriodicTask ==
    ASSUME Reliable, EInv, TypeOK', NEW n \in Id, NEW p \in 0 .. K, PeriodicTask(n, p)
    PROVE  ENet' /\ ETables' /\ EMet' /\ EvictedIsRecalled'
<1>0. /\ TypeOK /\ TablesType /\ UNCHANGED <<addr, state, met>> /\ state[n] # "Off"
      /\ table[n] \in Seq(Entry) /\ now \in 0 .. MaxTime
  BY TypeParts DEF EInv, NInv, TablesType, HistoryType, PeriodicTask
<1>1. PICK swept \in Swept(table[n]) :
         /\ table' = [table EXCEPT ![n] = swept]
         /\ net' = net
               \union (IF p = 0 THEN {} ELSE {GetNodes(n, table[n][p].endpoint, n)})
               \union {Ping(n, swept[q].endpoint) : q \in {r \in DOMAIN swept : Due(swept[r])}}
  BY DEF PeriodicTask
<1>2. \A o \in Id : table'[o] = IF o = n THEN swept ELSE table[o]
  BY <1>0, <1>1 DEF TablesType
<1>3. swept \in Seq(Entry) /\ DOMAIN swept = 1 .. Len(swept)
  BY <1>0, <1>1, SweptLemma, LenProperties
<1>4. PICK f \in [1 .. Len(swept) -> Kept(table[n])] :
         /\ \A q \in 1 .. Len(swept) : swept[q] = Marked(table[n][f[q]])
         /\ \A k \in Kept(table[n]) : \E q \in 1 .. Len(swept) : f[q] = k
  BY <1>0, <1>1, SweptLemma
<1>5. Kept(table[n]) = DOMAIN table[n]
  <2>1. SUFFICES ASSUME NEW k \in DOMAIN table[n]
                 PROVE  ~Expired(table[n][k])
    BY DEF Kept
  <2>2. table[n][k] \in Entry /\ table[n][k].idle \in 0 .. now
    BY <1>0, EntryFields DEF EInv, NInv, NAges
  <2>3. Diff(table[n][k]) = table[n][k].idle
    BY <1>0, <2>2, DiffOfAge, DhtAssumption
  <2> QED BY <1>0, <2>2, <2>3, DhtAssumption DEF Expired, Reliable
<1>6. ASSUME NEW k \in DOMAIN table[n]
      PROVE  /\ Marked(table[n][k]).id = table[n][k].id
             /\ Marked(table[n][k]).endpoint = table[n][k].endpoint
  <2>1. table[n][k] \in Entry
    BY <1>0, EntryFields
  <2> QED BY <2>1 DEF Marked, Entry
<1>7. \A o \in Id : Ids(table[o]) \subseteq Ids(table'[o])
  <2>1. SUFFICES ASSUME NEW k \in DOMAIN table[n]
                 PROVE  table[n][k].id \in Ids(swept)
    BY <1>2 DEF Ids
  <2>2. PICK q \in 1 .. Len(swept) : f[q] = k
    BY <1>4, <1>5
  <2>3. swept[q].id = table[n][k].id
    BY <1>4, <1>6, <2>2
  <2> QED BY <1>3, <2>3 DEF Ids
<1>8. EvictedIsRecalled'
  BY <1>0, <1>1, <1>7, ERecalled DEF EInv
<1>9. \A o \in Id : \A q \in DOMAIN table'[o] : \E k \in DOMAIN table[o] :
         table'[o][q].id = table[o][k].id /\ table'[o][q].endpoint = table[o][k].endpoint
  <2>1. \A q \in DOMAIN swept : f[q] \in DOMAIN table[n] /\ swept[q] = Marked(table[n][f[q]])
    BY <1>3, <1>4, <1>5
  <2> QED BY <1>2, <1>6, <2>1
<1>10. \A m \in net' : m \in net \/ (m.sender = n /\ m.src = addr[n])
  BY <1>1 DEF GetNodes, Ping
<1>11. ENet' /\ ETables' /\ EMet'
  BY <1>0, <1>9, <1>10, EKept
<1> QED BY <1>8, <1>11

\* A thread that calls the node sends from there, and forgets nobody.
LEMMA ECalled ==
    ASSUME EInv, TypeOK', NEW n \in Id, state[n] # "Off", UNCHANGED <<addr, state, met, table>>, NEW sent,
           \A r \in sent : r.sender = n /\ r.src = addr[n],
           net' = net \union sent
    PROVE  ENet' /\ ETables' /\ EMet' /\ EvictedIsRecalled'
<1>1. EvictedIsRecalled'
  BY ERecalled DEF EInv
<1>2. \A m \in net' : m \in net \/ \E o \in Id : state[o] # "Off" /\ m.sender = o /\ m.src = addr[o]
  OBVIOUS
<1>3. ENet' /\ ETables' /\ EMet'
  BY <1>2, EKept
<1> QED BY <1>1, <1>3

\* Nothing changes but what the tables, the datagrams and the ids heard from do not show.
LEMMA EUnchanged ==
    ASSUME EInv, UNCHANGED <<addr, state, met, table, net>>
    PROVE  ENet' /\ ETables' /\ EMet' /\ EvictedIsRecalled'
BY DEF EInv, ENet, ETables, EMet, EvictedIsRecalled

LEMMA EFindNode ==
    ASSUME EInv, TypeOK', NEW c \in Call, LookupHit(c) \/ LookupMiss(c) \/ Register(c)
    PROVE  ENet' /\ ETables' /\ EMet' /\ EvictedIsRecalled'
<1>1. CASE LookupHit(c) \/ LookupMiss(c)
  <2>1. UNCHANGED <<addr, state, met, table, net>>
    BY <1>1 DEF LookupHit, LookupMiss, nodeVars, netVars
  <2> QED BY <2>1, EUnchanged
<1>2. CASE Register(c)
  <2> DEFINE n == caller[c]
  <2>1. PICK eps : net' = net \union {GetNodes(n, ep, target[c]) : ep \in eps}
    BY <1>2 DEF Register
  <2>2. \A r \in {GetNodes(n, ep, target[c]) : ep \in eps} : r.sender = n /\ r.src = addr[n]
    BY DEF GetNodes
  <2>3. n \in Id /\ state[n] # "Off" /\ UNCHANGED <<addr, state, met, table>>
    BY <1>2, DhtAssumption DEF Register
  <2> HIDE DEF n
  <2> QED BY <2>1, <2>2, <2>3, ECalled
<1> QED BY <1>1, <1>2

LEMMA EBootstrap ==
    ASSUME EInv, TypeOK', NEW n \in Id, NEW b \in Bootstrap, CheckStarted(n, b) \/ CallBootstrap(n, b)
    PROVE  ENet' /\ ETables' /\ EMet' /\ EvictedIsRecalled'
<1>1. CASE CheckStarted(n, b)
  <2>1. UNCHANGED <<addr, state, met, table, net>>
    BY <1>1 DEF CheckStarted, netVars
  <2> QED BY <2>1, EUnchanged
<1>2. CASE CallBootstrap(n, b)
  <2>1. state[n] # "Off"
    BY <1>2 DEF CallBootstrap, EInv, BInv, GInv, GBooting
  <2>2. net' = net \union {GetNodes(n, home[b], n)} /\ UNCHANGED <<addr, state, met, table>>
    BY <1>2 DEF CallBootstrap
  <2> DEFINE sent == {GetNodes(n, home[b], n)}
  <2>3. \A r \in sent : r.sender = n /\ r.src = addr[n]
    BY DEF GetNodes
  <2>4. net' = net \union sent
    BY <2>2
  <2> HIDE DEF sent
  <2> QED BY <2>1, <2>2, <2>3, <2>4, ECalled
<1> QED BY <1>1, <1>2

\* Only a datagram to an endpoint where nobody listens is lost.
LEMMA ELose ==
    ASSUME Reliable, EInv, NEW m \in net, Lose(m)
    PROVE  ENet' /\ ETables' /\ EMet' /\ EvictedIsRecalled'
<1>1. /\ UNCHANGED <<addr, state, met, table>> /\ net' = net \ {m}
      /\ \A o \in Id : state[o] # "Off" => addr[o] # m.dst
  BY DEF Lose, Reliable, Owners, nodeVars
<1>2. \A n \in Id : met[n] \subseteq Id
  BY DEF EInv, NInv, TypeOK
<1>3. \A n \in Id : \A i \in met[n] : m.dst # addr[i] /\ m.dst # addr[n]
  BY <1>1, <1>2 DEF EInv, EMet
<1>4. EvictedIsRecalled'
  BY <1>1, <1>3 DEF EInv, EvictedIsRecalled
<1> QED BY <1>1, <1>4 DEF EInv, ENet, ETables, EMet

\* A process starts: nobody has heard from its node.
LEMMA EStart ==
    ASSUME EInv, NEW n \in Id, NEW ep \in Endpoint, Start(n, ep)
    PROVE  ENet' /\ ETables' /\ EMet' /\ EvictedIsRecalled'
<1>1. /\ TypeOK /\ NodesType /\ state[n] = "Off" /\ UNCHANGED <<table, met, net>>
      /\ state' = [state EXCEPT ![n] = "Started"] /\ addr' = [addr EXCEPT ![n] = ep]
  BY TypeParts DEF Start, netVars, EInv, NInv
<1>2. /\ \A o \in Id : state'[o] = IF o = n THEN "Started" ELSE state[o]
      /\ \A o \in Id : addr'[o] = IF o = n THEN ep ELSE addr[o]
  BY <1>1 DEF NodesType
<1>3. /\ \A m \in net : m.sender \in Id
      /\ \A o \in Id : met[o] \subseteq Id
      /\ \A o \in Id : \A p \in DOMAIN table[o] : table[o][p].id \in Id
  BY <1>1, DatagramFields, EntryFields DEF TypeOK
<1>4. ENet'
  BY <1>1, <1>2, <1>3 DEF EInv, ENet
<1>5. ETables'
  BY <1>1, <1>2, <1>3 DEF EInv, ETables
<1>6. EMet'
  BY <1>1, <1>2, <1>3 DEF EInv, EMet
<1>7. EvictedIsRecalled'
  <2>1. \A o \in Id : \A i \in met[o] : addr'[i] = addr[i] /\ addr'[o] = addr[o]
    BY <1>1, <1>2, <1>3 DEF EInv, EMet
  <2> QED BY <1>1, <2>1 DEF EInv, EvictedIsRecalled
<1> QED BY <1>4, <1>5, <1>6, <1>7

LEMMA ETick ==
    ASSUME EInv, TypeOK', Tick
    PROVE  ENet' /\ ETables' /\ EMet' /\ EvictedIsRecalled'
<1>1. UNCHANGED <<addr, state, met, net>> /\ TypeOK
  BY DEF Tick, nodeVars, netVars, EInv, NInv
<1>2. \A n \in Id :
         /\ DOMAIN table'[n] = DOMAIN table[n]
         /\ \A p \in DOMAIN table[n] :
              /\ table'[n][p].id = table[n][p].id
              /\ table'[n][p].endpoint = table[n][p].endpoint
  BY <1>1, TickSteps
<1>3. \A n \in Id : Ids(table'[n]) = Ids(table[n])
  BY <1>2 DEF Ids
<1>4. EvictedIsRecalled'
  BY <1>1, <1>3, ERecalled DEF EInv
<1>5. ENet' /\ ETables' /\ EMet'
  BY <1>1, <1>2, EKept
<1> QED BY <1>4, <1>5

LEMMA ENext ==
    ASSUME Reliable
    PROVE  EInv /\ [Next]_vars => EInv'
<1> SUFFICES ASSUME EInv, [Next]_vars
             PROVE  ENet' /\ ETables' /\ EMet' /\ EvictedIsRecalled'
  BY BNext, NNext DEF EInv
<1>1. TypeOK'
  BY TNext DEF EInv, NInv
<1>2. CASE UNCHANGED vars
  <2>1. UNCHANGED <<addr, state, met, table, net>>
    BY <1>2 DEF vars
  <2> QED BY <2>1, EUnchanged
<1>3. ASSUME NEW n \in Id, Stop(n)
      PROVE  FALSE
  BY <1>3 DEF Stop, Reliable, EInv, NInv, TypeOK
<1>4. ASSUME NEW m \in net, NEW o \in net, Overwrite(m, o)
      PROVE  FALSE
  BY <1>4 DEF Overwrite, Reliable
<1> QED BY <1>1, <1>2, <1>3, <1>4, EBootstrap, EFindNode, EReceive, EPeriodicTask, ELose, EStart, ETick DEF Next

LEMMA EInit == Init => EInv
<1> SUFFICES ASSUME Init PROVE EInv
  OBVIOUS
<1>1. ENet /\ ETables /\ EMet /\ EvictedIsRecalled
  BY DEF Init, ENet, ETables, EMet, EvictedIsRecalled
<1> QED BY <1>1, BInit, NInit DEF EInv

\* As long as nothing is lost or overwritten and nobody leaves, a peer that a full table evicts is on its
\* way back: the node's ping, the peer's pong or another datagram of the peer's is in flight.
THEOREM EvictedRecalled ==
    ASSUME Reliable
    PROVE  Spec => []EvictedIsRecalled
<1>1. EInv => EvictedIsRecalled
  BY DEF EInv
<1>2. EInv /\ [Next]_vars => EInv'
  BY ENext
<1> QED BY <1>1, <1>2, EInit, PTL DEF Spec

-----------------------------------------------------------------------------
(* Who stays. *)

\* Nothing is lost or overwritten, a node's periodic task comes back before a peer it has pinged can
\* expire, and no table is ever full for a peer it does not list.
Timely ==
    /\ ~Lossy /\ ~Overwriting
    /\ PingPeriod + TaskGap <= ExpiredTime
    /\ IsFiniteSet(Id) /\ Cardinality(Id) <= K + 1

LTimers == \A n \in Id : timers[n] > 0 => state[n] # "Off"

LSelf == \A n \in Id : \A p \in DOMAIN table[n] : table[n][p].id # n

LDistinct == \A n \in Id : \A p, q \in DOMAIN table[n] : table[n][p].id = table[n][q].id => p = q

\* A peer that runs where it is listed, and has for as long as it has been silent.
Lives(n, p) ==
    LET i == table[n][p].id
    IN  state[i] # "Off" /\ addr[i] = table[n][p].endpoint /\ ~TooLate(n, p)

\* A ping that it will answer, or a datagram of its own, is on the way.
AnswerComes(n, p) ==
    \E m \in net :
        \/ m.type = "ping" /\ m.src = addr[n] /\ m.dst = table[n][p].endpoint
        \/ m.sender = table[n][p].id /\ m.dst = addr[n]

\* A peer that lives was heard from in time for the last run of the periodic task, or
\* that run pinged it and the answer is still to come: a tick waits for it.
LHeard ==
    \A n \in Timed : \A p \in DOMAIN table[n] : Lives(n, p) =>
        \/ table[n][p].idle <= PingPeriod + sinceTask[n]
        \/ table[n][p].idle <= ExpiredTime /\ AnswerComes(n, p)

LInv == BInv /\ NInv /\ LTimers /\ LSelf /\ LDistinct /\ LHeard

\* What LivePeersStay says of a step.
Stays ==
    \A n \in Id : state'[n] # "Off" =>
        \A p \in DOMAIN table[n] : table[n][p].id \notin Ids(table'[n]) =>
            \/ table[n][p].endpoint # addr[table[n][p].id] \/ state[table[n][p].id] = "Off"
            \/ TooLate(n, p)
            \/ FindEndpoint(table'[n], table[n][p].endpoint) # 0

LGoal == LTimers' /\ LSelf' /\ LDistinct' /\ LHeard' /\ Stays

LEMMA LFacts ==
    ASSUME LInv
    PROVE  /\ TypeOK /\ NodesType /\ TablesType /\ HistoryType
           /\ Timed \subseteq Id
           /\ \A n \in Id : table[n] \in Seq(Entry) /\ Len(table[n]) <= K
           /\ \A n \in Id : \A p \in DOMAIN table[n] :
                /\ table[n][p] \in Entry
                /\ table[n][p].id \in Id /\ table[n][p].endpoint \in Endpoint
                /\ table[n][p].idle \in 0 .. now
           /\ now \in 0 .. MaxTime /\ now \in Nat
           /\ \A n \in Id : sinceTask[n] \in 0 .. TaskGap
           /\ PingPeriod \in Nat /\ ExpiredTime \in Nat /\ TaskGap \in Nat
<1>1. TypeOK /\ NodesType /\ TablesType /\ HistoryType
  BY TypeParts DEF LInv, NInv
<1>2. \A n \in Id : table[n] \in Seq(Entry) /\ Len(table[n]) <= K
  BY <1>1 DEF TablesType
<1>3. \A n \in Id : \A p \in DOMAIN table[n] :
         /\ table[n][p] \in Entry
         /\ table[n][p].id \in Id /\ table[n][p].endpoint \in Endpoint
         /\ table[n][p].idle \in 0 .. now
  BY <1>2, EntryFields DEF LInv, NInv, NAges
<1>4. Timed \subseteq Id
  BY DhtAssumption DEF Timed
<1>5. now \in 0 .. MaxTime /\ now \in Nat /\ (\A n \in Id : sinceTask[n] \in 0 .. TaskGap)
  BY <1>1, DhtAssumption DEF HistoryType
<1> QED BY <1>1, <1>2, <1>3, <1>4, <1>5, DhtAssumption

\* Nobody is forgotten by a step that changes no table.
LEMMA LTablesSame ==
    ASSUME LInv, UNCHANGED table
    PROVE  LSelf' /\ LDistinct' /\ Stays
<1>1. LSelf' /\ LDistinct'
  BY DEF LInv, LSelf, LDistinct
<1>2. Stays
  BY DEF Stays, Ids
<1> QED BY <1>1, <1>2

\* Every entry is new, or was there before with as much to say for it.
LEMMA LKept ==
    ASSUME LInv, TypeOK',
           \A n \in Timed' : \A p \in DOMAIN table'[n] : Lives(n, p)' =>
              \/ table'[n][p].idle <= 0
              \/ /\ n \in Timed /\ sinceTask'[n] = sinceTask[n]
                 /\ \E q \in DOMAIN table[n] :
                      /\ table'[n][p].idle = table[n][q].idle
                      /\ Lives(n, q)
                      /\ AnswerComes(n, q) => AnswerComes(n, p)'
    PROVE  LHeard'
<1>1. SUFFICES ASSUME NEW n \in Timed', NEW p \in DOMAIN table'[n], Lives(n, p)'
               PROVE  \/ table'[n][p].idle <= PingPeriod + sinceTask'[n]
                      \/ table'[n][p].idle <= ExpiredTime /\ AnswerComes(n, p)'
  BY DEF LHeard
<1>2. n \in Id /\ sinceTask'[n] \in Nat /\ PingPeriod \in Nat
  BY DhtAssumption DEF Timed, TypeOK
<1>3. table'[n] \in Seq(Entry) /\ table'[n][p].idle \in Int
  BY <1>2, EntryFields DEF TypeOK
<1>4. CASE table'[n][p].idle <= 0
  <2> DEFINE idle == table'[n][p].idle
             since == sinceTask'[n]
  <2>1. idle \in Int /\ since \in Nat /\ PingPeriod \in Nat /\ idle <= 0
    BY <1>2, <1>3, <1>4
  <2> HIDE DEF idle, since
  <2>2. idle <= PingPeriod + since
    BY <2>1
  <2> QED BY <2>2 DEF idle, since
<1>5. CASE ~(table'[n][p].idle <= 0)
  <2>1. /\ n \in Timed /\ sinceTask'[n] = sinceTask[n]
        /\ \E q \in DOMAIN table[n] :
             /\ table'[n][p].idle = table[n][q].idle
             /\ Lives(n, q)
             /\ AnswerComes(n, q) => AnswerComes(n, p)'
    BY <1>1, <1>5
  <2> QED BY <2>1 DEF LInv, LHeard
<1> QED BY <1>4, <1>5

\* update() lists nobody twice, nor the node itself.
LEMMA LHandled ==
    ASSUME LInv, NEW n \in Id, NEW m, NEW replies, Handled(n, m, replies)
    PROVE  /\ LSelf' /\ LDistinct'
           /\ \A p \in DOMAIN table'[n] :
                \/ table'[n][p].idle = 0
                \/ table'[n][p].id # m.sender \/ m.sender = n
<1>1. /\ m \in net /\ m.sender \in Id /\ m.src \in Endpoint /\ UpdateTable(n, m) /\ TablesType
      /\ table[n] \in Seq(Entry) /\ Len(table[n]) <= K
  BY LFacts, DatagramFields DEF Handled
<1>2. \A p, q \in DOMAIN table[n] : table[n][p].id = table[n][q].id => p = q
  BY DEF LInv, LDistinct
<1>3. CASE m.sender = n
  BY <1>1, <1>3 DEF UpdateTable, LInv, LSelf, LDistinct
<1>4. CASE m.sender # n
  <2>1. table' = [table EXCEPT ![n] = Updated(table[n], m.sender, m.src)]
    BY <1>1, <1>4 DEF UpdateTable
  <2>2. table'[n] = Updated(table[n], m.sender, m.src) /\ \A o \in Id : o # n => table'[o] = table[o]
    BY <1>1, <2>1 DEF TablesType
  <2>3. \A p, q \in DOMAIN table'[n] : table'[n][p].id = table'[n][q].id => p = q
    BY <1>1, <1>2, <2>2, UpdatedDistinct
  <2>4. LDistinct'
    BY <2>2, <2>3 DEF LInv, LDistinct
  <2>5. \A p \in DOMAIN table'[n] :
           \/ table'[n][p] = Fresh(m.sender, m.src)
           \/ table'[n][p].id # m.sender /\ \E q \in DOMAIN table[n] : table'[n][p] = table[n][q]
    <3>1. \E new \in DOMAIN table'[n], g \in [DOMAIN table'[n] -> Int] :
             Reordered(table[n], m.sender, m.src, table'[n], new, g)
      BY <1>1, <1>2, <2>2, UpdatedShape
    <3> QED BY <3>1 DEF Reordered
  <2>6. LSelf'
    BY <1>4, <2>2, <2>5 DEF LInv, LSelf, Fresh
  <2>7. \A p \in DOMAIN table'[n] : table'[n][p].idle = 0 \/ table'[n][p].id # m.sender
    BY <2>5 DEF Fresh
  <2> QED BY <2>4, <2>6, <2>7
<1> QED BY <1>3, <1>4

\* A peer that lives is forgotten for another user of its endpoint only.
LEMMA LHandledStays ==
    ASSUME Timely, LInv, NEW n \in Id, NEW m, NEW replies, Handled(n, m, replies)
    PROVE  Stays
<1>1. /\ m \in net /\ m.sender \in Id /\ m.src \in Endpoint /\ UpdateTable(n, m) /\ TablesType
      /\ table[n] \in Seq(Entry) /\ Len(table[n]) <= K
  BY LFacts, DatagramFields DEF Handled
<1>2. CASE m.sender = n
  BY <1>1, <1>2, LTablesSame DEF UpdateTable
<1>3. CASE m.sender # n
  <2>1. /\ table'[n] = Updated(table[n], m.sender, m.src)
        /\ \A o \in Id : o # n => table'[o] = table[o]
    BY <1>1, <1>3 DEF UpdateTable, TablesType
  <2>2. ~Evicts(table[n], m.sender, m.src)
    <3>1. SUFFICES ASSUME Slot(table[n], m.sender, m.src) = 0, Len(table[n]) >= K
                   PROVE  FALSE
      BY DEF Evicts
    <3>2. m.sender \notin Ids(table[n])
      BY <1>1, <3>1, SlotLemma
    <3> DEFINE T == (Id \ {n}) \ {m.sender}
    <3>3. IsFiniteSet(T) /\ Cardinality(T) = Cardinality(Id) - 2
      <4> DEFINE R == Id \ {n}
      <4>1. IsFiniteSet(Id) /\ Cardinality(Id) \in Nat
        BY FS_CardinalityType DEF Timely
      <4>2. IsFiniteSet(R) /\ Cardinality(R) = Cardinality(Id) - 1
        BY <4>1, FS_RemoveElement
      <4>3. m.sender \in R /\ T = R \ {m.sender}
        BY <1>1, <1>3
      <4> HIDE DEF R, T
      <4>4. IsFiniteSet(T) /\ Cardinality(T) = Cardinality(R) - 1
        BY <4>2, <4>3, FS_RemoveElement
      <4> QED BY <4>1, <4>2, <4>4
    <3>4. Ids(table[n]) \subseteq T
      BY <3>2, LFacts DEF LInv, LSelf, Ids
    <3> HIDE DEF T
    <3>5. Len(table[n]) <= Cardinality(T)
      BY <1>1, <3>3, <3>4, DistinctFit DEF LInv, LDistinct
    <3>6. Cardinality(Id) \in Nat /\ Len(table[n]) \in Nat /\ K \in Nat
      BY <1>1, FS_CardinalityType DEF Timely
    <3> QED BY <3>1, <3>3, <3>5, <3>6 DEF Timely
  <2>3. ASSUME NEW p \in DOMAIN table[n], table[n][p].id \notin Ids(table'[n])
        PROVE  FindEndpoint(table'[n], table[n][p].endpoint) # 0
    <3>1. m.sender \in Ids(table'[n]) /\ table'[n] \in Seq(Entry)
      BY <1>1, <2>1, UpdatedLists, UpdatedEntries
    <3>2. table[n][p].endpoint = m.src
      BY <1>1, <2>1, <2>2, <2>3, <3>1, UpdatedLoses
    <3>3. \E new \in DOMAIN table'[n] : table'[n][new] = Fresh(m.sender, m.src)
      <4>1. \A q, r \in DOMAIN table[n] : table[n][q].id = table[n][r].id => q = r
        BY DEF LInv, LDistinct
      <4>2. \E new \in DOMAIN table'[n], g \in [DOMAIN table'[n] -> Int] :
               Reordered(table[n], m.sender, m.src, table'[n], new, g)
        BY <1>1, <2>1, <4>1, UpdatedShape
      <4> QED BY <4>2 DEF Reordered
    <3>4. Fresh(m.sender, m.src).endpoint = m.src
      BY DEF Fresh
    <3> QED BY <3>1, <3>2, <3>3, <3>4, FindEndpointLemma
  <2>4. \A o \in Id : o # n => \A p \in DOMAIN table[o] : table[o][p].id \in Ids(table'[o])
    BY <2>1 DEF Ids
  <2> QED BY <2>3, <2>4 DEF Stays
<1> QED BY <1>2, <1>3

\* The ping that is answered gets its pong, and the peer's own datagram is heard.
LEMMA LReceive ==
    ASSUME Timely, LInv, TypeOK', NEW n \in Id, NEW m \in net, Receive(n, m)
    PROVE  LGoal
<1>1. PICK replies :
         /\ Handled(n, m, replies)
         /\ \A r \in replies : r.sender = n /\ r.src = addr[n]
         /\ m.type = "ping" => Pong(n, m.src) \in replies
  BY EReceiveSteps
<1>2. /\ UNCHANGED <<addr, now, timers, began, up, sinceTask>>
      /\ state' = state \/ state' = [state EXCEPT ![n] = "Bootstrapped"]
  BY DEF Receive, HandlePing, HandlePong, HandleGetNodes, HandleSendNodes, nodeVars, envVars, clockVars
<1>3. /\ m.sender \in Id /\ m.dst = addr[n] /\ state[n] # "Off" /\ NodesType /\ Timed \subseteq Id
      /\ net \ {m} \subseteq net' /\ replies \subseteq net'
  BY <1>1, LFacts, DatagramFields DEF Handled, Received
<1>4. \A o \in Id : state[o] # "Off" <=> state'[o] # "Off"
  BY <1>2, <1>3 DEF NodesType
<1>5. LTimers'
  BY <1>2, <1>4 DEF LInv, LTimers
<1>6. \A o \in Id : \A p \in DOMAIN table'[o] :
         \/ table'[o][p].idle = 0
         \/ \E q \in DOMAIN table[o] : table'[o][p] = table[o][q]
  <2>1. Fresh(m.sender, m.src).idle = 0
    BY DEF Fresh
  <2> QED BY <1>1, <2>1, HandledTable, LFacts
<1>7. ASSUME NEW o \in Timed', NEW p \in DOMAIN table'[o], Lives(o, p)', ~(table'[o][p].idle <= 0)
      PROVE  /\ o \in Timed /\ sinceTask'[o] = sinceTask[o]
             /\ \E q \in DOMAIN table[o] :
                  /\ table'[o][p].idle = table[o][q].idle
                  /\ Lives(o, q)
                  /\ AnswerComes(o, q) => AnswerComes(o, p)'
  <2>1. o \in Timed /\ o \in Id /\ state[o] # "Off"
    BY <1>2, DhtAssumption DEF Timed, LInv, LTimers
  <2>2. PICK q \in DOMAIN table[o] : table'[o][p] = table[o][q]
    BY <1>6, <1>7, <2>1
  <2>3. table[o][q].id \in Id
    BY <2>1, LFacts
  <2>4. Lives(o, q)
    BY <1>2, <1>4, <1>7, <2>1, <2>2, <2>3 DEF Lives, TooLate
  <2>5. ASSUME AnswerComes(o, q)
        PROVE  AnswerComes(o, p)'
    <3>1. PICK w \in net : \/ w.type = "ping" /\ w.src = addr[o] /\ w.dst = table[o][q].endpoint
                           \/ w.sender = table[o][q].id /\ w.dst = addr[o]
      BY <2>5 DEF AnswerComes
    <3>2. CASE w # m
      BY <1>2, <1>3, <2>2, <3>1, <3>2 DEF AnswerComes
    <3>3. CASE w = m /\ w.type = "ping" /\ w.src = addr[o] /\ w.dst = table[o][q].endpoint
      <4>1. table[o][q].id = n
        BY <1>3, <2>3, <2>4, <3>3 DEF Lives, LInv, BInv, BOwners
      <4>2. Pong(n, addr[o]) \in net'
        BY <1>1, <1>3, <3>3
      <4>3. Pong(n, addr[o]).sender = n /\ Pong(n, addr[o]).dst = addr[o]
        BY DEF Pong
      <4> QED BY <1>2, <2>2, <4>1, <4>2, <4>3 DEF AnswerComes
    <3>4. CASE w = m /\ w.sender = table[o][q].id /\ w.dst = addr[o]
      <4>1. o = n
        BY <1>3, <2>1, <3>4 DEF LInv, BInv, BOwners
      <4>2. m.sender # n
        BY <2>1, <3>4, <4>1 DEF LInv, LSelf
      <4>3. FALSE
        <5>1. table'[n][p].idle = 0
          BY <1>1, <1>7, <2>2, <3>4, <4>1, <4>2, LHandled
        <5> QED BY <1>7, <4>1, <5>1
      <4> QED BY <4>3
    <3> QED BY <3>1, <3>2, <3>3, <3>4
  <2> QED BY <1>2, <2>1, <2>2, <2>4, <2>5
<1>8. LHeard'
  BY <1>7, LKept
<1> QED BY <1>1, <1>5, <1>8, LHandled, LHandledStays DEF LGoal

\* The periodic task comes before a peer that lives expires, and pings the ones silent
\* for too long.
LEMMA LPeriodicTask ==
    ASSUME Timely, LInv, TypeOK', NEW n \in Id, NEW p \in 0 .. K, PeriodicTask(n, p)
    PROVE  LGoal
<1>1. PICK swept \in Swept(table[n]) :
         /\ table' = [table EXCEPT ![n] = swept]
         /\ net' = net
               \union (IF p = 0 THEN {} ELSE {GetNodes(n, table[n][p].endpoint, n)})
               \union {Ping(n, swept[q].endpoint) : q \in {r \in DOMAIN swept : Due(swept[r])}}
  BY DEF PeriodicTask
<1>2. /\ UNCHANGED <<addr, state, now, timers, began, up>> /\ n \in Timed
      /\ sinceTask' = [sinceTask EXCEPT ![n] = 0]
  BY DEF PeriodicTask, Timed
<1>3. /\ TablesType /\ HistoryType /\ Timed \subseteq Id /\ Timed' = Timed
      /\ table[n] \in Seq(Entry)
  BY <1>2, LFacts DEF Timed
<1>4. /\ \A o \in Id : table'[o] = IF o = n THEN swept ELSE table[o]
      /\ \A o \in Id : sinceTask'[o] = IF o = n THEN 0 ELSE sinceTask[o]
      /\ net \subseteq net'
  BY <1>1, <1>2, <1>3 DEF TablesType, HistoryType
<1>5. swept \in Seq(Entry) /\ DOMAIN swept = 1 .. Len(swept) /\ Len(swept) \in Nat
  BY <1>1, <1>3, SweptLemma, LenProperties
<1>6. PICK f \in [1 .. Len(swept) -> Kept(table[n])] :
         /\ \A q \in 1 .. Len(swept) : swept[q] = Marked(table[n][f[q]])
         /\ \A q, r \in 1 .. Len(swept) : q < r => f[q] < f[r]
         /\ \A k \in Kept(table[n]) : \E q \in 1 .. Len(swept) : f[q] = k
  BY <1>1, <1>3, SweptLemma
<1>7. ASSUME NEW k \in DOMAIN table[n]
      PROVE  /\ Marked(table[n][k]).id = table[n][k].id
             /\ Marked(table[n][k]).endpoint = table[n][k].endpoint
             /\ Marked(table[n][k]).idle = table[n][k].idle
             /\ Diff(table[n][k]) = table[n][k].idle
             /\ Diff(Marked(table[n][k])) = table[n][k].idle
             /\ table[n][k].idle \in Nat
  <2>1. table[n][k] \in Entry /\ table[n][k].idle \in 0 .. MaxTime /\ table[n][k].idle \in Nat
    BY LFacts, DhtAssumption
  <2>2. Marked(table[n][k]).id = table[n][k].id
        /\ Marked(table[n][k]).endpoint = table[n][k].endpoint
        /\ Marked(table[n][k]).idle = table[n][k].idle
    BY <2>1 DEF Marked, Entry
  <2>3. Diff(table[n][k]) = table[n][k].idle
    BY <2>1, DiffOfAge
  <2> QED BY <2>1, <2>2, <2>3 DEF Diff
<1>8. ASSUME NEW q \in DOMAIN swept
      PROVE  /\ f[q] \in DOMAIN table[n] /\ f[q] \in Int
             /\ swept[q].id = table[n][f[q]].id
             /\ swept[q].endpoint = table[n][f[q]].endpoint
             /\ swept[q].idle = table[n][f[q]].idle
             /\ Diff(swept[q]) = swept[q].idle
             /\ swept[q].idle \in Nat
  <2>1. f[q] \in DOMAIN table[n] /\ f[q] \in Int /\ swept[q] = Marked(table[n][f[q]])
    BY <1>3, <1>5, <1>6, <1>8, LenProperties DEF Kept
  <2> QED BY <1>7, <2>1
<1>9. LTimers' /\ LSelf'
  BY <1>2, <1>4, <1>8 DEF LInv, LTimers, LSelf
<1>10. LDistinct'
  <2>1. ASSUME NEW q \in DOMAIN swept, NEW r \in DOMAIN swept, swept[q].id = swept[r].id
        PROVE  q = r
    <3>1. f[q] = f[r]
      BY <1>8, <2>1 DEF LInv, LDistinct
    <3>2. q \in Int /\ r \in Int /\ f[q] \in Int /\ f[r] \in Int
      BY <1>5, <1>8
    <3>3. ~(q < r) /\ ~(r < q)
      BY <1>5, <1>6, <3>1, <3>2
    <3> QED BY <3>2, <3>3
  <2> QED BY <1>4, <2>1 DEF LInv, LDistinct
<1>11. ASSUME NEW o \in Id, NEW k \in DOMAIN table[o], Lives(o, k), o \in Timed
       PROVE  table[o][k].idle <= ExpiredTime
  <2> DEFINE idle == table[o][k].idle
             since == sinceTask[o]
  <2>1. idle <= PingPeriod + since \/ idle <= ExpiredTime
    BY <1>11 DEF LInv, LHeard
  <2>2. /\ idle \in Int /\ since \in 0 .. TaskGap
        /\ PingPeriod \in Nat /\ ExpiredTime \in Nat /\ TaskGap \in Nat
    BY LFacts
  <2>3. PingPeriod + TaskGap <= ExpiredTime
    BY DEF Timely
  <2> HIDE DEF idle, since
  <2>4. idle <= ExpiredTime
    BY <2>1, <2>2, <2>3
  <2> QED BY <2>4 DEF idle
<1>12. LHeard'
  <2>1. ASSUME NEW o \in Timed, o # n, NEW q \in DOMAIN table'[o], Lives(o, q)'
        PROVE  \/ table'[o][q].idle <= PingPeriod + sinceTask'[o]
               \/ table'[o][q].idle <= ExpiredTime /\ AnswerComes(o, q)'
    <3>1. table'[o] = table[o] /\ sinceTask'[o] = sinceTask[o]
      BY <1>3, <1>4, <2>1
    <3>2. Lives(o, q)
      BY <1>2, <2>1, <3>1 DEF Lives, TooLate
    <3>3. AnswerComes(o, q) => AnswerComes(o, q)'
      BY <1>2, <1>4, <3>1 DEF AnswerComes
    <3> QED BY <2>1, <3>1, <3>2, <3>3 DEF LInv, LHeard
  <2>2. ASSUME NEW q \in DOMAIN swept, Lives(n, q)'
        PROVE  \/ swept[q].idle <= PingPeriod + sinceTask'[n]
               \/ swept[q].idle <= ExpiredTime /\ AnswerComes(n, q)'
    <3>1. Lives(n, f[q])
      BY <1>2, <1>4, <1>8, <2>2 DEF Lives, TooLate
    <3>2. swept[q].idle <= ExpiredTime
      BY <1>2, <1>8, <1>11, <3>1
    <3>3. CASE Due(swept[q])
      <4>1. Ping(n, swept[q].endpoint) \in net'
        BY <1>1, <3>3
      <4>2. /\ Ping(n, swept[q].endpoint).type = "ping" /\ Ping(n, swept[q].endpoint).src = addr[n]
            /\ Ping(n, swept[q].endpoint).dst = swept[q].endpoint
        BY DEF Ping
      <4>3. AnswerComes(n, q)'
        BY <1>2, <1>4, <4>1, <4>2 DEF AnswerComes
      <4> QED BY <3>2, <4>3
    <3>4. CASE ~Due(swept[q])
      <4>1. ~(swept[q].idle > PingPeriod)
        BY <1>8, <3>4 DEF Due
      <4>2. swept[q].idle \in Nat /\ sinceTask'[n] = 0 /\ PingPeriod \in Nat
        BY <1>4, <1>8
      <4> QED BY <4>1, <4>2
    <3> QED BY <3>3, <3>4
  <2> QED BY <1>3, <1>4, <2>1, <2>2 DEF LHeard
<1>13. Stays
  <2>1. ASSUME NEW k \in DOMAIN table[n], Lives(n, k)
        PROVE  table[n][k].id \in Ids(swept)
    <3>1. ~Expired(table[n][k])
      BY <1>2, <1>7, <1>11, <2>1 DEF Expired
    <3>2. PICK q \in 1 .. Len(swept) : f[q] = k
      BY <1>6, <3>1 DEF Kept
    <3>3. swept[q].id = table[n][k].id /\ q \in DOMAIN swept
      BY <1>5, <1>8, <3>2
    <3> QED BY <3>3 DEF Ids
  <2>2. \A o \in Id : o # n => \A k \in DOMAIN table[o] : table[o][k].id \in Ids(table'[o])
    BY <1>4 DEF Ids
  <2> QED BY <1>4, <2>1, <2>2 DEF Stays, Lives
<1> QED BY <1>9, <1>10, <1>12, <1>13 DEF LGoal

\* A datagram is lost only where it would be no answer.
LEMMA LLose ==
    ASSUME Timely, LInv, TypeOK', NEW m \in net, Lose(m)
    PROVE  LGoal
<1>1. /\ UNCHANGED <<addr, state, table, now, timers, began, up, sinceTask>> /\ net' = net \ {m}
      /\ \A o \in Id : state[o] # "Off" => addr[o] # m.dst
  BY DEF Lose, Timely, Owners, nodeVars, envVars, clockVars
<1>2. LTimers'
  BY <1>1 DEF LInv, LTimers
<1>3. ASSUME NEW o \in Timed', NEW p \in DOMAIN table'[o], Lives(o, p)'
      PROVE  /\ o \in Timed /\ sinceTask'[o] = sinceTask[o] /\ table' = table
             /\ Lives(o, p)
             /\ AnswerComes(o, p) => AnswerComes(o, p)'
  <2>1. o \in Timed /\ o \in Id /\ state[o] # "Off" /\ Lives(o, p)
    BY <1>1, <1>3, DhtAssumption DEF Timed, LInv, LTimers, Lives, TooLate
  <2>2. table[o][p].id \in Id
    BY <1>1, <2>1, LFacts
  <2>3. m.dst # addr[o] /\ m.dst # table[o][p].endpoint
    BY <1>1, <2>1, <2>2 DEF Lives
  <2>4. AnswerComes(o, p) => AnswerComes(o, p)'
    BY <1>1, <2>3 DEF AnswerComes
  <2> QED BY <1>1, <2>1, <2>4
<1>4. LHeard'
  BY <1>3, LKept
<1> QED BY <1>1, <1>2, <1>4, LTablesSame DEF LGoal

\* A call from another thread forgets nobody; a timer that starts makes everyone fresh enough.
LEMMA LCalled ==
    ASSUME LInv, TypeOK',
           UNCHANGED <<addr, state, table, now, up, sinceTask>>, net \subseteq net',
           NEW n \in Id, state[n] # "Off",
           \/ UNCHANGED <<timers, began>>
           \/ /\ timers' = [timers EXCEPT ![n] = timers[n] + 1]
              /\ began' = IF timers[n] = 0 THEN [began EXCEPT ![n] = now] ELSE began
    PROVE  LGoal
<1>1. NodesType /\ HistoryType /\ Timed \subseteq Id
  BY LFacts
<1>2. \A o \in Id : o # n => timers'[o] = timers[o]
  BY <1>1 DEF NodesType
<1>3. LTimers'
  BY <1>2 DEF LInv, LTimers
<1>4. ASSUME NEW o \in Timed', NEW p \in DOMAIN table[o], Lives(o, p)'
      PROVE  \/ table[o][p].idle <= 0
             \/ /\ o \in Timed
                /\ Lives(o, p)
                /\ AnswerComes(o, p) => AnswerComes(o, p)'
  <2>1. o \in Periodic /\ o \in Id /\ timers'[o] > 0
    BY DhtAssumption DEF Timed
  <2>2. table[o][p].idle \in 0 .. now /\ now \in Nat
    BY <2>1, LFacts
  <2>3. CASE o \in Timed /\ began'[o] = began[o]
    <3>1. Lives(o, p)
      BY <1>4, <2>3 DEF Lives, TooLate
    <3>2. AnswerComes(o, p) => AnswerComes(o, p)'
      BY DEF AnswerComes
    <3> QED BY <2>3, <3>1, <3>2
  <2>4. CASE ~(o \in Timed /\ began'[o] = began[o])
    <3>1. o = n /\ timers[n] = 0 /\ began'[n] = now
      <4>1. timers[n] \in Nat
        BY <1>1, DhtAssumption DEF NodesType
      <4> QED BY <1>1, <1>2, <2>1, <2>4, <4>1 DEF Timed, HistoryType
    <3>2. ~(table[o][p].idle > now - now)
      BY <1>4, <3>1 DEF Lives, TooLate
    <3> QED BY <2>2, <3>2
  <2> QED BY <2>3, <2>4
<1>5. LHeard'
  BY <1>4, LKept
<1> QED BY <1>3, <1>5, LTablesSame DEF LGoal

\* A process that ends forgets everyone, and is no peer that lives.
LEMMA LStop ==
    ASSUME LInv, TypeOK', NEW n \in Id, Stop(n)
    PROVE  LGoal
<1>1. /\ NodesType /\ HistoryType /\ TablesType /\ Timed \subseteq Id /\ UNCHANGED <<addr, net, now, up>>
  BY LFacts DEF Stop, netVars
<1>2. \A o \in Id : /\ table'[o] = IF o = n THEN << >> ELSE table[o]
                    /\ timers'[o] = IF o = n THEN 0 ELSE timers[o]
                    /\ state'[o] = IF o = n THEN "Off" ELSE state[o]
                    /\ sinceTask'[o] = IF o = n THEN 0 ELSE sinceTask[o]
                    /\ began'[o] = IF o = n THEN 0 ELSE began[o]
  BY <1>1 DEF Stop, NodesType, HistoryType, TablesType
<1>3. LTimers' /\ LSelf' /\ LDistinct'
  BY <1>2 DEF LInv, LTimers, LSelf, LDistinct
<1>4. Stays
  BY <1>2 DEF Stays, Ids
<1>5. ASSUME NEW o \in Timed', NEW p \in DOMAIN table'[o], Lives(o, p)'
      PROVE  /\ o \in Timed /\ sinceTask'[o] = sinceTask[o] /\ table'[o] = table[o]
             /\ Lives(o, p)
             /\ AnswerComes(o, p) => AnswerComes(o, p)'
  <2>1. o \in Timed /\ o \in Id /\ o # n
    BY <1>2, DhtAssumption DEF Timed
  <2>2. table'[o] = table[o] /\ table[o][p].id \in Id
    BY <1>2, <1>5, <2>1, LFacts
  <2>3. Lives(o, p)
    BY <1>1, <1>2, <1>5, <2>1, <2>2 DEF Lives, TooLate
  <2>4. AnswerComes(o, p) => AnswerComes(o, p)'
    BY <1>1, <2>2 DEF AnswerComes
  <2> QED BY <1>2, <2>1, <2>2, <2>3, <2>4
<1>6. LHeard'
  BY <1>5, LKept
<1> QED BY <1>3, <1>4, <1>6 DEF LGoal

\* A process that starts has not been silent for longer than it has run.
LEMMA LStart ==
    ASSUME LInv, TypeOK', NEW n \in Id, NEW ep \in Endpoint, Start(n, ep)
    PROVE  LGoal
<1>1. /\ NodesType /\ HistoryType /\ state[n] = "Off"
      /\ UNCHANGED <<table, net, now, timers, sinceTask, began>> /\ Timed' = Timed
  BY LFacts DEF Start, netVars, Timed
<1>2. \A o \in Id : /\ state'[o] = IF o = n THEN "Started" ELSE state[o]
                    /\ addr'[o] = IF o = n THEN ep ELSE addr[o]
                    /\ up'[o] = IF o = n THEN now ELSE up[o]
  BY <1>1 DEF Start, NodesType, HistoryType
<1>3. LTimers'
  BY <1>1, <1>2 DEF LInv, LTimers
<1>4. ASSUME NEW o \in Timed, NEW p \in DOMAIN table[o], Lives(o, p)'
      PROVE  \/ table[o][p].idle <= 0
             \/ Lives(o, p) /\ (AnswerComes(o, p) => AnswerComes(o, p)')
  <2>1. o \in Id /\ o # n /\ addr'[o] = addr[o]
    BY <1>1, <1>2, DhtAssumption DEF Timed, LInv, LTimers
  <2>2. table[o][p].id \in Id /\ table[o][p].idle \in 0 .. now /\ now \in Nat
    BY <2>1, LFacts
  <2>3. CASE table[o][p].id = n
    <3>1. ~(table[o][p].idle > now - now)
      BY <1>1, <1>2, <1>4, <2>3 DEF Lives, TooLate
    <3> QED BY <2>2, <3>1
  <2>4. CASE table[o][p].id # n
    BY <1>1, <1>2, <1>4, <2>1, <2>2, <2>4 DEF Lives, TooLate, AnswerComes
  <2> QED BY <2>3, <2>4
<1>5. LHeard'
  BY <1>1, <1>4, LKept
<1> QED BY <1>1, <1>3, <1>5, LTablesSame DEF LGoal

\* The clocks go on when no answer is in flight.
LEMMA LTick ==
    ASSUME LInv, TypeOK', Tick
    PROVE  LGoal
<1>1. /\ net = {} /\ UNCHANGED <<addr, state, timers, began, up>> /\ now' = now + 1
      /\ Timed' = Timed /\ Timed \subseteq Id
  BY LFacts DEF Tick, nodeVars, Timed
<1>2. \A n \in Id :
         /\ DOMAIN table'[n] = DOMAIN table[n]
         /\ \A p \in DOMAIN table[n] :
              /\ table'[n][p].id = table[n][p].id
              /\ table'[n][p].endpoint = table[n][p].endpoint
              /\ table'[n][p].idle = table[n][p].idle + 1
  BY LFacts, TickSteps
<1>3. LTimers' /\ LSelf' /\ LDistinct'
  BY <1>1, <1>2 DEF LInv, LTimers, LSelf, LDistinct
<1>4. Stays
  BY <1>2 DEF Stays, Ids
<1>5. ASSUME NEW n \in Timed, NEW p \in DOMAIN table'[n], Lives(n, p)'
      PROVE  table'[n][p].idle <= PingPeriod + sinceTask'[n]
  <2>1. n \in Id /\ p \in DOMAIN table[n] /\ sinceTask'[n] = sinceTask[n] + 1
    BY <1>1, <1>2, <1>5 DEF Tick
  <2>2. /\ table[n][p].id \in Id /\ table[n][p].idle \in Int /\ now \in Int
        /\ sinceTask[n] \in Int /\ PingPeriod \in Int
    BY <2>1, LFacts
  <2>3. /\ table'[n][p].id = table[n][p].id
        /\ table'[n][p].endpoint = table[n][p].endpoint
        /\ table'[n][p].idle = table[n][p].idle + 1
    BY <1>2, <2>1
  <2>4. began[n] \in Int /\ up[table[n][p].id] \in Int
    BY <2>1, <2>2, LFacts, DhtAssumption DEF HistoryType
  <2>5. ~TooLate(n, p)
    <3>1. /\ ~(table'[n][p].idle > now' - began'[n])
          /\ ~(table'[n][p].idle > now' - up'[table'[n][p].id])
      BY <1>5 DEF Lives, TooLate
    <3>2. /\ now' = now + 1 /\ began'[n] = began[n]
          /\ up'[table'[n][p].id] = up[table[n][p].id]
          /\ table'[n][p].idle = table[n][p].idle + 1
      BY <1>1, <2>3
    <3> DEFINE idle == table[n][p].idle
               u == up[table[n][p].id]
               b == began[n]
               t == now
    <3>3. idle \in Int /\ u \in Int /\ b \in Int /\ t \in Int
      BY <2>2, <2>4
    <3> HIDE DEF idle, u, b, t
    <3>4. now' = t + 1 /\ began'[n] = b /\ up'[table'[n][p].id] = u /\ table'[n][p].idle = idle + 1
      BY <3>2 DEF idle, u, b, t
    <3>5. ~(idle > t - b) /\ ~(idle > t - u)
      BY <3>1, <3>3, <3>4
    <3> QED BY <3>5 DEF TooLate, idle, u, b, t
  <2>6. Lives(n, p)
    BY <1>1, <1>5, <2>3, <2>5 DEF Lives
  <2>7. table[n][p].idle <= PingPeriod + sinceTask[n]
    BY <1>1, <2>1, <2>6 DEF LInv, LHeard, AnswerComes
  <2> QED BY <2>1, <2>2, <2>3, <2>7
<1>6. LHeard'
  BY <1>1, <1>5 DEF LHeard
<1> QED BY <1>3, <1>4, <1>6 DEF LGoal

LEMMA LNext ==
    ASSUME Timely
    PROVE  LInv /\ [Next]_vars => LInv' /\ [Stays]_vars
<1> SUFFICES ASSUME LInv, [Next]_vars
             PROVE  LTimers' /\ LSelf' /\ LDistinct' /\ LHeard' /\ (Stays \/ UNCHANGED vars)
  BY BNext, NNext DEF LInv
<1>1. TypeOK'
  BY LFacts, TNext
<1>2. CASE UNCHANGED vars
  BY <1>2 DEF vars, LInv, LTimers, LSelf, LDistinct, LHeard, Timed, Lives, TooLate, AnswerComes
<1>3. ASSUME NEW n \in Id, NEW b \in Bootstrap, CheckStarted(n, b) \/ CallBootstrap(n, b)
      PROVE  LGoal
  <2>1. state[n] # "Off"
    BY <1>3 DEF CheckStarted, CallBootstrap, LInv, BInv, GInv, GBooting
  <2>2. /\ UNCHANGED <<addr, state, table, now, up, sinceTask>> /\ net \subseteq net'
        /\ \/ UNCHANGED <<timers, began>>
           \/ /\ timers' = [timers EXCEPT ![n] = timers[n] + 1]
              /\ began' = IF timers[n] = 0 THEN [began EXCEPT ![n] = now] ELSE began
    BY <1>3 DEF CheckStarted, CallBootstrap, netVars, envVars, clockVars
  <2> QED BY <1>1, <2>1, <2>2, LCalled
<1>4. ASSUME NEW c \in Call, LookupHit(c) \/ LookupMiss(c) \/ Register(c)
      PROVE  LGoal
  <2>1. caller[c] \in Id /\ state[caller[c]] # "Off"
    BY <1>4, DhtAssumption DEF LookupHit, LookupMiss, Register
  <2>2. /\ UNCHANGED <<addr, state, table, now, up, sinceTask, timers, began>> /\ net \subseteq net'
    BY <1>4 DEF LookupHit, LookupMiss, Register, nodeVars, netVars, envVars, clockVars
  <2> QED BY <1>1, <2>1, <2>2, LCalled
<1>5. ASSUME NEW m \in net, NEW o \in net, Overwrite(m, o)
      PROVE  FALSE
  BY <1>5 DEF Overwrite, Timely
<1>6. CASE Next
  BY <1>1, <1>3, <1>4, <1>5, <1>6, LReceive, LPeriodicTask, LLose, LStop, LStart, LTick DEF Next, LGoal
<1> QED BY <1>2, <1>6

LEMMA LInit == Init => LInv
<1> SUFFICES ASSUME Init PROVE LInv
  OBVIOUS
<1>1. \A n \in Id : table[n] = << >> /\ timers[n] = 0
  BY DEF Init
<1>2. LTimers /\ LSelf /\ LDistinct /\ LHeard
  BY <1>1, DhtAssumption DEF LTimers, LSelf, LDistinct, LHeard, Timed
<1> QED BY <1>2, BInit, NInit DEF LInv

\* As long as nothing is lost or overwritten, there is room for everyone, and the periodic task comes back
\* in time for a peer it has pinged, no peer that lives is forgotten, unless for another user
\* of its endpoint.
THEOREM LivePeersStayListed ==
    ASSUME Timely
    PROVE  Spec => LivePeersStay
<1>1. LInv /\ [Next]_vars => LInv' /\ [Stays]_vars
  BY LNext
<1>2. [][Stays]_vars <=> LivePeersStay
  BY DEF LivePeersStay, Stays
<1> HIDE DEF Stays
<1> QED BY <1>1, <1>2, LInit, PTL DEF Spec
=============================================================================
