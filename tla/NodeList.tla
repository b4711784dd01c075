------------------------------ MODULE NodeList ------------------------------
(***************************************************************************)
(* The list of peers kept by routing_table (network/dht/routing_table.h),  *)
(* as operators on sequences of entries.  The list is searched from the    *)
(* front; an entry that is heard from moves to the back.                   *)
(*                                                                         *)
(* An entry holds `idle', current_time - last_activity in ticks, in place  *)
(* of the time stamp itself.  The clock is the system's and can be set     *)
(* back, so idle may be negative; the code subtracts uint64_t values,      *)
(* which is what Diff does.                                                *)
(*                                                                         *)
(* A definition introduced as a mutant is no part of the model: it is a    *)
(* wrong form of the definition after it, which a property must refute.    *)
(***************************************************************************)
EXTENDS Integers, FiniteSets, Sequences, SequencesExt

CONSTANTS
    Id,           \* node identifiers
    Endpoint,     \* UDP endpoints
    K,            \* capacity of the list
    PingPeriod,   \* an entry silent for longer is pinged
    BadPeriod,    \* an entry silent for longer is not good
    ExpiredTime,  \* an entry silent for longer is removed
    Wrap          \* size of the type the time stamps are subtracted in

ASSUME CapacityAssumption == K \in Nat \ {0}

ASSUME PeriodAssumption ==
    /\ PingPeriod \in Nat /\ BadPeriod \in Nat /\ ExpiredTime \in Nat
    /\ PingPeriod < BadPeriod
    /\ BadPeriod < ExpiredTime

ASSUME WrapAssumption == Wrap \in Nat /\ Wrap > ExpiredTime

Entry == [id : Id, endpoint : Endpoint, idle : Int, is_good : BOOLEAN]

Fresh(i, ep) == [id |-> i, endpoint |-> ep, idle |-> 0, is_good |-> TRUE]

Ids(s) == {s[p].id : p \in DOMAIN s}

-----------------------------------------------------------------------------
(* Searching.  0 stands for end(). *)

FindId(s, i) == SelectInSeq(s, LAMBDA n : n.id = i)

FindEndpoint(s, ep) == SelectInSeq(s, LAMBDA n : n.endpoint = ep)

\* Mutant: the endpoint is searched before the id.
SlotByEndpoint(s, i, ep) == IF FindEndpoint(s, ep) # 0 THEN FindEndpoint(s, ep) ELSE FindId(s, i)

\* The entry update() overwrites: the one of this id, else the one of this
\* endpoint.
Slot(s, i, ep) == IF FindId(s, i) # 0 THEN FindId(s, i) ELSE FindEndpoint(s, ep)

-----------------------------------------------------------------------------
(* update() for an id other than the node's own. *)

\* Mutant: the list may hold one entry too many.
EvictsLate(s, i, ep) == Slot(s, i, ep) = 0 /\ Len(s) > K

Evicts(s, i, ep) == Slot(s, i, ep) = 0 /\ Len(s) >= K

\* Mutants: an entry heard from stays where it is; no entry is looked for.
UpdatedInPlace(s, i, ep) ==
    CASE Slot(s, i, ep) # 0 -> [s EXCEPT ![Slot(s, i, ep)] = Fresh(i, ep)]
      [] Evicts(s, i, ep)   -> <<Fresh(i, ep)>> \o Tail(s)
      [] OTHER              -> Append(s, Fresh(i, ep))

UpdatedByAppending(s, i, ep) == Append(s, Fresh(i, ep))

Updated(s, i, ep) ==
    CASE Slot(s, i, ep) # 0 -> Append(RemoveAt(s, Slot(s, i, ep)), Fresh(i, ep))
      [] Evicts(s, i, ep)   -> <<Fresh(i, ep)>> \o Tail(s)
      [] OTHER              -> Append(s, Fresh(i, ep))

-----------------------------------------------------------------------------
(* ping_nodes(): expiry, then the marking of the entries that are left. *)

Diff(n) == n.idle % Wrap

\* Mutants: an entry is removed when it should be pinged, or only while it is good.
ExpiredEarly(n) == Diff(n) > PingPeriod

ExpiredIfGood(n) == Diff(n) > ExpiredTime /\ n.is_good

Expired(n) == Diff(n) > ExpiredTime

\* Mutant: an entry is not pinged before it expires.
DueOnExpiry(n) == Diff(n) > ExpiredTime

Due(n) == Diff(n) > PingPeriod

\* Mutant: an entry is marked bad when it should be removed.
MarkedLate(n) == [n EXCEPT !.is_good = @ /\ Diff(n) <= ExpiredTime]

Marked(n) == [n EXCEPT !.is_good = @ /\ Diff(n) <= BadPeriod]

\* Mutant: the entries marked bad are removed.
KeptGood(s) == {p \in DOMAIN s : ~Expired(s[p]) /\ s[p].is_good}

Kept(s) == {p \in DOMAIN s : ~Expired(s[p])}

\* The increasing enumerations of a set of positions: there is exactly one.
Enumerations(P) ==
    {f \in [1 .. Cardinality(P) -> P] :
        \A p, q \in 1 .. Cardinality(P) : p < q => f[p] < f[q]}

\* The list after ping_nodes(), as the singleton of its only value.
Swept(s) ==
    {[p \in 1 .. Cardinality(Kept(s)) |-> Marked(s[f[p]])] :
        f \in Enumerations(Kept(s))}

-----------------------------------------------------------------------------
(* Queries. *)

\* get_random_good_node() returns one of these, or nullptr when there is none.
GoodNodes(s) == {p \in DOMAIN s : s[p].is_good}

\* find_closest_nodes(), with the distances from the id looked for: the sort is not
\* stable, so entries at one distance come in any order.  The result is one of
\* these injective choices of positions, nearest first, none skipped for a farther.
Closest(s, max, distance) ==
    LET n == IF Len(s) < max THEN Len(s) ELSE max
    IN  {c \in [1 .. n -> DOMAIN s] :
            /\ \A p, q \in 1 .. n :
                  p < q => c[p] # c[q] /\ distance[s[c[p]].id] <= distance[s[c[q]].id]
            /\ \A p \in 1 .. n, r \in DOMAIN s :
                  (\A q \in 1 .. n : c[q] # r) => distance[s[c[p]].id] <= distance[s[r].id]}
=============================================================================
