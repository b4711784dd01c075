--------------------------- MODULE NodeListProofs ---------------------------
(***************************************************************************)
(* What the operators of NodeList return, for every list of entries.       *)
(***************************************************************************)
EXTENDS NodeList, TLAPS, WellFoundedInduction, SequenceTheorems,
        FiniteSetTheorems

\* A non-empty set of positions has a least element, which Min returns.
LEMMA MinOfIndices ==
    ASSUME NEW I \in SUBSET Nat, I # {}
    PROVE  Min(I) \in I /\ \A y \in I : Min(I) =< y
<1>1. \E x \in I : \A y \in I : ~(<<y, x>> \in OpToRel(<, Nat))
  BY NatLessThanWellFounded, WFMin
<1>2. PICK x \in I : \A y \in I : ~(<<y, x>> \in OpToRel(<, Nat))
  BY <1>1
<1>3. ASSUME NEW y \in I
      PROVE  x =< y
  <2>1. ~(<<y, x>> \in OpToRel(<, Nat))
    BY <1>2
  <2>2. x \in Nat /\ y \in Nat
    OBVIOUS
  <2>3. ~(y < x)
    BY <2>1, <2>2 DEF OpToRel
  <2> QED BY <2>2, <2>3
<1> QED BY <1>3 DEF Min

\* FindId returns the position of an entry of the id, 0 when there is none.
LEMMA FindIdLemma ==
    ASSUME NEW s \in Seq(Entry), NEW i
    PROVE  /\ FindId(s, i) \in 0 .. Len(s)
           /\ FindId(s, i) # 0 => s[FindId(s, i)].id = i
           /\ FindId(s, i) = 0 => i \notin Ids(s)
<1> DEFINE I == {p \in 1 .. Len(s) : s[p].id = i}
<1>1. FindId(s, i) = IF I # {} THEN Min(I) ELSE 0
  BY DEF FindId, SelectInSeq
<1>2. I \in SUBSET Nat
  OBVIOUS
<1>3. I # {} => Min(I) \in I
  BY <1>2, MinOfIndices
<1>4. I = {} => i \notin Ids(s)
  BY DEF Ids
<1> HIDE DEF I
<1> QED BY <1>1, <1>3, <1>4 DEF I

\* FindEndpoint returns the position of an entry of the endpoint, 0 when there is none.
LEMMA FindEndpointLemma ==
    ASSUME NEW s \in Seq(Entry), NEW ep
    PROVE  /\ FindEndpoint(s, ep) \in 0 .. Len(s)
           /\ FindEndpoint(s, ep) # 0 => s[FindEndpoint(s, ep)].endpoint = ep
           /\ FindEndpoint(s, ep) = 0 => \A p \in DOMAIN s : s[p].endpoint # ep
<1> DEFINE I == {p \in 1 .. Len(s) : s[p].endpoint = ep}
<1>1. FindEndpoint(s, ep) = IF I # {} THEN Min(I) ELSE 0
  BY DEF FindEndpoint, SelectInSeq
<1>2. I \in SUBSET Nat
  OBVIOUS
<1>3. I # {} => Min(I) \in I
  BY <1>2, MinOfIndices
<1>4. I = {} => \A p \in DOMAIN s : s[p].endpoint # ep
  OBVIOUS
<1> HIDE DEF I
<1> QED BY <1>1, <1>3, <1>4 DEF I

\* Slot returns the position of the id when it is in the list; otherwise the
\* position of an entry of the endpoint, or 0.
LEMMA SlotLemma ==
    ASSUME NEW s \in Seq(Entry), NEW i, NEW ep
    PROVE  /\ Slot(s, i, ep) \in 0 .. Len(s)
           /\ Slot(s, i, ep) = 0 => i \notin Ids(s)
           /\ Slot(s, i, ep) # 0 =>
                \/ s[Slot(s, i, ep)].id = i
                \/ i \notin Ids(s) /\ s[Slot(s, i, ep)].endpoint = ep
BY FindIdLemma, FindEndpointLemma DEF Slot

\* RemoveAt drops one entry and keeps the order of the others.
LEMMA RemoveAtLemma ==
    ASSUME NEW S, NEW s \in Seq(S), NEW p \in 1 .. Len(s)
    PROVE  /\ RemoveAt(s, p) \in Seq(S)
           /\ Len(RemoveAt(s, p)) = Len(s) - 1
           /\ \A k \in 1 .. Len(s) - 1 :
                RemoveAt(s, p)[k] = IF k < p THEN s[k] ELSE s[k + 1]
<1> DEFINE a == SubSeq(s, 1, p - 1)
           b == SubSeq(s, p + 1, Len(s))
<1>1. /\ a \in Seq(S) /\ Len(a) = p - 1
      /\ \A k \in 1 .. p - 1 : a[k] = s[k]
  BY SubSeqProperties
<1>2. /\ b \in Seq(S) /\ Len(b) = Len(s) - p
      /\ \A k \in 1 .. Len(s) - p : b[k] = s[p + k]
  BY SubSeqProperties
<1> HIDE DEF a, b
<1>3. RemoveAt(s, p) = a \o b
  BY DEF RemoveAt, a, b
<1>4. /\ a \o b \in Seq(S)
      /\ Len(a \o b) = Len(a) + Len(b)
      /\ \A k \in 1 .. Len(a) + Len(b) :
            (a \o b)[k] = IF k <= Len(a) THEN a[k] ELSE b[k - Len(a)]
  BY <1>1, <1>2, ConcatProperties
<1>5. ASSUME NEW k \in 1 .. Len(s) - 1
      PROVE  (a \o b)[k] = IF k < p THEN s[k] ELSE s[k + 1]
  <2>1. CASE k < p
    BY <1>1, <1>2, <1>4, <2>1
  <2>2. CASE k >= p
    <3>1. (a \o b)[k] = b[k - (p - 1)]
      BY <1>1, <1>2, <1>4, <2>2
    <3>2. k - (p - 1) \in 1 .. Len(s) - p /\ p + (k - (p - 1)) = k + 1
      BY <2>2
    <3> QED BY <1>2, <2>2, <3>1, <3>2
  <2>3. k < p \/ k >= p
    OBVIOUS
  <2> QED BY <2>1, <2>2, <2>3
<1> QED BY <1>1, <1>2, <1>3, <1>4, <1>5

\* What update() makes of the list t: the entry of the slot is dropped and a fresh
\* one appended; or a fresh one is put in place of the head of a full list; or it
\* is appended.
Touched(s, i, ep, t) ==
    \E p \in 1 .. Len(s) :
        /\ p = Slot(s, i, ep)
        /\ Len(t) = Len(s)
        /\ \A k \in 1 .. Len(s) - 1 : t[k] = IF k < p THEN s[k] ELSE s[k + 1]
        /\ t[Len(s)] = Fresh(i, ep)

HeadReplaced(s, i, ep, t) ==
    /\ i \notin Ids(s)
    /\ Len(s) = K
    /\ Len(t) = K
    /\ t[1] = Fresh(i, ep)
    /\ \A k \in 2 .. K : t[k] = s[k]

Appended(s, i, ep, t) ==
    /\ i \notin Ids(s)
    /\ Len(t) = Len(s) + 1
    /\ \A k \in 1 .. Len(s) : t[k] = s[k]
    /\ t[Len(s) + 1] = Fresh(i, ep)

\* update() has one of these outcomes, and the list stays within K.
LEMMA UpdatedLemma ==
    ASSUME NEW s \in Seq(Entry), Len(s) <= K, NEW i \in Id, NEW ep \in Endpoint,
           NEW t, t = Updated(s, i, ep)
    PROVE  /\ t \in Seq(Entry)
           /\ Len(t) <= K
           /\ \/ Slot(s, i, ep) # 0 /\ Touched(s, i, ep, t)
              \/ Slot(s, i, ep) = 0 /\ Evicts(s, i, ep) /\ HeadReplaced(s, i, ep, t)
              \/ Slot(s, i, ep) = 0 /\ ~Evicts(s, i, ep) /\ Appended(s, i, ep, t)
<1> DEFINE p == Slot(s, i, ep)
<1> USE CapacityAssumption
<1>0. Fresh(i, ep) \in Entry /\ Len(s) \in Nat
  BY LenProperties DEF Fresh, Entry
<1>1. p \in 0 .. Len(s) /\ (p = 0 => i \notin Ids(s))
  BY SlotLemma
<1>2. CASE p # 0
  <2>1. t = Append(RemoveAt(s, p), Fresh(i, ep))
    BY <1>2 DEF Updated, Evicts
  <2>2. /\ RemoveAt(s, p) \in Seq(Entry)
        /\ Len(RemoveAt(s, p)) = Len(s) - 1
        /\ \A k \in 1 .. Len(s) - 1 :
             RemoveAt(s, p)[k] = IF k < p THEN s[k] ELSE s[k + 1]
    BY <1>1, <1>2, RemoveAtLemma
  <2> HIDE DEF p
  <2>3. /\ t \in Seq(Entry)
        /\ Len(t) = Len(s)
        /\ t[Len(s)] = Fresh(i, ep)
        /\ \A k \in 1 .. Len(s) - 1 : t[k] = RemoveAt(s, p)[k]
    BY <1>0, <2>1, <2>2, AppendProperties
  <2>4. Touched(s, i, ep, t)
    BY <1>0, <1>1, <1>2, <2>2, <2>3 DEF p, Touched
  <2> QED BY <1>2, <2>3, <2>4 DEF p
<1>3. CASE p = 0 /\ Len(s) >= K
  <2>1. t = <<Fresh(i, ep)>> \o Tail(s)
    BY <1>3 DEF Updated, Evicts
  <2>2. s # << >> /\ Len(s) = K
    BY <1>0, <1>3
  <2>3. /\ Tail(s) \in Seq(Entry) /\ Len(Tail(s)) = K - 1
        /\ \A k \in 1 .. K - 1 : Tail(s)[k] = s[k + 1]
    BY <2>2, HeadTailProperties
  <2>4. <<Fresh(i, ep)>> \in Seq(Entry) /\ Len(<<Fresh(i, ep)>>) = 1
    BY <1>0
  <2>5. /\ t \in Seq(Entry)
        /\ Len(t) = K
        /\ \A k \in 1 .. K : t[k] = IF k <= 1 THEN Fresh(i, ep) ELSE Tail(s)[k - 1]
    BY <2>1, <2>3, <2>4, ConcatProperties
  <2>6. t[1] = Fresh(i, ep) /\ \A k \in 2 .. K : t[k] = s[k]
    BY <2>3, <2>5
  <2> QED BY <1>1, <1>3, <2>2, <2>5, <2>6 DEF HeadReplaced, Evicts
<1>4. CASE p = 0 /\ Len(s) < K
  <2>1. t = Append(s, Fresh(i, ep))
    BY <1>0, <1>4 DEF Updated, Evicts
  <2> QED BY <1>0, <1>1, <1>4, <2>1, AppendProperties DEF Appended, Evicts
<1> QED BY <1>0, <1>1, <1>2, <1>3, <1>4

\* update() lists the sender.
LEMMA UpdatedLists ==
    ASSUME NEW s \in Seq(Entry), Len(s) <= K, NEW i \in Id, NEW ep \in Endpoint,
           NEW t, t = Updated(s, i, ep)
    PROVE  i \in Ids(t)
<1>1. /\ t \in Seq(Entry)
      /\ Touched(s, i, ep, t) \/ HeadReplaced(s, i, ep, t) \/ Appended(s, i, ep, t)
  BY UpdatedLemma
<1>2. DOMAIN t = 1 .. Len(t) /\ Len(s) \in Nat
  BY <1>1, LenProperties
<1>3. \E p \in DOMAIN t : t[p] = Fresh(i, ep)
  <2>1. CASE Touched(s, i, ep, t)
    <3>1. PICK p \in 1 .. Len(s) : Len(t) = Len(s) /\ t[Len(s)] = Fresh(i, ep)
      BY <2>1 DEF Touched
    <3> QED BY <1>2, <3>1
  <2>2. CASE HeadReplaced(s, i, ep, t)
    <3>1. Len(t) = K /\ t[1] = Fresh(i, ep) /\ K \in Nat \ {0}
      BY <2>2, CapacityAssumption DEF HeadReplaced
    <3> QED BY <1>2, <3>1
  <2>3. CASE Appended(s, i, ep, t)
    <3>1. Len(t) = Len(s) + 1 /\ t[Len(s) + 1] = Fresh(i, ep)
      BY <2>3 DEF Appended
    <3> QED BY <1>2, <3>1
  <2> QED BY <1>1, <2>1, <2>2, <2>3
<1>4. Fresh(i, ep).id = i
  BY DEF Fresh
<1> QED BY <1>3, <1>4 DEF Ids

\* update() forgets nobody but the head it evicts and whom it knew at the endpoint.
LEMMA UpdatedLoses ==
    ASSUME NEW s \in Seq(Entry), NEW i \in Id, NEW ep \in Endpoint,
           NEW q \in DOMAIN s, NEW t, t = Updated(s, i, ep)
    PROVE  \/ s[q].id \in Ids(t)
           \/ s[q].id = i \/ s[q].endpoint = ep
           \/ Evicts(s, i, ep) /\ Head(s) = s[q]
<1> DEFINE slot == Slot(s, i, ep)
<1>1. /\ Len(s) \in Nat /\ DOMAIN s = 1 .. Len(s) /\ q \in 1 .. Len(s) /\ s # << >>
      /\ Fresh(i, ep) \in Entry
  BY LenProperties DEF Fresh, Entry
<1>2. SUFFICES ASSUME ~(Evicts(s, i, ep) /\ q = 1), s[q].id # i, s[q].endpoint # ep
               PROVE  \E p \in DOMAIN t : t[p] = s[q]
  <2>1. Head(s) = s[1]
    BY <1>1, HeadTailProperties
  <2> QED BY <1>2, <2>1 DEF Ids
<1>3. slot \in 0 .. Len(s) /\ slot # q
  BY <1>1, <1>2, SlotLemma
<1>4. CASE slot # 0
  <2>1. t = Append(RemoveAt(s, slot), Fresh(i, ep))
    BY <1>4 DEF Updated, Evicts
  <2> HIDE DEF slot
  <2>0. slot \in 1 .. Len(s) /\ Len(s) \in Nat /\ Fresh(i, ep) \in Entry
    BY <1>1, <1>3, <1>4
  <2>2. /\ RemoveAt(s, slot) \in Seq(Entry)
        /\ Len(RemoveAt(s, slot)) = Len(s) - 1
        /\ \A k \in 1 .. Len(s) - 1 : RemoveAt(s, slot)[k] = IF k < slot THEN s[k] ELSE s[k + 1]
    BY <2>0, RemoveAtLemma
  <2>3. /\ t \in Seq(Entry) /\ Len(t) = Len(s)
        /\ \A k \in 1 .. Len(s) - 1 : t[k] = RemoveAt(s, slot)[k]
    BY <2>0, <2>1, <2>2, AppendProperties
  <2>4. DOMAIN t = 1 .. Len(s)
    BY <2>3, LenProperties
  <2>5. CASE q < slot
    <3>1. q \in 1 .. Len(s) - 1 /\ t[q] = s[q]
      BY <1>1, <1>3, <2>2, <2>3, <2>5
    <3> QED BY <1>1, <2>4, <3>1
  <2>6. CASE q > slot
    <3>1. q - 1 \in 1 .. Len(s) - 1 /\ ~(q - 1 < slot) /\ q - 1 + 1 = q
      BY <1>1, <1>3, <1>4, <2>6
    <3>2. t[q - 1] = s[q]
      BY <2>2, <2>3, <3>1
    <3> QED BY <1>1, <2>4, <3>1, <3>2
  <2> QED BY <1>1, <1>3, <2>5, <2>6
<1>5. CASE slot = 0 /\ Evicts(s, i, ep)
  <2>1. t = <<Fresh(i, ep)>> \o Tail(s) /\ q # 1
    BY <1>2, <1>5 DEF Updated
  <2>2. /\ Tail(s) \in Seq(Entry) /\ Len(Tail(s)) = Len(s) - 1
        /\ \A k \in 1 .. Len(s) - 1 : Tail(s)[k] = s[k + 1]
    BY <1>1, HeadTailProperties
  <2>3. <<Fresh(i, ep)>> \in Seq(Entry) /\ Len(<<Fresh(i, ep)>>) = 1
    BY <1>1
  <2> HIDE DEF slot
  <2>4. /\ t \in Seq(Entry) /\ Len(t) = Len(s)
        /\ \A k \in 1 .. Len(s) : t[k] = IF k <= 1 THEN Fresh(i, ep) ELSE Tail(s)[k - 1]
    BY <1>1, <2>1, <2>2, <2>3, ConcatProperties
  <2>5. q - 1 \in 1 .. Len(s) - 1 /\ q - 1 + 1 = q /\ ~(q <= 1)
    BY <1>1, <2>1
  <2>6. t[q] = s[q]
    BY <1>1, <2>2, <2>4, <2>5
  <2> QED BY <1>1, <2>4, <2>6, LenProperties
<1>6. CASE slot = 0 /\ ~Evicts(s, i, ep)
  <2>1. t = Append(s, Fresh(i, ep))
    BY <1>6 DEF Updated
  <2> HIDE DEF slot
  <2>2. t \in Seq(Entry) /\ Len(t) = Len(s) + 1 /\ \A k \in 1 .. Len(s) : t[k] = s[k]
    BY <1>1, <2>1, AppendProperties
  <2> QED BY <1>1, <2>2, LenProperties
<1> QED BY <1>4, <1>5, <1>6

\* One position of the new list holds the fresh entry, at the back or at the
\* head; every other holds an entry of the old list, in the old order.  An entry
\* that is gone had the id, or was lost to a new id: it had the endpoint, or was
\* the head of a full list.  At most one entry goes.
Reordered(s, i, ep, t, new, g) ==
    /\ t[new] = Fresh(i, ep)
    /\ new = 1 \/ new = Len(t)
    /\ \A k \in DOMAIN t \ {new} :
         /\ g[k] \in DOMAIN s
         /\ t[k] = s[g[k]]
         /\ s[g[k]].id # i
         /\ k >= 2 => g[k] >= 2
    /\ \A k, l \in DOMAIN t \ {new} : k < l => g[k] < g[l]
    /\ \A q \in DOMAIN s :
         \/ \E k \in DOMAIN t \ {new} : g[k] = q
         \/ s[q].id = i
         \/ /\ i \notin Ids(s)
            /\ s[q].endpoint = ep \/ (q = 1 /\ Len(s) = K)
    /\ \A q, r \in DOMAIN s :
         \/ q = r
         \/ \E k \in DOMAIN t \ {new} : g[k] = q \/ g[k] = r

\* update() reorders the list so.
LEMMA UpdatedShape ==
    ASSUME NEW s \in Seq(Entry), Len(s) <= K, \A p, q \in DOMAIN s : s[p].id = s[q].id => p = q,
           NEW i \in Id, NEW ep \in Endpoint, NEW t, t = Updated(s, i, ep)
    PROVE  /\ t \in Seq(Entry)
           /\ Len(t) <= K
           /\ DOMAIN t = 1 .. Len(t)
           /\ \E new \in DOMAIN t, g \in [DOMAIN t -> Int] : Reordered(s, i, ep, t, new, g)
<1>1. /\ s \in Seq(Entry) /\ Len(s) \in Nat /\ Len(s) <= K
      /\ DOMAIN s = 1 .. Len(s)
  BY LenProperties
<1>2. t \in Seq(Entry) /\ Len(t) <= K
  BY <1>1, UpdatedLemma
<1>3. DOMAIN t = 1 .. Len(t) /\ Len(t) \in Nat
  BY <1>2, LenProperties
<1>4. ASSUME NEW p \in 1 .. Len(s), p = Slot(s, i, ep),
             Len(t) = Len(s),
             \A k \in 1 .. Len(s) - 1 : t[k] = IF k < p THEN s[k] ELSE s[k + 1],
             t[Len(s)] = Fresh(i, ep)
      PROVE  \E new \in DOMAIN t, g \in [DOMAIN t -> Int] : Reordered(s, i, ep, t, new, g)
  <2> DEFINE new == Len(s)
             g == [k \in 1 .. Len(s) |-> IF k < p THEN k ELSE k + 1]
  <2>1. new \in DOMAIN t /\ g \in [DOMAIN t -> Int]
    BY <1>1, <1>3, <1>4
  <2>2. ASSUME NEW k \in DOMAIN t \ {new}
        PROVE  /\ g[k] \in DOMAIN s
               /\ g[k] # p
               /\ t[k] = s[g[k]]
               /\ k >= 2 => g[k] >= 2
    BY <1>1, <1>3, <1>4
  <2>3. \/ s[p].id = i
        \/ i \notin Ids(s) /\ s[p].endpoint = ep
    BY <1>1, <1>4, SlotLemma
  <2>4. ASSUME NEW q \in DOMAIN s, q # p
        PROVE  s[q].id # i
    BY <1>1, <2>3, <2>4 DEF Ids
  <2>5. \A k, l \in DOMAIN t \ {new} : k < l => g[k] < g[l]
    BY <1>1, <1>3, <1>4
  <2>6. ASSUME NEW q \in DOMAIN s, q # p
        PROVE  \E k \in DOMAIN t \ {new} : g[k] = q
    <3>1. CASE q < p
      <4>1. q \in DOMAIN t \ {new} /\ g[q] = q
        BY <1>1, <1>3, <1>4, <3>1
      <4> QED BY <4>1
    <3>2. CASE q > p
      <4>1. q - 1 \in DOMAIN t \ {new} /\ g[q - 1] = q
        BY <1>1, <1>3, <1>4, <3>2
      <4> QED BY <4>1
    <3>3. q < p \/ q > p
      BY <1>1, <2>6
    <3> QED BY <3>1, <3>2, <3>3
  <2> HIDE DEF g, new
  <2>7. Reordered(s, i, ep, t, new, g)
    <3>1. t[new] = Fresh(i, ep) /\ new = Len(t)
      BY <1>4 DEF new
    <3>2. \A k \in DOMAIN t \ {new} :
             /\ g[k] \in DOMAIN s
             /\ t[k] = s[g[k]]
             /\ s[g[k]].id # i
             /\ k >= 2 => g[k] >= 2
      BY <2>2, <2>4
    <3>3. ASSUME NEW q \in DOMAIN s
          PROVE  \/ \E k \in DOMAIN t \ {new} : g[k] = q
                 \/ s[q].id = i
                 \/ i \notin Ids(s) /\ s[q].endpoint = ep
      BY <2>3, <2>6
    <3>4. ASSUME NEW q \in DOMAIN s, NEW r \in DOMAIN s, q # r
          PROVE  \E k \in DOMAIN t \ {new} : g[k] = q \/ g[k] = r
      BY <2>6, <3>4
    <3> QED BY <2>5, <3>1, <3>2, <3>3, <3>4 DEF Reordered
  <2> QED BY <2>1, <2>7
<1>5. ASSUME i \notin Ids(s), Len(s) = K, Len(t) = K,
             t[1] = Fresh(i, ep), \A k \in 2 .. K : t[k] = s[k]
      PROVE  \E new \in DOMAIN t, g \in [DOMAIN t -> Int] : Reordered(s, i, ep, t, new, g)
  <2> DEFINE g == [k \in 1 .. K |-> k]
  <2>1. 1 \in DOMAIN t /\ g \in [DOMAIN t -> Int]
    BY <1>3, <1>5, CapacityAssumption
  <2>2. ASSUME NEW k \in DOMAIN t \ {1}
        PROVE  g[k] = k /\ k \in DOMAIN s /\ t[k] = s[k] /\ s[k].id # i
    BY <1>1, <1>3, <1>5 DEF Ids
  <2>3. \A q \in DOMAIN s : q = 1 \/ q \in DOMAIN t \ {1}
    BY <1>1, <1>3, <1>5
  <2> HIDE DEF g
  <2>4. Reordered(s, i, ep, t, 1, g)
    BY <1>5, <2>2, <2>3 DEF Reordered
  <2> QED BY <2>1, <2>4
<1>6. ASSUME i \notin Ids(s), Len(t) = Len(s) + 1,
             t[Len(s) + 1] = Fresh(i, ep),
             \A k \in 1 .. Len(s) : t[k] = s[k]
      PROVE  \E new \in DOMAIN t, g \in [DOMAIN t -> Int] : Reordered(s, i, ep, t, new, g)
  <2> DEFINE new == Len(s) + 1
             g == [k \in 1 .. new |-> k]
  <2>1. new \in DOMAIN t /\ g \in [DOMAIN t -> Int] /\ new = Len(t)
    BY <1>1, <1>3, <1>6
  <2>2. ASSUME NEW k \in DOMAIN t \ {new}
        PROVE  g[k] = k /\ k \in DOMAIN s /\ t[k] = s[k] /\ s[k].id # i
    BY <1>1, <1>3, <1>6 DEF Ids
  <2>3. \A q \in DOMAIN s : q \in DOMAIN t \ {new}
    BY <1>1, <1>3, <1>6
  <2>4. t[new] = Fresh(i, ep)
    BY <1>6
  <2> HIDE DEF g, new
  <2>5. Reordered(s, i, ep, t, new, g)
    BY <2>1, <2>2, <2>3, <2>4 DEF Reordered
  <2> QED BY <2>1, <2>5
<1>7. \E new \in DOMAIN t, g \in [DOMAIN t -> Int] : Reordered(s, i, ep, t, new, g)
  <2>1. \/ Touched(s, i, ep, t)
        \/ HeadReplaced(s, i, ep, t)
        \/ Appended(s, i, ep, t)
    BY <1>1, UpdatedLemma
  <2> QED BY <1>4, <1>5, <1>6, <2>1 DEF Touched, HeadReplaced, Appended
<1> QED BY <1>2, <1>3, <1>7

\* update() lists no id twice.
LEMMA UpdatedDistinct ==
    ASSUME NEW s \in Seq(Entry), Len(s) <= K, \A p, q \in DOMAIN s : s[p].id = s[q].id => p = q,
           NEW i \in Id, NEW ep \in Endpoint, NEW t, t = Updated(s, i, ep)
    PROVE  \A p, q \in DOMAIN t : t[p].id = t[q].id => p = q
<1>1. DOMAIN t = 1 .. Len(t) /\ Len(t) \in Nat
  BY UpdatedShape, LenProperties
<1>2. PICK new \in DOMAIN t, g \in [DOMAIN t -> Int] : Reordered(s, i, ep, t, new, g)
  BY UpdatedShape
<1>3. /\ t[new] = Fresh(i, ep)
      /\ \A k \in DOMAIN t \ {new} :
           g[k] \in DOMAIN s /\ t[k] = s[g[k]] /\ s[g[k]].id # i
      /\ \A k, l \in DOMAIN t \ {new} : k < l => g[k] < g[l]
  BY <1>2 DEF Reordered
<1>4. ASSUME NEW k \in DOMAIN t \ {new}, NEW l \in DOMAIN t \ {new}, t[k].id = t[l].id
      PROVE  k = l
  <2>1. g[k] = g[l]
    BY <1>3, <1>4
  <2>2. k \in Int /\ l \in Int /\ g[k] \in Int /\ g[l] \in Int
    BY <1>1, <1>3
  <2>3. ~(k < l) /\ ~(l < k)
    BY <1>3, <2>1, <2>2
  <2> QED BY <2>2, <2>3
<1>5. \A k \in DOMAIN t \ {new} : t[k].id # t[new].id
  BY <1>3 DEF Fresh
<1> QED BY <1>4, <1>5

\* The interval 1 .. m has m elements.
LEMMA UpToCardinality ==
    ASSUME NEW m \in Nat
    PROVE  IsFiniteSet(1 .. m) /\ Cardinality(1 .. m) = m
<1>1. IsFiniteSet(1 .. m) /\ Cardinality(1 .. m) = IF 1 > m THEN 0 ELSE m - 1 + 1
  BY FS_Interval
<1> QED BY <1>1

\* A list of distinct ids is no longer than a set they are from.
LEMMA DistinctFit ==
    ASSUME NEW s \in Seq(Entry), \A p, q \in DOMAIN s : s[p].id = s[q].id => p = q,
           NEW T, IsFiniteSet(T), Ids(s) \subseteq T
    PROVE  Len(s) <= Cardinality(T)
<1> DEFINE D == 1 .. Len(s)
           f == [p \in D |-> s[p].id]
<1>1. DOMAIN s = D /\ Len(s) \in Nat
  BY LenProperties
<1>2. IsFiniteSet(D) /\ Cardinality(D) = Len(s)
  BY <1>1, UpToCardinality
<1>3. f \in [D -> T] /\ \A p, q \in D : f[p] = f[q] => p = q
  BY <1>1 DEF Ids
<1> HIDE DEF D, f
<1>4. f \in Injection(D, T)
  BY <1>3 DEF Injection, IsInjective
<1> QED BY <1>2, <1>4, FS_Injection

\* An increasing enumeration of a set of positions leaves none out ...
LEMMA EnumerationLemma ==
    ASSUME NEW m \in Nat, NEW P \in SUBSET (1 .. m), NEW f \in Enumerations(P)
    PROVE  /\ Cardinality(P) \in Nat /\ Cardinality(P) <= m
           /\ f \in [1 .. Cardinality(P) -> P]
           /\ \A p, q \in 1 .. Cardinality(P) : p < q => f[p] < f[q]
           /\ \A k \in P : \E p \in 1 .. Cardinality(P) : f[p] = k
<1> DEFINE n == Cardinality(P)
<1>0. P \subseteq Nat
  OBVIOUS
<1>1. IsFiniteSet(P) /\ n <= m
  <2>1. IsFiniteSet(1 .. m) /\ Cardinality(1 .. m) = m
    BY UpToCardinality
  <2> QED BY <2>1, FS_Subset
<1>2. n \in Nat
  BY <1>1, FS_CardinalityType
<1>3. f \in [1 .. n -> P] /\ \A p, q \in 1 .. n : p < q => f[p] < f[q]
  BY DEF Enumerations
<1> HIDE DEF n
<1>4. f \in Injection(1 .. n, P)
  <2>1. \A p, q \in 1 .. n : f[p] = f[q] => p = q
    <3>1. SUFFICES ASSUME NEW p \in 1 .. n, NEW q \in 1 .. n, p # q
                   PROVE  f[p] # f[q]
      OBVIOUS
    <3>2. f[p] \in Nat /\ f[q] \in Nat
      <4>1. f[p] \in P /\ f[q] \in P
        BY <1>3
      <4> QED BY <1>0, <4>1
    <3>3. p < q \/ q < p
      BY <3>1
    <3> QED BY <1>3, <3>2, <3>3
  <2> QED BY <1>3, <2>1 DEF Injection, IsInjective
<1>5. f \in Surjection(1 .. n, P)
  <2>1. Cardinality(1 .. n) = n /\ IsFiniteSet(1 .. n)
    BY <1>2, UpToCardinality
  <2> QED BY <1>1, <1>4, <2>1, FS_Injection DEF n
<1> QED BY <1>1, <1>2, <1>3, <1>5 DEF Surjection, n

\* ... and is the only one.
LEMMA EnumerationIsUnique ==
    ASSUME NEW m \in Nat, NEW P \in SUBSET (1 .. m),
           NEW f \in Enumerations(P), NEW h \in Enumerations(P)
    PROVE  f = h
<1> DEFINE n == Cardinality(P)
           D == {k \in 1 .. n : f[k] # h[k]}
<1>1. /\ n \in Nat /\ f \in [1 .. n -> P] /\ h \in [1 .. n -> P]
      /\ \A p, q \in 1 .. n : p < q => f[p] < f[q] /\ h[p] < h[q]
      /\ \A k \in P : (\E p \in 1 .. n : f[p] = k) /\ \E p \in 1 .. n : h[p] = k
  <2>1. /\ n \in Nat /\ f \in [1 .. n -> P]
        /\ \A p, q \in 1 .. n : p < q => f[p] < f[q]
        /\ \A k \in P : \E p \in 1 .. n : f[p] = k
    BY EnumerationLemma
  <2>2. /\ h \in [1 .. n -> P]
        /\ \A p, q \in 1 .. n : p < q => h[p] < h[q]
        /\ \A k \in P : \E p \in 1 .. n : h[p] = k
    BY EnumerationLemma
  <2> HIDE DEF n
  <2> QED BY <2>1, <2>2
<1>0. P \subseteq Nat
  OBVIOUS
<1> HIDE DEF n
<1>2. D = {}
  <2>1. SUFFICES ASSUME D # {} PROVE FALSE
    OBVIOUS
  <2>2. D \in SUBSET Nat
    BY <1>1
  <2> DEFINE k == Min(D)
  <2>3. k \in D /\ \A j \in D : k =< j
    BY <2>1, <2>2, MinOfIndices
  <2> HIDE DEF k
  <2>4. \A j \in 1 .. n : j < k => f[j] = h[j]
    BY <1>1, <2>2, <2>3
  <2>5. k \in 1 .. n /\ f[k] \in P /\ h[k] \in P /\ f[k] # h[k]
    BY <1>1, <2>3
  <2>6. f[k] \in Nat /\ h[k] \in Nat
    BY <1>0, <2>5
  <2>7. CASE f[k] < h[k]
    <3>1. PICK j \in 1 .. n : h[j] = f[k]
      BY <1>1, <2>5
    <3>2. j < k \/ j = k \/ k < j
      BY <2>5
    <3>3. CASE j < k
      BY <1>1, <2>4, <2>5, <2>6, <3>1, <3>3
    <3>4. CASE j = k
      BY <2>5, <3>1, <3>4
    <3>5. CASE k < j
      BY <1>1, <2>5, <2>6, <2>7, <3>1, <3>5
    <3> QED BY <3>2, <3>3, <3>4, <3>5
  <2>8. CASE h[k] < f[k]
    <3>1. PICK j \in 1 .. n : f[j] = h[k]
      BY <1>1, <2>5
    <3>2. j < k \/ j = k \/ k < j
      BY <2>5
    <3>3. CASE j < k
      BY <1>1, <2>4, <2>5, <2>6, <3>1, <3>3
    <3>4. CASE j = k
      BY <2>5, <3>1, <3>4
    <3>5. CASE k < j
      BY <1>1, <2>5, <2>6, <2>8, <3>1, <3>5
    <3> QED BY <3>2, <3>3, <3>4, <3>5
  <2> QED BY <2>5, <2>6, <2>7, <2>8
<1> QED BY <1>1, <1>2

\* What ping_nodes() leaves: the entries that have not expired, all of them, in
\* their order, marked.
LEMMA SweptLemma ==
    ASSUME NEW s \in Seq(Entry), NEW t \in Swept(s)
    PROVE  /\ t \in Seq(Entry)
           /\ Len(t) <= Len(s)
           /\ \E f \in [1 .. Len(t) -> Kept(s)] :
                /\ \A p \in 1 .. Len(t) : t[p] = Marked(s[f[p]])
                /\ \A p, q \in 1 .. Len(t) : p < q => f[p] < f[q]
                /\ \A k \in Kept(s) : \E p \in 1 .. Len(t) : f[p] = k
<1> DEFINE P == Kept(s)
           n == Cardinality(P)
<1>1. PICK f \in Enumerations(P) : t = [p \in 1 .. n |-> Marked(s[f[p]])]
  BY DEF Swept
<1>2. P \in SUBSET (1 .. Len(s)) /\ Len(s) \in Nat
  BY LenProperties DEF Kept
<1>3. /\ n \in Nat /\ n <= Len(s)
      /\ f \in [1 .. n -> P] /\ \A p, q \in 1 .. n : p < q => f[p] < f[q]
      /\ \A k \in P : \E p \in 1 .. n : f[p] = k
  BY <1>2, EnumerationLemma
<1> HIDE DEF n, P
<1>4. \A p \in 1 .. n : Marked(s[f[p]]) \in Entry
  <2>1. SUFFICES ASSUME NEW p \in 1 .. n
                 PROVE  Marked(s[f[p]]) \in Entry
    OBVIOUS
  <2>2. s[f[p]] \in Entry
    BY <1>2, <1>3, ElementOfSeq
  <2>3. ASSUME NEW e \in Entry
        PROVE  Marked(e) \in Entry
    BY DEF Marked, Entry
  <2> QED BY <2>2, <2>3
<1>5. t \in Seq(Entry) /\ Len(t) = n
  BY <1>1, <1>3, <1>4, IsASeq
<1> QED BY <1>1, <1>3, <1>5 DEF P
=============================================================================
