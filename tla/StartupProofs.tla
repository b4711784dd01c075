---------------------------- MODULE StartupProofs ----------------------------
(***************************************************************************)
(* Proofs about Startup, for every number of ports, requests, saves and    *)
(* crashes, whatever the router and the clocks do.                         *)
(***************************************************************************)
EXTENDS Startup, TLAPS

USE PortAssumption

FileType ==
    /\ file \in Configured \union {Cut} /\ saving \in Configured \union {None}
    /\ saved \in Configured /\ lost \in BOOLEAN
    /\ stage \in {"off", "forwarding", "forwarded", "built", "online"}
    /\ port \in Port

\* The file is the one saved last, but for a save that has begun or was interrupted.
FileIsSaved ==
    IF saving = None THEN file = saved \/ (file = Cut /\ lost)
    ELSE file = Cut /\ stage = "online"

IInv == FileType /\ FileIsSaved /\ PortIsSaved

LEMMA ConfiguredPorts ==
    /\ Configured \subseteq Port /\ Cut \notin Configured /\ None \notin Configured
    /\ 0 \notin Configured
    /\ (Configured # {} => 0 \in Port)
<1>1. Configured \subseteq Port /\ 0 \notin Configured
  OBVIOUS
<1>2. \A p \in Port : p \in Nat /\ p < Ports /\ p # -1
  BY DEF Port
<1>3. Configured # {} => 0 \in Port
  <2>1. ASSUME NEW p \in Configured
        PROVE  0 \in Port
    BY <1>1, <1>2 DEF Port
  <2> QED BY <2>1
<1> QED BY <1>1, <1>2, <1>3 DEF Cut, None

LEMMA IInit == Init => IInv
<1> SUFFICES ASSUME Init PROVE IInv
  OBVIOUS
<1>1. FileType
  BY ConfiguredPorts DEF Init, FileType
<1> QED BY <1>1 DEF Init, IInv, FileIsSaved, PortIsSaved

\* Steps of forward_port(), the router and the clock.
LEMMA IForwarding ==
    ASSUME IInv, UNCHANGED <<fileVars, port, boundVars>>, stage = "forwarding",
           stage' \in {"forwarding", "forwarded"}
    PROVE  IInv'
BY DEF IInv, FileType, FileIsSaved, PortIsSaved, fileVars, boundVars

LEMMA IStutter ==
    ASSUME IInv, UNCHANGED <<fileVars, stage, port, boundVars>>
    PROVE  IInv'
BY DEF IInv, FileType, FileIsSaved, PortIsSaved, fileVars, boundVars

LEMMA ILoad ==
    ASSUME IInv, Load
    PROVE  IInv'
<1>1. /\ stage = "off" /\ stage' = "forwarding" /\ port' = Read(file)
      /\ UNCHANGED <<file, saving, saved, lost>>
  BY DEF Load, fileVars
<1>2. saving = None
  BY <1>1 DEF IInv, FileIsSaved
<1>3. file = saved \/ (file = Cut /\ lost)
  BY <1>2 DEF IInv, FileIsSaved
<1>4. port' = IF file = Cut THEN 0 ELSE file
  BY <1>1 DEF Read
<1>5. saved \in Configured /\ file \in Configured \union {Cut}
  BY DEF IInv, FileType
<1>6. FileType'
  BY <1>1, <1>4, <1>5, ConfiguredPorts DEF IInv, FileType
<1>7. FileIsSaved'
  BY <1>1, <1>2, <1>3 DEF FileIsSaved
<1>8. PortIsSaved'
  BY <1>1, <1>3, <1>4, <1>5, ConfiguredPorts DEF PortIsSaved
<1> QED BY <1>6, <1>7, <1>8 DEF IInv

LEMMA IBind ==
    ASSUME IInv, Build \/ GoOnline
    PROVE  IInv'
<1>1. CASE Build
  BY <1>1 DEF Build, IInv, FileType, FileIsSaved, PortIsSaved, fileVars
<1>2. CASE GoOnline
  BY <1>2 DEF GoOnline, IInv, FileType, FileIsSaved, PortIsSaved, fileVars
<1> QED BY <1>1, <1>2

LEMMA ISave ==
    ASSUME IInv, (\E p \in Configured : Open(p)) \/ Write \/ WriteFails
    PROVE  IInv'
<1>1. ASSUME NEW p \in Configured, Open(p)
      PROVE  IInv'
  BY <1>1, ConfiguredPorts
     DEF Open, IInv, FileType, FileIsSaved, PortIsSaved, boundVars
<1>2. CASE Write
  <2>1. saving \in Configured /\ stage = "online"
    BY <1>2 DEF Write, IInv, FileType, FileIsSaved
  <2> QED BY <1>2, <2>1 DEF Write, IInv, FileType, FileIsSaved, PortIsSaved, boundVars
\* What a save that fails leaves is lost like what a crash leaves.
<1>3. CASE WriteFails
  BY <1>3 DEF WriteFails, IInv, FileType, FileIsSaved, PortIsSaved
<1> QED BY <1>1, <1>2, <1>3

\* A crash in the middle of a save leaves the file cut, and that is what is lost.
LEMMA ICrash ==
    ASSUME IInv, Crash
    PROVE  IInv'
<1>1. /\ stage' = "off" /\ saving' = None /\ lost' = (lost \/ saving # None)
      /\ UNCHANGED <<file, saved>> /\ port' = 0
  BY DEF Crash
<1>2. FileType'
  BY <1>1, ConfiguredPorts DEF IInv, FileType
<1>3. FileIsSaved'
  BY <1>1 DEF IInv, FileIsSaved
<1> QED BY <1>1, <1>2, <1>3 DEF IInv, PortIsSaved

LEMMA INext == IInv /\ [Next]_vars => IInv'
<1> SUFFICES ASSUME IInv, [Next]_vars PROVE IInv'
  OBVIOUS
<1>1. CASE UNCHANGED vars
  BY <1>1, IStutter DEF vars
<1>2. CASE End
  BY <1>2, IForwarding DEF End, Close, Forward
<1>3. CASE Retry
  BY <1>3, IForwarding DEF Retry, Close, Forward
<1>4. CASE Respond
  BY <1>4, IStutter DEF Respond
<1>5. CASE Tick \/ SetBack \/ SetForward \/ Again
  BY <1>5, IStutter DEF Tick, SetBack, SetForward, Again
<1> QED BY <1>1, <1>2, <1>3, <1>4, <1>5, ILoad, IBind, ISave, ICrash DEF Next

LEMMA IAlways == Spec => []IInv
BY IInit, INext, PTL DEF Spec

\* Whatever crash or failing save comes at whatever step, a messenger comes up at the port
\* saved last, unless a later save was interrupted or failed, and then at none.
THEOREM SavedPortIsUsed == Spec => []PortIsSaved
<1>1. IInv => PortIsSaved
  BY DEF IInv
<1> QED BY <1>1, IAlways, PTL

-----------------------------------------------------------------------------
(* The time forward_port() takes. *)

ForwardType ==
    /\ recognised \in BOOLEAN /\ connected \in BOOLEAN /\ request \in BOOLEAN /\ answered \in BOOLEAN
    /\ step \in {0, 1} /\ tries \in 0 .. MaxTries
    /\ due \in Int /\ asleep \in Nat /\ elapsed \in Nat /\ since \in Nat
    /\ skew \in 0 .. MaxSkew /\ ahead \in 0 .. MaxAhead /\ late \in 0 .. MaxLate

\* What is left until retry_time is what is left of all the delays so far: that retry_time
\* is counted from the time it was last due, and not from the time of the request, keeps
\* a late request from putting off those after it.
DelaysAddUp ==
    stage = "forwarding" => tries >= 1 /\ due = 2 ^ tries - 1 + skew - ahead - elapsed

\* select() waits no longer than until retry_time, but for what brought retry_time nearer.
SleepIsShort == stage = "forwarding" => due + late + ahead >= asleep

\* The last request was made when it was due, or later by no more than what was lost.
LastWasDue == stage = "forwarding" => since + due + late + ahead >= 2 ^ (tries - 1)

FInv == ForwardType /\ DelaysAddUp /\ SleepIsShort /\ LastWasDue /\ BacksOff

\* The delay of each request is twice that of the one before.
LEMMA Doubling ==
    ASSUME NEW n \in 0 .. 9
    PROVE  /\ 2 ^ n \in Nat \ {0}
           /\ n < 9 => 2 ^ (n + 1) = 2 ^ n + 2 ^ n
           /\ n >= 1 => 2 ^ n = 2 ^ (n - 1) + 2 ^ (n - 1)
<1>1. CASE n = 0
  BY <1>1
<1>2. CASE n = 1
  BY <1>2
<1>3. CASE n = 2
  BY <1>3
<1>4. CASE n = 3
  BY <1>4
<1>5. CASE n = 4
  BY <1>5
<1>6. CASE n = 5
  BY <1>6
<1>7. CASE n = 6
  BY <1>7
<1>8. CASE n = 7
  BY <1>8
<1>9. CASE n = 8
  BY <1>9
<1>10. CASE n = 9
  BY <1>10
<1> QED BY <1>1, <1>2, <1>3, <1>4, <1>5, <1>6, <1>7, <1>8, <1>9, <1>10

\* The bounds allow for none of what they bound.
LEMMA NoneOfThem ==
    /\ 0 \in 0 .. MaxTries /\ 1 \in 0 .. MaxTries
    /\ 0 \in 0 .. MaxSkew /\ 0 \in 0 .. MaxAhead /\ 0 \in 0 .. MaxLate
BY StartupBoundAssumption

\* What holds of the times while a port is being forwarded, in numbers.
LEMMA Times ==
    ASSUME FInv, stage = "forwarding"
    PROVE  /\ tries \in 1 .. MaxTries /\ tries \in 1 .. 9
           /\ due \in Int /\ asleep \in Nat /\ elapsed \in Nat /\ since \in Nat
           /\ skew \in Nat /\ ahead \in Nat /\ late \in Nat
           /\ 2 ^ tries \in Nat /\ 2 ^ (tries - 1) \in Nat
           /\ 2 ^ tries = 2 ^ (tries - 1) + 2 ^ (tries - 1)
           /\ due = 2 ^ tries - 1 + skew - ahead - elapsed
           /\ due + late + ahead >= asleep
           /\ since + due + late + ahead >= 2 ^ (tries - 1)
           /\ elapsed >= 2 ^ (tries - 1) - 1 - ahead
<1>1. /\ tries \in 1 .. MaxTries /\ tries \in 1 .. 9
      /\ due \in Int /\ asleep \in Nat /\ elapsed \in Nat /\ since \in Nat
      /\ skew \in Nat /\ ahead \in Nat /\ late \in Nat
  BY StartupBoundAssumption DEF FInv, ForwardType, DelaysAddUp
<1>2. tries \in 0 .. 9 /\ tries - 1 \in 0 .. 9
  BY <1>1
<1>3. /\ 2 ^ tries \in Nat /\ 2 ^ (tries - 1) \in Nat
      /\ 2 ^ tries = 2 ^ (tries - 1) + 2 ^ (tries - 1)
  <2>1. 2 ^ tries \in Nat \ {0} /\ (tries >= 1 => 2 ^ tries = 2 ^ (tries - 1) + 2 ^ (tries - 1))
    BY <1>2, Doubling
  <2>2. 2 ^ (tries - 1) \in Nat \ {0}
    BY <1>2, Doubling
  <2> QED BY <1>1, <2>1, <2>2
<1> QED BY <1>1, <1>3 DEF FInv, DelaysAddUp, SleepIsShort, LastWasDue, BacksOff

\* The two bounds that follow from the sum of the delays.
LEMMA NotTooLong ==
    ASSUME NEW e \in Int, NEW d \in Int, NEW k \in Int, NEW a \in Int, NEW l \in Int,
           NEW p \in Int, d = p - 1 + k - a - e, d + l + a >= 0
    PROVE  e <= p - 1 + k + l
OBVIOUS

LEMMA AtLeastNone ==
    ASSUME NEW d \in Int, NEW l \in Int, NEW a \in Int, NEW t \in Nat, d + l + a >= t
    PROVE  d + l + a >= 0
OBVIOUS

\* A tick brings retry_time nearer by one: one less to sleep, or one more lost.
LEMMA OneTick ==
    ASSUME NEW d \in Int, NEW l \in Nat, NEW a \in Nat, NEW t \in Nat, NEW n \in Nat, NEW h \in Nat,
           NEW l2 \in Nat, NEW t2 \in Nat, l2 >= l,
           d + l + a >= t, n + d + l + a >= h,
           t > 0 => t2 = t - 1, t = 0 => t2 = 0 /\ l2 = l + 1
    PROVE  (d - 1) + l2 + a >= t2 /\ (n + 1) + (d - 1) + l2 + a >= h
<1>1. (n + 1) + (d - 1) + l2 + a >= h
  OBVIOUS
<1>2. CASE t > 0
  BY <1>1, <1>2
<1>3. CASE t = 0
  BY <1>1, <1>3
<1> QED BY <1>2, <1>3

LEMMA FInit == Init => FInv
<1> SUFFICES ASSUME Init PROVE FInv
  OBVIOUS
<1>1. ForwardType
  <2>1. /\ recognised \in BOOLEAN /\ connected \in BOOLEAN /\ request \in BOOLEAN /\ answered \in BOOLEAN
        /\ step = 0 /\ tries = 0 /\ due = 0 /\ asleep = 0 /\ elapsed = 0 /\ since = 0
        /\ skew = 0 /\ ahead = 0 /\ late = 0
    BY DEF Init
  <2> QED BY <2>1, NoneOfThem DEF ForwardType
<1> QED BY <1>1 DEF Init, FInv, DelaysAddUp, SleepIsShort, LastWasDue, BacksOff

\* The first request for a port.
LEMMA FForward ==
    ASSUME FInv, NEW s \in {0, 1}, Forward(s), recognised' = recognised
    PROVE  FInv'
<1>1. /\ step' \in {0, 1} /\ tries' = 1 /\ due' = 1 /\ asleep' = 1 /\ elapsed' = 0 /\ since' = 0
      /\ skew' = 0 /\ ahead' = 0 /\ late' = 0
      /\ connected' \in BOOLEAN /\ request' \in BOOLEAN /\ answered' \in BOOLEAN
  BY DEF Forward, NoTime
<1>2. 2 ^ 1 = 2 /\ 2 ^ (1 - 1) = 1
  BY Doubling
<1>3. ForwardType'
  BY <1>1, StartupBoundAssumption DEF FInv, ForwardType
<1>4. DelaysAddUp' /\ SleepIsShort' /\ LastWasDue'
  BY <1>1, <1>2 DEF DelaysAddUp, SleepIsShort, LastWasDue
<1>5. BacksOff'
  BY <1>1, <1>2, StartupBoundAssumption DEF BacksOff
<1> QED BY <1>3, <1>4, <1>5 DEF FInv

\* There is no socket, and nothing to wait for.
LEMMA FNone ==
    ASSUME FInv, NoSocket, recognised' = recognised, stage' # "forwarding"
    PROVE  FInv'
<1>1. /\ recognised' \in BOOLEAN /\ connected' \in BOOLEAN /\ request' \in BOOLEAN /\ answered' \in BOOLEAN
      /\ step' = 0 /\ tries' = 0 /\ due' = 0 /\ asleep' = 0 /\ elapsed' = 0 /\ since' = 0
      /\ skew' = 0 /\ ahead' = 0 /\ late' = 0
  BY DEF NoSocket, NoTime, FInv, ForwardType
<1>2. ForwardType'
  BY <1>1, NoneOfThem DEF ForwardType
<1> QED BY <1>2 DEF FInv, DelaysAddUp, SleepIsShort, LastWasDue, BacksOff

LEMMA FClose ==
    ASSUME FInv, Close, recognised' = recognised
    PROVE  FInv'
<1>1. CASE step = 0
  BY <1>1, FForward DEF Close
<1>2. CASE step # 0
  BY <1>2, FNone DEF Close
<1> QED BY <1>1, <1>2

\* A request is repeated.
LEMMA FRetry ==
    ASSUME FInv, Retry
    PROVE  FInv'
<1>1. /\ stage = "forwarding" /\ recognised /\ due <= 0 /\ tries < MaxTries
      /\ recognised' = recognised
  BY DEF Retry
<1>2. CASE Close
  BY <1>1, <1>2, FClose
<1>3. CASE ~Close
  <2> DEFINE p == 2 ^ tries
  <2>1. /\ due' = due + p /\ asleep' = Timeout(due') /\ tries' = tries + 1 /\ since' = 0
        /\ request' \in BOOLEAN
        /\ UNCHANGED <<stage, step, connected, answered, elapsed, skew, ahead, late>>
    BY <1>3 DEF Retry, Delay, FInv, ForwardType
  <2>2. /\ tries \in 1 .. 8 /\ due \in Int /\ asleep \in Nat /\ elapsed \in Nat
        /\ skew \in Nat /\ ahead \in Nat /\ late \in Nat /\ p \in Nat
        /\ due = p - 1 + skew - ahead - elapsed
        /\ due + late + ahead >= 0
    BY <1>1, Times, StartupBoundAssumption
  <2>3. 2 ^ tries' = p + p /\ 2 ^ (tries' - 1) = p
    <3>1. tries \in 0 .. 9 /\ tries < 9 /\ (tries + 1) - 1 = tries
      BY <2>2
    <3> QED BY <2>1, <3>1, Doubling
  <2> HIDE DEF p
  <2>4. due' \in Int /\ asleep' \in Nat /\ tries' \in 1 .. MaxTries
    BY <1>1, <2>1, <2>2, StartupBoundAssumption DEF Timeout
  <2>5. ForwardType'
    BY <1>1, <2>1, <2>4 DEF FInv, ForwardType
  <2>6. due' = (p + p) - 1 + skew - ahead - elapsed
    BY <2>1, <2>2
  <2>7. due' + late + ahead >= asleep' /\ due' + late + ahead >= 0
    BY <2>1, <2>2, <2>4 DEF Timeout
  <2>8. DelaysAddUp'
    BY <2>1, <2>3, <2>4, <2>6 DEF DelaysAddUp
  <2>9. SleepIsShort'
    BY <2>1, <2>7 DEF SleepIsShort
  <2>10. LastWasDue'
    <3>1. 0 + (due + p) + late + ahead >= p
      BY <2>2
    <3> QED BY <2>1, <2>3, <3>1 DEF LastWasDue
  <2>11. BacksOff'
    <3>1. elapsed >= p - 1 - ahead
      BY <1>1, <2>2
    <3>2. p + p \in Int
      BY <2>2
    <3>3. elapsed <= (p + p) - 1 + skew + late
      BY <2>2, <2>4, <2>6, <2>7, <3>2, NotTooLong
    <3> QED BY <1>1, <2>1, <2>3, <2>4, <3>1, <3>3 DEF BacksOff
  <2> QED BY <2>5, <2>8, <2>9, <2>10, <2>11 DEF FInv
<1> QED BY <1>2, <1>3

\* Time passes, the clock is set, or select() waits again.
LEMMA FTime ==
    ASSUME FInv, Tick \/ SetBack \/ SetForward \/ Again
    PROVE  FInv'
<1>1. /\ stage = "forwarding" /\ stage' = stage
      /\ UNCHANGED <<recognised, connected, request, answered, step, tries>>
  BY DEF Tick, SetBack, SetForward, Again
<1> DEFINE p == 2 ^ tries
           h == 2 ^ (tries - 1)
<1>2. /\ due \in Int /\ asleep \in Nat /\ elapsed \in Nat /\ since \in Nat
      /\ skew \in Nat /\ ahead \in Nat /\ late \in Nat /\ p \in Nat /\ h \in Nat
      /\ due = p - 1 + skew - ahead - elapsed
      /\ due + late + ahead >= asleep
      /\ since + due + late + ahead >= h
      /\ elapsed >= h - 1 - ahead
  BY <1>1, Times
<1>3. /\ tries >= 1 /\ tries <= IF recognised THEN MaxTries ELSE 1
      /\ MaxSkew \in Nat /\ MaxAhead \in Nat /\ MaxLate \in Nat
      /\ skew \in 0 .. MaxSkew /\ ahead \in 0 .. MaxAhead /\ late \in 0 .. MaxLate
  BY <1>1, Times, StartupBoundAssumption DEF FInv, BacksOff, ForwardType
<1> HIDE DEF p, h
<1>4. SUFFICES /\ due' \in Int /\ asleep' \in Nat /\ elapsed' \in Nat /\ since' \in Nat
               /\ skew' \in 0 .. MaxSkew /\ ahead' \in 0 .. MaxAhead /\ late' \in 0 .. MaxLate
               /\ due' = p - 1 + skew' - ahead' - elapsed'
               /\ due' + late' + ahead' >= asleep'
               /\ since' + due' + late' + ahead' >= h
               /\ elapsed' >= h - 1 - ahead'
  <2>1. ForwardType'
    BY <1>1, <1>4 DEF FInv, ForwardType
  <2>2. DelaysAddUp' /\ SleepIsShort' /\ LastWasDue'
    BY <1>1, <1>3, <1>4 DEF DelaysAddUp, SleepIsShort, LastWasDue, p, h
  <2>3. elapsed' <= p - 1 + skew' + late'
    <3>1. /\ elapsed' \in Int /\ due' \in Int /\ skew' \in Int /\ ahead' \in Int /\ late' \in Int
          /\ p \in Int
      BY <1>2, <1>3, <1>4
    <3>2. due' + late' + ahead' >= 0
      BY <1>4, <3>1, AtLeastNone
    <3> QED BY <1>4, <3>1, <3>2, NotTooLong
  <2>4. BacksOff'
    BY <1>1, <1>3, <1>4, <2>3 DEF BacksOff, p, h
  <2> QED BY <2>1, <2>2, <2>4 DEF FInv
<1>5. CASE Tick
  <2>1. /\ due' = due - 1 /\ elapsed' = elapsed + 1 /\ since' = since + 1 /\ skew' = skew /\ ahead' = ahead
        /\ late' \in 0 .. MaxLate /\ late' >= late /\ late' \in Nat
    BY <1>2, <1>3, <1>5 DEF Tick
  <2>2. /\ asleep' \in Nat
        /\ asleep > 0 => asleep' = asleep - 1
        /\ asleep = 0 => asleep' = 0 /\ late' = late + 1
    BY <1>2, <1>5 DEF Tick, Timeout, Wakes
  <2>3. due' = p - 1 + skew' - ahead' - elapsed'
    BY <1>2, <2>1
  <2>4. due' + late' + ahead' >= asleep' /\ since' + due' + late' + ahead' >= h
    <3>1. /\ (due - 1) + late' + ahead >= asleep'
          /\ (since + 1) + (due - 1) + late' + ahead >= h
      <4>1. /\ due \in Int /\ late \in Nat /\ ahead \in Nat /\ asleep \in Nat /\ since \in Nat /\ h \in Nat
            /\ due + late + ahead >= asleep /\ since + due + late + ahead >= h
        BY <1>2
      <4>2. late' \in Nat /\ late' >= late
        BY <2>1
      <4> QED BY <2>2, <4>1, <4>2, OneTick
    <3>2. due' = due - 1 /\ since' = since + 1 /\ ahead' = ahead
      BY <2>1
    <3> QED BY <3>1, <3>2, Zenon
  <2>5. elapsed' >= h - 1 - ahead' /\ elapsed' \in Nat /\ since' \in Nat /\ due' \in Int
    BY <1>2, <2>1
  <2>6. skew' \in 0 .. MaxSkew /\ ahead' \in 0 .. MaxAhead
    BY <1>3, <2>1
  <2> QED BY <2>1, <2>2, <2>3, <2>4, <2>5, <2>6
<1>6. CASE SetBack
  <2>1. /\ due' = due + 1 /\ skew' = skew + 1 /\ skew < MaxSkew
        /\ UNCHANGED <<asleep, elapsed, since, ahead, late>>
    BY <1>6 DEF SetBack
  <2>2. due + 1 = p - 1 + (skew + 1) - ahead - elapsed
    BY <1>2
  <2>3. (due + 1) + late + ahead >= asleep /\ since + (due + 1) + late + ahead >= h
    BY <1>2
  <2>4. due + 1 \in Int /\ skew + 1 \in 0 .. MaxSkew
    BY <1>2, <1>3, <2>1
  <2> QED BY <1>2, <1>3, <2>1, <2>2, <2>3, <2>4
<1>7. CASE SetForward
  BY <1>2, <1>3, <1>7 DEF SetForward
<1>8. CASE Again
  BY <1>2, <1>3, <1>8 DEF Again, Timeout
<1> QED BY <1>5, <1>6, <1>7, <1>8

LEMMA FNext == FInv /\ [Next]_vars => FInv'
<1> SUFFICES ASSUME FInv, [Next]_vars PROVE FInv'
  OBVIOUS
<1>0. ASSUME UNCHANGED <<recognised, step, tries, connected, timeVars>>,
             stage' = stage \/ stage' # "forwarding", request' \in BOOLEAN, answered' \in BOOLEAN
      PROVE  FInv'
  BY <1>0 DEF timeVars, FInv, ForwardType, DelaysAddUp, SleepIsShort, LastWasDue, BacksOff
<1>1. CASE UNCHANGED vars
  BY <1>0, <1>1 DEF vars, forwardVars, FInv, ForwardType
<1>2. CASE Load
  BY <1>2, FForward DEF Load
<1>3. CASE End
  BY <1>3, FClose DEF End
<1>4. CASE Respond
  BY <1>0, <1>4 DEF Respond, FInv, ForwardType
<1>5. CASE Build \/ GoOnline \/ Write \/ WriteFails \/ \E p \in Configured : Open(p)
  <2>1. UNCHANGED <<recognised, forwardVars>> /\ (stage' = stage \/ stage' # "forwarding")
    BY <1>5 DEF Build, GoOnline, Write, WriteFails, Open
  <2> QED BY <1>0, <2>1 DEF forwardVars, FInv, ForwardType
<1>6. CASE Crash
  BY <1>6, FNone DEF Crash
<1> QED BY <1>1, <1>2, <1>3, <1>4, <1>5, <1>6, FRetry, FTime DEF Next

LEMMA FAlways == Spec => []FInv
BY FInit, FNext, PTL DEF Spec

\* No request of forward_port() comes too early, and it does not go on for too long.
THEOREM RetriesBackOff == Spec => []BacksOff
<1>1. FInv => BacksOff
  BY DEF FInv
<1> QED BY <1>1, FAlways, PTL

\* Between two requests there is the delay of the first, but for what the process was
\* suspended and the clock set forward.
THEOREM RequestsSpaced == Spec => RequestsAreSpaced
<1>1. ASSUME FInv, [Next]_vars
      PROVE  [stage = "forwarding" /\ tries' = tries + 1 => since + late + ahead >= 2 ^ (tries - 1)]_vars
  <2> SUFFICES ASSUME Next, stage = "forwarding", tries' = tries + 1
               PROVE  since + late + ahead >= 2 ^ (tries - 1)
    BY <1>1
  <2>1. /\ tries \in 1 .. 9 /\ due \in Int /\ since \in Nat /\ ahead \in Nat /\ late \in Nat
        /\ 2 ^ (tries - 1) \in Nat
        /\ since + due + late + ahead >= 2 ^ (tries - 1)
    BY <1>1, Times
  <2>2. tries' # tries /\ tries' # 1 /\ tries' # 0
    BY <2>1
  <2>3. ~Load /\ ~End /\ ~Crash
    BY <2>2 DEF Load, End, Crash, Close, Forward, NoSocket
  <2>4. ~(\/ Again \/ Build \/ GoOnline \/ Respond \/ Tick \/ SetBack \/ SetForward \/ Write
          \/ WriteFails \/ \E p \in Configured : Open(p))
    BY <2>2 DEF Again, Build, GoOnline, Respond, Tick, SetBack, SetForward, Write, WriteFails, Open,
                forwardVars
  <2>5. due <= 0
    BY <2>3, <2>4 DEF Next, Retry
  <2> QED BY <2>1, <2>5
<1> QED BY <1>1, FAlways, PTL DEF Spec, RequestsAreSpaced
=============================================================================
