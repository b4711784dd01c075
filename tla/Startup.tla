------------------------------- MODULE Startup -------------------------------
(***************************************************************************)
(* How a messenger comes up, and comes back after a crash: its             *)
(* configuration is read from a file (config/config_loader.h), two ports   *)
(* are forwarded (network/nat_pmp.h and libs/libnatpmp/natpmp.c), one      *)
(* after the other, then the DHT and the messenger's service are bound to  *)
(* them (messenger.h).                                                     *)
(*                                                                         *)
(* Time is counted in ticks of 250 ms, the delay before the first retry.   *)
(* retry_time is kept as the ticks left until then: the clock that         *)
(* measures them is the system's, and can be set, back or forward, and the *)
(* process can be suspended while time passes.  The wait in select() is    *)
(* measured by another clock, that nobody sets.                            *)
(*                                                                         *)
(* Definitions introduced as mutants are no part of the model.             *)
(***************************************************************************)
EXTENDS Integers

CONSTANTS
    Ports,       \* how many port numbers there are, 2^16
    Configured,  \* the ports that configurations name
    MaxTries,    \* requests for one port, 9 in the code
    MaxSaves,    \* bound: calls of save_config()
    MaxCrashes,  \* bound: crashes
    MaxSkew,     \* bound: ticks by which the clock is set back, for one port
    MaxAhead,    \* bound: ticks by which the clock is set forward, for one port
    MaxLate      \* bound: ticks for which the process is suspended, for one port

Port == 0 .. Ports - 1

ASSUME PortAssumption == Ports \in Nat /\ Configured \subseteq Port \ {0}

ASSUME StartupBoundAssumption ==
    /\ MaxTries \in 1 .. 9
    /\ MaxSaves \in Nat /\ MaxCrashes \in Nat
    /\ MaxSkew \in Nat /\ MaxAhead \in Nat /\ MaxLate \in Nat

VARIABLES
    recognised,  \* the compiler's EWOULDBLOCK is the code that recvfrom() sets
    file,        \* the port in the file, Cut when the file is not whole
    saving,      \* the port being saved
    saved,       \* history: the port saved last
    lost,        \* history: the last save crashed or failed, after it had cut the file
    stage,       \* how far the messenger has come
    port,        \* _config.dht_port
    step,        \* which of the two ports is being forwarded, 0 or 1
    tries,       \* try_number
    due,         \* ticks until retry_time
    asleep,      \* ticks until select() times out
    connected,   \* initnatpmp() succeeded
    request,     \* a request is on its way to the router
    answered,    \* an answer or an ICMP error waits at the socket
    elapsed,     \* history: ticks since the first request
    since,       \* history: ticks since the last request
    skew, ahead, \* history: ticks the clock was set back and forward since the first
    late,        \* history: ticks the process was suspended since the first
    dhtPort, servicePort,  \* the ports bound
    saves, crashes

fileVars == <<file, saving, saved, lost, saves>>
timeVars == <<due, asleep, elapsed, since, skew, ahead, late>>
forwardVars == <<step, tries, connected, request, answered, timeVars>>
boundVars == <<dhtPort, servicePort>>
vars == <<recognised, fileVars, stage, port, forwardVars, boundVars, crashes>>

Cut == -1

None == -1

\* _config.dht_port + 1, as a port.
NextPort(p) == (p + 1) % Ports

\* bind(): any port, when asked for port 0.
Bound(p) == IF p = 0 THEN Port \ {0} ELSE {p}

Init ==
    /\ recognised \in BOOLEAN
    /\ file \in Configured
    /\ saved = file
    /\ saving = None
    /\ lost = FALSE
    /\ stage = "off"
    /\ port = 0
    /\ step = 0
    /\ tries = 0 /\ due = 0 /\ asleep = 0
    /\ elapsed = 0 /\ since = 0 /\ skew = 0 /\ ahead = 0 /\ late = 0
    /\ connected = FALSE
    /\ request = FALSE
    /\ answered = FALSE
    /\ dhtPort = 0 /\ servicePort = 0
    /\ saves = 0 /\ crashes = 0

-----------------------------------------------------------------------------
(* forward_port() *)

\* The histories begin with the first request.
NoTime == elapsed' = 0 /\ since' = 0 /\ skew' = 0 /\ ahead' = 0 /\ late' = 0

\* initnatpmp() and the first request: their errors are ignored.
Forward(s) ==
    /\ step' = s
    /\ tries' = 1
    /\ due' = 1 /\ asleep' = 1
    /\ NoTime
    /\ connected' \in BOOLEAN
    /\ request' \in {FALSE, connected'}
    /\ answered' = FALSE

\* Mutant: what can be parsed of a cut file is taken.
ReadPart(f) == IF f = Cut THEN 1 ELSE f

\* What is not whole does not parse: every value of null is 0.  (The id and the key are
\* then read past the end of an empty string, user_id.h:33, and are whatever is there;
\* the port does not depend on them.)
Read(f) == IF f = Cut THEN 0 ELSE f

\* load_config(), then the constructor of messenger.
Load ==
    /\ stage = "off"
    /\ stage' = "forwarding"
    /\ port' = Read(file)
    /\ Forward(0)
    /\ UNCHANGED <<recognised, fileVars, boundVars, crashes>>

\* The socket is closed, and what is on its way to it comes for nothing.
NoSocket ==
    /\ step' = 0 /\ tries' = 0 /\ due' = 0 /\ asleep' = 0
    /\ NoTime
    /\ connected' = FALSE /\ request' = FALSE /\ answered' = FALSE

\* The second port is forwarded after the first, or both have been.
Close ==
    IF step = 0
    THEN Forward(1) /\ UNCHANGED stage
    ELSE NoSocket /\ stage' = "forwarded"

\* select() returns.
Wakes == answered \/ asleep = 0

\* getnatpmprequesttimeout(): a time that is past is no time to wait.
Timeout(d) == IF d > 0 THEN d ELSE 0

\* Mutant: nobody counts the requests.
GivesUpNever == FALSE

GivesUp == tries >= MaxTries

\* readnatpmpresponse() has an answer, an error, or an error code for want of data that
\* it does not recognise: forward_port() ends, whatever it is.
End ==
    /\ stage = "forwarding" /\ Wakes
    /\ answered \/ ~connected \/ ~recognised \/ (due <= 0 /\ GivesUp)
    /\ Close
    /\ UNCHANGED <<recognised, fileVars, port, boundVars, crashes>>

\* Mutant: the delay does not grow.
DelayFixed(n) == 1

\* Mutant: the delay before the first retry is taken twice.
DelayLags(n) == 2 ^ (n - 1)

Delay(n) == 2 ^ n

\* NATPMP_TRYAGAIN before retry_time, for the clock was set back: select() again.
Again ==
    /\ stage = "forwarding" /\ Wakes
    /\ ~answered /\ connected /\ recognised
    /\ due > 0
    /\ asleep' = Timeout(due)
    /\ UNCHANGED <<recognised, fileVars, stage, port, step, tries, connected, request, answered,
                   due, elapsed, since, skew, ahead, late, boundVars, crashes>>

\* NATPMP_TRYAGAIN at retry_time: the request is repeated, and the next is due a longer
\* while after this one was; an error of this send() ends it.
Retry ==
    /\ stage = "forwarding" /\ Wakes
    /\ ~answered /\ connected /\ recognised
    /\ due <= 0 /\ tries < MaxTries
    /\ \/ /\ due' = due + Delay(tries)
          /\ asleep' = Timeout(due')
          /\ tries' = tries + 1
          /\ since' = 0
          /\ request' \in {request, TRUE}
          /\ UNCHANGED <<stage, step, connected, answered, elapsed, skew, ahead, late>>
       \/ Close
    /\ UNCHANGED <<recognised, fileVars, port, boundVars, crashes>>

-----------------------------------------------------------------------------
(* The router, the network, and time. *)

\* The router answers, or nobody listens there; the answer arrives or is lost.
Respond ==
    /\ request
    /\ request' = FALSE
    /\ answered' \in {answered, TRUE}
    /\ UNCHANGED <<recognised, fileVars, stage, port, step, tries, connected, timeVars,
                   boundVars, crashes>>

\* A tick passes, while the process waits or is suspended.
Tick ==
    /\ stage = "forwarding"
    /\ IF Wakes THEN late < MaxLate /\ late' = late + 1 ELSE UNCHANGED late
    /\ due' = due - 1
    /\ asleep' = Timeout(asleep - 1)
    /\ elapsed' = elapsed + 1 /\ since' = since + 1
    /\ UNCHANGED <<recognised, fileVars, stage, port, step, tries, connected, request, answered,
                   skew, ahead, boundVars, crashes>>

SetBack ==
    /\ stage = "forwarding" /\ skew < MaxSkew
    /\ skew' = skew + 1
    /\ due' = due + 1
    /\ UNCHANGED <<recognised, fileVars, stage, port, step, tries, connected, request, answered,
                   asleep, elapsed, since, ahead, late, boundVars, crashes>>

SetForward ==
    /\ stage = "forwarding" /\ ahead < MaxAhead
    /\ ahead' = ahead + 1
    /\ due' = due - 1
    /\ UNCHANGED <<recognised, fileVars, stage, port, step, tries, connected, request, answered,
                   asleep, elapsed, since, skew, late, boundVars, crashes>>

-----------------------------------------------------------------------------
(* The messenger. *)

\* The DHT is bound to its port.  (A bind that fails throws: see Crash.)
Build ==
    /\ stage = "forwarded"
    /\ stage' = "built"
    /\ dhtPort' \in Bound(port)
    /\ UNCHANGED <<recognised, fileVars, port, forwardVars, servicePort, crashes>>

\* online()
GoOnline ==
    /\ stage = "built"
    /\ stage' = "online"
    /\ servicePort' \in Bound(NextPort(port))
    /\ UNCHANGED <<recognised, fileVars, port, forwardVars, dhtPort, crashes>>

\* save_config() opens the file, which cuts it, ...
Open(p) ==
    /\ stage = "online" /\ saving = None /\ saves < MaxSaves
    /\ saves' = saves + 1
    /\ saving' = p
    /\ file' = Cut
    /\ UNCHANGED <<recognised, saved, lost, stage, port, forwardVars, boundVars, crashes>>

\* ... and writes it.
Write ==
    /\ saving # None
    /\ file' = saving
    /\ saved' = saving
    /\ saving' = None
    /\ lost' = FALSE
    /\ UNCHANGED <<recognised, saves, stage, port, forwardVars, boundVars, crashes>>

\* The stream cannot be written, to a full disk for one, and nobody tests it.
WriteFails ==
    /\ saving # None
    /\ saving' = None
    /\ lost' = TRUE
    /\ UNCHANGED <<recognised, file, saved, saves, stage, port, forwardVars, boundVars, crashes>>

\* The process ends, whatever it is at: killed, or by the exception of a bind that fails,
\* in Build or GoOnline.
Crash ==
    /\ stage # "off" /\ crashes < MaxCrashes
    /\ crashes' = crashes + 1
    /\ stage' = "off"
    /\ saving' = None
    /\ lost' = (lost \/ saving # None)
    /\ NoSocket
    /\ port' = 0 /\ dhtPort' = 0 /\ servicePort' = 0
    /\ UNCHANGED <<recognised, file, saved, saves>>

-----------------------------------------------------------------------------

Next ==
    \/ Load \/ End \/ Again \/ Retry \/ Build \/ GoOnline
    \/ Respond \/ Tick \/ SetBack \/ SetForward
    \/ \E p \in Configured : Open(p)
    \/ Write \/ WriteFails \/ Crash

Spec == Init /\ [][Next]_vars

\* The process goes on, and so does time.  The router need not answer.
Fairness ==
    /\ WF_vars(Load \/ End \/ Again \/ Retry \/ Build \/ GoOnline)
    /\ WF_vars(Write \/ WriteFails)
    /\ WF_vars(Tick)

FairSpec == Spec /\ Fairness

-----------------------------------------------------------------------------
(* Properties. *)

TypeOK ==
    /\ recognised \in BOOLEAN /\ lost \in BOOLEAN /\ connected \in BOOLEAN /\ request \in BOOLEAN
    /\ file \in Configured \union {Cut} /\ saving \in Configured \union {None}
    /\ saved \in Configured
    /\ stage \in {"off", "forwarding", "forwarded", "built", "online"}
    /\ port \in Port /\ dhtPort \in Port /\ servicePort \in Port
    /\ step \in {0, 1} /\ tries \in 0 .. MaxTries
    /\ due \in Int /\ asleep \in Nat /\ elapsed \in Nat /\ since \in Nat
    /\ skew \in 0 .. MaxSkew /\ ahead \in 0 .. MaxAhead /\ late \in 0 .. MaxLate
    /\ answered \in BOOLEAN
    /\ saves \in 0 .. MaxSaves /\ crashes \in 0 .. MaxCrashes

\* The n-th request for a port is not sent before 250 ms * (2^(n-1) - 1), less what the
\* clock was set forward, and a clock set back brings none nearer; forward_port() waits no
\* longer than 250 ms * (2^MaxTries - 1), 128 seconds, but for what the clock was set
\* back and the process suspended.
BacksOff ==
    stage = "forwarding" =>
        /\ tries <= IF recognised THEN MaxTries ELSE 1
        /\ elapsed >= 2 ^ (tries - 1) - 1 - ahead
        /\ elapsed <= 2 ^ tries - 1 + skew + late

\* A request is repeated 250 ms * 2^(n-1) after the n-th, or sooner, even at once, by no
\* more than the process was suspended and the clock set forward so far: retry_time is
\* counted from the time it was last due, so that what is overdue is sent in a burst, but
\* nothing else makes a burst.
RequestsAreSpaced ==
    [][stage = "forwarding" /\ tries' = tries + 1 => since + late + ahead >= 2 ^ (tries - 1)]_vars

\* The port in use is the one saved last, or none when a crash or an error interrupted a
\* later save, which loses the old configuration with the new.
PortIsSaved == stage \in {"forwarding", "forwarded", "built"} => port = saved \/ (port = 0 /\ lost)

\* Whatever the router does, and however long it takes, the messenger comes online, when
\* its ports can be bound in the end.
StartsUp == <>[](stage = "online")
=============================================================================
