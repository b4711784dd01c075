------------------------------ MODULE Delivery ------------------------------
(* What the messenger promises about a message: it was sent before its contact has  *)
(* it, its contact has it before the contact's user is told of it and before it is  *)
(* confirmed, and it is confirmed once at most.  The contact's user may be told of  *)
(* it again.  None of it ever has to happen.                                        *)
EXTENDS Naturals

CONSTANT Message

VARIABLES
    sent,       \* the messages sent
    accepted,   \* those their contacts have
    informed,   \* how often each was reported to its contact's user
    confirmed   \* how often each was reported delivered to the user who sent it

vars == <<sent, accepted, informed, confirmed>>

Init ==
    /\ sent = {} /\ accepted = {}
    /\ informed = [m \in Message |-> 0]
    /\ confirmed = [m \in Message |-> 0]

Send(m) ==
    /\ m \notin sent
    /\ sent' = sent \union {m}
    /\ UNCHANGED <<accepted, informed, confirmed>>

Accept(m) ==
    /\ m \in sent \ accepted
    /\ accepted' = accepted \union {m}
    /\ UNCHANGED <<sent, informed, confirmed>>

Inform(m) ==
    /\ m \in accepted
    /\ informed' = [informed EXCEPT ![m] = @ + 1]
    /\ UNCHANGED <<sent, accepted, confirmed>>

Confirm(m) ==
    /\ m \in accepted /\ confirmed[m] = 0
    /\ confirmed' = [confirmed EXCEPT ![m] = 1]
    /\ UNCHANGED <<sent, accepted, informed>>

Next == \E m \in Message : Send(m) \/ Accept(m) \/ Inform(m) \/ Confirm(m)

Spec == Init /\ [][Next]_vars
=============================================================================
