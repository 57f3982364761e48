------------------------------ MODULE Handoff ------------------------------
(***************************************************************************)
(* What the collector's broker promises for a message whose sender was let *)
(* go on: it is delivered to RabbitMQ once, or lost; which of the two      *)
(* happens is settled in the order in which the messages were accepted.    *)
(***************************************************************************)
EXTENDS SequencesExt

CONSTANT Messages

VARIABLES
    accepted,   \* messages in the order their senders were let go on
    delivered,  \* messages in the order RabbitMQ got them
    lost        \* accepted messages that will never be delivered

vars == <<accepted, delivered, lost>>

\* Accepted and not settled.
Pending == ToSet(accepted) \ (lost \cup ToSet(delivered))

\* Those accepted before m.
Before(m) ==
    {k \in ToSet(accepted) :
        \E i, j \in DOMAIN accepted : i < j /\ accepted[i] = k /\ accepted[j] = m}

Init ==
    /\ accepted = <<>>
    /\ delivered = <<>>
    /\ lost = {}

\* The sender of m is let go on.
Accept(m) ==
    /\ m \notin ToSet(accepted)
    /\ accepted' = Append(accepted, m)
    /\ UNCHANGED <<delivered, lost>>

\* The oldest pending message reaches RabbitMQ.
Deliver ==
    /\ \E m \in Pending :
          /\ Before(m) \cap Pending = {}
          /\ delivered' = Append(delivered, m)
    /\ UNCHANGED <<accepted, lost>>

\* The oldest pending messages, one or more, are lost together.
Lose ==
    /\ \E some \in (SUBSET Pending) \ {{}} :
          /\ \A m \in some : Before(m) \cap Pending \subseteq some
          /\ lost' = lost \cup some
    /\ UNCHANGED <<accepted, delivered>>

Next == (\E m \in Messages : Accept(m)) \/ Deliver \/ Lose

Spec == Init /\ [][Next]_vars
=============================================================================
