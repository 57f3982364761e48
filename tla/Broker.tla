------------------------------- MODULE Broker -------------------------------
(***************************************************************************)
(* The way of a message from a handler to RabbitMQ: the unbuffered channel *)
(* Broker.Chan, the one goroutine that receives from it and publishes      *)
(* (pkg/broker/broker.go), and the one AMQP connection of the process,     *)
(* opened at startup and never reopened (pkg/broker/amqp.go).              *)
(*                                                                         *)
(* A handler answers 200 as soon as the goroutine has received its         *)
(* message.  Publish waits for no confirmation: it returns nil once the    *)
(* frames are written to the socket.                                       *)
(***************************************************************************)
EXTENDS Integers, SequencesExt

CONSTANTS
    Messages,   \* one for each request that reaches the channel
    NoMessage   \* the publishing goroutine is at "range ch"

ASSUME BrokerAssumption == NoMessage \notin Messages

VARIABLES
    up,         \* the process runs
    sendq,      \* handlers blocked in "Chan <-", a FIFO in the Go runtime
    inHand,     \* the message the goroutine has received and not yet written
    link,       \* the connection to RabbitMQ
    wire,       \* frames written to the socket that RabbitMQ has not got
    taken,      \* history: messages received from the channel, in order
    delivered,  \* history: messages RabbitMQ got, in order
    lost        \* history: messages taken that can no longer arrive

vars == <<up, sendq, inHand, link, wire, taken, delivered, lost>>

\* open     frames arrive
\* blocked  RabbitMQ reads no more (a resource alarm) and a write waits
\* broken   the peer is gone and the client has not noticed: a write succeeds
\* closed   the client has noticed (a heartbeat missed, a close): a write fails
Links == {"open", "blocked", "broken", "closed"}

Hand == IF inHand = NoMessage THEN <<>> ELSE <<inHand>>

Init ==
    /\ up = TRUE
    /\ sendq = <<>>
    /\ inHand = NoMessage
    /\ link = "open"
    /\ wire = <<>>
    /\ taken = <<>>
    /\ delivered = <<>>
    /\ lost = {}

\* A handler sends its message and blocks.  A request is handled once.
Send(m) ==
    /\ up
    /\ m \notin ToSet(sendq) \cup ToSet(taken)
    /\ sendq' = Append(sendq, m)
    /\ UNCHANGED <<up, inHand, link, wire, taken, delivered, lost>>

\* Mutants: the goroutine receives again before it has published; a closed
\* channel yields a zero message.
ReceiveAhead ==
    /\ up
    /\ sendq # <<>>
    /\ inHand' = Head(sendq)
    /\ sendq' = Tail(sendq)
    /\ taken' = Append(taken, Head(sendq))
    /\ UNCHANGED <<up, link, wire, delivered, lost>>

ReceiveZero ==
    /\ up
    /\ inHand = NoMessage
    /\ inHand' = "zero"
    /\ taken' = Append(taken, "zero")
    /\ UNCHANGED <<up, sendq, link, wire, delivered, lost>>

\* The goroutine receives; the first handler in line goes on.
Receive ==
    /\ up
    /\ inHand = NoMessage
    /\ sendq # <<>>
    /\ inHand' = Head(sendq)
    /\ sendq' = Tail(sendq)
    /\ taken' = Append(taken, Head(sendq))
    /\ UNCHANGED <<up, link, wire, delivered, lost>>

\* The process ends, and with it the blocked handlers, the message in hand and
\* what the socket still held.
Die ==
    /\ up' = FALSE
    /\ sendq' = <<>>
    /\ inHand' = NoMessage
    /\ wire' = <<>>
    /\ lost' = lost \cup ToSet(wire \o Hand)
    /\ UNCHANGED <<link, taken, delivered>>

\* Mutants: messages are published concurrently and overtake each other; a
\* message is dropped where the write would wait.
PublishOvertaking ==
    /\ up
    /\ inHand # NoMessage
    /\ link = "open"
    /\ inHand' = NoMessage
    /\ wire' = <<inHand>> \o wire
    /\ UNCHANGED <<up, sendq, link, taken, delivered, lost>>

PublishOrDrop ==
    /\ up
    /\ inHand # NoMessage
    /\ inHand' = NoMessage
    /\ IF link = "open"
       THEN wire' = Append(wire, inHand) /\ UNCHANGED lost
       ELSE lost' = lost \cup {inHand} /\ UNCHANGED wire
    /\ UNCHANGED <<up, sendq, link, taken, delivered>>

\* Publish returns nil: the frames are written.
Publish ==
    /\ up
    /\ inHand # NoMessage
    /\ link \in {"open", "broken"}
    /\ inHand' = NoMessage
    /\ IF link = "open"
       THEN wire' = Append(wire, inHand) /\ UNCHANGED lost
       ELSE lost' = lost \cup {inHand} /\ UNCHANGED wire
    /\ UNCHANGED <<up, sendq, link, taken, delivered>>

\* Mutants: the publishing is tried again on the same connection, for ever; the
\* error is ignored, as the caller ignores what Publish returns.
PublishFailsAgain ==
    /\ up
    /\ inHand # NoMessage
    /\ link = "closed"
    /\ UNCHANGED vars

PublishFailsQuietly ==
    /\ up
    /\ inHand # NoMessage
    /\ link = "closed"
    /\ inHand' = NoMessage
    /\ lost' = lost \cup {inHand}
    /\ UNCHANGED <<up, sendq, link, wire, taken, delivered>>

\* Publish gets an error: FailOnError ends the process.
PublishFails ==
    /\ up
    /\ inHand # NoMessage
    /\ link = "closed"
    /\ Die

\* A deployment, a kill, a panic outside the request handler.  Nothing drains.
Crash ==
    /\ up
    /\ Die

\* main: broker.New dials, declares the exchange and starts the goroutine.  When
\* it cannot, FailOnError ends the process again: that attempt changes nothing.
Restart ==
    /\ ~up
    /\ up' = TRUE
    /\ link' = "open"
    /\ UNCHANGED <<sendq, inHand, wire, taken, delivered, lost>>

-----------------------------------------------------------------------------
(* The network and RabbitMQ *)

Arrive ==
    /\ link = "open"
    /\ wire # <<>>
    /\ delivered' = Append(delivered, Head(wire))
    /\ wire' = Tail(wire)
    /\ UNCHANGED <<up, sendq, inHand, link, taken, lost>>

Block ==
    /\ up
    /\ link = "open"
    /\ link' = "blocked"
    /\ UNCHANGED <<up, sendq, inHand, wire, taken, delivered, lost>>

Unblock ==
    /\ link = "blocked"
    /\ link' = "open"
    /\ UNCHANGED <<up, sendq, inHand, wire, taken, delivered, lost>>

Break ==
    /\ up
    /\ link \in {"open", "blocked"}
    /\ link' = "broken"
    /\ wire' = <<>>
    /\ lost' = lost \cup ToSet(wire)
    /\ UNCHANGED <<up, sendq, inHand, taken, delivered>>

Notice ==
    /\ link = "broken"
    /\ link' = "closed"
    /\ UNCHANGED <<up, sendq, inHand, wire, taken, delivered, lost>>

Next ==
    \/ \E m \in Messages : Send(m)
    \/ Receive \/ Publish \/ PublishFails
    \/ Crash \/ Restart
    \/ Arrive \/ Block \/ Unblock \/ Break \/ Notice

Spec == Init /\ [][Next]_vars

\* The goroutine is never starved by the Go scheduler; a write that waits on a
\* full socket goes on when there is room (strong fairness, for the alarm may
\* come and go); heartbeats find a dead peer.  Nothing is assumed of the
\* handlers, of crashes and restarts, or of when an alarm ends.
Fairness ==
    /\ WF_vars(Receive)
    /\ SF_vars(Publish)
    /\ WF_vars(PublishFails)
    /\ SF_vars(Arrive)
    /\ WF_vars(Notice)

FairSpec == Spec /\ Fairness

-----------------------------------------------------------------------------
(* Properties *)

\* Every variable has its type.
TypeOK ==
    /\ up \in BOOLEAN
    /\ sendq \in Seq(Messages)
    /\ inHand \in Messages \cup {NoMessage}
    /\ link \in Links
    /\ wire \in Seq(Messages)
    /\ taken \in Seq(Messages)
    /\ delivered \in Seq(Messages)
    /\ lost \subseteq Messages

\* Whatever breaks and whenever the process dies, a message a client was told
\* 200 for has one place: at RabbitMQ, on the wire, in hand, or written off;
\* and those that were not written off are in the order they were accepted.
Accounted ==
    LET kept == delivered \o wire \o Hand
    IN  /\ ToSet(taken) = lost \cup ToSet(kept)
        /\ lost \cap ToSet(kept) = {}
        /\ \A i, j \in DOMAIN taken : taken[i] = taken[j] => i = j
        /\ \A i, j \in DOMAIN kept :
              i < j => \E k, l \in DOMAIN taken :
                           k < l /\ taken[k] = kept[i] /\ taken[l] = kept[j]

\* With the connection healthy no accepted message is given up, and a death of
\* the process costs at most the one in hand beyond what the socket held.
LossHasACause ==
    [][/\ lost' # lost => (link' \in {"broken", "closed"} \/ ~up')
       /\ (~up' /\ up) => lost' \subseteq lost \cup ToSet(wire) \cup {inHand}]_vars

\* What the broker does is what Handoff allows.
Promise == INSTANCE Handoff WITH accepted <- taken
ImplementsHandoff == Promise!Spec

\* A handler in line gets its turn, or the process ends, unless RabbitMQ holds
\* the connection blocked for good: there is no timeout on the send.
HandlersMoveOn ==
    \A m \in Messages :
        [](m \in ToSet(sendq) => <>(m \in ToSet(taken) \/ ~up \/ <>[](link = "blocked")))

\* An accepted message is settled, unless the connection stays blocked.
Settled ==
    \A m \in Messages :
        m \in ToSet(taken) ~> (m \in ToSet(delivered) \cup lost \/ <>[](link = "blocked"))

\* A process that has a message to publish does not outlive its connection.
DeadLinkIsFatal ==
    (up /\ link = "closed" /\ sendq # <<>>) ~> ~up
=============================================================================
