------------------------------ MODULE Websocket ------------------------------
(***************************************************************************)
(* Websocket connections of one project: HandleWebsocket of                *)
(* pkg/server/errorshandler/handler_websocket.go.                          *)
(*                                                                         *)
(* A connection has a goroutine that reads a message, takes it through the *)
(* gates of process, waits for the broker, answers and reads the next.  It *)
(* ends when a read or a write fails.  Meanwhile its client may write      *)
(* ahead, read no answers, close the connection or be lost, the broker may *)
(* take no messages, the list of blocked projects is replaced, and the     *)
(* process may die.  Which messages process lets through in detail is the  *)
(* subject of Collector.                                                   *)
(***************************************************************************)
EXTENDS Integers, SequencesExt

CONSTANTS
    Conns,        \* connections, each made once
    MaxMessages   \* bounds: connection -> messages its client writes

ASSUME WebsocketAssumption == MaxMessages \in [Conns -> Nat] /\ IsFiniteSet(Conns)

VARIABLES
    \* the other side
    client,    \* connection -> is the client "here", has it "closed", is it "lost"
    written,   \* connection -> number of messages the client has written
    tooLarge,  \* connections whose last message is larger than the read limit
    answers,   \* connection -> Codes sent to the client, in order
    \* the process
    conn,      \* connection -> what its goroutine is doing
    blocked,   \* is the project in the list of blocked ones?
    counter,   \* the Prometheus counters and the gauge
    \* the broker
    accepted,  \* messages the channel's goroutine has received, in order
    stalled,   \* the channel's goroutine waits for RabbitMQ, and receives nothing
    \* history
    barred     \* messages written while the project was blocked, and not lifted since

clients == <<client, written, tooLarge>>
broker == <<accepted, stalled>>
vars == <<clients, answers, conn, blocked, counter, broker, barred>>

\* The k-th message of connection c.
Messages == UNION {{c} \X (1..MaxMessages[c]) : c \in Conns}

Queue == INSTANCE Handoff WITH delivered <- <<>>, lost <- {}

\* total: upgrades asked for; active: the gauge of open connections.
Counters == {"total", "active", "received", "sent", "messageErrors", "connectionErrors"}

\* Every Code but 200: 400, 402, and what process may answer besides.
Refusal == 400

\* read: messages read so far; code: of the answer to the last of them.
NewConn == [pc |-> "new", read |-> 0, code |-> 0]

Init ==
    /\ client = [c \in Conns |-> "here"]
    /\ written = [c \in Conns |-> 0]
    /\ tooLarge = {}
    /\ answers = [c \in Conns |-> <<>>]
    /\ conn = [c \in Conns |-> NewConn]
    /\ blocked \in BOOLEAN
    /\ counter = [n \in Counters |-> 0]
    /\ Queue!Init /\ stalled = FALSE
    /\ barred = {}

-----------------------------------------------------------------------------
At(c, pc) == conn[c].pc = pc

Open(c) == conn[c].pc \in {"read", "gate", "send", "write", "stuck", "leaving"}

GoTo(c, pc) == conn' = [conn EXCEPT ![c].pc = pc]

\* The goroutine is out of its loop, and the locals are gone.
Leaves(c, pc) == conn' = [conn EXCEPT ![c] = [NewConn EXCEPT !.pc = pc]]

Inc(names) == counter' = [n \in Counters |-> counter[n] + IF n \in names THEN 1 ELSE 0]

\* The loop is left: a counter of errors goes up, and the gauge not yet down.
Break(c, names) == Leaves(c, "leaving") /\ Inc(names)

(* Clients, for as long as there is a connection *)

\* A message of any size.  Nothing can follow one that exceeds the limit.
ClientWrites(c) ==
    /\ Open(c)
    /\ client[c] = "here"
    /\ c \notin tooLarge
    /\ written[c] < MaxMessages[c]
    /\ written' = [written EXCEPT ![c] = @ + 1]
    /\ tooLarge' \in {tooLarge, tooLarge \cup {c}}
    /\ barred' = IF blocked THEN barred \cup {<<c, written[c] + 1>>} ELSE barred
    /\ UNCHANGED <<client, answers, conn, blocked, counter, broker>>

\* A close frame follows what was written before.
ClientCloses(c) ==
    /\ ~At(c, "ended")
    /\ client[c] = "here"
    /\ client' = [client EXCEPT ![c] = "closed"]
    /\ UNCHANGED <<written, tooLarge, answers, conn, blocked, counter, broker, barred>>

\* The client dies, or the network between.
ClientLost(c) ==
    /\ ~At(c, "ended")
    /\ client[c] # "lost"
    /\ client' = [client EXCEPT ![c] = "lost"]
    /\ UNCHANGED <<written, tooLarge, answers, conn, blocked, counter, broker, barred>>

(* RabbitMQ raises an alarm, and lifts it *)

Stall ==
    /\ ~stalled
    /\ stalled' = TRUE
    /\ UNCHANGED <<clients, answers, conn, blocked, counter, accepted, barred>>

Resume ==
    /\ stalled
    /\ stalled' = FALSE
    /\ UNCHANGED <<clients, answers, conn, blocked, counter, accepted, barred>>

(* The list of blocked projects is replaced *)

Block ==
    /\ ~blocked
    /\ blocked' = TRUE
    /\ UNCHANGED <<clients, answers, conn, counter, broker, barred>>

Unblock ==
    /\ blocked
    /\ blocked' = FALSE
    /\ barred' = {}
    /\ UNCHANGED <<clients, answers, conn, counter, broker>>

(* HandleWebsocket *)

Request(c) ==
    /\ At(c, "new")
    /\ GoTo(c, "upgrade")
    /\ Inc({"total"})
    /\ UNCHANGED <<clients, answers, blocked, broker, barred>>

\* Mutant: the gauge goes down for a connection that was never open.
UpgradeFailsGauge(c) ==
    /\ At(c, "upgrade")
    /\ Break(c, {"connectionErrors"})
    /\ UNCHANGED <<clients, answers, blocked, broker, barred>>

\* Upgrade returns an error.
UpgradeFails(c) ==
    /\ At(c, "upgrade")
    /\ Leaves(c, "ended")
    /\ Inc({"connectionErrors"})
    /\ UNCHANGED <<clients, answers, blocked, broker, barred>>

\* Upgrade hands the function over to fasthttp, which calls it after the response
\* to the request is written: never, when that fails.
NeverCalled(c) ==
    /\ At(c, "upgrade")
    /\ client[c] # "here"
    /\ Leaves(c, "ended")
    /\ UNCHANGED <<clients, answers, blocked, counter, broker, barred>>

Begin(c) ==
    /\ At(c, "upgrade")
    /\ GoTo(c, "read")
    /\ Inc({"active"})
    /\ UNCHANGED <<clients, answers, blocked, broker, barred>>

Unread(c) == conn[c].read < written[c]

\* The next message is the one that exceeds the limit.
NextTooLarge(c) == c \in tooLarge /\ conn[c].read = written[c] - 1

Read(c) ==
    /\ At(c, "read")
    /\ Unread(c) /\ ~NextTooLarge(c)
    /\ conn' = [conn EXCEPT ![c] = [conn[c] EXCEPT !.pc = "gate", !.read = @ + 1]]
    /\ Inc({"received"})
    /\ UNCHANGED <<clients, answers, blocked, broker, barred>>

\* Mutants: the gauge is left alone; the message is skipped and reading goes on.
ReadTooLargeKeepsGauge(c) ==
    /\ At(c, "read")
    /\ NextTooLarge(c)
    /\ Leaves(c, "ended")
    /\ Inc({"connectionErrors"})
    /\ UNCHANGED <<clients, answers, blocked, broker, barred>>

ReadTooLargeAgain(c) ==
    /\ At(c, "read")
    /\ NextTooLarge(c)
    /\ UNCHANGED vars

\* ReadMessage returns ErrReadLimit.
ReadTooLarge(c) ==
    /\ At(c, "read")
    /\ NextTooLarge(c)
    /\ Break(c, {"connectionErrors"})
    /\ UNCHANGED <<clients, answers, blocked, broker, barred>>

\* ReadMessage comes to the close frame.
ReadClose(c) ==
    /\ At(c, "read")
    /\ client[c] = "closed" /\ ~Unread(c)
    /\ Break(c, {"connectionErrors"})
    /\ UNCHANGED <<clients, answers, blocked, broker, barred>>

\* The network reports that the client is lost; what was not read is gone.
ReadFails(c) ==
    /\ At(c, "read")
    /\ client[c] = "lost"
    /\ Break(c, {"connectionErrors"})
    /\ UNCHANGED <<clients, answers, blocked, broker, barred>>

Answer(c, code) == conn' = [conn EXCEPT ![c] = [conn[c] EXCEPT !.pc = "write", !.code = code]]

\* Mutants: the list is consulted for the first message only; a message that is
\* refused gets no answer.
GateOnce(c) ==
    /\ At(c, "gate")
    /\ \/ Answer(c, Refusal)
       \/ (~blocked \/ conn[c].read > 1) /\ GoTo(c, "send")
    /\ UNCHANGED <<clients, answers, blocked, counter, broker, barred>>

GateSilently(c) ==
    /\ At(c, "gate")
    /\ \/ GoTo(c, "read")
       \/ ~blocked /\ GoTo(c, "send")
    /\ UNCHANGED <<clients, answers, blocked, counter, broker, barred>>

\* The gates of process: the message is malformed or its token unknown, its
\* project is blocked or over its rate limit, or it is ready for the broker.
Gate(c) ==
    /\ At(c, "gate")
    /\ \/ Answer(c, Refusal)
       \/ ~blocked /\ GoTo(c, "send")
    /\ UNCHANGED <<clients, answers, blocked, counter, broker, barred>>

\* Broker.Chan <- message, for as long as it takes: there is no timeout.
Send(c) ==
    /\ At(c, "send")
    /\ ~stalled
    /\ Queue!Accept(<<c, conn[c].read>>)
    /\ Answer(c, 200)
    /\ UNCHANGED <<clients, answers, blocked, counter, stalled, barred>>

Writing(c) == At(c, "write") \/ At(c, "stuck")

\* sendAnswerWebsocket.  An answer to a lost client disappears in the network.
Write(c) ==
    /\ Writing(c)
    /\ conn' = [conn EXCEPT ![c] = [conn[c] EXCEPT !.pc = "read", !.code = 0]]
    /\ Inc({"sent"})
    /\ answers' = IF client[c] = "lost" THEN answers
                  ELSE [answers EXCEPT ![c] = Append(@, conn[c].code)]
    /\ UNCHANGED <<clients, blocked, broker, barred>>

\* The client reads no answers and the buffers on the way are full: WriteMessage
\* waits until it reads on, for as long as that takes, for there is no deadline.
WriteWaits(c) ==
    /\ At(c, "write")
    /\ GoTo(c, "stuck")
    /\ UNCHANGED <<clients, answers, blocked, counter, broker, barred>>

\* Mutant: a failed answer does not end the loop.
WriteFailsGoesOn(c) ==
    /\ Writing(c)
    /\ client[c] # "here"
    /\ GoTo(c, "read")
    /\ Inc({"messageErrors"})
    /\ UNCHANGED <<clients, answers, blocked, broker, barred>>

WriteFails(c) ==
    /\ Writing(c)
    /\ client[c] # "here"
    /\ Break(c, {"messageErrors"})
    /\ UNCHANGED <<clients, answers, blocked, broker, barred>>

\* The deferred decrement of the gauge.
Leave(c) ==
    /\ At(c, "leaving")
    /\ Leaves(c, "ended")
    /\ counter' = [counter EXCEPT !["active"] = @ - 1]
    /\ UNCHANGED <<clients, answers, blocked, broker, barred>>

\* What the goroutine does without waiting for anyone else.
Serve(c) ==
    \/ UpgradeFails(c) \/ NeverCalled(c) \/ Begin(c)
    \/ Read(c) \/ ReadTooLarge(c) \/ ReadClose(c)
    \/ Gate(c) \/ Leave(c)
    \/ At(c, "write") /\ (Write(c) \/ WriteFails(c) \/ WriteWaits(c))

\* A write that waits ends all the same.
WriteEnds(c) == At(c, "stuck") /\ (Write(c) \/ WriteFails(c))

\* The process ends and is started again, with counters at 0.
Crash ==
    /\ conn' = [c \in Conns |-> IF At(c, "new") THEN conn[c]
                                ELSE [NewConn EXCEPT !.pc = "ended"]]
    /\ counter' = [n \in Counters |-> 0]
    /\ stalled' = FALSE
    /\ UNCHANGED <<clients, answers, blocked, accepted, barred>>

Next ==
    \/ \E c \in Conns :
          \/ ClientWrites(c) \/ ClientCloses(c) \/ ClientLost(c)
          \/ Request(c) \/ Serve(c) \/ ReadFails(c) \/ Send(c) \/ WriteEnds(c)
    \/ Stall \/ Resume \/ Block \/ Unblock \/ Crash

Spec == Init /\ [][Next]_vars

\* Goroutines are scheduled, and the broker takes from each in turn whenever
\* RabbitMQ lets it (strong fairness, for there may be an alarm again and again).
\* Nothing is assumed of a write that waits, or that a lost client is ever
\* noticed: there is no deadline on a read or on a write.
FairSpec == Spec /\ \A c \in Conns : WF_vars(Serve(c)) /\ SF_vars(Send(c))

-----------------------------------------------------------------------------
(* Properties *)

\* Every variable has its type.
TypeOK ==
    /\ client \in [Conns -> {"here", "closed", "lost"}]
    /\ written \in [Conns -> Nat]
    /\ \A c \in Conns : written[c] <= MaxMessages[c] /\ conn[c].read <= written[c]
    /\ tooLarge \subseteq Conns
    /\ answers \in [Conns -> Seq({200, Refusal})]
    /\ conn \in [Conns ->
          [pc : {"new", "upgrade", "read", "gate", "send", "write", "stuck", "leaving",
                "ended"},
           read : Nat, code : {0, 200, Refusal}]]
    /\ blocked \in BOOLEAN
    /\ counter \in [Counters -> Nat]
    /\ accepted \in Seq(Messages) /\ stalled \in BOOLEAN
    /\ barred \subseteq Messages

\* A client can tell its messages' fates by counting answers, for they carry no
\* name: the k-th answer is 200 just when the k-th message was accepted.  And the
\* broker gets the messages of a connection in the order they were written.
AnswersInOrder ==
    \A c \in Conns :
        /\ \A k \in DOMAIN answers[c] :
              answers[c][k] = 200 <=> <<c, k>> \in ToSet(accepted)
        /\ \A i, j \in DOMAIN accepted :
              (i < j /\ accepted[i][1] = c /\ accepted[j][1] = c)
                  => accepted[i][2] < accepted[j][2]

\* However a connection ends, a client that closed it or was cut off is in doubt
\* about one message at most: no second one is accepted before the answer to
\* the first is out.
OneInDoubt ==
    \A c \in Conns :
        client[c] # "lost" =>
            \A k \in 1..MaxMessages[c] :
                <<c, k>> \in ToSet(accepted) => k <= Len(answers[c]) + 1

\* The counters agree with each other and with the connections, on every way a
\* connection can end: the gauge shows the open ones, each message received was
\* answered or has failed or is being processed, and no connection is counted
\* among both the open and the failed, but for the moment in which it is left.
CountersBalance ==
    /\ counter["active"] = Cardinality({c \in Conns : Open(c)})
    /\ counter["received"] = counter["sent"] + counter["messageErrors"]
          + Cardinality({c \in Conns : conn[c].pc \in {"gate", "send", "write", "stuck"}})
    /\ counter["active"] + counter["connectionErrors"] + counter["messageErrors"]
          <= counter["total"] + Cardinality({c \in Conns : At(c, "leaving")})

\* A ban reaches connections that were open before it: what is written while the
\* project is in the list, and as long as it stays there, is not accepted.
BanReachesOpenConnections == barred \cap ToSet(accepted) = {}

\* Every message a client wrote, ahead or not, is answered unless the connection
\* ends or the client is lost - or RabbitMQ's alarm is never lifted, or the client
\* reads no answers any more.
MessagesAnswered ==
    \A c \in Conns : \A k \in 1..MaxMessages[c] :
        \/ Open(c) /\ written[c] >= k
              ~> Len(answers[c]) >= k \/ ~Open(c) \/ client[c] = "lost"
        \/ <>[]stalled \/ <>[]At(c, "stuck")

\* A connection that its client closed, or on which it sent too much, ends, with
\* everything it wrote before processed or lost: no goroutine stays behind, unless
\* the alarm is never lifted or the client reads no answers any more.
ClosedConnectionsEnd ==
    \A c \in Conns :
        \/ Open(c) /\ (client[c] = "closed" \/ c \in tooLarge) ~> ~Open(c) \/ client[c] = "lost"
        \/ <>[]stalled \/ <>[]At(c, "stuck")
=============================================================================
