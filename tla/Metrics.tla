------------------------------- MODULE Metrics -------------------------------
(***************************************************************************)
(* The time series of one project and one metric: recordProjectMetrics of  *)
(* pkg/server/errorshandler/handler.go and SafeTSAdd of                    *)
(* pkg/redis/client.go, called by the handlers of all requests at once.    *)
(*                                                                         *)
(* An event is added to three series, one for each granularity, at the     *)
(* start of the bucket it falls in.  Each of the three times the handler   *)
(* reads its clock, adds, and where the series is missing asks once more,  *)
(* creates it and adds again: four commands, with those of other handlers  *)
(* in between.                                                             *)
(***************************************************************************)
EXTENDS Integers, Sequences, FiniteSetsExt

CONSTANTS
    Handlers,    \* goroutines that handle requests
    Lengths,     \* of the buckets, in the order of recording: minute, hour, day
    MaxClock,    \* bound: the last moment of the run
    MaxEvents,   \* bound: events accepted
    MaxFaults    \* bound: commands that fail, are answered in vain or repeated

ASSUME MetricsAssumption ==
    /\ Lengths \in Seq(Nat \ {0})
    /\ Lengths # <<>>
    /\ \A g \in 2..Len(Lengths) : Lengths[g] % Lengths[g - 1] = 0
    /\ MaxClock \in Nat /\ MaxEvents \in Nat /\ MaxFaults \in Nat
    /\ IsFiniteSet(Handlers) /\ Handlers # {}

VARIABLES
    clock,
    addCreates,   \* TS.ADD creates a missing series: SafeTSAdd is ready for either
    series,       \* Redis: granularity -> does the key exist, and its samples
    handler,      \* what each goroutine is doing
    accepted,     \* events handed to the broker
    faults,       \* commands that went wrong so far
    cut           \* history: events whose handler died while it recorded them

vars == <<clock, addCreates, series, handler, accepted, faults, cut>>

Granularities == DOMAIN Lengths

Idle == [pc |-> "idle", g |-> 1, bucket |-> 0]

Init ==
    /\ clock = 0
    /\ addCreates \in BOOLEAN
    /\ series = [g \in Granularities |->
                    [exists |-> FALSE, samples |-> [t \in 0..MaxClock |-> 0]]]
    /\ handler = [h \in Handlers |-> Idle]
    /\ accepted = 0
    /\ faults = 0
    /\ cut = 0

-----------------------------------------------------------------------------
At(h, pc) == handler[h].pc = pc

GoTo(h, pc) == handler' = [handler EXCEPT ![h].pc = pc]

\* Mutant: one granularity too many.
MoveOnTooFar(h) ==
    handler' = [handler EXCEPT
        ![h] = IF @.g > Len(Lengths) THEN Idle
               ELSE [pc |-> "stamp", g |-> @.g + 1, bucket |-> 0]]

\* SafeTSAdd returns, an error is logged, and the next granularity is recorded.
MoveOn(h) ==
    handler' = [handler EXCEPT
        ![h] = IF @.g = Len(Lengths) THEN Idle
               ELSE [pc |-> "stamp", g |-> @.g + 1, bucket |-> 0]]

\* Mutant: the nearest start of a bucket.
TruncateNearest(t, n) == ((t + (n \div 2)) \div n) * n

\* The start of the bucket of length n that holds moment t.
Truncate(t, n) == t - (t % n)

\* The broker has taken the event.
Accept(h) ==
    /\ At(h, "idle")
    /\ accepted < MaxEvents
    /\ accepted' = accepted + 1
    /\ GoTo(h, "stamp")
    /\ UNCHANGED <<clock, addCreates, series, faults, cut>>

\* bucketTimestampMs reads the clock.  A bucket may begin before the run does.
Stamp(h) ==
    /\ At(h, "stamp")
    /\ handler' = [handler EXCEPT
           ![h] = [pc |-> "add", g |-> @.g, bucket |-> Truncate(clock, Lengths[@.g])]]
    /\ UNCHANGED <<clock, addCreates, series, accepted, faults, cut>>

\* Mutant: without ON_DUPLICATE SUM, the last sample of a bucket stays.
AddedLast(h) ==
    series' = [series EXCEPT ![handler[h].g] =
                  [exists |-> TRUE, samples |-> [@.samples EXCEPT ![handler[h].bucket] = 1]]]

\* TS.ADD key bucket 1 ON_DUPLICATE SUM, when there is a series to add to.
Added(h) ==
    LET g == handler[h].g
    IN  series' = [series EXCEPT ![g] =
            [exists |-> TRUE, samples |-> [series[g].samples EXCEPT ![handler[h].bucket] = @ + 1]]]

Here(h) == series[handler[h].g].exists

Add(h) ==
    /\ At(h, "add")
    /\ IF Here(h) \/ addCreates
       THEN Added(h) /\ MoveOn(h)
       ELSE GoTo(h, "exists") /\ UNCHANGED series
    /\ UNCHANGED <<clock, addCreates, accepted, faults, cut>>

\* TSCreateIfNotExists: EXISTS first.
Exists(h) ==
    /\ At(h, "exists")
    /\ GoTo(h, IF Here(h) THEN "again" ELSE "create")
    /\ UNCHANGED <<clock, addCreates, series, accepted, faults, cut>>

Created(h) == series' = [series EXCEPT ![handler[h].g].exists = TRUE]

\* Mutant: a series that another handler created is created once more, for ever.
CreateAgain(h) ==
    /\ At(h, "create")
    /\ IF Here(h) THEN UNCHANGED <<series, handler>>
       ELSE Created(h) /\ GoTo(h, "again")
    /\ UNCHANGED <<clock, addCreates, accepted, faults, cut>>

\* TS.CREATE fails when another handler created the series after the EXISTS, and
\* then SafeTSAdd returns that error.
Create(h) ==
    /\ At(h, "create")
    /\ IF Here(h) THEN MoveOn(h) /\ UNCHANGED series
       ELSE Created(h) /\ GoTo(h, "again")
    /\ UNCHANGED <<clock, addCreates, accepted, faults, cut>>

AddAgain(h) ==
    /\ At(h, "again")
    /\ Added(h)
    /\ MoveOn(h)
    /\ UNCHANGED <<clock, addCreates, accepted, faults, cut>>

\* A command does not reach Redis, or only its reply is lost: SafeTSAdd returns
\* the error, or the client library sends the command again.
Fault(h) ==
    /\ handler[h].pc \in {"add", "exists", "create", "again"}
    /\ faults < MaxFaults
    /\ faults' = faults + 1
    /\ \/ UNCHANGED series
       \/ At(h, "add") /\ (Here(h) \/ addCreates) /\ Added(h)
       \/ At(h, "create") /\ ~Here(h) /\ Created(h)
       \/ At(h, "again") /\ Added(h)
    /\ MoveOn(h) \/ UNCHANGED handler
    /\ UNCHANGED <<clock, addCreates, accepted, cut>>

Record(h) == Stamp(h) \/ Add(h) \/ Exists(h) \/ Create(h) \/ AddAgain(h)

Tick ==
    /\ clock < MaxClock
    /\ clock' = clock + 1
    /\ UNCHANGED <<addCreates, series, handler, accepted, faults, cut>>

\* The process dies, and another takes its place.
Crash ==
    /\ cut' = cut + Cardinality({h \in Handlers : handler[h] # Idle})
    /\ handler' = [h \in Handlers |-> Idle]
    /\ UNCHANGED <<clock, addCreates, series, accepted, faults>>

Next ==
    \/ \E h \in Handlers : Accept(h) \/ Record(h) \/ Fault(h)
    \/ Tick \/ Crash

Spec == Init /\ [][Next]_vars

\* Handlers are scheduled, and a command ends: in an answer or in a timeout.
FairSpec == Spec /\ \A h \in Handlers : WF_vars(Record(h))

-----------------------------------------------------------------------------
(* Properties *)

\* Every variable has its type.
TypeOK ==
    /\ clock \in 0..MaxClock
    /\ addCreates \in BOOLEAN
    /\ series \in [Granularities -> [exists : BOOLEAN, samples : [0..MaxClock -> Nat]]]
    /\ handler \in [Handlers ->
          [pc : {"idle", "stamp", "add", "exists", "create", "again"},
           g : Granularities, bucket : 0..MaxClock]]
    /\ accepted \in 0..MaxEvents /\ faults \in 0..MaxFaults /\ cut \in 0..MaxEvents

\* Events of granularity g in the buckets that begin before moment t.
Before(g, t) == SumFunctionOnSet(series[g].samples, {b \in 0..MaxClock : b < t})

Total(g) == Before(g, MaxClock + 1)

\* Events that a handler has yet to record in series g.
Pending(g) == Cardinality({h \in Handlers : handler[h] # Idle /\ handler[h].g <= g})

\* What may be missing from a series: an event for each command that went wrong,
\* and one for each handler that was too late to create it.
Missed == faults + IF addCreates THEN 0 ELSE Cardinality(Handlers) - 1

\* A series counts every accepted event once, however many handlers add to one
\* bucket or find the series missing at the same time.  What it may lack are the
\* events being recorded, those of a dead process, and those Missed allows: the
\* race to create it costs an event for each other handler once, not each time.
\* Beyond the accepted events it counts only commands that were repeated.
EventsCounted ==
    \A g \in Granularities :
        /\ Total(g) <= accepted + faults
        /\ Total(g) + Pending(g) + cut + Missed >= accepted

\* The three series tell one story: up to the end of an hour the hours hold no
\* event that the minutes do not, for the minute was stamped first; and the
\* minutes no more than the hours but for one event of each handler, the one it
\* has yet to record or stamped on either side of the full hour.
BucketsNest ==
    \A g \in Granularities \ {1}, t \in 0..MaxClock :
        t % Lengths[g] = 0 =>
            /\ Before(g, t) <= Before(g - 1, t) + Missed
            /\ Before(g - 1, t) <= Before(g, t) + Cardinality(Handlers) + cut + Missed

\* A handler comes to the end of its recording, and its client gets the answer,
\* or its process dies.
RecordingEnds == \A h \in Handlers : handler[h] # Idle ~> handler[h] = Idle
=============================================================================
