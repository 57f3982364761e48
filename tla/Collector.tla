------------------------------ MODULE Collector ------------------------------
(***************************************************************************)
(* The collector between its clients and RabbitMQ: the handlers of error,  *)
(* Sentry and release requests (pkg/server), each in a goroutine of its    *)
(* own, and the three caches they consult, which background goroutines     *)
(* replace while they run (pkg/accounts/cache.go, pkg/redis/client.go).    *)
(*                                                                         *)
(* A handler passes its gates one after the other and each gate reads a    *)
(* cache as it is at that moment.  A refresh reads the database first and  *)
(* installs what it read later.  The process may die at any point; the     *)
(* databases live on.                                                      *)
(*                                                                         *)
(* The channel and its goroutine are taken at their word (Handoff, which   *)
(* Broker implements), and wait for as long as RabbitMQ makes them.  The   *)
(* calls of the rate limiter carry clock readings in any order: RateLimit  *)
(* says what follows when they are not too far apart.                      *)
(***************************************************************************)
EXTENDS RateWindow, SequencesExt

CONSTANTS
    Requests,      \* client requests, each made once
    Kinds,         \* which endpoints they go to, of "error", "sentry", "release"
    Projects,      \* each has one integration token
    LimitChoices,  \* the settings a refresh of the limits may find for a project
    Moments,       \* the seconds at which handlers may read their clock
    MaxRepeats,    \* bound: commands the client library sends again
    MaxChanges,    \* bound: changes made to the databases
    MaxCrashes     \* bound: deaths of the process

\* The zero value of rateLimitSettings, which a lookup that misses returns.
ZeroSetting == [limit |-> 0, period |-> 0]

ASSUME CollectorAssumption ==
    /\ Kinds \subseteq {"error", "sentry", "release"}
    /\ LimitChoices \subseteq Setting
    /\ Moments \subseteq Nat
    /\ MaxRepeats \in Nat
    /\ MaxChanges \in Nat
    /\ MaxCrashes \in Nat

VARIABLES
    \* the databases
    registered,     \* MongoDB: projects with their integration tokens
    banned,         \* Redis: the set of disabled projects
    rateLimits,     \* Redis: the hash "rate_limits"
    changes,        \* changes made so far
    \* the process
    phase,          \* how far main has got
    crashes,        \* deaths so far
    validTokens,    \* cache: projects whose token is known
    projectLimits,  \* cache: project -> settings, for the projects it knows
    blockedIDs,     \* cache: blocked projects
    snapshot,       \* what each refresh has read and not installed, if anything: {} or {s}
    request,        \* what each request's handler is doing
    \* the broker
    accepted,       \* messages the channel's goroutine has received, in order
    stalled,        \* RabbitMQ holds the goroutine up in a write: it receives nothing
    \* the limiter
    windows,        \* history: windows the limiter has opened for each project
    repeats,        \* commands sent again so far
    \* history
    steady,         \* what a snapshot says of projects as long as it stays so: that they
                    \* are refused ("blocked", "tokens"), that they have limits ("limits")
    enforced,       \* the same once the snapshot is installed
    barred,         \* requests that came when their project was refused in enforced
    covered         \* requests that came when their project had limits in enforced

limiter == <<rateLimits, windows, repeats>>
databases == <<registered, banned, changes, limiter>>
caches == <<validTokens, projectLimits, blockedIDs, snapshot>>
broker == <<accepted, stalled>>
history == <<steady, enforced, barred, covered>>
vars == <<databases, phase, crashes, caches, request, broker, history>>

\* What becomes of accepted messages is Handoff's affair and of no consequence here.
Queue == INSTANCE Handoff WITH Messages <- Requests, delivered <- <<>>, lost <- {}

\* main loads the caches in this order and then serves.
Phases == {"down", "blocked", "tokens", "limits", "serving"}

\* The caches; "blocked" and "tokens" are the two that refuse whole projects.
Caches == {"blocked", "tokens", "limits"}

NoRequest == [pc |-> "new"]

\* A permit is a place in a window of the limiter: the window and the count.
NoPermit == <<0, 0>>

Init ==
    /\ registered \in SUBSET Projects
    /\ banned \in SUBSET registered
    /\ rateLimits = [p \in Projects |-> NoWindow]
    /\ changes = 0
    /\ phase = "down"
    /\ crashes = 0
    /\ validTokens = {}
    /\ projectLimits = <<>>
    /\ blockedIDs = {}
    /\ snapshot = [c \in Caches |-> {}]
    /\ request = [r \in Requests |-> NoRequest]
    /\ Queue!Init
    /\ stalled = FALSE
    /\ windows = [p \in Projects |-> 0]
    /\ repeats = 0
    /\ steady = [c \in Caches |-> {}]
    /\ enforced = [c \in Caches |-> {}]
    /\ barred = {}
    /\ covered = {}

-----------------------------------------------------------------------------
(* The databases, changed by other services *)

Change ==
    /\ changes < MaxChanges
    /\ changes' = changes + 1
    /\ UNCHANGED <<limiter, phase, crashes, caches, request, broker>>

\* Those of some requests that are not for p.
NotFor(p, some) == {r \in some : request[r].project # p}

\* What the snapshots of c said of p is so no longer.
Forgive(c, p) ==
    /\ steady' = [steady EXCEPT ![c] = @ \ {p}]
    /\ enforced' = [enforced EXCEPT ![c] = @ \ {p}]
    /\ barred' = IF c = "limits" THEN barred ELSE NotFor(p, barred)
    /\ covered' = IF c = "limits" THEN NotFor(p, covered) ELSE covered

Ban(p) ==
    /\ p \notin banned
    /\ banned' = banned \cup {p}
    /\ Change
    /\ UNCHANGED <<registered, history>>

Unban(p) ==
    /\ p \in banned
    /\ banned' = banned \ {p}
    /\ Forgive("blocked", p)
    /\ Change
    /\ UNCHANGED registered

Register(p) ==
    /\ p \notin registered
    /\ registered' = registered \cup {p}
    /\ Forgive("tokens", p)
    /\ Change
    /\ UNCHANGED banned

Unregister(p) ==
    /\ p \in registered
    /\ registered' = registered \ {p}
    /\ Forgive("limits", p)
    /\ Change
    /\ UNCHANGED banned

-----------------------------------------------------------------------------
(* The caches.  A cache has one refresher at a time: main while it starts up, *)
(* then the goroutine of RunPeriodically.                                     *)

Refreshing(c) == phase \in {c, "serving"}

\* main goes on to the next load whether or not this one succeeded.
NextPhase(c) ==
    phase' = IF phase # c THEN phase
             ELSE IF c = "blocked" THEN "tokens"
             ELSE IF c = "tokens" THEN "limits"
             ELSE "serving"

\* Mutant: the list is loaded at startup only.
ReadBlockedOnce ==
    /\ phase = "blocked"
    /\ snapshot["blocked"] = {}
    /\ snapshot' = [snapshot EXCEPT !["blocked"] = {banned}]
    /\ steady' = [steady EXCEPT !["blocked"] = banned]
    /\ UNCHANGED <<databases, phase, crashes, validTokens, projectLimits, blockedIDs,
                   request, broker, enforced, barred, covered>>

\* SMEMBERS of the set of disabled projects.
ReadBlocked ==
    /\ Refreshing("blocked")
    /\ snapshot["blocked"] = {}
    /\ snapshot' = [snapshot EXCEPT !["blocked"] = {banned}]
    /\ steady' = [steady EXCEPT !["blocked"] = banned]
    /\ UNCHANGED <<databases, phase, crashes, validTokens, projectLimits, blockedIDs,
                   request, broker, enforced, barred, covered>>

InstallBlocked ==
    /\ Refreshing("blocked")
    /\ \E s \in snapshot["blocked"] : blockedIDs' = s
    /\ snapshot' = [snapshot EXCEPT !["blocked"] = {}]
    /\ enforced' = [enforced EXCEPT !["blocked"] = steady["blocked"]]
    /\ NextPhase("blocked")
    /\ UNCHANGED <<databases, crashes, validTokens, projectLimits, request, broker,
                   steady, barred, covered>>

\* The collection "projects" of MongoDB, for the tokens.
ReadTokens ==
    /\ Refreshing("tokens")
    /\ snapshot["tokens"] = {}
    /\ snapshot' = [snapshot EXCEPT !["tokens"] = {registered}]
    /\ steady' = [steady EXCEPT !["tokens"] = Projects \ registered]
    /\ UNCHANGED <<databases, phase, crashes, validTokens, projectLimits, blockedIDs,
                   request, broker, enforced, barred, covered>>

InstallTokens ==
    /\ Refreshing("tokens")
    /\ \E s \in snapshot["tokens"] : validTokens' = s
    /\ snapshot' = [snapshot EXCEPT !["tokens"] = {}]
    /\ enforced' = [enforced EXCEPT !["tokens"] = steady["tokens"]]
    /\ NextPhase("tokens")
    /\ UNCHANGED <<databases, crashes, projectLimits, blockedIDs, request, broker,
                   steady, barred, covered>>

\* The same collection again, for the limits.
ReadLimits ==
    /\ Refreshing("limits")
    /\ snapshot["limits"] = {}
    /\ snapshot' = [snapshot EXCEPT !["limits"] = {registered}]
    /\ steady' = [steady EXCEPT !["limits"] = registered]
    /\ UNCHANGED <<databases, phase, crashes, validTokens, projectLimits, blockedIDs,
                   request, broker, enforced, barred, covered>>

\* Which settings a project gets is worked out from plan, workspace and project.
InstallLimits ==
    /\ Refreshing("limits")
    /\ \E s \in snapshot["limits"] : projectLimits' \in [s -> LimitChoices]
    /\ snapshot' = [snapshot EXCEPT !["limits"] = {}]
    /\ enforced' = [enforced EXCEPT !["limits"] = steady["limits"]]
    /\ NextPhase("limits")
    /\ UNCHANGED <<databases, crashes, validTokens, blockedIDs, request, broker,
                   steady, barred, covered>>

\* Mutant: a failed load leaves an empty list, or no limits, behind.
LoadFailsEmpty(c) ==
    /\ Refreshing(c)
    /\ snapshot[c] = {}
    /\ NextPhase(c)
    /\ blockedIDs' = IF c = "blocked" THEN {} ELSE blockedIDs
    /\ projectLimits' = IF c = "limits" THEN <<>> ELSE projectLimits
    /\ UNCHANGED <<databases, crashes, validTokens, snapshot, request, broker, history>>

\* A load returns an error: the cache stays as it was, which at startup is empty.
LoadFails(c) ==
    /\ Refreshing(c)
    /\ snapshot[c] = {}
    /\ NextPhase(c)
    /\ UNCHANGED <<databases, crashes, caches, request, broker, history>>

-----------------------------------------------------------------------------
(* Handlers *)

\* What no handler writes.
shared == <<registered, banned, changes, phase, crashes, caches, stalled, steady, enforced>>

\* What a handler writes only as its request arrives.
noted == <<barred, covered>>

At(r, pc) == phase = "serving" /\ request[r].pc = pc

GoTo(r, pc) == request' = [request EXCEPT ![r].pc = pc]

Answer(r, code) ==
    request' = [request EXCEPT ![r] = [request[r] EXCEPT !.pc = "answered", !.code = code]]

\* The HTTP status of an answer with this Code: fasthttp sends 200 when none is set.
Status(code) == IF code = 0 THEN 200 ELSE code

\* handler of pkg/server/server.go dispatches on the path.
Arrive(r, kind, p) ==
    /\ At(r, "new")
    /\ request' = [request EXCEPT ![r] =
                      [pc |-> "parse", kind |-> kind, project |-> p,
                       setting |-> ZeroSetting, now |-> 0, permit |-> NoPermit, code |-> 0]]
    /\ barred' = IF p \in enforced["blocked"] \cup enforced["tokens"]
                 THEN barred \cup {r} ELSE barred
    /\ covered' = IF p \in enforced["limits"] THEN covered \cup {r} ELSE covered
    /\ UNCHANGED <<shared, limiter, accepted>>

\* Size, JSON, fields, token encoding.
ParseError(r) ==
    /\ request[r].kind = "error"
    /\ Answer(r, 400) \/ GoTo(r, "token")

\* Size, key, content encoding; a CORS preflight is answered here.
ParseSentry(r) ==
    /\ request[r].kind = "sentry"
    /\ Answer(r, 400) \/ Answer(r, 204) \/ GoTo(r, "token")

\* Size, header, form, token encoding, release name.  The answer to a release
\* that is too large leaves the field Code at 0.
ParseRelease(r) ==
    /\ request[r].kind = "release"
    /\ Answer(r, 0) \/ Answer(r, 400) \/ GoTo(r, "token")

Parse(r) ==
    /\ At(r, "parse")
    /\ ParseError(r) \/ ParseSentry(r) \/ ParseRelease(r)
    /\ UNCHANGED <<shared, limiter, accepted, noted>>

GetValidToken(r) ==
    /\ At(r, "token")
    /\ IF request[r].project \in validTokens THEN GoTo(r, "limits") ELSE Answer(r, 400)
    /\ UNCHANGED <<shared, limiter, accepted, noted>>

\* A project the cache does not know is logged and goes on with the zero value.
GetProjectLimits(r) ==
    LET p == request[r].project
    IN  /\ At(r, "limits")
        /\ request' = [request EXCEPT ![r] =
               [request[r] EXCEPT
                  !.pc = "blocked",
                  !.setting = IF p \in DOMAIN projectLimits THEN projectLimits[p]
                              ELSE ZeroSetting]]
        /\ UNCHANGED <<shared, limiter, accepted, noted>>

\* Mutants: another status; no answer at all.
IsBlockedTooMany(r) ==
    /\ At(r, "blocked")
    /\ IF request[r].project \in blockedIDs THEN Answer(r, 429)
       ELSE GoTo(r, IF request[r].kind = "release" THEN "files" ELSE "rate")
    /\ UNCHANGED <<shared, limiter, accepted, noted>>

IsBlockedWaits(r) ==
    /\ At(r, "blocked")
    /\ request[r].project \notin blockedIDs
    /\ GoTo(r, IF request[r].kind = "release" THEN "files" ELSE "rate")
    /\ UNCHANGED <<shared, limiter, accepted, noted>>

\* The release handler has no rate limit.
IsBlocked(r) ==
    /\ At(r, "blocked")
    /\ IF request[r].project \in blockedIDs THEN Answer(r, 402)
       ELSE GoTo(r, IF request[r].kind = "release" THEN "files" ELSE "rate")
    /\ UNCHANGED <<shared, limiter, accepted, noted>>

\* UpdateRateLimit with a limit of 0: no limit.
Unlimited(r) ==
    /\ At(r, "rate")
    /\ request[r].setting.limit = 0
    /\ GoTo(r, "send")
    /\ UNCHANGED <<shared, limiter, accepted, noted>>

\* The clock is read before the command is sent.
ReadClock(r) ==
    /\ At(r, "rate")
    /\ request[r].setting.limit # 0
    /\ \E n \in Moments :
          request' = [request EXCEPT ![r] = [request[r] EXCEPT !.pc = "script", !.now = n]]
    /\ UNCHANGED <<shared, limiter, accepted, noted>>

\* The event may go on to the broker, with its place in the window.
Admit(r, permit) ==
    request' = [request EXCEPT ![r] = [request[r] EXCEPT !.pc = "send", !.permit = permit]]

\* Redis runs the script.  The handler gets the answer, or an error in its
\* place, or the client library sends the command again as it was.
RunScript(r) ==
    LET p == request[r].project
        w == rateLimits[p]
        s == request[r].setting
        n == request[r].now
    IN  /\ At(r, "script")
        /\ rateLimits' = [rateLimits EXCEPT ![p] = Updated(w, n, s)]
        /\ windows' = [windows EXCEPT ![p] = IF Opens(w, n, s) THEN @ + 1 ELSE @]
        /\ \/ /\ IF Allows(w, n, s) THEN Admit(r, <<windows'[p], rateLimits'[p].count>>)
                 ELSE Answer(r, 402)
              /\ UNCHANGED repeats
           \/ Answer(r, 402) /\ UNCHANGED repeats
           \/ repeats < MaxRepeats /\ repeats' = repeats + 1 /\ UNCHANGED request
        /\ UNCHANGED <<shared, accepted, noted>>

\* Mutant: an event is let through when Redis cannot be asked.
RedisFailsOpen(r) ==
    /\ At(r, "script")
    /\ GoTo(r, "send")
    /\ UNCHANGED <<shared, limiter, accepted, noted>>

\* The script never runs and the handler gets an error.
RedisFails(r) ==
    /\ At(r, "script")
    /\ Answer(r, 402)
    /\ UNCHANGED <<shared, limiter, accepted, noted>>

\* The files and commits of a release; a panic on the way is answered 400 too.
ReadFiles(r) ==
    /\ At(r, "files")
    /\ Answer(r, 400) \/ GoTo(r, "send")
    /\ UNCHANGED <<shared, limiter, accepted, noted>>

\* Mutant: the handler does not wait for the goroutine.
SendOrDrop(r) ==
    /\ At(r, "send")
    /\ IF stalled THEN UNCHANGED accepted ELSE Queue!Accept(r)
    /\ GoTo(r, "reply")
    /\ UNCHANGED <<shared, limiter, noted>>

\* Broker.Chan <- message: the handler waits until the goroutine receives it, and
\* has no timeout.
\* The payload was valid JSON when the body was unmarshalled, so checking and
\* marshalling it once more on the way here do not fail.
Send(r) ==
    /\ At(r, "send")
    /\ ~stalled
    /\ Queue!Accept(r)
    /\ GoTo(r, "reply")
    /\ UNCHANGED <<shared, limiter, noted>>

Reply(r) ==
    /\ At(r, "reply")
    /\ Answer(r, 200)
    /\ UNCHANGED <<shared, limiter, accepted, noted>>

\* What a handler does without waiting for the broker.
Proceed(r) ==
    \/ Parse(r) \/ GetValidToken(r) \/ GetProjectLimits(r) \/ IsBlocked(r)
    \/ Unlimited(r) \/ ReadClock(r) \/ RunScript(r) \/ RedisFails(r) \/ ReadFiles(r)
    \/ Reply(r)

Handle(r) == Proceed(r) \/ Send(r)

-----------------------------------------------------------------------------
(* RabbitMQ *)

\* An alarm of RabbitMQ blocks the connection: the goroutine stays in its write.
Stall ==
    /\ phase = "serving"
    /\ ~stalled
    /\ stalled' = TRUE
    /\ UNCHANGED <<databases, phase, crashes, caches, request, accepted, history>>

\* The alarm is over.
Resume ==
    /\ stalled
    /\ stalled' = FALSE
    /\ UNCHANGED <<databases, phase, crashes, caches, request, accepted, history>>

-----------------------------------------------------------------------------
(* The process *)

\* main, up to the first load.
Start ==
    /\ phase = "down"
    /\ phase' = "blocked"
    /\ UNCHANGED <<databases, crashes, caches, request, broker, history>>

\* The process ends: its memory is gone, and the clients that wait are cut off.
Crash ==
    /\ phase # "down"
    /\ crashes < MaxCrashes
    /\ crashes' = crashes + 1
    /\ phase' = "down"
    /\ validTokens' = {}
    /\ projectLimits' = <<>>
    /\ blockedIDs' = {}
    /\ snapshot' = [c \in Caches |-> {}]
    /\ request' = [r \in Requests |->
                      IF request[r].pc \in {"new", "answered"} THEN request[r]
                      ELSE [request[r] EXCEPT !.pc = "dead"]]
    /\ stalled' = FALSE
    /\ steady' = [c \in Caches |-> {}]
    /\ enforced' = [c \in Caches |-> {}]
    /\ UNCHANGED <<databases, accepted, barred, covered>>

Refresh ==
    \/ ReadBlocked \/ InstallBlocked
    \/ ReadTokens \/ InstallTokens
    \/ ReadLimits \/ InstallLimits

Next ==
    \/ \E p \in Projects : Ban(p) \/ Unban(p) \/ Register(p) \/ Unregister(p)
    \/ Refresh
    \/ \E c \in Caches : LoadFails(c)
    \/ \E r \in Requests, kind \in Kinds, p \in Projects : Arrive(r, kind, p)
    \/ \E r \in Requests : Handle(r)
    \/ Stall \/ Resume
    \/ Start \/ Crash

Spec == Init /\ [][Next]_vars

\* Handlers are scheduled.  The goroutine of the channel takes from each in turn
\* whenever it is not held up (Broker: HandlersMoveOn), which is strong fairness: it
\* may be held up again and again.  Periodic refreshes go on for ever and some
\* succeed.  Nothing is assumed of clients, other services, alarms, or restarts.
Fairness ==
    /\ \A r \in Requests : WF_vars(Proceed(r)) /\ SF_vars(Send(r))
    /\ WF_vars(ReadBlocked) /\ WF_vars(InstallBlocked)
    /\ WF_vars(ReadTokens) /\ WF_vars(InstallTokens)
    /\ WF_vars(ReadLimits) /\ WF_vars(InstallLimits)

FairSpec == Spec /\ Fairness

-----------------------------------------------------------------------------
(* Properties *)

Codes == {0, 200, 204, 400, 402}

Pcs == {"parse", "token", "limits", "blocked", "rate", "script", "files", "send", "reply",
        "answered", "dead"}

\* Every variable has its type.
TypeOK ==
    /\ registered \subseteq Projects /\ banned \subseteq Projects
    /\ rateLimits \in [Projects -> Window]
    /\ changes \in 0..MaxChanges /\ crashes \in 0..MaxCrashes
    /\ phase \in Phases
    /\ validTokens \subseteq Projects /\ blockedIDs \subseteq Projects
    /\ DOMAIN projectLimits \subseteq Projects
    /\ \A p \in DOMAIN projectLimits : projectLimits[p] \in LimitChoices
    /\ snapshot \in [Caches -> {{}} \cup {{s} : s \in SUBSET Projects}]
    /\ request \in [Requests -> {NoRequest} \cup
            [pc : Pcs, kind : Kinds, project : Projects, setting : Setting, now : Nat,
             permit : Nat \X Nat, code : Codes]]
    /\ accepted \in Seq(Requests) /\ stalled \in BOOLEAN
    /\ windows \in [Projects -> Nat] /\ repeats \in 0..MaxRepeats
    /\ steady \in [Caches -> SUBSET Projects]
    /\ enforced \in [Caches -> SUBSET Projects]
    /\ barred \subseteq Requests /\ covered \subseteq Requests

\* What a client was told is what happened: Code 200 only for a message the broker
\* has taken, any other answer only for one it never takes.  Only a client
\* that was cut off does not know.
AnswersAreTrue ==
    \A r \in Requests :
        /\ request[r].pc = "answered" => (request[r].code = 200 <=> r \in ToSet(accepted))
        /\ r \in ToSet(accepted) => request[r].pc \in {"reply", "answered", "dead"}

\* README.md, "Response message": the status of a good request is "200 (OK)" and
\* of a bad one "400 (Bad request)".  The status alone tells the client which.
StatusIsTrue ==
    \A r \in Requests :
        (request[r].pc = "answered" /\ Status(request[r].code) = 200) => r \in ToSet(accepted)

\* A project that has been banned, or gone from the accounts, ever since before
\* a refresh read the database has none of its requests accepted once that
\* refresh is installed: whatever refreshes, failed loads and other requests
\* come between the request's arrival and its gates.
BarredRefused == \A r \in barred : r \notin ToSet(accepted)

\* A project that has been in the accounts ever since before a refresh of the limits
\* read them has, once that refresh is installed, none of its requests accepted
\* without limits that a refresh found: the lookup of a project the cache does not
\* know, which the handlers go on from without limits, is not made for it, whatever
\* refreshes and failed loads come between.
KnownLimitsApply ==
    \A r \in covered : r \in ToSet(accepted) => request[r].setting \in LimitChoices

\* Accepted requests that had to pass the limiter.
Limited ==
    {r \in ToSet(accepted) : request[r].kind # "release" /\ request[r].setting.limit # 0}

\* An event accepted under a limit has a place of its own in a window of its project:
\* no two have the same, and the place is within the event's own limit, or the
\* window's first.  So it is whatever handlers run at once, in whatever order their
\* clock readings reach Redis, however the limits change between their lookups,
\* when replies are lost and commands repeated, and across restarts.
OnePermitEach ==
    \A r \in Limited :
        LET window == request[r].permit[1]
            place == request[r].permit[2]
        IN  /\ window \in 1..windows[request[r].project]
            /\ place = 1 \/ place <= request[r].setting.limit
            /\ \A q \in Limited \ {r} :
                  request[q].project = request[r].project =>
                      request[q].permit # request[r].permit

\* Every request is answered, or its process ends, or RabbitMQ's alarm never does.
EveryRequestAnswered ==
    \A r \in Requests :
        request[r].pc = "parse" ~>
            (request[r].pc \in {"answered", "dead"} \/ []stalled)

\* A ban that is not lifted takes effect while the process runs, and from then
\* on for good.
BansTakeEffect ==
    \A p \in Projects :
        <>[](p \in banned /\ phase = "serving") => <>[](p \in blockedIDs)

\* README.md, "Rate Limiting": limits "are automatically enforced for all
\* incoming error and release events".  All requests of a project in the one
\* period, then, are no more than the largest limit it may have.
LimitsEnforced ==
    \A p \in Projects :
        \E s \in LimitChoices :
            Cardinality({r \in ToSet(accepted) : request[r].project = p}) <= s.limit
=============================================================================
