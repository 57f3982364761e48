----------------------------- MODULE RateLimit -----------------------------
(***************************************************************************)
(* The per-project rate limiter: RedisClient.UpdateRateLimit and the Lua   *)
(* script it sends to Redis (pkg/redis/client.go).                         *)
(*                                                                         *)
(* Redis runs a script atomically, so one execution is one step.  What is  *)
(* not atomic is the call around it: the handler's goroutine reads its     *)
(* clock, and the script that uses that reading runs later, after other    *)
(* goroutines' scripts, and its reply may be lost on the way back, in      *)
(* which case the client library may send the same command again.          *)
(***************************************************************************)
EXTENDS RateWindow, FiniteSetsExt

CONSTANTS
    Projects,   \* project IDs, the fields of the hash "rate_limits"
    Calls,      \* goroutines, of one or several collectors, that may call it at once
    Settings,   \* Settings[p]: the limits a call for p may carry (the cache changes)
    MaxClock,   \* bound: the last second of the run
    MaxDelay    \* bound: how old a clock reading is when the script runs, with the
                \* lag of one collector's clock behind another's

ASSUME RateLimitAssumption ==
    /\ Settings \in [Projects -> SUBSET Setting]
    /\ \A p \in Projects : IsFiniteSet(Settings[p])
    /\ MaxClock \in Nat
    /\ MaxDelay \in Nat

VARIABLES
    clock,       \* Unix time, in seconds
    rateLimits,  \* the hash "rate_limits" in Redis: project -> "timestamp:count"
    call,        \* what each goroutine is doing
    admitted,    \* history: calls told "allowed" by the script in the current window
    counted      \* history: permits taken, by project and by second

vars == <<clock, rateLimits, call, admitted, counted>>

-----------------------------------------------------------------------------
(* The call *)

Answers == {"none", "allowed", "denied", "error"}

\* A goroutine that is not in UpdateRateLimit.
NoCall == [pc |-> "idle"]

\* A call with its arguments, the clock reading among them.
Call ==
    [pc : {"sent", "returned"}, project : Projects, setting : Setting,
     now : 0..MaxClock, answer : Answers]

Init ==
    /\ clock = 0
    /\ rateLimits = [p \in Projects |-> NoWindow]
    /\ call = [c \in Calls |-> NoCall]
    /\ admitted = [p \in Projects |-> 0]
    /\ counted = [p \in Projects |-> [t \in 0..MaxClock |-> 0]]

\* Mutant: the limits of another project.
InvokeMixedUp(c, p, s) ==
    /\ call[c].pc = "idle"
    /\ s.limit # 0
    /\ \E q \in Projects :
          call' = [call EXCEPT ![c] = [pc |-> "sent", project |-> q, setting |-> s,
                                       now |-> clock, answer |-> "none"]]
    /\ UNCHANGED <<clock, rateLimits, admitted, counted>>

\* A handler calls UpdateRateLimit.  A limit of 0 means no limit: the call
\* returns at once and Redis is not asked.
Invoke(c, p, s) ==
    /\ call[c].pc = "idle"
    /\ call' = [call EXCEPT ![c] =
                   [pc |-> IF s.limit = 0 THEN "returned" ELSE "sent",
                    project |-> p, setting |-> s, now |-> clock,
                    answer |-> IF s.limit = 0 THEN "allowed" ELSE "none"]]
    /\ UNCHANGED <<clock, rateLimits, admitted, counted>>

Finish(c, answer) ==
    call' = [call EXCEPT ![c].pc = "returned", ![c].answer = answer]

\* Redis runs the script of call c.  told is 1 when the caller learns of it.
RunScript(c, told) ==
    LET p == call[c].project
        w == rateLimits[p]
        s == call[c].setting
        n == call[c].now
        before == IF Opens(w, n, s) THEN 0 ELSE admitted[p]
    IN  /\ rateLimits' = [rateLimits EXCEPT ![p] = Updated(w, n, s)]
        /\ admitted' = [admitted EXCEPT
                           ![p] = IF Allows(w, n, s) THEN before + told ELSE before]
        /\ counted' = IF Allows(w, n, s)
                      THEN [counted EXCEPT ![p][clock] = @ + 1]
                      ELSE counted

Verdict(c) ==
    IF Allows(rateLimits[call[c].project], call[c].now, call[c].setting)
    THEN "allowed" ELSE "denied"

\* The script runs and its reply arrives.
Execute(c) ==
    /\ call[c].pc = "sent"
    /\ RunScript(c, 1)
    /\ Finish(c, Verdict(c))
    /\ UNCHANGED clock

\* The script runs and its reply is lost: the client library gives up with an
\* error, or sends the command again with the same arguments.
ReplyLost(c) ==
    /\ call[c].pc = "sent"
    /\ RunScript(c, 0)
    /\ Finish(c, "error") \/ UNCHANGED call
    /\ UNCHANGED clock

\* The command never reaches Redis.
Unreachable(c) ==
    /\ call[c].pc = "sent"
    /\ Finish(c, "error")
    /\ UNCHANGED <<clock, rateLimits, admitted, counted>>

\* The handler takes the answer and goes on.
Return(c) ==
    /\ call[c].pc = "returned"
    /\ call' = [call EXCEPT ![c] = NoCall]
    /\ UNCHANGED <<clock, rateLimits, admitted, counted>>

\* A second passes.  A command is not in flight for longer than the client
\* library's timeouts and retries allow.
Tick ==
    /\ clock < MaxClock
    /\ \A c \in Calls : call[c].pc = "sent" => clock - call[c].now < MaxDelay
    /\ clock' = clock + 1
    /\ UNCHANGED <<rateLimits, call, admitted, counted>>

Next ==
    \/ \E c \in Calls, p \in Projects : \E s \in Settings[p] : Invoke(c, p, s)
    \/ \E c \in Calls : Execute(c) \/ ReplyLost(c) \/ Unreachable(c) \/ Return(c)
    \/ Tick

Spec == Init /\ [][Next]_vars

-----------------------------------------------------------------------------
(* Properties *)

\* Every variable has its type, and a call carries limits its project has had.
TypeOK ==
    /\ clock \in 0..MaxClock
    /\ rateLimits \in [Projects -> Window]
    /\ call \in [Calls -> {NoCall} \cup Call]
    /\ \A c \in Calls : call[c] # NoCall => call[c].setting \in Settings[call[c].project]
    /\ admitted \in [Projects -> Nat]
    /\ counted \in [Projects -> [0..MaxClock -> Nat]]

\* However calls interleave, time out, are retried or carry limits of
\* different ages, the callers told "allowed" in one window are no more than
\* the permits Redis has counted in it, and these no more than the largest
\* limit any call for the project carried.  (The first event of a window is
\* admitted whatever the limit, hence the 1.)
WithinLimit ==
    \A p \in Projects :
        /\ admitted[p] <= rateLimits[p].count
        /\ \/ rateLimits[p].count <= 1
           \/ \E s \in Settings[p] : rateLimits[p].count <= s.limit

\* A window's start never moves back, although the clock readings that set it
\* arrive at Redis out of order: a late reading neither restarts nor reopens
\* a window.
WindowsMoveForward ==
    [][\A p \in Projects :
           (rateLimits[p].count > 0 /\ \A s \in Settings[p] : s.period >= 0) =>
               /\ rateLimits'[p].count > 0
               /\ rateLimits'[p].timestamp >= rateLimits[p].timestamp]_vars

\* Permits of p taken in the seconds from..to.
Taken(p, from, to) == SumFunctionOnSet(counted[p], (from..to) \cap (0..MaxClock))

\* What the fixed window costs against "at most N in any T seconds": in any T
\* consecutive seconds a project is given at most N events for the window that
\* was open and N for each window that opens in them; with clock readings up
\* to MaxDelay old one window more can open.  For projects all of whose
\* settings are limits of at least 1 over periods of at least a second.
BurstBound ==
    \A p \in Projects :
        (Settings[p] # {} /\ \A s \in Settings[p] : s.limit >= 1 /\ s.period >= 1) =>
            LET N == Max({s.limit : s \in Settings[p]})
                T == Min({s.period : s \in Settings[p]})
            IN  \A t \in 0..MaxClock :
                    Taken(p, t, t + T - 1) <= N * (2 + (T + MaxDelay - 1) \div T)

\* An event is refused only when the project really used its limit up: at
\* least N permits were taken in the last T seconds (and the reading's age).
DenialJustified ==
    [][\A c \in Calls :
           (call[c].pc = "sent" /\ call'[c].answer = "denied") =>
               LET s == call[c].setting
               IN  Taken(call[c].project, clock - s.period - MaxDelay + 1, clock)
                       >= s.limit]_vars

=============================================================================
