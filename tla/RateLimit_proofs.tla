-------------------------- MODULE RateLimit_proofs --------------------------
(***************************************************************************)
(* Proofs about the rate limiter, for every set of projects, calls and     *)
(* settings.                                                               *)
(*                                                                         *)
(* Inv is enough for the limit.  What a span of seconds may see, and what  *)
(* a refusal means, needs to know when the permits of a window were taken, *)
(* and how the windows before it lie: BurstInv.                            *)
(***************************************************************************)
EXTENDS RateLimit, DataLemmas

USE DEF Setting

-----------------------------------------------------------------------------
(* What one execution of the script does to a window *)

\* A window the script leaves is a window: a start, and a count of at least 1.
LEMMA UpdatedWindow ==
    ASSUME NEW w \in Window, NEW now \in Int, NEW s \in Setting
    PROVE  /\ Updated(w, now, s) \in Window
           /\ Updated(w, now, s).count > 0
BY DEF Window, Updated, Opens, Allows

\* The script counts an event exactly when it allows it, and stays within the
\* limit it was given unless it opens a window.
LEMMA UpdatedCount ==
    ASSUME NEW w \in Window, NEW now \in Int, NEW s \in Setting
    PROVE  /\ Opens(w, now, s) => Updated(w, now, s).count = 1
           /\ (Allows(w, now, s) /\ ~Opens(w, now, s)) =>
                 /\ Updated(w, now, s).count = w.count + 1
                 /\ Updated(w, now, s).count <= s.limit
           /\ ~Allows(w, now, s) => Updated(w, now, s) = w
BY DEF Window, Updated, Opens, Allows

\* With a period that is not negative the script does not move the start back.
LEMMA UpdatedTimestamp ==
    ASSUME NEW w \in Window, NEW now \in Int, NEW s \in Setting,
           w.count > 0, s.period >= 0
    PROVE  Updated(w, now, s).timestamp >= w.timestamp
BY DEF Window, Updated, Opens, Allows

-----------------------------------------------------------------------------
(* The inductive invariant *)

Inv == TypeOK /\ WithinLimit

\* It holds at the start.
LEMMA InitInv == Init => Inv
<1> SUFFICES ASSUME Init PROVE Inv
    OBVIOUS
<1>1. TypeOK
    BY RateLimitAssumption DEF Init, TypeOK, NoWindow, Window, NoCall
<1>2. WithinLimit
    BY DEF Init, WithinLimit, NoWindow
<1> QED
    BY <1>1, <1>2 DEF Inv

\* A call whose script can run: what its record holds.
LEMMA SentCall ==
    ASSUME TypeOK, NEW c \in Calls, call[c].pc = "sent"
    PROVE  /\ call[c] \in Call
           /\ call[c].project \in Projects
           /\ call[c].setting \in Setting
           /\ call[c].setting \in Settings[call[c].project]
           /\ call[c].now \in Int
           /\ rateLimits[call[c].project] \in Window
<1>1. call[c] # NoCall
    BY DEF NoCall
<1>2. call[c] \in Call
    BY <1>1 DEF TypeOK
<1> QED
    BY <1>1, <1>2, RateLimitAssumption DEF TypeOK, Call

\* Adding one to a count in a table of counts.
LEMMA OneMore ==
    ASSUME NEW S, NEW f \in [S -> Nat], NEW x \in S
    PROVE  [f EXCEPT ![x] = @ + 1] \in [S -> Nat]
OBVIOUS

\* Running a script keeps the three variables it writes typed.
LEMMA RunScriptType ==
    ASSUME TypeOK, NEW c \in Calls, call[c].pc = "sent",
           NEW told \in {0, 1}, RunScript(c, told)
    PROVE  /\ rateLimits' \in [Projects -> Window]
           /\ admitted' \in [Projects -> Nat]
           /\ counted' \in [Projects -> [0..MaxClock -> Nat]]
<1> DEFINE p == call[c].project
           w == rateLimits[p]
           s == call[c].setting
           n == call[c].now
<1>1. /\ p \in Projects /\ s \in Setting /\ n \in Int /\ w \in Window
    BY SentCall
<1>2. Updated(w, n, s) \in Window
    BY <1>1, UpdatedWindow
<1>3. rateLimits' \in [Projects -> Window]
    BY <1>1, <1>2 DEF RunScript, TypeOK
<1>4. admitted' \in [Projects -> Nat]
    BY <1>1 DEF RunScript, TypeOK
<1>5. counted' \in [Projects -> [0..MaxClock -> Nat]]
    <2> DEFINE row == [counted[p] EXCEPT ![clock] = @ + 1]
    <2>1. /\ counted \in [Projects -> [0..MaxClock -> Nat]]
          /\ clock \in 0..MaxClock
        BY DEF TypeOK
    <2>2. row \in [0..MaxClock -> Nat]
        <3>1. counted[p] \in [0..MaxClock -> Nat]
            BY <1>1, <2>1
        <3> QED
            BY <2>1, <3>1, OneMore
    <2>3. counted' = [counted EXCEPT ![p] = row] \/ counted' = counted
        BY <1>1, <2>1 DEF RunScript
    <2> HIDE DEF row
    <2> QED
        BY <1>1, <2>1, <2>2, <2>3
<1> QED
    BY <1>3, <1>4, <1>5

\* Running a script, whether or not the caller learns of it, keeps WithinLimit.
LEMMA RunScriptWithinLimit ==
    ASSUME TypeOK, WithinLimit, NEW c \in Calls, call[c].pc = "sent",
           NEW told \in {0, 1}, RunScript(c, told)
    PROVE  WithinLimit'
<1> DEFINE p == call[c].project
           w == rateLimits[p]
           s == call[c].setting
           n == call[c].now
           before == IF Opens(w, n, s) THEN 0 ELSE admitted[p]
<1>1. /\ p \in Projects /\ s \in Setting /\ n \in Int /\ w \in Window
      /\ s \in Settings[p]
    BY SentCall
<1>2. /\ rateLimits'[p] = Updated(w, n, s)
      /\ admitted'[p] = IF Allows(w, n, s) THEN before + told ELSE before
      /\ \A q \in Projects \ {p} :
            rateLimits'[q] = rateLimits[q] /\ admitted'[q] = admitted[q]
    BY <1>1 DEF RunScript, TypeOK
<1>3. /\ w.count \in Nat /\ admitted[p] \in Nat /\ admitted[p] <= w.count
      /\ w.count <= 1 \/ \E r \in Settings[p] : w.count <= r.limit
    BY <1>1 DEF TypeOK, WithinLimit, Window
<1>4. /\ admitted'[p] <= rateLimits'[p].count
      /\ \/ rateLimits'[p].count <= 1
         \/ \E r \in Settings[p] : rateLimits'[p].count <= r.limit
    <2>1. CASE Opens(w, n, s)
        BY <1>1, <1>2, <2>1, UpdatedCount DEF Allows
    <2>2. CASE Allows(w, n, s) /\ ~Opens(w, n, s)
        <3>1. rateLimits'[p].count = w.count + 1 /\ rateLimits'[p].count <= s.limit
            BY <1>1, <1>2, <2>2, UpdatedCount
        <3>2. admitted'[p] = admitted[p] + told
            BY <1>2, <2>2
        <3> QED
            BY <1>1, <1>3, <3>1, <3>2
    <2>3. CASE ~Allows(w, n, s)
        <3>1. rateLimits'[p] = w /\ admitted'[p] = admitted[p]
            BY <1>1, <1>2, <2>3, UpdatedCount DEF Allows
        <3> QED
            BY <1>3, <3>1
    <2> QED
        BY <2>1, <2>2, <2>3
<1>5. ASSUME NEW q \in Projects, q # p
      PROVE  /\ admitted'[q] <= rateLimits'[q].count
             /\ \/ rateLimits'[q].count <= 1
                \/ \E r \in Settings[q] : rateLimits'[q].count <= r.limit
    BY <1>2, <1>5 DEF WithinLimit
<1> QED
    BY <1>4, <1>5 DEF WithinLimit

LEMMA NextTypeOK == TypeOK /\ [Next]_vars => TypeOK'
<1> SUFFICES ASSUME TypeOK, [Next]_vars PROVE TypeOK'
    OBVIOUS
<1>1. ASSUME NEW c \in Calls, NEW p \in Projects, NEW s \in Settings[p], Invoke(c, p, s)
      PROVE  TypeOK'
    <2>1. s \in Setting
        BY RateLimitAssumption
    <2> DEFINE r == [pc |-> IF s.limit = 0 THEN "returned" ELSE "sent",
                     project |-> p, setting |-> s, now |-> clock,
                     answer |-> IF s.limit = 0 THEN "allowed" ELSE "none"]
    <2>2. r \in Call
        BY <2>1 DEF Call, Answers, TypeOK
    <2>3. call' = [call EXCEPT ![c] = r]
        BY <1>1 DEF Invoke
    <2>4. r.setting \in Settings[r.project]
        OBVIOUS
    <2> HIDE DEF r
    <2> QED
        BY <1>1, <2>2, <2>3, <2>4 DEF TypeOK, Invoke
<1>2. ASSUME NEW c \in Calls, call[c].pc = "sent",
             NEW answer \in Answers, Finish(c, answer)
      PROVE  /\ call' \in [Calls -> {NoCall} \cup Call]
             /\ \A d \in Calls : call'[d] # NoCall =>
                    call'[d].setting \in Settings[call'[d].project]
    <2> DEFINE r == [call[c] EXCEPT !.pc = "returned", !.answer = answer]
    <2>1. call[c] \in Call /\ call[c].setting \in Settings[call[c].project]
        BY <1>2, SentCall
    <2>2. r \in Call /\ r.setting = call[c].setting /\ r.project = call[c].project
        BY <2>1 DEF Call
    <2>3. call' = [call EXCEPT ![c] = r]
        BY <1>2 DEF Finish, TypeOK
    <2> HIDE DEF r
    <2> QED
        BY <2>1, <2>2, <2>3 DEF TypeOK
<1>3. ASSUME NEW c \in Calls, Execute(c) PROVE TypeOK'
    <2>1. Verdict(c) \in Answers
        BY DEF Verdict, Answers
    <2> QED
        BY <1>2, <1>3, <2>1, RunScriptType DEF Execute, TypeOK
<1>4. ASSUME NEW c \in Calls, ReplyLost(c) PROVE TypeOK'
    <2>1. CASE Finish(c, "error")
        BY <1>2, <1>4, <2>1, RunScriptType DEF ReplyLost, TypeOK, Answers
    <2>2. CASE UNCHANGED call
        BY <1>4, <2>2, RunScriptType DEF ReplyLost, TypeOK
    <2> QED
        BY <1>4, <2>1, <2>2 DEF ReplyLost
<1>5. ASSUME NEW c \in Calls, Unreachable(c) PROVE TypeOK'
    BY <1>2, <1>5 DEF Unreachable, TypeOK, Answers
<1>6. ASSUME NEW c \in Calls, Return(c) PROVE TypeOK'
    BY <1>6 DEF Return, TypeOK
<1>7. CASE Tick
    BY <1>7, RateLimitAssumption DEF Tick, TypeOK
<1>8. CASE UNCHANGED vars
    BY <1>8 DEF vars, TypeOK
<1> QED
    BY <1>1, <1>3, <1>4, <1>5, <1>6, <1>7, <1>8 DEF Next

LEMMA NextWithinLimit == TypeOK /\ WithinLimit /\ [Next]_vars => WithinLimit'
<1> SUFFICES ASSUME TypeOK, WithinLimit, [Next]_vars PROVE WithinLimit'
    OBVIOUS
<1>1. CASE UNCHANGED <<rateLimits, admitted>>
    BY <1>1 DEF WithinLimit
<1>2. ASSUME NEW c \in Calls, Execute(c) PROVE WithinLimit'
    BY <1>2, RunScriptWithinLimit DEF Execute
<1>3. ASSUME NEW c \in Calls, ReplyLost(c) PROVE WithinLimit'
    BY <1>3, RunScriptWithinLimit DEF ReplyLost
<1> QED
    BY <1>1, <1>2, <1>3 DEF Next, vars, Invoke, Unreachable, Return, Tick

\* Type correctness and the limit, in every reachable state: for any settings,
\* any number of calls in flight, and replies lost at any point.
THEOREM Safety == Spec => [](TypeOK /\ WithinLimit)
<1>1. Inv /\ [Next]_vars => Inv'
    BY NextTypeOK, NextWithinLimit DEF Inv
<1>2. Inv => TypeOK /\ WithinLimit
    BY DEF Inv
<1> QED
    BY <1>1, <1>2, InitInv, PTL DEF Spec

\* In particular every variable keeps its type, and a call keeps the limits it
\* was made with.
THEOREM Types == Spec => []TypeOK
BY Safety, PTL

-----------------------------------------------------------------------------
(* The action property *)

\* One run of a script moves no window of a project with sound periods back.
LEMMA RunScriptForward ==
    ASSUME TypeOK, NEW c \in Calls, call[c].pc = "sent",
           NEW told, RunScript(c, told),
           NEW p \in Projects, rateLimits[p].count > 0,
           \A s \in Settings[p] : s.period >= 0
    PROVE  /\ rateLimits'[p].count > 0
           /\ rateLimits'[p].timestamp >= rateLimits[p].timestamp
<1>0. rateLimits[p].timestamp \in Int
    BY DEF TypeOK, Window
<1>1. CASE p = call[c].project
    <2>1. rateLimits'[p] = Updated(rateLimits[p], call[c].now, call[c].setting)
        BY <1>1, SentCall DEF RunScript, TypeOK
    <2> QED
        BY <1>1, <2>1, SentCall, UpdatedWindow, UpdatedTimestamp
<1>2. CASE p # call[c].project
    BY <1>0, <1>2 DEF RunScript, TypeOK
<1> QED
    BY <1>1, <1>2

\* Late and reordered clock readings never move a window's start back.
THEOREM Forward == Spec => WindowsMoveForward
<1> DEFINE Step == \A p \in Projects :
               (rateLimits[p].count > 0 /\ \A s \in Settings[p] : s.period >= 0) =>
                   /\ rateLimits'[p].count > 0
                   /\ rateLimits'[p].timestamp >= rateLimits[p].timestamp
<1>1. TypeOK /\ [Next]_vars => [Step]_vars
    <2> SUFFICES ASSUME TypeOK, [Next]_vars PROVE Step
        OBVIOUS
    <2>1. CASE UNCHANGED rateLimits
        BY <2>1 DEF TypeOK, Window
    <2>2. ASSUME NEW c \in Calls, Execute(c) PROVE Step
        BY <2>2, RunScriptForward DEF Execute
    <2>3. ASSUME NEW c \in Calls, ReplyLost(c) PROVE Step
        BY <2>3, RunScriptForward DEF ReplyLost
    <2> HIDE DEF Step
    <2> QED
        BY <2>1, <2>2, <2>3 DEF Next, vars, Invoke, Unreachable, Return, Tick
<1> QED
    BY <1>1, Safety, PTL DEF Spec, WindowsMoveForward

-----------------------------------------------------------------------------
(* What the invariants of the burst and of the refusal say *)

\* A call's reading is at most MaxDelay old when its script runs, and it has no
\* answer yet.
InFlight ==
    \A c \in Calls : call[c].pc = "sent" =>
        /\ call[c].now <= clock /\ clock - call[c].now <= MaxDelay
        /\ call[c].answer = "none"

\* No permit is taken before its time, and those of a window were taken since it
\* began.
Backed ==
    \A p \in Projects :
        /\ \A t \in 0..MaxClock : t > clock => counted[p][t] = 0
        /\ rateLimits[p].count > 0 => rateLimits[p].timestamp <= clock
        /\ rateLimits[p].count <= Taken(p, rateLimits[p].timestamp, clock)

\* Projects that BurstBound is about, their largest limit and shortest period.
Sound(p) == Settings[p] # {} /\ \A s \in Settings[p] : s.limit >= 1 /\ s.period >= 1
Largest(p) == Max({s.limit : s \in Settings[p]})
Shortest(p) == Min({s.period : s \in Settings[p]})

Burst(p, t) == Taken(p, t, t + Shortest(p) - 1)

\* The permits taken since t, while the shortest period that began at t lasts:
\* those of the window at hand alone, or besides those of the windows before it,
\* of which each began a period after the last and the first but one in the burst.
Bursts ==
    \A p \in Projects : Sound(p) => \A t \in 0..MaxClock :
        LET w == rateLimits[p]
            since == w.timestamp - (t - MaxDelay)
        IN  IF clock < t + Shortest(p)
            THEN \/ Burst(p, t) <= w.count
                 \/ /\ w.count > 0 /\ since >= 0
                    /\ Burst(p, t) <= Largest(p) * (1 + since \div Shortest(p)) + w.count
            ELSE Burst(p, t) <= Largest(p) * (2 + (Shortest(p) + MaxDelay - 1) \div Shortest(p))

BurstInv == TypeOK /\ WithinLimit /\ InFlight /\ Backed /\ Bursts

-----------------------------------------------------------------------------
(* Permits taken in a range of seconds *)

Row == [0..MaxClock -> Nat]

Within(f, from, to) == SumFunctionOnSet(f, (from..to) \cap (0..MaxClock))

\* One more permit.
More(f, t) == [f EXCEPT ![t] = f[t] + 1]

LEMMA RangeFinite ==
    ASSUME NEW from, NEW to
    PROVE  IsFiniteSet((from..to) \cap (0..MaxClock))
<1>1. IsFiniteSet(0..MaxClock)
    BY RateLimitAssumption, FS_Interval
<1> QED  BY <1>1, FS_Subset

LEMMA WithinType ==
    ASSUME NEW f \in Row, NEW from, NEW to
    PROVE  Within(f, from, to) \in Nat
<1> DEFINE S == (from..to) \cap (0..MaxClock)
<1>1. IsFiniteSet(S) /\ \A x \in S : f[x] \in Nat
    BY RangeFinite DEF Row
<1> HIDE DEF S
<1>2. SumFunctionOnSet(f, S) \in Nat
    BY <1>1, SumNat
<1> QED  BY <1>2 DEF Within, S

LEMMA WithinMore ==
    ASSUME NEW f \in Row, NEW from \in Int, NEW to \in Int, NEW t \in 0..MaxClock
    PROVE  /\ More(f, t) \in Row
           /\ Within(More(f, t), from, to)
                 = Within(f, from, to) + IF from <= t /\ t <= to THEN 1 ELSE 0
<1> DEFINE S == (from..to) \cap (0..MaxClock)
           h == More(f, t)
<1>1. IsFiniteSet(S) /\ \A x \in S : f[x] \in Nat /\ x \in 0..MaxClock
    BY RangeFinite DEF Row
<1>2. h \in Row
    BY DEF Row, More
<1>3. \A x \in 0..MaxClock : h[x] = IF x = t THEN f[x] + 1 ELSE f[x]
    BY DEF Row, More
<1>4. t \in S <=> from <= t /\ t <= to
    BY RateLimitAssumption
<1> HIDE DEF S, h
<1>5. \A x \in S : h[x] = IF x = t THEN f[x] + 1 ELSE f[x]
    BY <1>1, <1>3
<1>6. SumFunctionOnSet(h, S) = SumFunctionOnSet(f, S) + IF t \in S THEN 1 ELSE 0
    BY <1>1, <1>5, SumAdd
<1>7. Within(h, from, to) = Within(f, from, to) + IF t \in S THEN 1 ELSE 0
    BY <1>6 DEF Within, S
<1> QED  BY <1>2, <1>4, <1>7 DEF h

LEMMA WithinWider ==
    ASSUME NEW f \in Row, NEW from \in Int, NEW to \in Int,
           NEW first \in Int, NEW last \in Int, first <= from, to <= last
    PROVE  Within(f, from, to) <= Within(f, first, last)
<1> DEFINE s == (from..to) \cap (0..MaxClock)
           S == (first..last) \cap (0..MaxClock)
<1>1. IsFiniteSet(S) /\ \A x \in S : f[x] \in Nat
    BY RangeFinite DEF Row
<1>2. s \in SUBSET S
    BY RateLimitAssumption
<1> HIDE DEF s, S
<1>3. SumFunctionOnSet(f, s) <= SumFunctionOnSet(f, S)
    BY <1>1, <1>2, SumMonotone
<1> QED  BY <1>3 DEF Within, s, S

LEMMA WithinNothing ==
    ASSUME NEW f \in Row, NEW from \in Int, NEW to \in Int,
           \A t \in 0..MaxClock : t >= from => f[t] = 0
    PROVE  Within(f, from, to) = 0
<1> DEFINE S == (from..to) \cap (0..MaxClock)
<1>1. \A x \in S : x \in 0..MaxClock /\ x >= from
    BY RateLimitAssumption
<1>2. IsFiniteSet(S)
    BY RangeFinite
<1> HIDE DEF S
<1>3. \A x \in S : f[x] = 0
    BY <1>1
<1>4. SumFunctionOnSet(f, S) = 0
    BY <1>2, <1>3, SumZero
<1> QED  BY <1>4 DEF Within, S

\* A reading a period later is in the next of the periods counted from an origin.
LEMMA NextPeriod ==
    ASSUME NEW n \in Nat \ {0}, NEW x \in Nat, NEW y \in Nat
    PROVE  /\ x \div n \in Nat
           /\ x + n <= y => (x \div n) + 1 <= y \div n
           /\ x <= y => x \div n <= y \div n
<1> DEFINE p == x \div n
           q == y \div n
           r == x % n
           s == y % n
<1>1. /\ p \in Nat /\ q \in Nat /\ x = n * p + r /\ y = n * q + s
      /\ r \in Nat /\ s \in Nat /\ r < n /\ s < n
    OBVIOUS
<1> HIDE DEF p, q, r, s
<1>2. ASSUME q < p
      PROVE  y < x
    <2>1. q + 1 <= p
        BY <1>1, <1>2
    <2>2. n * (q + 1) <= n * p
        BY <1>1, <2>1
    <2>3. n * (q + 1) = n * q + n
        BY <1>1
    <2>4. n * q \in Nat /\ n * p \in Nat
        BY <1>1
    <2> QED  BY <1>1, <2>2, <2>3, <2>4
<1>3. ASSUME q < p + 1
      PROVE  y < x + n
    <2>1. q <= p
        BY <1>1, <1>3
    <2>2. n * q <= n * p
        BY <1>1, <2>1
    <2>3. n * q \in Nat /\ n * p \in Nat
        BY <1>1
    <2> QED  BY <1>1, <2>2, <2>3
<1> QED  BY <1>1, <1>2, <1>3 DEF p, q

-----------------------------------------------------------------------------
(* The invariant *)

\* The limits of a project have a largest, and their periods a smallest.
LEMMA LimitsOf ==
    ASSUME NEW p \in Projects, Sound(p)
    PROVE  /\ Largest(p) \in Nat \ {0} /\ Shortest(p) \in Nat \ {0}
           /\ \A s \in Settings[p] : s.limit <= Largest(p) /\ Shortest(p) <= s.period
<1> DEFINE S == Settings[p]
           L == {s.limit : s \in S}
           P == {s.period : s \in S}
<1>1. /\ S \in SUBSET Setting /\ IsFiniteSet(S) /\ S # {}
      /\ \A s \in S : s.limit >= 1 /\ s.period >= 1 /\ s.limit \in Int /\ s.period \in Int
    <2>1. S \in SUBSET Setting /\ IsFiniteSet(S)
        BY RateLimitAssumption
    <2>2. \A s \in Setting : s.limit \in Int /\ s.period \in Int
        OBVIOUS
    <2> QED  BY <2>1, <2>2 DEF Sound
<1>2. IsFiniteSet(L)
    <2>1. [s \in S |-> s.limit] \in Surjection(S, L)
        BY DEF Surjection
    <2> QED  BY <1>1, <2>1, FS_Surjection
<1>3. IsFiniteSet(P)
    <2>1. [s \in S |-> s.period] \in Surjection(S, P)
        BY DEF Surjection
    <2> QED  BY <1>1, <2>1, FS_Surjection
<1>4. L \in SUBSET Int /\ L # {} /\ P \in SUBSET Int /\ P # {}
    BY <1>1
<1>5. /\ \A x \in L : x \in Int /\ x >= 1
      /\ \A x \in P : x \in Int /\ x >= 1
      /\ \A s \in S : s.limit \in L /\ s.period \in P
    BY <1>1
<1> HIDE DEF L, P, S
<1>6. /\ Max(L) \in L /\ \A x \in L : x <= Max(L)
      /\ Min(P) \in P /\ \A x \in P : Min(P) <= x
    BY <1>2, <1>3, <1>4, Extremes
<1>7. /\ Max(L) \in Nat \ {0} /\ Min(P) \in Nat \ {0}
      /\ \A s \in S : s.limit <= Max(L) /\ Min(P) <= s.period
    BY <1>5, <1>6
<1>8. Largest(p) = Max(L) /\ Shortest(p) = Min(P)
    BY DEF Largest, Shortest, L, P, S
<1> QED  BY <1>7, <1>8 DEF S

LEMMA TakenIsWithin ==
    /\ \A p, from, to : Taken(p, from, to) = Within(counted[p], from, to)
    /\ \A p, t : Burst(p, t) = Within(counted[p], t, t + Shortest(p) - 1)
BY DEF Taken, Within, Burst

\* A run of the script, by what it does to the window of its project.
LEMMA ScriptSays ==
    ASSUME TypeOK, InFlight, NEW c \in Calls, call[c].pc = "sent",
           NEW told \in {0, 1}, RunScript(c, told)
    PROVE  LET p == call[c].project
               w == rateLimits[p]
               s == call[c].setting
               n == call[c].now
           IN  /\ p \in Projects /\ s \in Settings[p] /\ s.limit \in Int /\ s.period \in Int
               /\ n \in Int /\ n <= clock /\ clock - n <= MaxDelay
               /\ w.count \in Nat /\ w.timestamp \in Int
               /\ \A q \in Projects \ {p} :
                     rateLimits'[q] = rateLimits[q] /\ counted'[q] = counted[q]
               /\ \/ /\ rateLimits'[p] = w /\ counted'[p] = counted[p]
                  \/ /\ counted'[p] = More(counted[p], clock)
                     /\ w.count = 0 \/ n - w.timestamp >= s.period
                     /\ rateLimits'[p].timestamp = n /\ rateLimits'[p].count = 1
                  \/ /\ counted'[p] = More(counted[p], clock)
                     /\ w.count > 0 /\ n - w.timestamp < s.period /\ w.count + 1 <= s.limit
                     /\ rateLimits'[p].timestamp = w.timestamp
                     /\ rateLimits'[p].count = w.count + 1
<1> DEFINE p == call[c].project
           w == rateLimits[p]
           s == call[c].setting
           n == call[c].now
<1>1. /\ p \in Projects /\ s \in Setting /\ n \in Int /\ w \in Window /\ s \in Settings[p]
      /\ s.limit \in Int /\ s.period \in Int
    BY SentCall
<1>2. n <= clock /\ clock - n <= MaxDelay
    BY DEF InFlight
<1>3. w.count \in Nat /\ w.timestamp \in Int
    BY <1>1 DEF Window
<1>4. /\ rateLimits'[p] = Updated(w, n, s)
      /\ \A q \in Projects \ {p} : rateLimits'[q] = rateLimits[q]
    BY <1>1 DEF RunScript, TypeOK
<1>5. IF Allows(w, n, s) THEN counted' = [counted EXCEPT ![p] = More(counted[p], clock)]
                         ELSE counted' = counted
    BY <1>1 DEF RunScript, More, TypeOK
<1>6. /\ \A q \in Projects \ {p} : counted'[q] = counted[q]
      /\ counted'[p] = IF Allows(w, n, s) THEN More(counted[p], clock) ELSE counted[p]
    <2>1. counted \in [Projects -> Row]
        BY DEF TypeOK, Row
    <2> HIDE DEF p, w, n, s
    <2> QED  BY <1>1, <1>5, <2>1
<1> HIDE DEF p, w, n, s
<1>7. \/ Updated(w, n, s) = w /\ ~Allows(w, n, s)
      \/ /\ Allows(w, n, s)
         /\ w.count = 0 \/ n - w.timestamp >= s.period
         /\ Updated(w, n, s).timestamp = n /\ Updated(w, n, s).count = 1
      \/ /\ Allows(w, n, s)
         /\ w.count > 0 /\ n - w.timestamp < s.period /\ w.count + 1 <= s.limit
         /\ Updated(w, n, s).timestamp = w.timestamp
         /\ Updated(w, n, s).count = w.count + 1
    BY <1>1, <1>3 DEF Updated, Opens, Allows, Window
<1>8. \/ /\ rateLimits'[p] = w /\ counted'[p] = counted[p]
      \/ /\ counted'[p] = More(counted[p], clock)
         /\ w.count = 0 \/ n - w.timestamp >= s.period
         /\ rateLimits'[p].timestamp = n /\ rateLimits'[p].count = 1
      \/ /\ counted'[p] = More(counted[p], clock)
         /\ w.count > 0 /\ n - w.timestamp < s.period /\ w.count + 1 <= s.limit
         /\ rateLimits'[p].timestamp = w.timestamp
         /\ rateLimits'[p].count = w.count + 1
    BY <1>4, <1>6, <1>7
<1> QED  BY <1>1, <1>2, <1>3, <1>4, <1>6, <1>8 DEF p, w, n, s

LEMMA Moments ==
    ASSUME TypeOK
    PROVE  /\ clock \in 0..MaxClock /\ clock \in Nat /\ MaxClock \in Nat /\ MaxDelay \in Nat
           /\ \A p \in Projects : /\ counted[p] \in Row
                                  /\ rateLimits[p].count \in Nat
                                  /\ rateLimits[p].timestamp \in Int
BY RateLimitAssumption DEF TypeOK, Row, Window

\* A permit is counted in its second and in its window.
LEMMA ScriptBacked ==
    ASSUME TypeOK, InFlight, Backed, UNCHANGED clock, NEW c \in Calls, call[c].pc = "sent",
           NEW told \in {0, 1}, RunScript(c, told)
    PROVE  Backed'
<1> SUFFICES ASSUME NEW q \in Projects
             PROVE  /\ \A t \in 0..MaxClock : t > clock => counted'[q][t] = 0
                    /\ rateLimits'[q].count > 0 => rateLimits'[q].timestamp <= clock
                    /\ rateLimits'[q].count
                         <= Within(counted'[q], rateLimits'[q].timestamp, clock)
    BY TakenIsWithin DEF Backed, Taken, Within
<1> DEFINE p == call[c].project
           w == rateLimits[q]
           f == counted[q]
           w2 == rateLimits'[q]
           f2 == counted'[q]
           n == call[c].now
           s == call[c].setting
<1>1. /\ clock \in 0..MaxClock /\ clock \in Nat
      /\ f \in Row /\ w.count \in Nat /\ w.timestamp \in Int
    BY Moments
<1>2. /\ \A t \in 0..MaxClock : t > clock => f[t] = 0
      /\ w.count > 0 => w.timestamp <= clock
      /\ w.count <= Within(f, w.timestamp, clock)
    BY TakenIsWithin DEF Backed
<1>3. n \in Int /\ n <= clock
    BY ScriptSays
<1>4. \A t \in 0..MaxClock : t # clock => More(f, clock)[t] = f[t]
    BY <1>1 DEF More, Row
<1>5. \/ w2 = w /\ f2 = f
      \/ /\ f2 = More(f, clock)
         /\ w2.timestamp = n /\ w2.count = 1
      \/ /\ f2 = More(f, clock) /\ w.count > 0
         /\ w2.timestamp = w.timestamp /\ w2.count = w.count + 1
    BY ScriptSays
<1> HIDE DEF p, w, f, w2, f2, n, s
<1>6. CASE w2 = w /\ f2 = f
    BY <1>2, <1>6 DEF w2, f2
<1>7. CASE f2 = More(f, clock) /\ w2.timestamp = n /\ w2.count = 1
    <2>1. Within(f2, n, clock) = Within(f, n, clock) + 1
        BY <1>1, <1>3, <1>7, WithinMore
    <2>2. Within(f, n, clock) \in Nat
        BY <1>1, WithinType
    <2>3. w2.count <= Within(f2, w2.timestamp, clock)
        BY <1>7, <2>1, <2>2
    <2>4. \A t \in 0..MaxClock : t > clock => f2[t] = 0
        BY <1>1, <1>2, <1>4, <1>7
    <2> QED  BY <1>3, <1>7, <2>3, <2>4 DEF w2, f2
<1>8. CASE /\ f2 = More(f, clock) /\ w.count > 0
           /\ w2.timestamp = w.timestamp /\ w2.count = w.count + 1
    <2>1. Within(f2, w.timestamp, clock) = Within(f, w.timestamp, clock) + 1
        BY <1>1, <1>2, <1>8, WithinMore
    <2>2. Within(f, w.timestamp, clock) \in Nat
        BY <1>1, WithinType
    <2>3. w2.count <= Within(f2, w2.timestamp, clock)
        BY <1>1, <1>2, <1>8, <2>1, <2>2
    <2>4. \A t \in 0..MaxClock : t > clock => f2[t] = 0
        BY <1>1, <1>2, <1>4, <1>8
    <2> QED  BY <1>1, <1>2, <1>8, <2>3, <2>4 DEF w2, f2
<1> QED  BY <1>5, <1>6, <1>7, <1>8

\* What one more permit does to the bound of a burst, in numbers: S permits so far
\* and w at hand, n the reading, t0 the first moment a reading of the burst has.
LEMMA BurstArithmetic ==
    ASSUME NEW N \in Nat \ {0}, NEW T \in Nat \ {0}, NEW S \in Nat, NEW count \in Nat,
           NEW start \in Int, NEW t0 \in Int, NEW n \in Int, n >= t0, count <= N,
           \/ S <= count
           \/ count > 0 /\ start >= t0 /\ S <= N * (1 + (start - t0) \div T) + count,
           count = 0 \/ n >= start + T
    PROVE  S + 1 <= N * (1 + (n - t0) \div T) + 1
<1> DEFINE q == (n - t0) \div T
<1>1. n - t0 \in Nat /\ q \in Nat
    BY NextPeriod
<1>2. CASE S <= count
    <2>1. N * (1 + q) = N + N * q /\ N * q \in Nat
        BY <1>1
    <2> HIDE DEF q
    <2> QED  BY <1>1, <1>2, <2>1 DEF q
<1>3. CASE count > 0 /\ start >= t0 /\ S <= N * (1 + (start - t0) \div T) + count
    <2> DEFINE r == (start - t0) \div T
    <2>1. start - t0 \in Nat /\ r \in Nat
        BY <1>3, NextPeriod
    <2>2. r + 1 <= q
        <3>1. (start - t0) + T <= n - t0
            BY <1>3
        <3> QED  BY <1>1, <2>1, <3>1, NextPeriod
    <2> HIDE DEF q, r
    <2>3. N * (1 + (r + 1)) <= N * (1 + q)
        <3>1. 1 + (r + 1) <= 1 + q
            BY <1>1, <2>1, <2>2
        <3> QED  BY <1>1, <2>1, <3>1
    <2>4. N * (1 + (r + 1)) = N * (1 + r) + N
        BY <2>1
    <2>5. N * (1 + r) \in Nat /\ N * (1 + q) \in Nat
        BY <1>1, <2>1
    <2>6. S <= N * (1 + r) + count
        BY <1>3 DEF r
    <2> QED  BY <2>3, <2>4, <2>5, <2>6 DEF q
<1> QED  BY <1>2, <1>3

\* Bursts for one project and one moment, of a window and a row of permits.
Spread(p, t, w, f) ==
    LET S == Within(f, t, t + Shortest(p) - 1)
        t0 == t - MaxDelay
    IN  IF clock < t + Shortest(p)
        THEN \/ S <= w.count
             \/ /\ w.count > 0 /\ w.timestamp >= t0
                /\ S <= Largest(p) * (1 + (w.timestamp - t0) \div Shortest(p)) + w.count
        ELSE S <= Largest(p) * (2 + (Shortest(p) + MaxDelay - 1) \div Shortest(p))

LEMMA BurstsAreSpread ==
    ASSUME TypeOK
    PROVE  Bursts <=> \A p \in Projects : Sound(p) =>
                          \A t \in 0..MaxClock : Spread(p, t, rateLimits[p], counted[p])
<1>1. ASSUME NEW p \in Projects, NEW t \in 0..MaxClock
      PROVE  /\ rateLimits[p].timestamp - (t - MaxDelay) >= 0
                    <=> rateLimits[p].timestamp >= t - MaxDelay
    <2>1. t \in Int /\ MaxDelay \in Int /\ rateLimits[p].timestamp \in Int
        BY Moments
    <2> QED  BY <2>1
<1> QED  BY <1>1, TakenIsWithin DEF Bursts, Spread

LEMMA BurstsAreSpreadNext ==
    ASSUME TypeOK'
    PROVE  Bursts' <=> \A p \in Projects : Sound(p) =>
                           \A t \in 0..MaxClock : Spread(p, t, rateLimits[p], counted[p])'
<1>1. ASSUME NEW p \in Projects, NEW t \in 0..MaxClock
      PROVE  /\ rateLimits'[p].timestamp - (t - MaxDelay) >= 0
                    <=> rateLimits'[p].timestamp >= t - MaxDelay
    <2> DEFINE x == rateLimits'[p].timestamp
    <2>1. t \in Int /\ MaxDelay \in Int /\ x \in Int
        BY RateLimitAssumption DEF TypeOK, Window
    <2> HIDE DEF x
    <2>2. x - (t - MaxDelay) >= 0 <=> x >= t - MaxDelay
        BY <2>1
    <2> QED  BY <2>2 DEF x
<1> QED  BY <1>1, TakenIsWithin DEF Bursts, Burst, Taken, Within, Spread

\* One permit more is one in the window at hand, or opens a window a period later.
LEMMA PermitSpreads ==
    ASSUME TypeOK, NEW p \in Projects, Sound(p), NEW t \in 0..MaxClock,
           Spread(p, t, rateLimits[p], counted[p]),
           rateLimits[p].count <= Largest(p),
           \A x \in 0..MaxClock : x > clock => counted[p][x] = 0,
           NEW n \in Int, n <= clock, clock - n <= MaxDelay,
           NEW w, w.count \in Nat, w.timestamp \in Int,
           \/ /\ rateLimits[p].count = 0 \/ n - rateLimits[p].timestamp >= Shortest(p)
              /\ w.timestamp = n /\ w.count = 1
           \/ /\ rateLimits[p].count > 0
              /\ w.timestamp = rateLimits[p].timestamp
              /\ w.count = rateLimits[p].count + 1
    PROVE  Spread(p, t, w, More(counted[p], clock))
<1> DEFINE f == counted[p]
           N == Largest(p)
           T == Shortest(p)
           S == Within(f, t, t + T - 1)
           S2 == Within(More(f, clock), t, t + T - 1)
           t0 == t - MaxDelay
           count == rateLimits[p].count
           start == rateLimits[p].timestamp
           r == (start - t0) \div T
           q == (n - t0) \div T
<1>1. /\ N \in Nat \ {0} /\ T \in Nat \ {0} /\ t \in Nat /\ t0 \in Int
      /\ f \in Row /\ clock \in 0..MaxClock /\ clock \in Nat /\ MaxDelay \in Nat
      /\ count \in Nat /\ start \in Int
    BY LimitsOf, Moments
<1>2. S \in Nat /\ S2 = S + IF t <= clock /\ clock <= t + T - 1 THEN 1 ELSE 0
    BY <1>1, WithinType, WithinMore
<1>3. IF clock < t + T
      THEN \/ S <= count
           \/ count > 0 /\ start >= t0 /\ S <= N * (1 + r) + count
      ELSE S <= N * (2 + (T + MaxDelay - 1) \div T)
    BY DEF Spread
<1>4. count <= N
    OBVIOUS
<1>5. \/ /\ count = 0 \/ n - start >= T
         /\ w.timestamp = n /\ w.count = 1
      \/ count > 0 /\ w.timestamp = start /\ w.count = count + 1
    OBVIOUS
<1> SUFFICES IF clock < t + T
             THEN \/ S2 <= w.count
                  \/ /\ w.count > 0 /\ w.timestamp >= t0
                     /\ S2 <= N * (1 + (w.timestamp - t0) \div T) + w.count
             ELSE S2 <= N * (2 + (T + MaxDelay - 1) \div T)
    BY DEF Spread
<1>6. CASE ~(clock < t + T)
    <2>1. S2 = S
        BY <1>1, <1>2, <1>6
    <2> QED  BY <1>3, <1>6, <2>1
<1>7. CASE clock < t + T /\ count > 0 /\ w.timestamp = start /\ w.count = count + 1
    <2>1. S2 <= S + 1 /\ S2 \in Nat
        BY <1>2
    <2>2. CASE S <= count
        <3> HIDE DEF S, S2, count
        <3>1. S2 <= w.count
            BY <1>1, <1>2, <1>7, <2>1, <2>2
        <3> QED  BY <1>7, <3>1
    <2>3. CASE count > 0 /\ start >= t0 /\ S <= N * (1 + r) + count
        <3>1. r \in Nat
            <4>1. start - t0 \in Nat
                BY <1>1, <2>3
            <4> QED  BY <1>1, <4>1, NextPeriod
        <3> HIDE DEF r, S, S2, count
        <3>2. N * (1 + r) \in Nat
            BY <1>1, <3>1
        <3>3. S2 <= N * (1 + r) + (count + 1)
            BY <1>1, <1>2, <2>1, <2>3, <3>2
        <3> QED  BY <1>1, <1>7, <2>3, <3>3 DEF r
    <2> QED  BY <1>3, <1>7, <2>2, <2>3
<1>8. CASE clock < t + T /\ (count = 0 \/ n - start >= T) /\ w.timestamp = n /\ w.count = 1
    <2>1. CASE t <= clock
        <3>1. n >= t0
            BY <1>1, <2>1
        <3>2. count = 0 \/ n >= start + T
            BY <1>1, <1>8
        <3>3. \/ S <= count
              \/ count > 0 /\ start >= t0 /\ S <= N * (1 + r) + count
            BY <1>3, <1>8
        <3> HIDE DEF S, S2, N, T, count, start, t0
        <3>4. S + 1 <= N * (1 + q) + 1
            BY <1>1, <1>2, <1>4, <3>1, <3>2, <3>3, BurstArithmetic
        <3>5. q \in Nat
            <4>1. n - t0 \in Nat
                BY <1>1, <3>1
            <4> QED  BY <1>1, <4>1, NextPeriod
        <3> HIDE DEF q
        <3>6. N * (1 + q) \in Nat
            BY <1>1, <3>5
        <3>7. S2 <= N * (1 + q) + 1
            BY <1>2, <3>4, <3>6
        <3> QED  BY <1>8, <3>1, <3>7 DEF q
    <2>2. CASE ~(t <= clock)
        <3>1. \A x \in 0..MaxClock : x >= t => f[x] = 0
            BY <1>1, <2>2
        <3>2. t + T - 1 \in Int
            BY <1>1
        <3>3. S = 0
            BY <1>1, <3>1, <3>2, WithinNothing
        <3>4. S2 = 0
            BY <1>2, <2>2, <3>3
        <3> QED  BY <1>8, <3>4
    <2> QED  BY <2>1, <2>2
<1> QED  BY <1>5, <1>6, <1>7, <1>8

LEMMA CountWithinLargest ==
    ASSUME TypeOK, WithinLimit, NEW p \in Projects, Sound(p)
    PROVE  rateLimits[p].count <= Largest(p)
<1>1. /\ Largest(p) \in Nat \ {0} /\ rateLimits[p].count \in Nat
      /\ \A s \in Settings[p] : s.limit <= Largest(p) /\ s.limit \in Int
    BY LimitsOf, Moments, RateLimitAssumption
<1>2. \/ rateLimits[p].count <= 1
      \/ \E s \in Settings[p] : rateLimits[p].count <= s.limit
    BY DEF WithinLimit
<1> QED  BY <1>1, <1>2

LEMMA ScriptBursts ==
    ASSUME BurstInv, TypeOK', UNCHANGED clock, NEW c \in Calls, call[c].pc = "sent",
           NEW told \in {0, 1}, RunScript(c, told)
    PROVE  Bursts'
<1>1. TypeOK /\ WithinLimit /\ InFlight /\ Backed /\ Bursts
    BY DEF BurstInv
<1>2. ASSUME NEW q \in Projects, Sound(q), NEW t \in 0..MaxClock
      PROVE  Spread(q, t, rateLimits'[q], counted'[q])
    <2> DEFINE s == call[c].setting
               n == call[c].now
               w == rateLimits'[q]
    <2>1. Spread(q, t, rateLimits[q], counted[q])
        BY <1>1, <1>2, BurstsAreSpread
    <2>2. CASE q # call[c].project
        BY <1>1, <2>1, <2>2, ScriptSays
    <2>3. CASE q = call[c].project
        <3>1. /\ s \in Settings[q] /\ s.limit \in Int /\ s.period \in Int
              /\ n \in Int /\ n <= clock /\ clock - n <= MaxDelay
              /\ rateLimits[q].count \in Nat /\ rateLimits[q].timestamp \in Int
            BY <1>1, <2>3, ScriptSays
        <3>2. Shortest(q) \in Nat /\ Shortest(q) <= s.period
            BY <1>2, <3>1, LimitsOf
        <3>3. \/ w = rateLimits[q] /\ counted'[q] = counted[q]
              \/ /\ counted'[q] = More(counted[q], clock)
                 /\ rateLimits[q].count = 0 \/ n - rateLimits[q].timestamp >= s.period
                 /\ w.timestamp = n /\ w.count = 1
              \/ /\ counted'[q] = More(counted[q], clock)
                 /\ rateLimits[q].count > 0
                 /\ w.timestamp = rateLimits[q].timestamp
                 /\ w.count = rateLimits[q].count + 1
            BY <1>1, <2>3, ScriptSays
        <3>4. CASE w = rateLimits[q] /\ counted'[q] = counted[q]
            BY <2>1, <3>4
        <3>5. CASE counted'[q] = More(counted[q], clock)
            <4>1. \/ w = rateLimits[q] /\ counted'[q] = counted[q]
                  \/ /\ rateLimits[q].count = 0 \/ n - rateLimits[q].timestamp >= Shortest(q)
                     /\ w.timestamp = n /\ w.count = 1
                  \/ /\ rateLimits[q].count > 0
                     /\ w.timestamp = rateLimits[q].timestamp
                     /\ w.count = rateLimits[q].count + 1
                BY <3>1, <3>2, <3>3
            <4>2. w.count \in Nat /\ w.timestamp \in Int
                BY <3>1, <4>1
            <4>3. rateLimits[q].count <= Largest(q)
                BY <1>1, <1>2, CountWithinLargest
            <4>4. \A x \in 0..MaxClock : x > clock => counted[q][x] = 0
                BY <1>1 DEF Backed
            <4> HIDE DEF w, n
            <4> QED  BY <1>1, <1>2, <2>1, <3>1, <3>4, <3>5, <4>1, <4>2, <4>3, <4>4, PermitSpreads DEF w
        <3> QED  BY <3>3, <3>4, <3>5
    <2> QED  BY <2>2, <2>3
<1>3. ASSUME NEW q \in Projects, Sound(q), NEW t \in 0..MaxClock
      PROVE  Spread(q, t, rateLimits[q], counted[q])'
    BY <1>2, <1>3 DEF Spread, Within
<1> QED  BY <1>3, BurstsAreSpreadNext

\* In either case no burst is over the bound.
LEMMA SpreadBounds ==
    ASSUME TypeOK, WithinLimit, Backed, NEW p \in Projects, Sound(p), NEW t \in 0..MaxClock,
           Spread(p, t, rateLimits[p], counted[p])
    PROVE  Within(counted[p], t, t + Shortest(p) - 1)
               <= Largest(p) * (2 + (Shortest(p) + MaxDelay - 1) \div Shortest(p))
<1> DEFINE f == counted[p]
           N == Largest(p)
           T == Shortest(p)
           S == Within(f, t, t + T - 1)
           t0 == t - MaxDelay
           count == rateLimits[p].count
           start == rateLimits[p].timestamp
           r == (start - t0) \div T
           q == (T + MaxDelay - 1) \div T
<1>1. /\ N \in Nat \ {0} /\ T \in Nat \ {0} /\ t \in Nat /\ t0 \in Int
      /\ f \in Row /\ count \in Nat /\ start \in Int /\ S \in Nat
      /\ clock \in Nat /\ MaxDelay \in Nat
      /\ count <= N /\ (count > 0 => start <= clock)
    BY LimitsOf, Moments, CountWithinLargest, WithinType DEF Backed
<1>2. IF clock < t + T
      THEN \/ S <= count
           \/ count > 0 /\ start >= t0 /\ S <= N * (1 + r) + count
      ELSE S <= N * (2 + q)
    BY DEF Spread
<1>3. q \in Nat
    <2>1. T + MaxDelay - 1 \in Nat
        BY <1>1
    <2> QED  BY <1>1, <2>1, NextPeriod
<1>4. CASE S <= count
    <2>1. N * (2 + q) = N + (N + N * q) /\ N * q \in Nat
        BY <1>1, <1>3
    <2> HIDE DEF q, S, count, N
    <2>2. S <= N * (2 + q)
        BY <1>1, <1>4, <2>1
    <2> QED  BY <2>2 DEF S, N, q
<1>5. CASE clock < t + T /\ count > 0 /\ start >= t0 /\ S <= N * (1 + r) + count
    <2>1. start - t0 \in Nat /\ T + MaxDelay - 1 \in Nat
        BY <1>1, <1>5
    <2>2. start - t0 <= T + MaxDelay - 1
        BY <1>1, <1>5
    <2>3. r \in Nat /\ r <= q
        BY <1>1, <2>1, <2>2, NextPeriod
    <2> HIDE DEF q, r, S, count, N
    <2>4. N * (1 + r) <= N * (1 + q)
        <3>1. 1 + r <= 1 + q
            BY <1>3, <2>3
        <3> QED  BY <1>1, <1>3, <2>3, <3>1
    <2>5. N * (2 + q) = N * (1 + q) + N
        BY <1>1, <1>3
    <2>6. N * (1 + r) \in Nat /\ N * (1 + q) \in Nat
        BY <1>1, <1>3, <2>3
    <2>7. S <= N * (2 + q)
        BY <1>1, <1>5, <2>4, <2>5, <2>6
    <2> QED  BY <2>7 DEF S, N, q
<1> QED  BY <1>2, <1>4, <1>5

\* A second passes: the bursts it ends are within the bound.
LEMMA TickBursts ==
    ASSUME BurstInv, TypeOK', Tick
    PROVE  Bursts'
<1>1. /\ TypeOK /\ WithinLimit /\ Backed /\ Bursts
      /\ clock \in Nat /\ clock' = clock + 1
      /\ UNCHANGED <<rateLimits, counted>>
    BY Moments DEF BurstInv, Tick
<1>2. ASSUME NEW p \in Projects, Sound(p), NEW t \in 0..MaxClock
      PROVE  Spread(p, t, rateLimits[p], counted[p])'
    <2>1. Spread(p, t, rateLimits[p], counted[p])
        BY <1>1, <1>2, BurstsAreSpread
    <2>2. t + Shortest(p) \in Nat
        BY <1>2, LimitsOf
    <2>3. CASE clock + 1 < t + Shortest(p)
        <3>1. clock < t + Shortest(p)
            BY <1>1, <2>2, <2>3
        <3> QED  BY <1>1, <2>1, <2>3, <3>1 DEF Spread, Within
    <2>4. CASE ~(clock + 1 < t + Shortest(p))
        <3>1. Within(counted[p], t, t + Shortest(p) - 1)
                  <= Largest(p) * (2 + (Shortest(p) + MaxDelay - 1) \div Shortest(p))
            BY <1>1, <1>2, <2>1, SpreadBounds
        <3> QED  BY <1>1, <2>4, <3>1 DEF Spread, Within
    <2> QED  BY <2>3, <2>4
<1> QED  BY <1>2, BurstsAreSpreadNext

LEMMA BurstInit == ASSUME Init PROVE BurstInv
<1>1. TypeOK /\ WithinLimit
    BY InitInv DEF Inv
<1>2. InFlight
    BY DEF Init, InFlight, NoCall
<1>3. \A p \in Projects : /\ rateLimits[p].count = 0
                          /\ \A t \in 0..MaxClock : counted[p][t] = 0
    BY DEF Init, NoWindow
<1>4. Backed
    <2>1. ASSUME NEW p \in Projects
          PROVE  rateLimits[p].count <= Taken(p, rateLimits[p].timestamp, clock)
        <3> DEFINE x == Taken(p, rateLimits[p].timestamp, clock)
        <3>1. x \in Nat
            BY <1>1, Moments, WithinType, TakenIsWithin
        <3> HIDE DEF x
        <3>2. 0 <= x
            BY <3>1
        <3> QED  BY <1>3, <3>2 DEF x
    <2> QED  BY <1>3, <2>1 DEF Backed
<1>5. Bursts
    <2>1. ASSUME NEW p \in Projects, Sound(p), NEW t \in 0..MaxClock
          PROVE  Burst(p, t) = 0 /\ clock < t + Shortest(p)
        <3>1. Shortest(p) \in Nat \ {0} /\ t \in Nat /\ clock = 0
            BY <2>1, LimitsOf, RateLimitAssumption DEF Init
        <3>2. counted[p] \in Row
            BY <1>1, Moments
        <3>3. t + Shortest(p) - 1 \in Int
            BY <3>1
        <3>4. Within(counted[p], t, t + Shortest(p) - 1) = 0
            BY <1>3, <3>1, <3>2, <3>3, WithinNothing
        <3> QED  BY <3>1, <3>4, TakenIsWithin
    <2> QED  BY <1>3, <2>1 DEF Bursts
<1> QED  BY <1>1, <1>2, <1>4, <1>5 DEF BurstInv

\* No call is in flight for longer than MaxDelay, and none has its answer yet.
LEMMA NextInFlight == ASSUME TypeOK, InFlight, [Next]_vars PROVE InFlight'
<1>1. clock \in Nat /\ MaxDelay \in Nat
    BY Moments
<1>2. ASSUME NEW c \in Calls, NEW p \in Projects, NEW s \in Settings[p], Invoke(c, p, s)
      PROVE  InFlight'
    <2> DEFINE r == [pc |-> IF s.limit = 0 THEN "returned" ELSE "sent",
                     project |-> p, setting |-> s, now |-> clock,
                     answer |-> IF s.limit = 0 THEN "allowed" ELSE "none"]
    <2>1. call' = [call EXCEPT ![c] = r] /\ clock' = clock
        BY <1>2 DEF Invoke
    <2>2. r.pc = "sent" => r.now <= clock /\ clock - r.now <= MaxDelay /\ r.answer = "none"
        BY <1>1
    <2> HIDE DEF r
    <2> QED  BY <2>1, <2>2 DEF InFlight, TypeOK
<1>3. ASSUME NEW c \in Calls, NEW answer, Finish(c, answer), UNCHANGED clock
      PROVE  InFlight'
    <2>1. \A d \in Calls : call'[d].pc = "sent" => call'[d] = call[d]
        BY <1>3 DEF Finish, TypeOK
    <2> QED  BY <1>3, <2>1 DEF InFlight
<1>4. CASE UNCHANGED <<clock, call>>
    BY <1>4 DEF InFlight
<1>5. ASSUME NEW c \in Calls, Execute(c) \/ ReplyLost(c) \/ Unreachable(c)
      PROVE  InFlight'
    BY <1>3, <1>4, <1>5 DEF Execute, ReplyLost, Unreachable
<1>6. ASSUME NEW c \in Calls, Return(c)
      PROVE  InFlight'
    <2>1. \A d \in Calls : call'[d].pc = "sent" => call'[d] = call[d]
        BY <1>6 DEF Return, NoCall, TypeOK
    <2> QED  BY <1>6, <2>1 DEF InFlight, Return
<1>7. CASE Tick
    <2>1. \A c \in Calls : call[c].pc = "sent" => call[c].now \in Int
        BY SentCall
    <2> QED  BY <1>1, <1>7, <2>1 DEF InFlight, Tick
<1> QED  BY <1>2, <1>4, <1>5, <1>6, <1>7 DEF Next, vars

LEMMA TickBacked == ASSUME TypeOK, Backed, Tick PROVE Backed'
<1>1. /\ clock \in Nat /\ clock' = clock + 1 /\ UNCHANGED <<rateLimits, counted>>
    BY Moments DEF Tick
<1>2. ASSUME NEW p \in Projects
      PROVE  /\ \A t \in 0..MaxClock : t > clock + 1 => counted[p][t] = 0
             /\ rateLimits[p].count > 0 => rateLimits[p].timestamp <= clock + 1
             /\ rateLimits[p].count <= Within(counted[p], rateLimits[p].timestamp, clock + 1)
    <2> DEFINE w == rateLimits[p]
               f == counted[p]
    <2>1. f \in Row /\ w.count \in Nat /\ w.timestamp \in Int
        BY Moments
    <2>2. /\ \A t \in 0..MaxClock : t > clock => f[t] = 0
          /\ w.count > 0 => w.timestamp <= clock
          /\ w.count <= Within(f, w.timestamp, clock)
        BY TakenIsWithin DEF Backed
    <2> HIDE DEF w, f
    <2>3. Within(f, w.timestamp, clock) <= Within(f, w.timestamp, clock + 1)
        BY <1>1, <2>1, WithinWider
    <2>4. Within(f, w.timestamp, clock) \in Nat /\ Within(f, w.timestamp, clock + 1) \in Nat
        BY <2>1, WithinType
    <2> QED  BY <1>1, <2>1, <2>2, <2>3, <2>4 DEF w, f
<1> QED  BY <1>1, <1>2, TakenIsWithin DEF Backed, Taken, Within

LEMMA BurstStep == ASSUME BurstInv, [Next]_vars PROVE BurstInv'
<1>1. TypeOK /\ WithinLimit /\ InFlight /\ Backed /\ Bursts
    BY DEF BurstInv
<1>2. TypeOK' /\ WithinLimit' /\ InFlight'
    BY <1>1, NextTypeOK, NextWithinLimit, NextInFlight
<1>3. CASE UNCHANGED <<clock, rateLimits, counted>>
    BY <1>1, <1>2, <1>3 DEF BurstInv, Backed, Bursts, Burst, Taken
<1>4. ASSUME NEW c \in Calls, Execute(c) \/ ReplyLost(c)
      PROVE  BurstInv'
    <2>1. PICK told \in {0, 1} : call[c].pc = "sent" /\ RunScript(c, told) /\ UNCHANGED clock
        BY <1>4 DEF Execute, ReplyLost
    <2> QED  BY <1>1, <1>2, <2>1, ScriptBacked, ScriptBursts DEF BurstInv
<1>5. CASE Tick
    BY <1>1, <1>2, <1>5, TickBacked, TickBursts DEF BurstInv
<1> QED  BY <1>3, <1>4, <1>5 DEF Next, vars, Invoke, Unreachable, Return

\* What the fixed window costs, for any settings, delays and interleavings: in no
\* span of the shortest period are more permits taken than the windows that can
\* overlap it give.
THEOREM Burstiness == Spec => []BurstBound
<1>1. ASSUME BurstInv, NEW p \in Projects, Sound(p), NEW t \in 0..MaxClock
      PROVE  Taken(p, t, t + Shortest(p) - 1)
                 <= Largest(p) * (2 + (Shortest(p) + MaxDelay - 1) \div Shortest(p))
    <2>1. TypeOK /\ WithinLimit /\ Backed /\ Spread(p, t, rateLimits[p], counted[p])
        BY <1>1, BurstsAreSpread DEF BurstInv
    <2> QED  BY <1>1, <2>1, SpreadBounds, TakenIsWithin
<1>2. BurstInv => BurstBound
    BY <1>1 DEF BurstBound, Sound, Largest, Shortest
<1> QED  BY BurstInit, BurstStep, <1>2, PTL DEF Spec

\* A refusal is always backed: the permits that fill the window were taken since it
\* began, and it began less than a period and a delay ago.
THEOREM Refusals == Spec => DenialJustified
<1> DEFINE Step == \A c \in Calls :
               (call[c].pc = "sent" /\ call'[c].answer = "denied") =>
                   LET s == call[c].setting
                   IN  Taken(call[c].project, clock - s.period - MaxDelay + 1, clock)
                           >= s.limit
<1>1. BurstInv /\ [Next]_vars => [Step]_vars
    <2> SUFFICES ASSUME BurstInv, [Next]_vars, NEW c \in Calls,
                        call[c].pc = "sent", call'[c].answer = "denied"
                 PROVE  Taken(call[c].project, clock - call[c].setting.period - MaxDelay + 1, clock)
                            >= call[c].setting.limit
        OBVIOUS
    <2> DEFINE p == call[c].project
               s == call[c].setting
               n == call[c].now
               w == rateLimits[p]
               f == counted[p]
               from == clock - s.period - MaxDelay + 1
    <2>1. TypeOK /\ InFlight /\ Backed
        BY DEF BurstInv
    <2>2. /\ p \in Projects /\ s.limit \in Int /\ s.period \in Int /\ n \in Int
          /\ n <= clock /\ clock - n <= MaxDelay
          /\ call[c] \in Call /\ call[c].answer = "none"
        BY <2>1, SentCall DEF InFlight
    <2>3. Execute(c)
        <3>1. call'[c].answer # call[c].answer
            BY <2>2
        <3>2. \A d \in Calls : ReplyLost(d) \/ Unreachable(d) => call'[c].answer # "denied"
            <4> SUFFICES ASSUME NEW d \in Calls, Finish(d, "error")
                         PROVE  call'[c].answer # "denied"
                BY <2>2 DEF ReplyLost, Unreachable
            <4>1. CASE d = c
                BY <2>1, <2>2, <4>1 DEF Finish, TypeOK, Call
            <4>2. CASE d # c
                BY <2>1, <2>2, <4>2 DEF Finish, TypeOK
            <4> QED  BY <4>1, <4>2
        <3>3. \A d \in Calls : Return(d) => call'[c] = call[c]
            BY <2>1 DEF Return, TypeOK
        <3>4. ASSUME NEW d \in Calls, NEW q \in Projects, NEW r \in Settings[q], Invoke(d, q, r)
              PROVE  call'[c] = call[c]
            BY <2>1, <3>4 DEF Invoke, TypeOK
        <3>5. \A d \in Calls : Execute(d) => d = c
            BY <2>1, <2>2 DEF Execute, Finish, TypeOK
        <3> QED  BY <3>1, <3>2, <3>3, <3>4, <3>5 DEF Next, vars, Tick
    <2>4. ~Allows(w, n, s)
        <3>1. call'[c].answer = Verdict(c)
            BY <2>1, <2>2, <2>3 DEF Execute, Finish, TypeOK, Call
        <3> QED  BY <3>1 DEF Verdict
    <2>5. /\ f \in Row /\ w.count \in Nat /\ w.timestamp \in Int /\ clock \in Nat
          /\ MaxDelay \in Nat
        BY <2>1, <2>2, Moments
    <2>6. /\ w.count > 0 => w.timestamp <= clock
          /\ w.count <= Within(f, w.timestamp, clock)
        BY <2>1, <2>2, TakenIsWithin DEF Backed
    <2> HIDE DEF p, s, n, w, f
    <2>7. w.count >= s.limit /\ w.timestamp > n - s.period
        BY <2>2, <2>4, <2>5 DEF Allows, Opens
    <2>8. from \in Int /\ from <= w.timestamp
        BY <2>2, <2>5, <2>7
    <2> HIDE DEF from
    <2>9. Within(f, w.timestamp, clock) <= Within(f, from, clock)
        BY <2>5, <2>8, WithinWider
    <2>10. Within(f, w.timestamp, clock) \in Nat /\ Within(f, from, clock) \in Nat
        BY <2>5, WithinType
    <2>11. Within(f, from, clock) >= s.limit
        BY <2>2, <2>5, <2>6, <2>7, <2>9, <2>10
    <2> QED  BY <2>11, TakenIsWithin DEF p, s, f, from
<1> QED
    BY BurstInit, BurstStep, <1>1, PTL DEF Spec, DenialJustified
=============================================================================
