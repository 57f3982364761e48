-------------------------- MODULE Collector_proofs --------------------------
(***************************************************************************)
(* Proofs about the handlers and the caches they consult, for every set of *)
(* requests, projects, limits and clock readings.                          *)
(*                                                                         *)
(* What is checked is said of requests that are done.  CollectorInv says it *)
(* of those under way: which gates are still ahead of a request that is to be *)
(* refused, which limits one carries that is to have some, and which place in *)
(* a window every one holds that has passed the limiter.                   *)
(***************************************************************************)
EXTENDS Collector, DataLemmas, TLAPS

-----------------------------------------------------------------------------
(* The inductive invariant *)

\* A request that has come.
Request ==
    [pc : Pcs, kind : Kinds, project : Projects, setting : Setting, now : Nat,
     permit : Nat \X Nat, code : Codes]

\* A request that is neither answered nor sent to the broker; and what of this comes
\* after the lookup of its limits.
InGates == {"parse", "token", "limits", "blocked", "rate", "script", "files"}

WithSetting == {"blocked", "rate", "script", "files"}

\* Only who has passed the gates waits for the broker, and who is about to be
\* told 200 was heard.
Answers ==
    /\ AnswersAreTrue
    /\ \A r \in Requests : request[r].pc = "reply" => r \in ToSet(accepted)

\* What is certain of a project is so in the database now, in the snapshot a
\* refresh holds, and in the cache.
Certain ==
    /\ steady["blocked"] \subseteq banned
    /\ steady["tokens"] \cap registered = {}
    /\ steady["limits"] \subseteq registered
    /\ \A s \in snapshot["blocked"] : steady["blocked"] \subseteq s
    /\ \A s \in snapshot["tokens"] : steady["tokens"] \cap s = {}
    /\ \A s \in snapshot["limits"] : steady["limits"] \subseteq s
    /\ enforced["blocked"] \subseteq steady["blocked"] \cap blockedIDs
    /\ enforced["tokens"] \subseteq steady["tokens"] \ validTokens
    /\ enforced["limits"] \subseteq steady["limits"] \cap DOMAIN projectLimits

\* A barred request does not get past the gate that refuses it: one the tokens do
\* not refuse is refused by the list of the blocked.
BarredStop ==
    \A r \in barred :
        /\ r \notin ToSet(accepted)
        /\ request[r].pc \in {"parse", "token", "limits", "blocked", "answered", "dead"}
        /\ request[r].pc \in {"parse", "token"} =>
              request[r].project \in enforced["blocked"] \cup enforced["tokens"]
        /\ request[r].pc \in {"limits", "blocked"} =>
              request[r].project \in enforced["blocked"]

\* A covered request finds limits, and keeps them.
CoveredFind ==
    \A r \in covered :
        /\ request[r].pc # "new"
        /\ request[r].pc \in {"parse", "token", "limits"} =>
              request[r].project \in enforced["limits"]
        /\ request[r].pc \in WithSetting \cup {"send", "reply"} \/ r \in ToSet(accepted) =>
              request[r].setting \in LimitChoices

\* The requests that hold a permit: they have passed a gate with a limit.
Holders ==
    {r \in Requests :
        /\ request[r].pc \in {"send", "reply"} \/ r \in ToSet(accepted)
        /\ request[r].kind # "release"
        /\ request[r].setting.limit # 0}

\* The place a holder's permit names: in a window that was opened, in the current one
\* not past its count.
PlaceTaken(r) ==
    LET p == request[r].project
        window == request[r].permit[1]
        place == request[r].permit[2]
    IN  /\ window >= 1 /\ window <= windows[p]
        /\ place >= 1
        /\ window = windows[p] => place <= rateLimits[p].count
        /\ place = 1 \/ place <= request[r].setting.limit

\* Every holder has its own.
Permits ==
    /\ \A p \in Projects : windows[p] = 0 => rateLimits[p].count = 0
    /\ \A r \in Holders : PlaceTaken(r)
    /\ \A r, q \in Holders :
          r # q /\ request[r].project = request[q].project => request[r].permit # request[q].permit

\* Only releases have files.
FilesOfReleases == \A r \in Requests : request[r].pc = "files" => request[r].kind = "release"

CollectorInv ==
    TypeOK /\ Answers /\ Certain /\ BarredStop /\ CoveredFind /\ Permits /\ FilesOfReleases

-----------------------------------------------------------------------------
(* Requests *)

\* A request that has come is a record, with all its fields.
LEMMA Known ==
    ASSUME TypeOK, NEW r \in Requests, request[r].pc # "new"
    PROVE  /\ request[r] \in Request /\ request[r] # NoRequest
           /\ request[r].kind \in Kinds /\ request[r].project \in Projects
           /\ request[r].setting \in Setting /\ request[r].code \in Codes
           /\ request[r].now \in Nat /\ request[r].permit \in Nat \X Nat
BY DEF TypeOK, Request, NoRequest

\* The two ways a handler changes its request's record.
LEMMA GoesTo ==
    ASSUME TypeOK, NEW r \in Requests, request[r] \in Request, NEW p \in Pcs, GoTo(r, p)
    PROVE  \E q \in Request :
              /\ request' = [request EXCEPT ![r] = q]
              /\ q.pc = p /\ q.code = request[r].code /\ q.setting = request[r].setting
              /\ q.kind = request[r].kind /\ q.project = request[r].project
              /\ q.permit = request[r].permit
<1> DEFINE q == [request[r] EXCEPT !.pc = p]
<1>1. /\ q \in Request
      /\ q.pc = p /\ q.code = request[r].code /\ q.setting = request[r].setting
      /\ q.kind = request[r].kind /\ q.project = request[r].project
      /\ q.permit = request[r].permit
    BY DEF Request
<1>2. request' = [request EXCEPT ![r] = q]
    BY DEF GoTo
<1> HIDE DEF q
<1> QED BY <1>1, <1>2

LEMMA Answered ==
    ASSUME TypeOK, NEW r \in Requests, request[r] \in Request, NEW c \in Codes, Answer(r, c)
    PROVE  \E q \in Request :
              /\ request' = [request EXCEPT ![r] = q]
              /\ q.pc = "answered" /\ q.code = c /\ q.setting = request[r].setting
              /\ q.kind = request[r].kind /\ q.project = request[r].project
              /\ q.permit = request[r].permit
<1> DEFINE q == [request[r] EXCEPT !.pc = "answered", !.code = c]
<1>1. /\ q \in Request
      /\ q.pc = "answered" /\ q.code = c /\ q.setting = request[r].setting
      /\ q.kind = request[r].kind /\ q.project = request[r].project
      /\ q.permit = request[r].permit
    BY DEF Request, Pcs
<1>2. request' = [request EXCEPT ![r] = q]
    BY DEF Answer
<1> HIDE DEF q
<1> QED BY <1>1, <1>2

\* What a call of the rate limiter may do to the windows.
Counts ==
    /\ rateLimits' \in [Projects -> Window] /\ windows' \in [Projects -> Nat]
    /\ repeats' \in 0..MaxRepeats
    /\ \A p \in Projects :
          /\ windows[p] <= windows'[p]
          /\ windows'[p] = windows[p] => rateLimits[p].count <= rateLimits'[p].count
          /\ windows'[p] = 0 => rateLimits'[p].count = 0

LEMMA NoCounts == ASSUME CollectorInv, UNCHANGED limiter PROVE Counts
BY DEF CollectorInv, TypeOK, Permits, Counts, Window, limiter

\* What every step of a handler leaves alone.
LEMMA HandlerKeeps ==
    ASSUME CollectorInv, NEW r \in Requests, NEW q \in Request,
           request' = [request EXCEPT ![r] = q], UNCHANGED shared, Counts,
           accepted' \in Seq(Requests),
           barred' \subseteq Requests, covered' \subseteq Requests
    PROVE  /\ TypeOK' /\ Certain'
           /\ request'[r] = q /\ \A x \in Requests \ {r} : request'[x] = request[x]
<1>1. /\ request \in [Requests -> {NoRequest} \cup Request]
      /\ TypeOK /\ Certain
    BY DEF CollectorInv, TypeOK, Request
<1>2. /\ request' \in [Requests -> {NoRequest} \cup Request]
      /\ request'[r] = q /\ \A x \in Requests \ {r} : request'[x] = request[x]
    BY <1>1
<1>3. Certain'
    BY <1>1 DEF Certain, shared, caches
<1>4. TypeOK'
    BY <1>1, <1>2 DEF TypeOK, Request, shared, caches, Counts
<1> QED BY <1>2, <1>3, <1>4

\* Who holds a permit keeps it while windows open and counts grow, and no one else
\* comes to hold one.
LEMMA PermitsKept ==
    ASSUME CollectorInv, Counts, Holders' \subseteq Holders,
           \A x \in Holders' :
              /\ request'[x].project = request[x].project
              /\ request'[x].setting = request[x].setting
              /\ request'[x].permit = request[x].permit
    PROVE  Permits'
<1>1. \A p \in Projects : windows'[p] = 0 => rateLimits'[p].count = 0
    BY DEF Counts
<1>2. ASSUME NEW x \in Holders' PROVE PlaceTaken(x)'
    <2>1. /\ x \in Holders /\ x \in Requests /\ PlaceTaken(x)
          /\ request'[x].project = request[x].project
          /\ request'[x].setting = request[x].setting
          /\ request'[x].permit = request[x].permit
        BY <1>2 DEF CollectorInv, Permits, Holders
    <2>2. request[x].pc # "new"
        BY <2>1 DEF Holders, CollectorInv, Answers, AnswersAreTrue
    <2>3. request[x].project \in Projects /\ request[x].permit \in Nat \X Nat
        BY <2>1, <2>2, Known DEF CollectorInv
    <2> DEFINE p == request[x].project
    <2>4. /\ windows[p] \in Nat /\ windows'[p] \in Nat
          /\ rateLimits[p].count \in Nat /\ rateLimits'[p].count \in Nat
          /\ windows[p] <= windows'[p]
          /\ windows'[p] = windows[p] => rateLimits[p].count <= rateLimits'[p].count
          /\ request[x].permit[1] \in Nat /\ request[x].permit[2] \in Nat
        BY <2>3 DEF CollectorInv, TypeOK, Counts, Window
    <2> QED BY <2>1, <2>4 DEF PlaceTaken
<1>3. \A x, y \in Holders' :
         x # y /\ request'[x].project = request'[y].project => request'[x].permit # request'[y].permit
    BY DEF CollectorInv, Permits
<1> QED BY <1>1, <1>2, <1>3 DEF Permits

\* A request moves among the gates or is refused at one.
LEMMA InTheGates ==
    ASSUME CollectorInv, NEW r \in Requests, request[r] \in Request, NEW q \in Request,
           request' = [request EXCEPT ![r] = q],
           q.kind = request[r].kind, q.project = request[r].project,
           Counts, UNCHANGED <<shared, accepted, noted>>,
           request[r].pc \in InGates,
           q.pc \in InGates \/ (q.pc = "answered" /\ q.code # 200),
           q.pc = "parse" => request[r].pc = "parse",
           q.pc = "token" => request[r].pc \in {"parse", "token"},
           q.pc = "limits" => request[r].pc = "token" /\ q.project \notin enforced["tokens"],
           q.pc = "blocked" => request[r].pc = "limits",
           q.pc \in {"rate", "script", "files"} =>
              \/ request[r].pc \in {"rate", "script", "files"}
              \/ request[r].pc = "blocked" /\ q.project \notin enforced["blocked"],
           q.pc \in WithSetting =>
              \/ request[r].pc \in WithSetting /\ q.setting = request[r].setting
              \/ request[r].pc = "limits" /\
                    (q.project \in enforced["limits"] => q.setting \in LimitChoices),
           q.pc = "files" => q.kind = "release"
    PROVE  CollectorInv'
<1>1. accepted' \in Seq(Requests) /\ barred' \subseteq Requests /\ covered' \subseteq Requests
    BY DEF noted, CollectorInv, TypeOK
<1>2. /\ TypeOK' /\ Certain'
      /\ request'[r] = q /\ \A x \in Requests \ {r} : request'[x] = request[x]
    BY <1>1, HandlerKeeps
<1>3. r \notin ToSet(accepted)
    BY DEF CollectorInv, Answers, AnswersAreTrue, InGates
<1>4. Answers'
    BY <1>2, <1>3 DEF CollectorInv, Answers, AnswersAreTrue, InGates
<1>5. BarredStop'
    <2> SUFFICES ASSUME NEW x \in barred
                 PROVE  /\ x \notin ToSet(accepted)
                        /\ request'[x].pc \in
                              {"parse", "token", "limits", "blocked", "answered", "dead"}
                        /\ request'[x].pc \in {"parse", "token"} =>
                              request'[x].project \in enforced["blocked"] \cup enforced["tokens"]
                        /\ request'[x].pc \in {"limits", "blocked"} =>
                              request'[x].project \in enforced["blocked"]
        BY DEF BarredStop, shared, noted
    <2>1. x \in Requests /\ BarredStop
        BY DEF CollectorInv, TypeOK
    <2>2. CASE x # r
        BY <1>2, <2>1, <2>2 DEF BarredStop
    <2>3. CASE x = r
        <3>1. /\ request[r].pc \in {"parse", "token", "limits", "blocked"}
              /\ request[r].pc \in {"parse", "token"} =>
                    q.project \in enforced["blocked"] \cup enforced["tokens"]
              /\ request[r].pc \in {"limits", "blocked"} => q.project \in enforced["blocked"]
            BY <2>1, <2>3 DEF BarredStop, InGates
        <3>2. q.pc \notin {"rate", "script", "files"}
            BY <3>1
        <3> QED BY <1>2, <1>3, <2>3, <3>1, <3>2 DEF InGates
    <2> QED BY <2>2, <2>3
<1>6. CoveredFind'
    <2> SUFFICES ASSUME NEW x \in covered
                 PROVE  /\ request'[x].pc # "new"
                        /\ request'[x].pc \in {"parse", "token", "limits"} =>
                              request'[x].project \in enforced["limits"]
                        /\ \/ request'[x].pc \in WithSetting \cup {"send", "reply"}
                           \/ x \in ToSet(accepted)
                           => request'[x].setting \in LimitChoices
        BY DEF CoveredFind, shared, noted
    <2>1. x \in Requests /\ CoveredFind
        BY DEF CollectorInv, TypeOK
    <2>2. CASE x # r
        BY <1>2, <2>1, <2>2 DEF CoveredFind
    <2>3. CASE x = r
        <3>1. /\ request[r].pc \in {"parse", "token", "limits"} => q.project \in enforced["limits"]
              /\ request[r].pc \in WithSetting => request[r].setting \in LimitChoices
            BY <2>1, <2>3 DEF CoveredFind
        <3>2. q.pc \in {"parse", "token", "limits"} => request[r].pc \in {"parse", "token"}
            OBVIOUS
        <3>3. q.pc \in WithSetting => q.setting \in LimitChoices
            BY <3>1
        <3>4. q.pc \notin {"new", "send", "reply"}
            BY DEF InGates
        <3> QED BY <1>2, <1>3, <2>3, <3>1, <3>2, <3>3, <3>4
    <2> QED BY <2>2, <2>3
<1>7. Permits'
    <2>1. Holders' \subseteq Holders \ {r}
        BY <1>2, <1>3 DEF Holders, InGates
    <2> QED BY <1>2, <2>1, PermitsKept DEF Holders
<1>8. FilesOfReleases'
    BY <1>2 DEF CollectorInv, FilesOfReleases
<1> QED BY <1>2, <1>4, <1>5, <1>6, <1>7, <1>8 DEF CollectorInv

\* A permit that was given just now: the first place of a new window, or the next of
\* the one that is open.
NewPlace(q) ==
    LET p == q.project
    IN  /\ q.permit = <<windows'[p], rateLimits'[p].count>>
        /\ windows'[p] >= 1 /\ rateLimits'[p].count >= 1
        /\ \/ windows'[p] > windows[p]
           \/ rateLimits'[p].count > rateLimits[p].count
        /\ rateLimits'[p].count = 1 \/ rateLimits'[p].count <= q.setting.limit

\* A request has passed its gates: it holds a permit of its own, or needs none.
LEMMA Passes ==
    ASSUME CollectorInv, NEW r \in Requests, request[r] \in Request, NEW q \in Request,
           request' = [request EXCEPT ![r] = q],
           q.kind = request[r].kind, q.project = request[r].project,
           q.setting = request[r].setting,
           Counts, UNCHANGED <<shared, accepted, noted>>,
           request[r].pc \in {"rate", "script", "files"}, q.pc = "send",
           q.kind = "release" \/ q.setting.limit = 0 \/ NewPlace(q)
    PROVE  CollectorInv'
<1>1. accepted' \in Seq(Requests) /\ barred' \subseteq Requests /\ covered' \subseteq Requests
    BY DEF noted, CollectorInv, TypeOK
<1>2. /\ TypeOK' /\ Certain'
      /\ request'[r] = q /\ \A x \in Requests \ {r} : request'[x] = request[x]
    BY <1>1, HandlerKeeps
<1>3. r \notin ToSet(accepted) /\ r \notin barred
    BY DEF CollectorInv, Answers, AnswersAreTrue, BarredStop
<1>4. Answers'
    BY <1>2, <1>3 DEF CollectorInv, Answers, AnswersAreTrue
<1>5. BarredStop'
    <2>1. \A x \in barred : x \in Requests \ {r}
        BY <1>3 DEF CollectorInv, TypeOK
    <2> QED BY <1>2, <2>1 DEF CollectorInv, BarredStop, shared, noted
<1>6. CoveredFind'
    <2>1. ASSUME r \in covered PROVE q.setting \in LimitChoices
        BY <2>1 DEF CollectorInv, CoveredFind, WithSetting
    <2>2. \A x \in covered : x \in Requests
        BY DEF CollectorInv, TypeOK
    <2> QED BY <1>2, <2>1, <2>2 DEF CollectorInv, CoveredFind, shared, noted
<1>7. Permits'
    <2>1. CASE q.kind = "release" \/ q.setting.limit = 0
        <3>1. Holders' \subseteq Holders \ {r}
            BY <1>2, <1>3, <2>1 DEF Holders
        <3> QED BY <1>2, <3>1, PermitsKept DEF Holders
    <2>2. CASE q.kind # "release" /\ q.setting.limit # 0
        <3> DEFINE p == q.project
        <3>1. NewPlace(q) /\ p \in Projects /\ q.permit \in Nat \X Nat /\ q.setting.limit \in Int
            BY <2>2 DEF Request, Setting
        <3>2. Holders' = Holders \cup {r} /\ r \notin Holders
            BY <1>2, <1>3, <2>2 DEF Holders
        <3>3. /\ windows[p] \in Nat /\ windows'[p] \in Nat
              /\ rateLimits[p].count \in Nat /\ rateLimits'[p].count \in Nat
              /\ windows[p] <= windows'[p]
              /\ windows'[p] = windows[p] => rateLimits[p].count <= rateLimits'[p].count
              /\ \A z \in Projects : windows'[z] = 0 => rateLimits'[z].count = 0
            BY <3>1 DEF CollectorInv, TypeOK, Counts, Window
        <3>4. PlaceTaken(r)'
            BY <1>2, <3>1, <3>3 DEF NewPlace, PlaceTaken
        <3>5. ASSUME NEW x \in Holders
              PROVE  /\ PlaceTaken(x)' /\ x # r /\ request'[x] = request[x]
                     /\ request[x].project = p => request[x].permit # q.permit
            <4>1. x \in Requests /\ x # r /\ PlaceTaken(x) /\ request'[x] = request[x]
                BY <1>2, <3>2 DEF Holders, CollectorInv, Permits
            <4>2. request[x].pc # "new"
                BY <4>1 DEF Holders, CollectorInv, Answers, AnswersAreTrue
            <4>3. request[x].project \in Projects /\ request[x].permit \in Nat \X Nat
                BY <4>1, <4>2, Known DEF CollectorInv
            <4> DEFINE z == request[x].project
            <4>4. /\ windows[z] \in Nat /\ windows'[z] \in Nat
                  /\ rateLimits[z].count \in Nat /\ rateLimits'[z].count \in Nat
                  /\ windows[z] <= windows'[z]
                  /\ windows'[z] = windows[z] => rateLimits[z].count <= rateLimits'[z].count
                  /\ request[x].permit[1] \in Nat /\ request[x].permit[2] \in Nat
                BY <4>3 DEF CollectorInv, TypeOK, Counts, Window
            <4>5. PlaceTaken(x)'
                BY <4>1, <4>4 DEF PlaceTaken
            <4>6. ASSUME z = p, request[x].permit = q.permit PROVE FALSE
                <5>1. request[x].permit[1] = windows'[p] /\ request[x].permit[2] = rateLimits'[p].count
                    BY <3>1, <4>6 DEF NewPlace
                <5> QED BY <3>1, <3>3, <4>1, <4>6, <5>1 DEF PlaceTaken, NewPlace
            <4> QED BY <4>1, <4>5, <4>6
        <3>6. ASSUME NEW x \in Holders', NEW y \in Holders', x # y,
                     request'[x].project = request'[y].project
              PROVE  request'[x].permit # request'[y].permit
            <4>1. CASE x = r
                BY <1>2, <3>2, <3>5, <3>6, <4>1
            <4>2. CASE y = r
                BY <1>2, <3>2, <3>5, <3>6, <4>2
            <4>3. CASE x # r /\ y # r
                BY <3>2, <3>5, <3>6, <4>3 DEF CollectorInv, Permits
            <4> QED BY <4>1, <4>2, <4>3
        <3>7. \A x \in Holders' : PlaceTaken(x)'
            BY <3>2, <3>4, <3>5
        <3> QED BY <3>3, <3>6, <3>7 DEF Permits
    <2> QED BY <2>1, <2>2
<1>8. FilesOfReleases'
    BY <1>2 DEF CollectorInv, FilesOfReleases
<1> QED BY <1>2, <1>4, <1>5, <1>6, <1>7, <1>8 DEF CollectorInv

\* One run of the script: it opens a window, or adds one to the count, or refuses and
\* changes nothing, whatever the clock readings and the periods.
LEMMA ScriptCounts ==
    ASSUME CollectorInv, NEW r \in Requests, RunScript(r)
    PROVE  LET p == request[r].project
               s == request[r].setting
           IN  /\ Counts
               /\ Allows(rateLimits[p], request[r].now, s) =>
                     /\ windows'[p] >= 1 /\ rateLimits'[p].count >= 1
                     /\ \/ windows'[p] > windows[p]
                        \/ rateLimits'[p].count > rateLimits[p].count
                     /\ rateLimits'[p].count = 1 \/ rateLimits'[p].count <= s.limit
<1> DEFINE p == request[r].project
           s == request[r].setting
           n == request[r].now
           w == rateLimits[p]
           u == Updated(w, n, s)
<1>1. p \in Projects /\ s \in Setting /\ n \in Nat
    BY Known DEF RunScript, At, CollectorInv
<1>2. /\ rateLimits \in [Projects -> Window] /\ windows \in [Projects -> Nat]
      /\ repeats \in 0..MaxRepeats /\ MaxRepeats \in Nat
      /\ \A x \in Projects : /\ windows[x] = 0 => rateLimits[x].count = 0
                             /\ rateLimits[x].count \in Nat /\ windows[x] \in Nat
    BY CollectorAssumption DEF CollectorInv, TypeOK, Permits, Window
<1>3. /\ rateLimits' = [rateLimits EXCEPT ![p] = u]
      /\ windows' = [windows EXCEPT ![p] = IF Opens(w, n, s) THEN windows[p] + 1 ELSE windows[p]]
    BY DEF RunScript
<1>4. repeats' \in 0..MaxRepeats
    BY <1>2 DEF RunScript
<1>5. w \in Window /\ w.count \in Nat /\ windows[p] \in Nat /\ (windows[p] = 0 => w.count = 0)
    BY <1>1, <1>2
<1> HIDE DEF p, s, n, w
<1>6. /\ u \in Window
      /\ Opens(w, n, s) => Allows(w, n, s) /\ u.count = 1
      /\ ~Opens(w, n, s) =>
            /\ w.count # 0
            /\ Allows(w, n, s) => u.count = w.count + 1 /\ u.count <= s.limit
            /\ ~Allows(w, n, s) => u.count = w.count
    <2>1. CASE Opens(w, n, s)
        <3>1. u = [timestamp |-> n, count |-> 1] /\ Allows(w, n, s)
            BY <2>1 DEF Updated, Allows
        <3> QED BY <1>1, <2>1, <3>1 DEF Window
    <2>2. CASE ~Opens(w, n, s) /\ Allows(w, n, s)
        <3>1. u = [w EXCEPT !.count = w.count + 1] /\ w.count + 1 <= s.limit /\ w.count # 0
            BY <2>2 DEF Updated, Allows, Opens
        <3> QED BY <1>5, <2>2, <3>1 DEF Window
    <2>3. CASE ~Opens(w, n, s) /\ ~Allows(w, n, s)
        <3>1. u = w /\ w.count # 0
            BY <2>3 DEF Updated, Opens
        <3> QED BY <1>5, <2>3, <3>1
    <2> QED BY <2>1, <2>2, <2>3
<1> HIDE DEF u
<1>7. u.count \in Nat
    BY <1>6 DEF Window
<1>8. /\ rateLimits'[p] = u
      /\ windows'[p] = IF Opens(w, n, s) THEN windows[p] + 1 ELSE windows[p]
      /\ \A x \in Projects \ {p} : rateLimits'[x] = rateLimits[x] /\ windows'[x] = windows[x]
      /\ rateLimits' \in [Projects -> Window] /\ windows' \in [Projects -> Nat]
    <2>1. (IF Opens(w, n, s) THEN windows[p] + 1 ELSE windows[p]) \in Nat
        BY <1>5
    <2> QED BY <1>1, <1>2, <1>3, <1>6, <2>1
<1>9. Counts
    <2>1. ASSUME NEW x \in Projects
          PROVE  /\ windows[x] <= windows'[x]
                 /\ windows'[x] = windows[x] => rateLimits[x].count <= rateLimits'[x].count
                 /\ windows'[x] = 0 => rateLimits'[x].count = 0
        <3>1. CASE x # p
            BY <1>2, <1>8, <2>1, <3>1
        <3>2. CASE x = p
            BY <1>5, <1>6, <1>7, <1>8, <3>2 DEF w
        <3> QED BY <3>1, <3>2
    <2> QED BY <1>4, <1>8, <2>1 DEF Counts
<1>10. Allows(w, n, s) =>
           /\ windows'[p] >= 1 /\ rateLimits'[p].count >= 1
           /\ windows'[p] > windows[p] \/ rateLimits'[p].count > w.count
           /\ rateLimits'[p].count = 1 \/ rateLimits'[p].count <= s.limit
    BY <1>5, <1>6, <1>7, <1>8
<1> QED BY <1>9, <1>10 DEF w, p, s, n

-----------------------------------------------------------------------------
(* The steps of a handler *)

LEMMA CollectorArrive ==
    ASSUME CollectorInv, NEW r \in Requests, NEW kind \in Kinds, NEW p \in Projects,
           Arrive(r, kind, p)
    PROVE  CollectorInv'
<1> DEFINE q == [pc |-> "parse", kind |-> kind, project |-> p,
                 setting |-> ZeroSetting, now |-> 0, permit |-> NoPermit, code |-> 0]
<1>1. /\ request' = [request EXCEPT ![r] = q]
      /\ UNCHANGED <<shared, limiter, accepted>>
      /\ barred' = IF p \in enforced["blocked"] \cup enforced["tokens"]
                   THEN barred \cup {r} ELSE barred
      /\ covered' = IF p \in enforced["limits"] THEN covered \cup {r} ELSE covered
      /\ request[r].pc = "new"
    BY DEF Arrive, At
<1>2. q \in Request /\ q.pc = "parse" /\ q.project = p
    BY DEF Request, Pcs, Setting, ZeroSetting, Codes, NoPermit
<1> HIDE DEF q
<1>3. /\ TypeOK' /\ Certain' /\ Counts
      /\ request'[r] = q /\ \A x \in Requests \ {r} : request'[x] = request[x]
    <2>1. /\ accepted' \in Seq(Requests)
          /\ barred' \subseteq Requests /\ covered' \subseteq Requests
        BY <1>1 DEF CollectorInv, TypeOK
    <2> QED BY <1>1, <1>2, <2>1, NoCounts, HandlerKeeps
<1>4. r \notin ToSet(accepted) /\ r \notin barred /\ r \notin covered
    BY <1>1 DEF CollectorInv, Answers, AnswersAreTrue, BarredStop, CoveredFind
<1>5. Answers'
    BY <1>1, <1>2, <1>3, <1>4 DEF CollectorInv, Answers, AnswersAreTrue
<1>6. UNCHANGED <<accepted, enforced>>
    BY <1>1 DEF shared
<1>7. BarredStop'
    <2>1. \A x \in barred : x \in Requests \ {r}
        BY <1>4 DEF CollectorInv, TypeOK
    <2>2. \A x \in barred' : x \in barred
              \/ (x = r /\ p \in enforced["blocked"] \cup enforced["tokens"])
        BY <1>1
    <2> QED BY <1>2, <1>3, <1>4, <1>6, <2>1, <2>2 DEF CollectorInv, BarredStop
<1>8. CoveredFind'
    <2>1. \A x \in covered : x \in Requests \ {r}
        BY <1>4 DEF CollectorInv, TypeOK
    <2>2. \A x \in covered' : x \in covered \/ (x = r /\ p \in enforced["limits"])
        BY <1>1
    <2> QED BY <1>2, <1>3, <1>4, <1>6, <2>1, <2>2 DEF CollectorInv, CoveredFind, WithSetting
<1>9. Permits'
    <2>1. Holders' \subseteq Holders \ {r}
        BY <1>1, <1>2, <1>3, <1>4 DEF Holders
    <2> QED BY <1>3, <2>1, PermitsKept DEF Holders
<1>10. FilesOfReleases'
    BY <1>2, <1>3 DEF CollectorInv, FilesOfReleases
<1> QED BY <1>3, <1>5, <1>7, <1>8, <1>9, <1>10 DEF CollectorInv

\* The gates: what a handler does until it sends or answers.
LEMMA CollectorGate ==
    ASSUME CollectorInv, NEW r \in Requests,
           \/ Parse(r) \/ GetValidToken(r) \/ GetProjectLimits(r) \/ IsBlocked(r)
           \/ ReadClock(r) \/ RedisFails(r)
    PROVE  CollectorInv'
<1>1. /\ request[r] \in Request /\ request[r] # NoRequest
      /\ UNCHANGED <<shared, limiter, accepted, noted>>
      /\ TypeOK /\ Counts /\ Certain
    BY Known, NoCounts DEF Parse, GetValidToken, GetProjectLimits, IsBlocked, ReadClock,
                           RedisFails, At, CollectorInv
<1>2. WithSetting \subseteq InGates
    BY DEF WithSetting, InGates
<1>3. ASSUME NEW c \in Codes, c # 200, Answer(r, c), request[r].pc \in InGates
      PROVE  CollectorInv'
    <2>1. PICK q \in Request :
             /\ request' = [request EXCEPT ![r] = q]
             /\ q.pc = "answered" /\ q.code = c /\ q.setting = request[r].setting
             /\ q.kind = request[r].kind /\ q.project = request[r].project
        BY <1>1, <1>3, Answered
    <2> QED BY <1>1, <1>3, <2>1, InTheGates DEF WithSetting
<1>4. ASSUME NEW p \in {"token", "limits", "rate", "files"}, GoTo(r, p),
             p = "token" => request[r].pc = "parse",
             p = "limits" => request[r].pc = "token" /\ request[r].project \in validTokens,
             p \in {"rate", "files"} =>
                request[r].pc = "blocked" /\ request[r].project \notin blockedIDs,
             p = "files" => request[r].kind = "release"
      PROVE  CollectorInv'
    <2>1. PICK q \in Request :
             /\ request' = [request EXCEPT ![r] = q]
             /\ q.pc = p /\ q.code = request[r].code /\ q.setting = request[r].setting
             /\ q.kind = request[r].kind /\ q.project = request[r].project
        <3>1. p \in Pcs
            BY DEF Pcs
        <3> QED BY <1>1, <1>4, <3>1, GoesTo
    <2>2. q.pc \in InGates /\ request[r].pc \in InGates
        BY <1>4, <2>1 DEF InGates
    <2>3. /\ request[r].project \in validTokens => request[r].project \notin enforced["tokens"]
          /\ request[r].project \notin blockedIDs => request[r].project \notin enforced["blocked"]
        BY <1>1 DEF Certain
    <2>4. q.pc \in WithSetting => request[r].pc \in WithSetting
        BY <1>4, <2>1 DEF WithSetting
    <2> QED BY <1>1, <1>4, <2>1, <2>2, <2>3, <2>4, InTheGates
<1>5. {0, 204, 400, 402} \subseteq Codes
    BY DEF Codes
<1>6. CASE Parse(r)
    <2>1. request[r].pc = "parse"
        BY <1>6 DEF Parse, At
    <2>2. CASE Answer(r, 0) \/ Answer(r, 204) \/ Answer(r, 400)
        BY <1>3, <1>5, <2>1, <2>2 DEF InGates
    <2>3. CASE GoTo(r, "token")
        BY <1>4, <2>1, <2>3
    <2> QED BY <1>6, <2>2, <2>3 DEF Parse, ParseError, ParseSentry, ParseRelease
<1>7. CASE GetValidToken(r)
    <2>1. request[r].pc = "token"
        BY <1>7 DEF GetValidToken, At
    <2>2. CASE request[r].project \in validTokens
        BY <1>4, <1>7, <2>1, <2>2 DEF GetValidToken
    <2>3. CASE request[r].project \notin validTokens
        BY <1>3, <1>5, <1>7, <2>1, <2>3 DEF GetValidToken, InGates
    <2> QED BY <2>2, <2>3
<1>8. CASE GetProjectLimits(r)
    <2> DEFINE s == IF request[r].project \in DOMAIN projectLimits
                    THEN projectLimits[request[r].project] ELSE ZeroSetting
               q == [request[r] EXCEPT !.pc = "blocked", !.setting = s]
    <2>1. request[r].pc = "limits" /\ request' = [request EXCEPT ![r] = q]
        BY <1>8 DEF GetProjectLimits, At
    <2>2. request[r].project \in DOMAIN projectLimits => s \in LimitChoices
        BY <1>1 DEF TypeOK
    <2>3. s \in Setting
        BY <2>2, CollectorAssumption DEF ZeroSetting, Setting
    <2>4. request[r].project \in enforced["limits"] => s \in LimitChoices
        BY <1>1, <2>2 DEF Certain
    <2> HIDE DEF s
    <2>5. /\ q \in Request /\ q.pc = "blocked" /\ q.setting = s
          /\ q.kind = request[r].kind /\ q.project = request[r].project
        BY <1>1, <2>3 DEF Request, Pcs
    <2> HIDE DEF q
    <2>6. q.pc \in InGates /\ request[r].pc \in InGates
        BY <2>1, <2>5 DEF InGates
    <2> QED BY <1>1, <2>1, <2>4, <2>5, <2>6, InTheGates
<1>9. CASE IsBlocked(r)
    <2>1. request[r].pc = "blocked"
        BY <1>9 DEF IsBlocked, At
    <2>2. CASE request[r].project \in blockedIDs
        BY <1>3, <1>5, <1>9, <2>1, <2>2 DEF IsBlocked, InGates
    <2>3. CASE request[r].project \notin blockedIDs /\ request[r].kind = "release"
        BY <1>4, <1>9, <2>1, <2>3 DEF IsBlocked
    <2>4. CASE request[r].project \notin blockedIDs /\ request[r].kind # "release"
        BY <1>4, <1>9, <2>1, <2>4 DEF IsBlocked
    <2> QED BY <2>2, <2>3, <2>4
<1>10. CASE ReadClock(r)
    <2>1. PICK n \in Moments : request' = [request EXCEPT ![r] =
                                             [request[r] EXCEPT !.pc = "script", !.now = n]]
        BY <1>10 DEF ReadClock
    <2> DEFINE q == [request[r] EXCEPT !.pc = "script", !.now = n]
    <2>2. request[r].pc = "rate" /\ n \in Nat
        BY <1>10, CollectorAssumption DEF ReadClock, At
    <2>3. /\ q \in Request /\ q.pc = "script" /\ q.setting = request[r].setting
          /\ q.kind = request[r].kind /\ q.project = request[r].project
        BY <1>1, <2>2 DEF Request, Pcs
    <2>4. request' = [request EXCEPT ![r] = q]
        BY <2>1
    <2> HIDE DEF q
    <2>5. q.pc \in InGates /\ request[r].pc \in InGates /\ request[r].pc \in WithSetting
        BY <2>2, <2>3 DEF InGates, WithSetting
    <2> QED BY <1>1, <2>2, <2>3, <2>4, <2>5, InTheGates
<1>11. CASE RedisFails(r)
    BY <1>3, <1>5, <1>11 DEF RedisFails, At, InGates
<1> QED BY <1>6, <1>7, <1>8, <1>9, <1>10, <1>11

\* The last gate, with or without a limit.
LEMMA CollectorLastGate ==
    ASSUME CollectorInv, NEW r \in Requests, Unlimited(r) \/ RunScript(r) \/ ReadFiles(r)
    PROVE  CollectorInv'
<1>1. /\ request[r] \in Request /\ request[r] # NoRequest /\ TypeOK
      /\ request[r].pc \in {"rate", "script", "files"} /\ request[r].pc \in InGates
      /\ request[r].pc \in WithSetting
      /\ UNCHANGED <<shared, accepted, noted>>
    BY Known DEF Unlimited, RunScript, ReadFiles, At, CollectorInv, InGates, WithSetting
<1>2. Counts
    BY NoCounts, ScriptCounts DEF Unlimited, ReadFiles
<1>3. ASSUME NEW c \in {400, 402}, Answer(r, c) PROVE CollectorInv'
    <2> c # 200
        OBVIOUS
    <2>1. PICK q \in Request :
             /\ request' = [request EXCEPT ![r] = q]
             /\ q.pc = "answered" /\ q.code = c /\ q.setting = request[r].setting
             /\ q.kind = request[r].kind /\ q.project = request[r].project
        <3>1. c \in Codes
            BY DEF Codes
        <3> QED BY <1>1, <1>3, <3>1, Answered
    <2> QED BY <1>1, <1>2, <2>1, InTheGates DEF WithSetting
<1>4. ASSUME GoTo(r, "send"), request[r].kind = "release" \/ request[r].setting.limit = 0
      PROVE  CollectorInv'
    <2>1. PICK q \in Request :
             /\ request' = [request EXCEPT ![r] = q]
             /\ q.pc = "send" /\ q.code = request[r].code /\ q.setting = request[r].setting
             /\ q.kind = request[r].kind /\ q.project = request[r].project
        <3>1. "send" \in Pcs
            BY DEF Pcs
        <3> QED BY <1>1, <1>4, <3>1, GoesTo
    <2> QED BY <1>1, <1>2, <1>4, <2>1, Passes
<1>5. ASSUME UNCHANGED request PROVE CollectorInv'
    <2> DEFINE q == request[r]
    <2>1. request' = [request EXCEPT ![r] = q] /\ q \in Request
        BY <1>1, <1>5 DEF CollectorInv, TypeOK
    <2>2. q.pc = "files" => q.kind = "release"
        BY <1>1 DEF CollectorInv, FilesOfReleases
    <2>3. q.pc = request[r].pc /\ q.kind = request[r].kind /\ q.project = request[r].project
             /\ q.setting = request[r].setting
        OBVIOUS
    <2> HIDE DEF q
    <2> QED BY <1>1, <1>2, <2>1, <2>2, <2>3, InTheGates
<1>6. CASE Unlimited(r)
    BY <1>4, <1>6 DEF Unlimited
<1>7. CASE ReadFiles(r)
    <2>1. request[r].kind = "release"
        BY <1>1, <1>7 DEF ReadFiles, At, CollectorInv, FilesOfReleases
    <2> QED BY <1>3, <1>4, <1>7, <2>1 DEF ReadFiles
<1>8. CASE RunScript(r)
    <2> DEFINE p == request[r].project
               s == request[r].setting
    <2>1. CASE Allows(rateLimits[p], request[r].now, s)
                  /\ Admit(r, <<windows'[p], rateLimits'[p].count>>)
        <3> DEFINE place == <<windows'[p], rateLimits'[p].count>>
                   q == [request[r] EXCEPT !.pc = "send", !.permit = place]
        <3>1. request' = [request EXCEPT ![r] = q]
            BY <2>1 DEF Admit
        <3>2. /\ windows'[p] >= 1 /\ rateLimits'[p].count >= 1
              /\ windows'[p] > windows[p] \/ rateLimits'[p].count > rateLimits[p].count
              /\ rateLimits'[p].count = 1 \/ rateLimits'[p].count <= s.limit
            BY <1>8, <2>1, ScriptCounts
        <3>3. place \in Nat \X Nat /\ "send" \in Pcs
            BY <1>1, <1>2 DEF Counts, Window, Pcs, Request
        <3> HIDE DEF place
        <3>4. /\ q \in Request /\ q.pc = "send" /\ q.setting = s /\ q.permit = place
              /\ q.kind = request[r].kind /\ q.project = p
            BY <1>1, <3>3 DEF Request
        <3> HIDE DEF q, p, s
        <3>5. NewPlace(q)
            BY <3>2, <3>4 DEF NewPlace, place
        <3> QED BY <1>1, <1>2, <3>1, <3>4, <3>5, Passes DEF p, s
    <2>2. CASE Answer(r, 402)
        BY <1>3, <2>2
    <2>3. CASE UNCHANGED request
        BY <1>5, <2>3
    <2> QED BY <1>8, <2>1, <2>2, <2>3 DEF RunScript
<1> QED BY <1>6, <1>7, <1>8

\* The broker takes the message of a request that is not barred.
LEMMA CollectorSend == ASSUME CollectorInv, NEW r \in Requests, Send(r) PROVE CollectorInv'
<1>1. /\ request[r] \in Request /\ request[r] # NoRequest /\ TypeOK
      /\ request[r].pc = "send"
      /\ UNCHANGED <<shared, limiter, noted>>
    BY Known DEF Send, At, CollectorInv
<1>2. PICK q \in Request :
         /\ request' = [request EXCEPT ![r] = q]
         /\ q.pc = "reply" /\ q.code = request[r].code /\ q.setting = request[r].setting
         /\ q.kind = request[r].kind /\ q.project = request[r].project
         /\ q.permit = request[r].permit
    <2>1. "reply" \in Pcs
        BY DEF Pcs
    <2> QED BY <1>1, <2>1, GoesTo DEF Send
<1>3. accepted' \in Seq(Requests) /\ ToSet(accepted') = ToSet(accepted) \cup {r}
    <2>1. accepted \in Seq(Requests) /\ accepted' = Append(accepted, r)
        BY DEF Send, Queue!Accept, CollectorInv, TypeOK
    <2> QED BY <2>1, Appended, AppendedSet
<1>4. /\ TypeOK' /\ Certain' /\ Counts
      /\ request'[r] = q /\ \A x \in Requests \ {r} : request'[x] = request[x]
    BY <1>1, <1>2, <1>3, NoCounts, HandlerKeeps DEF TypeOK, noted
<1>5. r \notin barred
    BY <1>1 DEF CollectorInv, BarredStop
<1>6. Answers'
    BY <1>2, <1>3, <1>4 DEF CollectorInv, Answers, AnswersAreTrue
<1>7. BarredStop'
    <2>1. \A x \in barred : x \in Requests \ {r}
        BY <1>5 DEF CollectorInv, TypeOK
    <2> QED BY <1>1, <1>3, <1>4, <2>1 DEF CollectorInv, BarredStop, shared, noted
<1>8. CoveredFind'
    <2>1. r \in covered => q.setting \in LimitChoices
        BY <1>1, <1>2 DEF CollectorInv, CoveredFind
    <2>2. \A x \in covered : x \in Requests
        BY DEF CollectorInv, TypeOK
    <2> QED BY <1>1, <1>2, <1>3, <1>4, <2>1, <2>2
            DEF CollectorInv, CoveredFind, WithSetting, shared, noted
<1>9. Permits'
    <2>1. Holders' \subseteq Holders
        BY <1>1, <1>2, <1>3, <1>4 DEF Holders
    <2> QED BY <1>2, <1>4, <2>1, PermitsKept DEF Holders
<1>10. FilesOfReleases'
    BY <1>2, <1>4 DEF CollectorInv, FilesOfReleases
<1> QED BY <1>4, <1>6, <1>7, <1>8, <1>9, <1>10 DEF CollectorInv

LEMMA CollectorReply == ASSUME CollectorInv, NEW r \in Requests, Reply(r) PROVE CollectorInv'
<1>1. /\ request[r] \in Request /\ request[r] # NoRequest /\ TypeOK
      /\ request[r].pc = "reply" /\ r \in ToSet(accepted) /\ r \notin barred
      /\ UNCHANGED <<shared, limiter, accepted, noted>>
    BY Known DEF Reply, At, CollectorInv, Answers, BarredStop
<1>2. PICK q \in Request :
         /\ request' = [request EXCEPT ![r] = q]
         /\ q.pc = "answered" /\ q.code = 200 /\ q.setting = request[r].setting
         /\ q.kind = request[r].kind /\ q.project = request[r].project
         /\ q.permit = request[r].permit
    <2>1. 200 \in Codes
        BY DEF Codes
    <2> QED BY <1>1, <2>1, Answered DEF Reply
<1>3. /\ TypeOK' /\ Certain' /\ Counts
      /\ request'[r] = q /\ \A x \in Requests \ {r} : request'[x] = request[x]
    <2>1. accepted' \in Seq(Requests) /\ barred' \subseteq Requests /\ covered' \subseteq Requests
        BY <1>1 DEF TypeOK, noted
    <2>2. Counts /\ UNCHANGED shared
        BY <1>1, NoCounts
    <2>3. request' = [request EXCEPT ![r] = q]
        BY <1>2
    <2>4. /\ TypeOK' /\ Certain'
          /\ request'[r] = q /\ \A x \in Requests \ {r} : request'[x] = request[x]
        BY <2>1, <2>2, <2>3, HandlerKeeps
    <2> QED BY <2>2, <2>4
<1>4. Answers'
    BY <1>1, <1>2, <1>3 DEF CollectorInv, Answers, AnswersAreTrue
<1>5. BarredStop'
    <2>1. \A x \in barred : x \in Requests \ {r}
        BY <1>1 DEF CollectorInv, TypeOK
    <2> QED BY <1>1, <1>3, <2>1 DEF CollectorInv, BarredStop, shared, noted
<1>6. CoveredFind'
    <2>1. r \in covered => q.setting \in LimitChoices
        BY <1>1, <1>2 DEF CollectorInv, CoveredFind
    <2>2. \A x \in covered : x \in Requests
        BY DEF CollectorInv, TypeOK
    <2> QED BY <1>1, <1>2, <1>3, <2>1, <2>2 DEF CollectorInv, CoveredFind, WithSetting, shared, noted
<1>7. Permits'
    <2>1. Holders' \subseteq Holders
        BY <1>1, <1>2, <1>3 DEF Holders
    <2> QED BY <1>2, <1>3, <2>1, PermitsKept DEF Holders
<1>8. FilesOfReleases'
    BY <1>2, <1>3 DEF CollectorInv, FilesOfReleases
<1> QED BY <1>3, <1>4, <1>5, <1>6, <1>7, <1>8 DEF CollectorInv

-----------------------------------------------------------------------------
(* The other steps: no request moves *)

LEMMA Elsewhere ==
    ASSUME CollectorInv, UNCHANGED <<request, accepted, limiter>>
    PROVE  Answers' /\ Permits' /\ FilesOfReleases'
<1>1. Counts
    BY NoCounts
<1>2. Holders' = Holders
    BY DEF Holders
<1>3. Permits'
    BY <1>1, <1>2, PermitsKept
<1> QED BY <1>3 DEF CollectorInv, Answers, AnswersAreTrue, FilesOfReleases

\* What is certain stays so until it is forgiven.
LEMMA StillCertain ==
    ASSUME CollectorInv, UNCHANGED <<request, accepted, barred, covered>>,
           \A c \in Caches : enforced[c] \subseteq enforced'[c]
    PROVE  BarredStop' /\ CoveredFind'
BY DEF CollectorInv, BarredStop, CoveredFind, Caches

LEMMA CollectorForgive ==
    ASSUME CollectorInv, NEW c \in Caches, NEW p \in Projects,
           Forgive(c, p), Change,
           \/ c = "blocked" /\ banned' = banned \ {p} /\ UNCHANGED registered
           \/ c = "tokens" /\ registered' = registered \cup {p} /\ UNCHANGED banned
           \/ c = "limits" /\ registered' = registered \ {p} /\ UNCHANGED banned
    PROVE  CollectorInv'
<1>1. /\ UNCHANGED <<limiter, phase, crashes, caches, request, broker>>
      /\ changes < MaxChanges /\ changes' = changes + 1
      /\ steady' = [steady EXCEPT ![c] = steady[c] \ {p}]
      /\ enforced' = [enforced EXCEPT ![c] = enforced[c] \ {p}]
      /\ barred' = IF c = "limits" THEN barred ELSE NotFor(p, barred)
      /\ covered' = IF c = "limits" THEN NotFor(p, covered) ELSE covered
    BY DEF Forgive, Change
<1>2. TypeOK /\ Certain /\ BarredStop /\ CoveredFind
    BY DEF CollectorInv
<1>3. /\ steady \in [Caches -> SUBSET Projects]
      /\ enforced \in [Caches -> SUBSET Projects]
      /\ {"blocked", "tokens", "limits"} \subseteq Caches
      /\ barred' \subseteq barred /\ covered' \subseteq covered
    BY <1>1, <1>2 DEF TypeOK, Caches, NotFor
<1>4. TypeOK'
    <2>1. changes' \in 0..MaxChanges
        BY <1>1, <1>2, CollectorAssumption DEF TypeOK
    <2>2. /\ steady' \in [Caches -> SUBSET Projects]
          /\ enforced' \in [Caches -> SUBSET Projects]
        BY <1>1, <1>3
    <2>3. /\ registered' \subseteq Projects /\ banned' \subseteq Projects
          /\ barred' \subseteq Requests /\ covered' \subseteq Requests
        BY <1>2, <1>3 DEF TypeOK
    <2> QED BY <1>1, <1>2, <2>1, <2>2, <2>3 DEF TypeOK, caches, limiter, broker
<1>5. Certain'
    BY <1>1, <1>2, <1>3 DEF Certain, caches
<1>6. /\ c = "limits" => /\ enforced'["blocked"] = enforced["blocked"]
                         /\ enforced'["tokens"] = enforced["tokens"]
      /\ c # "limits" => enforced'["limits"] = enforced["limits"]
      /\ \A k \in Caches : enforced[k] \ {p} \subseteq enforced'[k]
    BY <1>1, <1>3
<1>7. BarredStop'
    BY <1>1, <1>2, <1>3, <1>6 DEF BarredStop, NotFor, broker
<1>8. CoveredFind'
    BY <1>1, <1>2, <1>3, <1>6 DEF CoveredFind, NotFor, broker
<1> QED BY <1>1, <1>4, <1>5, <1>7, <1>8, Elsewhere DEF CollectorInv, broker

LEMMA CollectorDatabases ==
    ASSUME CollectorInv, NEW p \in Projects,
           Ban(p) \/ Unban(p) \/ Register(p) \/ Unregister(p)
    PROVE  CollectorInv'
<1>1. CASE Ban(p)
    <2>1. /\ UNCHANGED <<limiter, phase, crashes, caches, request, broker, registered, history>>
          /\ changes < MaxChanges /\ changes' = changes + 1
          /\ banned \subseteq banned' /\ banned' \subseteq Projects
        BY <1>1 DEF Ban, Change, CollectorInv, TypeOK
    <2>2. TypeOK'
        <3>1. changes' \in 0..MaxChanges
            BY <2>1, CollectorAssumption DEF CollectorInv, TypeOK
        <3> QED BY <2>1, <3>1 DEF CollectorInv, TypeOK, caches, history, limiter, broker
    <2>3. Certain'
        BY <2>1 DEF CollectorInv, Certain, caches, history
    <2> QED BY <2>1, <2>2, <2>3, Elsewhere, StillCertain DEF CollectorInv, history, broker
<1>2. {"blocked", "tokens", "limits"} \subseteq Caches
    BY DEF Caches
<1>3. CASE Unban(p)
    BY <1>2, <1>3, CollectorForgive DEF Unban
<1>4. CASE Register(p)
    BY <1>2, <1>4, CollectorForgive DEF Register
<1>5. CASE Unregister(p)
    BY <1>2, <1>5, CollectorForgive DEF Unregister
<1> QED BY <1>1, <1>3, <1>4, <1>5

LEMMA NextPhaseType ==
    ASSUME TypeOK, NEW c \in Caches, NextPhase(c)
    PROVE  phase' \in Phases
BY DEF TypeOK, NextPhase, Phases

\* A refresh reads: nothing is certain that the database does not say.
LEMMA CollectorRead ==
    ASSUME CollectorInv, ReadBlocked \/ ReadTokens \/ ReadLimits
    PROVE  CollectorInv'
<1>1. UNCHANGED <<databases, phase, crashes, validTokens, projectLimits, blockedIDs,
                  request, broker, enforced, barred, covered>>
    BY DEF ReadBlocked, ReadTokens, ReadLimits
<1>2. /\ TypeOK /\ Certain
      /\ snapshot \in [Caches -> {{}} \cup {{s} : s \in SUBSET Projects}]
      /\ steady \in [Caches -> SUBSET Projects]
      /\ {"blocked", "tokens", "limits"} \subseteq Caches
    BY DEF CollectorInv, TypeOK, Caches
<1>3. CASE ReadBlocked
    <2>1. /\ snapshot' = [snapshot EXCEPT !["blocked"] = {banned}]
          /\ steady' = [steady EXCEPT !["blocked"] = banned]
          /\ banned \subseteq Projects
        BY <1>2, <1>3 DEF ReadBlocked, TypeOK
    <2>2. TypeOK'
        BY <1>1, <1>2, <2>1 DEF TypeOK, databases, limiter, broker
    <2>3. Certain'
        BY <1>1, <1>2, <2>1 DEF Certain, databases
    <2> QED BY <1>1, <2>2, <2>3, Elsewhere, StillCertain DEF CollectorInv, databases, broker
<1>4. CASE ReadTokens
    <2>1. /\ snapshot' = [snapshot EXCEPT !["tokens"] = {registered}]
          /\ steady' = [steady EXCEPT !["tokens"] = Projects \ registered]
          /\ registered \subseteq Projects
        BY <1>2, <1>4 DEF ReadTokens, TypeOK
    <2>2. TypeOK'
        BY <1>1, <1>2, <2>1 DEF TypeOK, databases, limiter, broker
    <2>3. Certain'
        BY <1>1, <1>2, <2>1 DEF Certain, databases
    <2> QED BY <1>1, <2>2, <2>3, Elsewhere, StillCertain DEF CollectorInv, databases, broker
<1>5. CASE ReadLimits
    <2>1. /\ snapshot' = [snapshot EXCEPT !["limits"] = {registered}]
          /\ steady' = [steady EXCEPT !["limits"] = registered]
          /\ registered \subseteq Projects
        BY <1>2, <1>5 DEF ReadLimits, TypeOK
    <2>2. TypeOK'
        BY <1>1, <1>2, <2>1 DEF TypeOK, databases, limiter, broker
    <2>3. Certain'
        BY <1>1, <1>2, <2>1 DEF Certain, databases
    <2> QED BY <1>1, <2>2, <2>3, Elsewhere, StillCertain DEF CollectorInv, databases, broker
<1> QED BY <1>3, <1>4, <1>5

\* A refresh installs what it read, or fails and leaves all as it was.
LEMMA CollectorInstall ==
    ASSUME CollectorInv,
           InstallBlocked \/ InstallTokens \/ InstallLimits \/ \E c \in Caches : LoadFails(c)
    PROVE  CollectorInv'
<1>1. /\ UNCHANGED <<databases, crashes, request, broker, steady, barred, covered>>
      /\ phase' \in Phases
    <2>1. TypeOK /\ {"blocked", "tokens", "limits"} \subseteq Caches
        BY DEF CollectorInv, Caches
    <2> QED BY <2>1, NextPhaseType
            DEF InstallBlocked, InstallTokens, InstallLimits, LoadFails, history
<1>2. /\ TypeOK /\ Certain
      /\ snapshot \in [Caches -> {{}} \cup {{s} : s \in SUBSET Projects}]
      /\ enforced \in [Caches -> SUBSET Projects]
      /\ steady \in [Caches -> SUBSET Projects]
      /\ {"blocked", "tokens", "limits"} \subseteq Caches
      /\ \A c \in Caches : \A s \in snapshot[c] : s \subseteq Projects
    <2>1. /\ snapshot \in [Caches -> {{}} \cup {{s} : s \in SUBSET Projects}]
          /\ {"blocked", "tokens", "limits"} \subseteq Caches
        BY DEF CollectorInv, TypeOK, Caches
    <2>2. ASSUME NEW c \in Caches, NEW s \in snapshot[c] PROVE s \subseteq Projects
        <3>1. snapshot[c] = {} \/ \E t \in SUBSET Projects : snapshot[c] = {t}
            BY <2>1
        <3> QED BY <2>2, <3>1
    <2> QED BY <2>1, <2>2 DEF CollectorInv, TypeOK
<1>3. ASSUME NEW c \in Caches,
             snapshot' = [snapshot EXCEPT ![c] = {}],
             enforced' = [enforced EXCEPT ![c] = steady[c]]
      PROVE  \A k \in Caches : enforced[k] \subseteq enforced'[k]
    <2>1. \A k \in Caches : enforced[k] \subseteq steady[k]
        BY <1>2 DEF Certain, Caches
    <2> QED BY <1>2, <1>3, <2>1
<1>4. CASE InstallBlocked
    <2>1. /\ snapshot' = [snapshot EXCEPT !["blocked"] = {}]
          /\ enforced' = [enforced EXCEPT !["blocked"] = steady["blocked"]]
          /\ blockedIDs' \in snapshot["blocked"]
          /\ UNCHANGED <<validTokens, projectLimits>>
        BY <1>4 DEF InstallBlocked
    <2>2. TypeOK'
        BY <1>1, <1>2, <2>1 DEF TypeOK, databases, limiter, broker
    <2>3. Certain'
        BY <1>1, <1>2, <2>1 DEF Certain, databases
    <2>4. \A k \in Caches : enforced[k] \subseteq enforced'[k]
        BY <1>2, <1>3, <2>1
    <2> QED BY <1>1, <2>2, <2>3, <2>4, Elsewhere, StillCertain DEF CollectorInv, databases, broker
<1>5. CASE InstallTokens
    <2>1. /\ snapshot' = [snapshot EXCEPT !["tokens"] = {}]
          /\ enforced' = [enforced EXCEPT !["tokens"] = steady["tokens"]]
          /\ validTokens' \in snapshot["tokens"]
          /\ UNCHANGED <<blockedIDs, projectLimits>>
        BY <1>5 DEF InstallTokens
    <2>2. TypeOK'
        BY <1>1, <1>2, <2>1 DEF TypeOK, databases, limiter, broker
    <2>3. Certain'
        BY <1>1, <1>2, <2>1 DEF Certain, databases
    <2>4. \A k \in Caches : enforced[k] \subseteq enforced'[k]
        BY <1>2, <1>3, <2>1
    <2> QED BY <1>1, <2>2, <2>3, <2>4, Elsewhere, StillCertain DEF CollectorInv, databases, broker
<1>6. CASE InstallLimits
    <2>1. PICK s \in snapshot["limits"] : projectLimits' \in [s -> LimitChoices]
        BY <1>6 DEF InstallLimits
    <2>2. /\ snapshot' = [snapshot EXCEPT !["limits"] = {}]
          /\ enforced' = [enforced EXCEPT !["limits"] = steady["limits"]]
          /\ DOMAIN projectLimits' = s /\ DOMAIN projectLimits' \subseteq Projects
          /\ \A p \in DOMAIN projectLimits' : projectLimits'[p] \in LimitChoices
          /\ UNCHANGED <<validTokens, blockedIDs>>
        BY <1>2, <1>6, <2>1 DEF InstallLimits
    <2>3. TypeOK'
        BY <1>1, <1>2, <2>2 DEF TypeOK, databases, limiter, broker
    <2>4. Certain'
        BY <1>1, <1>2, <2>1, <2>2 DEF Certain, databases
    <2>5. \A k \in Caches : enforced[k] \subseteq enforced'[k]
        BY <1>2, <1>3, <2>2
    <2> QED BY <1>1, <2>3, <2>4, <2>5, Elsewhere, StillCertain DEF CollectorInv, databases, broker
<1>7. CASE \E c \in Caches : LoadFails(c)
    <2>1. UNCHANGED <<caches, enforced>>
        BY <1>7 DEF LoadFails, history
    <2>2. TypeOK'
        BY <1>1, <1>2, <2>1 DEF TypeOK, databases, caches, limiter, broker
    <2>3. Certain'
        BY <1>1, <1>2, <2>1 DEF Certain, databases, caches
    <2> QED BY <1>1, <2>1, <2>2, <2>3, Elsewhere, StillCertain DEF CollectorInv, databases, broker
<1> QED BY <1>4, <1>5, <1>6, <1>7

\* The process dies: who is in the gates is told nothing more, and nothing is
\* certain.
LEMMA CollectorCrash == ASSUME CollectorInv, Crash PROVE CollectorInv'
<1>1. /\ UNCHANGED <<databases, accepted, barred, covered>>
      /\ crashes < MaxCrashes /\ crashes' = crashes + 1
      /\ phase' = "down" /\ validTokens' = {} /\ projectLimits' = <<>> /\ blockedIDs' = {}
      /\ stalled' = FALSE
      /\ snapshot' = [c \in Caches |-> {}]
      /\ steady' = [c \in Caches |-> {}]
      /\ enforced' = [c \in Caches |-> {}]
      /\ request' = [r \in Requests |->
                      IF request[r].pc \in {"new", "answered"} THEN request[r]
                      ELSE [request[r] EXCEPT !.pc = "dead"]]
    BY DEF Crash
<1>2. TypeOK
    BY DEF CollectorInv
<1>3. ASSUME NEW r \in Requests
      PROVE  /\ request'[r] \in {NoRequest} \cup Request
             /\ \/ request'[r] = request[r] /\ request[r].pc \in {"new", "answered"}
                \/ /\ request'[r].pc = "dead" /\ request[r] # NoRequest
                   /\ request'[r].kind = request[r].kind
                   /\ request'[r].project = request[r].project
                   /\ request'[r].setting = request[r].setting
                   /\ request'[r].permit = request[r].permit
    <2>1. CASE request[r].pc \in {"new", "answered"}
        <3>1. request'[r] = request[r]
            BY <1>1, <2>1
        <3> QED BY <1>2, <2>1, <3>1 DEF TypeOK, Request
    <2>2. CASE request[r].pc \notin {"new", "answered"}
        <3>1. request[r] \in Request /\ request[r] # NoRequest
            BY <1>2, <2>2, Known
        <3>2. request'[r] = [request[r] EXCEPT !.pc = "dead"]
            BY <1>1, <2>2
        <3> QED BY <3>1, <3>2 DEF Request, Pcs
    <2> QED BY <2>1, <2>2
<1>4. TypeOK'
    <2>1. request' \in [Requests -> {NoRequest} \cup Request]
        BY <1>1, <1>3
    <2>2. crashes' \in 0..MaxCrashes
        BY <1>1, <1>2, CollectorAssumption DEF TypeOK
    <2>3. DOMAIN projectLimits' = {}
        BY <1>1
    <2> QED BY <1>1, <1>2, <2>1, <2>2, <2>3
            DEF TypeOK, Request, databases, limiter, Phases, Caches
<1>5. Answers'
    BY <1>1, <1>3 DEF CollectorInv, Answers, AnswersAreTrue
<1>6. Certain'
    BY <1>1 DEF Certain, Caches
<1>7. BarredStop'
    <2> SUFFICES ASSUME NEW r \in barred
                 PROVE  r \notin ToSet(accepted) /\ request'[r].pc \in {"answered", "dead"}
        BY <1>1 DEF BarredStop
    <2>1. r \in Requests /\ r \notin ToSet(accepted) /\ request[r].pc # "new"
        BY DEF CollectorInv, BarredStop, TypeOK
    <2> QED BY <1>3, <2>1
<1>8. CoveredFind'
    <2> SUFFICES ASSUME NEW r \in covered
                 PROVE  /\ request'[r].pc \in {"answered", "dead"}
                        /\ r \in ToSet(accepted) => request'[r].setting \in LimitChoices
        BY <1>1 DEF CoveredFind, WithSetting
    <2>1. /\ r \in Requests /\ request[r].pc # "new"
          /\ r \in ToSet(accepted) => request[r].setting \in LimitChoices
        BY DEF CollectorInv, CoveredFind, TypeOK
    <2> QED BY <1>3, <2>1
<1>9. Permits'
    <2>1. Counts
        BY <1>1, NoCounts DEF databases
    <2>2. ASSUME NEW x \in Holders'
          PROVE  /\ x \in Holders
                 /\ request'[x].project = request[x].project
                 /\ request'[x].setting = request[x].setting
                 /\ request'[x].permit = request[x].permit
        <3>1. x \in Requests /\ x \in ToSet(accepted)
            BY <1>1, <1>3, <2>2 DEF Holders
        <3> QED BY <1>3, <2>2, <3>1 DEF Holders
    <2> QED BY <2>1, <2>2, PermitsKept
<1>10. FilesOfReleases'
    BY <1>3 DEF FilesOfReleases
<1> QED BY <1>4, <1>5, <1>6, <1>7, <1>8, <1>9, <1>10 DEF CollectorInv

\* An alarm of RabbitMQ, its end, and the start of the process.
LEMMA CollectorStart == ASSUME CollectorInv, Start \/ Stall \/ Resume PROVE CollectorInv'
<1>1. /\ UNCHANGED <<databases, crashes, caches, request, accepted, history>>
      /\ phase' \in Phases /\ stalled' \in BOOLEAN
    BY DEF Start, Stall, Resume, broker, CollectorInv, TypeOK, Phases
<1>2. TypeOK' /\ Certain'
    BY <1>1 DEF CollectorInv, TypeOK, Certain, databases, limiter, caches, history
<1>3. \A c \in Caches : enforced[c] \subseteq enforced'[c]
    BY <1>1 DEF history
<1> QED BY <1>1, <1>2, <1>3, Elsewhere, StillCertain DEF CollectorInv, databases, history

-----------------------------------------------------------------------------
(* The theorems *)

LEMMA CollectorInit == Init => CollectorInv
<1> SUFFICES ASSUME Init PROVE CollectorInv
    OBVIOUS
<1>1. accepted = <<>> /\ ToSet(accepted) = {}
    BY DEF Init, Queue!Init, ToSet
<1>2. TypeOK
    <2>1. DOMAIN projectLimits = {} /\ 0 \in 0..MaxChanges /\ 0 \in 0..MaxCrashes /\ 0 \in 0..MaxRepeats
        BY CollectorAssumption DEF Init
    <2>2. /\ snapshot \in [Caches -> {{}} \cup {{s} : s \in SUBSET Projects}]
          /\ steady \in [Caches -> SUBSET Projects] /\ enforced \in [Caches -> SUBSET Projects]
          /\ rateLimits \in [Projects -> Window] /\ windows \in [Projects -> Nat]
        BY DEF Init, NoWindow, Window
    <2>3. request \in [Requests -> {NoRequest}]
        BY DEF Init
    <2>4. /\ registered \subseteq Projects /\ banned \subseteq Projects
          /\ validTokens = {} /\ blockedIDs = {} /\ barred = {} /\ covered = {}
          /\ changes = 0 /\ crashes = 0 /\ repeats = 0 /\ stalled = FALSE /\ phase = "down"
        BY DEF Init
    <2>5. accepted \in Seq(Requests)
        BY <1>1
    <2>6. \A p \in DOMAIN projectLimits : projectLimits[p] \in LimitChoices
        BY <2>1
    <2> QED BY <2>1, <2>2, <2>3, <2>4, <2>5, <2>6 DEF TypeOK, Phases
<1>3. \A r \in Requests : request[r] = NoRequest /\ request[r].pc = "new"
    BY DEF Init, NoRequest
<1>4. Answers /\ Certain /\ BarredStop /\ CoveredFind /\ FilesOfReleases
    BY <1>1, <1>3 DEF Init, Answers, AnswersAreTrue, Certain, BarredStop, CoveredFind,
                      FilesOfReleases, Caches
<1>5. Permits
    <2>1. Holders = {}
        BY <1>1, <1>3 DEF Holders
    <2>2. \A p \in Projects : rateLimits[p].count = 0
        BY DEF Init, NoWindow
    <2> QED BY <2>1, <2>2 DEF Permits
<1> QED BY <1>2, <1>4, <1>5 DEF CollectorInv

LEMMA CollectorStep == CollectorInv /\ [Next]_vars => CollectorInv'
<1> SUFFICES ASSUME CollectorInv, [Next]_vars PROVE CollectorInv'
    OBVIOUS
<1>1. ASSUME NEW p \in Projects, Ban(p) \/ Unban(p) \/ Register(p) \/ Unregister(p)
      PROVE  CollectorInv'
    BY <1>1, CollectorDatabases
<1>2. CASE Refresh
    BY <1>2, CollectorRead, CollectorInstall DEF Refresh
<1>3. CASE \E c \in Caches : LoadFails(c)
    BY <1>3, CollectorInstall
<1>4. ASSUME NEW r \in Requests, NEW kind \in Kinds, NEW p \in Projects, Arrive(r, kind, p)
      PROVE  CollectorInv'
    BY <1>4, CollectorArrive
<1>5. ASSUME NEW r \in Requests, Handle(r) PROVE CollectorInv'
    BY <1>5, CollectorGate, CollectorLastGate, CollectorSend, CollectorReply DEF Handle, Proceed
<1>6. CASE Stall \/ Resume \/ Start \/ Crash
    BY <1>6, CollectorStart, CollectorCrash
<1>7. CASE UNCHANGED vars
    <2>1. UNCHANGED <<databases, phase, crashes, caches, request, broker, history>>
        BY <1>7 DEF vars
    <2>2. TypeOK' /\ Certain'
        BY <2>1 DEF CollectorInv, TypeOK, Certain, databases, limiter, caches, broker, history
    <2>3. \A c \in Caches : enforced[c] \subseteq enforced'[c]
        BY <2>1 DEF history
    <2> QED BY <2>1, <2>2, <2>3, Elsewhere, StillCertain DEF CollectorInv, databases, broker, history
<1> QED BY <1>1, <1>2, <1>3, <1>4, <1>5, <1>6, <1>7 DEF Next

LEMMA CollectorInvariant == Spec => []CollectorInv
BY CollectorInit, CollectorStep, PTL DEF Spec

\* Every variable keeps its type.
THEOREM Types == Spec => []TypeOK
BY CollectorInvariant, PTL DEF CollectorInv

\* What a client is told is what happened: of any number of requests that run
\* at once while caches are replaced and the process dies, one is answered 200
\* just when the broker took its message.
THEOREM Truth == Spec => []AnswersAreTrue
<1>1. CollectorInv => AnswersAreTrue
    BY DEF CollectorInv, Answers
<1> QED BY CollectorInvariant, <1>1, PTL

\* A request that comes when its project is refused for certain is not accepted,
\* however refreshes, failed loads and changes of the databases come between.
THEOREM Refusal == Spec => []BarredRefused
<1>1. CollectorInv => BarredRefused
    BY DEF CollectorInv, BarredStop, BarredRefused
<1> QED BY CollectorInvariant, <1>1, PTL

\* A request that comes when its project is certain to have limits is not accepted
\* without them.
THEOREM LimitsApply == Spec => []KnownLimitsApply
<1>1. CollectorInv => KnownLimitsApply
    BY DEF CollectorInv, CoveredFind, KnownLimitsApply
<1> QED BY CollectorInvariant, <1>1, PTL

\* An event accepted under a limit has a place of its own in a window, within its own
\* limit or the first, whatever the limits and their periods, whatever calls run at
\* once and fail or are repeated, and whatever the order of their clock readings.
THEOREM Permit == Spec => []OnePermitEach
<1>1. ASSUME CollectorInv, NEW r \in Limited PROVE r \in Holders /\ r \in Requests
    <2>1. accepted \in Seq(Requests)
        BY <1>1 DEF CollectorInv, TypeOK
    <2> QED BY <1>1, <2>1, SetOfSeq DEF Limited, Holders
<1>2. ASSUME CollectorInv, NEW r \in Limited
      PROVE  /\ request[r].permit[1] \in 1..windows[request[r].project]
             /\ request[r].permit[2] = 1 \/ request[r].permit[2] <= request[r].setting.limit
             /\ \A q \in Limited \ {r} :
                   request[q].project = request[r].project =>
                       request[q].permit # request[r].permit
    <2>1. r \in Holders /\ r \in Requests /\ PlaceTaken(r)
        BY <1>1, <1>2 DEF CollectorInv, Permits
    <2>2. request[r].pc # "new"
        BY <1>2, <2>1 DEF Limited, CollectorInv, Answers, AnswersAreTrue
    <2>3. request[r].project \in Projects /\ request[r].permit \in Nat \X Nat
        BY <1>2, <2>1, <2>2, Known DEF CollectorInv
    <2>4. windows[request[r].project] \in Nat /\ request[r].permit[1] \in Nat
        BY <1>2, <2>3 DEF CollectorInv, TypeOK
    <2>5. \A q \in Limited \ {r} : q \in Holders
        BY <1>1, <1>2
    <2> QED BY <1>2, <2>1, <2>4, <2>5 DEF PlaceTaken, CollectorInv, Permits
<1>3. CollectorInv => OnePermitEach
    BY <1>2 DEF OnePermitEach
<1> QED BY CollectorInvariant, <1>3, PTL
=============================================================================
