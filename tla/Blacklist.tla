----------------------------- MODULE Blacklist -----------------------------
(***************************************************************************)
(* Requests counted by IP address, the blacklist that turns some away, and *)
(* the periodic update that reloads it and alerts about busy addresses:    *)
(* handler and UpdateBlacklist of pkg/server/server.go with CheckBlacklist,*)
(* IncrementIP, LoadBlacklist and updateBlacklist of pkg/redis/client.go.  *)
(*                                                                         *)
(* The update talks to Redis in separate commands; handlers count requests *)
(* in between.  One collector runs against this Redis.  Redis keeps the    *)
(* fields of a hash in insertion order only until there are too many, or   *)
(* a long one; then the order is anyone's guess at every reading.          *)
(***************************************************************************)
EXTENDS Integers, SequencesExt

CONSTANTS
    IPs,
    BlacklistThreshold,

    Failures,      \* commands to Redis and alerts may fail
    MaxRequests,   \* bounds: address -> requests from it
    MaxEdits,      \* bound: edits of the blacklist
    MaxRepeats     \* bound: commands that the client library sends once more

ASSUME BlacklistAssumption ==
    /\ BlacklistThreshold \in Nat \ {0} /\ MaxRequests \in [IPs -> Nat]
    /\ MaxEdits \in Nat /\ MaxRepeats \in Nat
    /\ Failures \in BOOLEAN

VARIABLES
    blacklist,      \* Redis: the set of blacklisted addresses, edited by hand
    edits,
    currentPeriod,  \* Redis: the hash of the period, a sequence of fields and values
    scattered,      \* Redis does not keep the hash in this order any more
    allIPs,         \* Redis: the hash of all requests so far
    blacklistIPs,   \* the collector's copy of the set
    arrived,        \* requests made, by address
    between,        \* handlers between the two HINCRBY of IncrementIP, by address
    repeats,        \* commands that Redis executed twice
    update,         \* where UpdateBlacklist is
    ipAddrs,        \* its local: the fields it read
    requests,       \* its local: the values it read
    due,            \* history: addresses at the threshold when it read the fields
    owners,         \* history: the fields that the values it read belong to
    inOrder,        \* history: they came in the order of the hash
    reported,       \* history: requests that were in reports, by address
    alerted         \* history: addresses there was an alert about

period == <<currentPeriod, scattered>>
redis == <<blacklist, edits, period, allIPs>>
locals == <<ipAddrs, requests>>
readings == <<due, owners, inOrder>>
history == <<readings, reported, alerted>>
vars == <<redis, blacklistIPs, arrived, between, repeats, update, locals, history>>

Hash == Seq([ip : IPs, count : Nat])

Fields(h) == [i \in DOMAIN h |-> h[i].ip]
Values(h) == [i \in DOMAIN h |-> h[i].count]

\* The value beside address ip, 0 when ip is not there.  No address is there
\* twice.
ValueOf(ip, fields, values) ==
    LET at == {i \in DOMAIN fields : fields[i] = ip}
    IN  IF at = {} THEN 0 ELSE values[CHOOSE i \in at : TRUE]

Count(h, ip) == ValueOf(ip, Fields(h), Values(h))

Rearrangements(h) ==
    {[i \in DOMAIN h |-> h[place[i]]] : place \in Bijection(DOMAIN h, DOMAIN h)}

\* The orders in which HKEYS and HVALS may give the hash.
Orders == {read \in Rearrangements(currentPeriod) : scattered \/ read = currentPeriod}

Incremented(h, ip) ==
    IF \E i \in DOMAIN h : h[i].ip = ip
    THEN [i \in DOMAIN h |-> IF h[i].ip = ip THEN [h[i] EXCEPT !.count = @ + 1] ELSE h[i]]
    ELSE Append(h, [ip |-> ip, count |-> 1])

\* HINCRBY currentPeriod ip 1.  A new field may be the one that is too many or
\* too long.
CountInPeriod(ip) ==
    /\ currentPeriod' = Incremented(currentPeriod, ip)
    /\ \/ UNCHANGED scattered
       \/ Len(currentPeriod') > Len(currentPeriod) /\ scattered' = TRUE

\* DEL currentPeriod
Drop == currentPeriod' = <<>> /\ scattered' = FALSE

\* A command is executed twice.
Repeated == repeats < MaxRepeats /\ repeats' = repeats + 1

Init ==
    /\ blacklist = {} /\ edits = 0
    /\ currentPeriod = <<>> /\ scattered = FALSE
    /\ allIPs = [ip \in IPs |-> 0]
    /\ blacklistIPs = {}
    /\ arrived = [ip \in IPs |-> 0]
    /\ between = [ip \in IPs |-> 0]
    /\ repeats = 0
    /\ update = "idle"
    /\ ipAddrs = <<>> /\ requests = <<>>
    /\ due = {} /\ owners = <<>> /\ inOrder = TRUE
    /\ reported = [ip \in IPs |-> 0] /\ alerted = {}

\* Somebody puts an address on the list or takes it off.
Edit(ip) ==
    /\ edits < MaxEdits
    /\ edits' = edits + 1
    /\ blacklist' = IF ip \in blacklist THEN blacklist \ {ip} ELSE blacklist \cup {ip}
    /\ UNCHANGED <<period, allIPs, blacklistIPs, arrived, between, repeats, update, locals,
                   history>>

-----------------------------------------------------------------------------
(* A request: CheckBlacklist, then the two commands of IncrementIP *)

Arrive(ip) ==
    /\ arrived[ip] < MaxRequests[ip]
    /\ arrived' = [arrived EXCEPT ![ip] = @ + 1]

\* 429, and nothing is counted.
TurnedAway(ip) ==
    /\ ip \in blacklistIPs
    /\ Arrive(ip)
    /\ UNCHANGED <<redis, blacklistIPs, between, repeats, update, locals, history>>

Counted(ip) ==
    /\ ip \notin blacklistIPs
    /\ Arrive(ip)
    /\ CountInPeriod(ip)
    /\ between' = [between EXCEPT ![ip] = @ + 1]
    /\ UNCHANGED <<blacklist, edits, allIPs, blacklistIPs, repeats, update, locals,
                   history>>

\* The first command fails: the error is logged and the request is handled.
NotCounted(ip) ==
    /\ Failures
    /\ ip \notin blacklistIPs
    /\ Arrive(ip)
    /\ UNCHANGED <<redis, blacklistIPs, between, repeats, update, locals, history>>

\* The client library misses the reply to the first or the second command and
\* sends it once more.
CountedAgain(ip) ==
    /\ between[ip] > 0
    /\ Repeated
    /\ \/ CountInPeriod(ip) /\ UNCHANGED allIPs
       \/ allIPs' = [allIPs EXCEPT ![ip] = @ + 1] /\ UNCHANGED period
    /\ UNCHANGED <<blacklist, edits, blacklistIPs, arrived, between, update, locals,
                   history>>

\* Mutant: the second command is sent again although it succeeded.
CountedInAllAgain(ip) ==
    /\ between[ip] > 0
    /\ between' = between \/ between' = [between EXCEPT ![ip] = @ - 1]
    /\ allIPs' = [allIPs EXCEPT ![ip] = @ + 1]
    /\ UNCHANGED <<blacklist, edits, period, blacklistIPs, arrived, repeats, update, locals,
                   history>>

\* The second command succeeds or fails.
CountedInAll(ip) ==
    /\ between[ip] > 0
    /\ between' = [between EXCEPT ![ip] = @ - 1]
    /\ \/ allIPs' = [allIPs EXCEPT ![ip] = @ + 1]
       \/ Failures /\ UNCHANGED allIPs
    /\ UNCHANGED <<blacklist, edits, period, blacklistIPs, arrived, repeats, update, locals,
                   history>>

-----------------------------------------------------------------------------
(* UpdateBlacklist *)

Forget == due' = {} /\ owners' = <<>> /\ inOrder' = TRUE

\* It returns, and its locals are gone.
Return ==
    /\ update' = "idle"
    /\ ipAddrs' = <<>> /\ requests' = <<>>
    /\ Forget

\* HKEYS
ReadKeys ==
    /\ update = "idle"
    /\ \E read \in Orders : ipAddrs' = Fields(read)
    /\ due' = {ip \in IPs : Count(currentPeriod, ip) >= BlacklistThreshold}
    /\ update' = "keys"
    /\ UNCHANGED <<redis, blacklistIPs, arrived, between, repeats, requests, owners, inOrder,
                   reported, alerted>>

\* Mutants: the hash is deleted before its values are read; the list is left alone
\* when nothing was counted.
ReadSetDropsFirst ==
    /\ update = "keys"
    /\ blacklistIPs' = blacklist
    /\ IF ipAddrs = <<>> THEN Return /\ UNCHANGED period
       ELSE update' = "set" /\ Drop /\ UNCHANGED <<locals, readings>>
    /\ UNCHANGED <<blacklist, edits, allIPs, arrived, between, repeats, reported, alerted>>

ReadSetIfBusy ==
    /\ update = "keys"
    /\ IF ipAddrs = <<>> THEN Return /\ UNCHANGED blacklistIPs
       ELSE update' = "set" /\ blacklistIPs' = blacklist /\ UNCHANGED <<locals, readings>>
    /\ UNCHANGED <<redis, arrived, between, repeats, reported, alerted>>

\* SMEMBERS, and the new list is installed.
ReadSet ==
    /\ update = "keys"
    /\ blacklistIPs' = blacklist
    /\ IF ipAddrs = <<>> THEN Return
       ELSE update' = "set" /\ UNCHANGED <<locals, readings>>
    /\ UNCHANGED <<redis, arrived, between, repeats, reported, alerted>>

\* HVALS
ReadValues ==
    /\ update = "set"
    /\ \E read \in Orders : requests' = Values(read) /\ owners' = Fields(read)
    /\ inOrder' = ~scattered
    /\ update' = "values"
    /\ UNCHANGED <<redis, blacklistIPs, arrived, between, repeats, ipAddrs, due, reported,
                   alerted>>

\* The values that were read become the report.
Report ==
    /\ reported' = [ip \in IPs |-> reported[ip] + ValueOf(ip, owners, requests)]
    /\ Forget

\* Mutant: an error of DEL is ignored.
DeleteOrNot ==
    /\ update = "values"
    /\ Drop \/ (Failures /\ UNCHANGED period)
    /\ update' = "notify" /\ Report
    /\ UNCHANGED <<blacklist, edits, allIPs, blacklistIPs, arrived, between, repeats,
                   locals, alerted>>

\* DEL; its reply may be lost, and then what was read is dropped too, or DEL is
\* sent once more and takes with it what was counted since.
Delete ==
    /\ update = "values"
    /\ Drop
    /\ \/ update' = "notify" /\ Report /\ UNCHANGED <<repeats, locals>>
       \/ Failures /\ Return /\ UNCHANGED <<repeats, reported>>
       \/ Repeated /\ UNCHANGED <<update, locals, readings, reported>>
    /\ UNCHANGED <<blacklist, edits, allIPs, blacklistIPs, arrived, between, alerted>>

\* A command fails.  LoadBlacklist starts again at once, or after three
\* minutes gives up until the next period.
Retry ==
    /\ Failures
    /\ update \in {"keys", "set", "values"}
    /\ Return
    /\ UNCHANGED <<redis, blacklistIPs, arrived, between, repeats, reported, alerted>>

\* The loop over the addresses: the next one has too many requests beside it,
\* and its alert is under way.
Alerting ==
    update = "notify" /\ ipAddrs # <<>> /\ Head(requests) >= BlacklistThreshold

NextAddress ==
    /\ ipAddrs' = Tail(ipAddrs)
    /\ requests' = Tail(requests)
    /\ UNCHANGED <<update, readings>>

\* A turn without an alert.
Skip ==
    /\ update = "notify" /\ ipAddrs # <<>> /\ ~Alerting
    /\ NextAddress
    /\ UNCHANGED <<redis, blacklistIPs, arrived, between, repeats, reported, alerted>>

\* The alert is sent, or cannot be, and then the loop ends early.  The client has
\* no timeout: where nobody answers it, neither ever happens.
Notify ==
    /\ Alerting
    /\ \/ NextAddress /\ alerted' = alerted \cup {Head(ipAddrs)}
       \/ Failures /\ Return /\ UNCHANGED alerted
    /\ UNCHANGED <<redis, blacklistIPs, arrived, between, repeats, reported>>

Finish ==
    /\ update = "notify"
    /\ ipAddrs = <<>>
    /\ Return
    /\ UNCHANGED <<redis, blacklistIPs, arrived, between, repeats, reported, alerted>>

UpdateBlacklist == ReadKeys \/ ReadSet \/ ReadValues \/ Delete \/ Skip \/ Notify \/ Finish

Next ==
    \/ \E ip \in IPs : Edit(ip) \/ TurnedAway(ip) \/ Counted(ip) \/ NotCounted(ip)
                       \/ CountedInAll(ip) \/ CountedAgain(ip)
    \/ UpdateBlacklist \/ Retry

Spec == Init /\ [][Next]_vars

\* The update runs again and again, and its commands do not fail for ever.
\* Nothing is assumed of alerts.
FairSpec ==
    /\ Spec
    /\ WF_vars(ReadKeys) /\ SF_vars(ReadSet) /\ SF_vars(ReadValues)
    /\ SF_vars(Delete) /\ WF_vars(Skip) /\ WF_vars(Finish)

-----------------------------------------------------------------------------
(* Properties *)

\* Every variable has its type.
TypeOK ==
    /\ blacklist \subseteq IPs /\ blacklistIPs \subseteq IPs
    /\ edits \in 0..MaxEdits
    /\ currentPeriod \in Hash /\ scattered \in BOOLEAN
    /\ repeats \in 0..MaxRepeats
    /\ arrived \in [IPs -> Nat] /\ between \in [IPs -> Nat] /\ allIPs \in [IPs -> Nat]
    /\ \A ip \in IPs :
          /\ arrived[ip] \in 0..MaxRequests[ip]
          /\ between[ip] \in 0..arrived[ip]
          /\ allIPs[ip] \in 0..(arrived[ip] - between[ip] + repeats)
    /\ update \in {"idle", "keys", "set", "values", "notify"}
    /\ ipAddrs \in Seq(IPs) /\ requests \in Seq(Nat) /\ owners \in Seq(IPs)
    /\ inOrder \in BOOLEAN /\ reported \in [IPs -> Nat]
    /\ due \subseteq IPs /\ alerted \subseteq IPs

\* The addresses and the values were read by two commands with requests counted
\* in between.  Still there is a value for every address (the loop indexes the
\* one by the other).  Where Redis had kept the order of the hash, every address
\* at the threshold when the addresses were read is among them with a count that
\* is at the threshold; where it had not, that need not be so.
ReportMatches ==
    /\ update \in {"values", "notify"} => Len(ipAddrs) <= Len(requests)
    /\ (update = "values" /\ inOrder) =>
          \A ip \in due : \E i \in DOMAIN ipAddrs :
              ipAddrs[i] = ip /\ requests[i] >= BlacklistThreshold

\* A request is in one report at most: whatever fails, and is tried again, between
\* reading the counts and deleting them, no report counts what an earlier one did.
\* (A report counts a request for the address it came from, whichever address
\* its value is printed beside.)
ReportedOnce == \A ip \in IPs : reported[ip] <= arrived[ip] + repeats

\* An address the set holds is turned away once a reload has gone by, and is
\* let in again once it is off the set, for as long as the set stays as it is -
\* unless an alert is never answered, for it holds up every later reload.
ReloadTakesEffect ==
    <>[](blacklistIPs = blacklist) \/ <>[]Alerting

\* README.md, NOTIFY_URL: "Address to send alerts in case of too many
\* requests".  An address that reaches the threshold in a period is in an alert,
\* unless an earlier alert is never answered.
BusyIsAlerted ==
    \A ip \in IPs :
        \/ Count(currentPeriod, ip) >= BlacklistThreshold ~> ip \in alerted
        \/ <>[]Alerting
=============================================================================
