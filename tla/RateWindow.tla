----------------------------- MODULE RateWindow -----------------------------
(***************************************************************************)
(* The Lua script of UpdateRateLimit (pkg/redis/client.go): what one       *)
(* execution does to a project's record "timestamp:count" in the hash      *)
(* "rate_limits", and what it answers.  now is the clock reading, s the    *)
(* limits that came with the call.                                         *)
(***************************************************************************)
EXTENDS Integers

Setting == [limit : Int, period : Int]   \* rateLimitSettings: N and T

Window == [timestamp : Int, count : Nat]

\* No field in the hash.  A stored window has counted at least one event.
NoWindow == [timestamp |-> 0, count |-> 0]

\* Mutant: a reading older than the window restarts it.
OpensOnOldReading(w, now, s) ==
    w.count = 0 \/ now - w.timestamp >= s.period \/ now < w.timestamp

\* The two branches that write now .. ':1': no record yet, or a new time window.
Opens(w, now, s) == w.count = 0 \/ now - w.timestamp >= s.period

\* Mutant: count is compared before it is incremented.
AllowsOneMore(w, now, s) == Opens(w, now, s) \/ w.count <= s.limit

\* The script's answer is 1.
Allows(w, now, s) == Opens(w, now, s) \/ w.count + 1 <= s.limit

\* Mutants: a new window keeps the old timestamp, or the old count.
UpdatedOldTimestamp(w, now, s) ==
    IF w.count = 0 THEN [timestamp |-> now, count |-> 1]
    ELSE IF Opens(w, now, s) THEN [w EXCEPT !.count = 1]
    ELSE IF Allows(w, now, s) THEN [w EXCEPT !.count = @ + 1]
    ELSE w

UpdatedOldCount(w, now, s) ==
    IF Opens(w, now, s) THEN [timestamp |-> now, count |-> w.count + 1]
    ELSE IF Allows(w, now, s) THEN [w EXCEPT !.count = @ + 1]
    ELSE w

\* What the script leaves in the hash.
Updated(w, now, s) ==
    IF Opens(w, now, s) THEN [timestamp |-> now, count |-> 1]
    ELSE IF Allows(w, now, s) THEN [w EXCEPT !.count = @ + 1]
    ELSE w
=============================================================================
