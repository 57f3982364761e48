---------------------------- MODULE MCRateLimit ----------------------------
(* Instances of RateLimit for TLC. *)
EXTENDS RateLimit, TLC

CONSTANTS p1, p2, c1, c2

\* A project whose limit is raised and lowered while calls are in flight, and one
\* that has no limit.
ChangingSettings ==
    p1 :> {[limit |-> 1, period |-> 2], [limit |-> 2, period |-> 2]}
    @@ p2 :> {[limit |-> 0, period |-> 2]}

CallSymmetry == Permutations(Calls)
=============================================================================
