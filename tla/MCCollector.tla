---------------------------- MODULE MCCollector ----------------------------
(* Instances of Collector for TLC. *)
EXTENDS Collector, TLC

CONSTANTS p1, p2, r1, r2, r3

\* A limit of one event in the period.
OneEvent == {[limit |-> 1, period |-> 60]}

\* Limits that differ between refreshes: two events in two seconds, or a limit without a
\* period, which Accounts!Resolve can give.
WithAndWithoutPeriod == {[limit |-> 2, period |-> 2], [limit |-> 1, period |-> 0]}

RequestSymmetry == Permutations(Requests)
============================================================================
