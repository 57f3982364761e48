----------------------------- MODULE MCMetrics -----------------------------
(* Metrics for TLC. *)
EXTENDS Metrics

CONSTANTS h1, h2

\* Two granularities, one bucket of the second to two of the first.
TwoLengths == <<1, 2>>
============================================================================
