---------------------------- MODULE MCBlacklist ----------------------------
(* Blacklist for TLC: the values of its instances. *)
EXTENDS Blacklist

CONSTANTS ip1, ip2

\* One address that can reach a threshold of 2, and one that cannot.
TwoAndOne == [ip \in {ip1, ip2} |-> IF ip = ip1 THEN 2 ELSE 1]

Three == [ip \in {ip1} |-> 3]
============================================================================
