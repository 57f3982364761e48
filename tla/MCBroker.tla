------------------------------ MODULE MCBroker ------------------------------
(* Broker for TLC: the model values of its instances. *)
EXTENDS Broker

CONSTANTS m1, m2, m3, m4
=============================================================================
