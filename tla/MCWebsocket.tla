---------------------------- MODULE MCWebsocket ----------------------------
(* Websocket for TLC. *)
EXTENDS Websocket

CONSTANTS c1, c2

\* One client writes ahead, the other writes one message.
TwoAndOne == [c \in {c1, c2} |-> IF c = c1 THEN 2 ELSE 1]
============================================================================
