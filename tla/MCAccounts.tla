----------------------------- MODULE MCAccounts -----------------------------
(* Instances of Accounts for TLC. *)
EXTENDS Accounts

CONSTANTS a, b, w1, w2, p1, p2, t1, t2

Set(n, t) == [limit |-> n, period |-> t]

\* Every plan has both fields; a workspace sets none or one, a project one.
PlanLimits == {Set(1, 10)}
WorkspaceLimits == {Set(0, 0), Set(3, 0), Set(0, 30)}
ProjectLimits == {Set(5, 0), Set(0, 50)}
NoLimits == {Set(0, 0)}
=============================================================================
