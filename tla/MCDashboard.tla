---------------------------- MODULE MCDashboard ----------------------------
(* Instance for TLC: two servers and one policy, and tables of three runs. *)
EXTENDS Dashboard, TLC

CONSTANTS p1, p2, a, r1, r2, r3

MCPolicies == <<a>>
MCTimes    == {4, 7}
MCTogether == {{"crash", "restart"}, {"trouble", "save"}, {"crash", "trouble"}, {"crash", "save"}}
=============================================================================
