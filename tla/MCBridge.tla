------------------------------ MODULE MCBridge ------------------------------
(* Small instances of Bridge for TLC. *)
EXTENDS Bridge, TLC

CONSTANTS k1, k2

TwoCalls == {k1, k2}
OneCall  == {k1}
None     == {}

Disturbed == {"exit", "spawn", "shutdown"}
=============================================================================
