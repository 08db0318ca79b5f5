--------------------------- MODULE MCEventStream ---------------------------
(***************************************************************************)
(* Small instances of EventStream.                                         *)
(***************************************************************************)
EXTENDS EventStream

CONSTANTS p1, p2, c1

TwoPublishers == {p1, p2}
OneClient     == {c1}

Disturbed   == {{"append", "blip"}, {"query", "blip"}, {"elsewhere", "blip"}, {"blip", "crash"}}
Undisturbed == {}
=============================================================================
