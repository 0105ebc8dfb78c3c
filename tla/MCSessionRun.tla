---------------------------- MODULE MCSessionRun ----------------------------
(* Instances of SessionRun for TLC: two sessions that share the cache.     *)
EXTENDS SessionRun

CONSTANTS s1, s2

TwoSessions == {s1, s2}
=============================================================================
