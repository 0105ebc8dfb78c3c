---------------------------- MODULE MCOrderFeed -----------------------------
(* Instances of OrderFeed for TLC: the calls of a task.                    *)
EXTENDS OrderFeed, TLC

CONSTANTS c1, c2

TwoCalls == {c1, c2}
=============================================================================
