----------------------------- MODULE MCDecisions ----------------------------
(* Instances of Decisions for TLC: one value in every interval that the    *)
(* thresholds of the strategies separate.                                  *)
EXTENDS Decisions

SomeMomenta == {-60, 20, 60}
SomeVolatilities == {10, 18, 30}
SomePressures == {-30, 10, 22}
SomeGains == {-4, -2, -1, 0, 3}
NoneToTooMany == {0, 4, 5, 7}
Funded == {TRUE}
=============================================================================
