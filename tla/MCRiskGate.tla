----------------------------- MODULE MCRiskGate -----------------------------
(* Instances of RiskGate for TLC: a 5% daily limit and a 10% drawdown on   *)
(* balances of about 100, so that one loss of 5 meets the daily limit at   *)
(* 100 and not at 200, and 90 is a drawdown from 100.                      *)
EXTENDS RiskGate

SomeTotals == {0, 80, 100, 200}
SomePnls == {-5, -3, 4}
=============================================================================
