--------------------------- MODULE MCTradingTick ---------------------------
(* Instances of TradingTick for TLC.                                       *)
EXTENDS TradingTick

BothSides == {"BUY", "SELL"}
Long == {"BUY"}
AllEvents == {"bull", "bear", "shock", "weak"}
Closers == {"bear", "shock"}

NoTrouble == {}
NoListing == {"unlisted"}
=============================================================================
