------------------------- MODULE TradingTickProofs -------------------------
(***************************************************************************)
(* What holds of TradingTick for every size, limit, market and trouble:    *)
(* its types, the bound on open orders, and that a position reaches the    *)
(* row whole and leaves it only with its trade; and when nothing goes      *)
(* wrong, the cap of the ladder and that the row is what the broker        *)
(* executed.                                                               *)
(***************************************************************************)
EXTENDS TradingTick, TLAPS

-----------------------------------------------------------------------------
(* The operators the actions are built from                                *)

LEMMA TxTyped ==
  ASSUME NEW l \in Positions, NEW p \in Positions, NEW n \in Int, NEW b \in BOOLEAN
  PROVE  Tx(l, p, n, b) \in Transactions
BY DEF Tx, Transactions

LEMMA OrderTyped ==
  ASSUME NEW side \in PositionSides, NEW q \in Nat, NEW n \in 0..NumLevels
  PROVE  Order(side, q, n) \in Orders
BY DEF Order, Orders

LEMMA Fields ==
  /\ \A l, p, n, b : /\ Tx(l, p, n, b).loaded = l /\ Tx(l, p, n, b).object = p
                      /\ Tx(l, p, n, b).net = n /\ Tx(l, p, n, b).sent = b
  /\ \A side, q, n : /\ Order(side, q, n).side = side /\ Order(side, q, n).qty = q
                      /\ Order(side, q, n).n = n
  /\ \A side, q : Position(side, q).side = side /\ Position(side, q).qty = q
BY DEF Tx, Order, Position

LEMMA PositionTyped ==
  ASSUME NEW side \in PositionSides, NEW q \in Nat
  PROVE  Position(side, q) \in Positions
BY DEF Position, Positions

LEMMA LadderTyped ==
  ASSUME NEW level \in 0..MaxLevels, NEW side \in PositionSides
  PROVE  Ladder(level, side) \in Ladders
BY DEF Ladder, Ladders

LEMMA FreshTyped ==
  /\ NoPosition \in Positions /\ NoLadder \in Ladders
  /\ NoTx \in Transactions /\ NoOrder \in Orders
<1>1. NoPosition \in Positions
  BY PositionTyped DEF NoPosition, PositionSides
<1>2. NoLadder \in Ladders
  BY LadderTyped DEF NoLadder, PositionSides, MaxLevels
<1>3. NoTx \in Transactions
  BY <1>1 DEF NoTx, Tx, Transactions
<1>4. NoOrder \in Orders
  BY OrderTyped DEF NoOrder, PositionSides, NumLevels
<1> QED BY <1>1, <1>2, <1>3, <1>4

LEMMA SharesNat == \A q \in Nat : Shares(q) \in Nat
BY DEF Shares

LEMMA WorthInt == \A p \in Positions : Worth(p) \in Int /\ Quantity(p) \in Int
BY SharesNat DEF Worth, Quantity, Signed, Positions

LEMMA LevelSizeNat == Base \in Nat /\ \A level \in Nat : LevelSize(level) \in Nat
BY SizesAssumption DEF LevelSize

LEMMA WrittenTyped ==
  ASSUME row \in Positions, NEW t \in Transactions
  PROVE  Written(t) \in Positions
<1>1. t.object \in Positions
  BY DEF Transactions
<1> QED BY <1>1, PositionTyped DEF Written, Positions

LEMMA ClosingTyped ==
  ASSUME NEW t \in Transactions, NEW answer
  PROVE  ClosingTx(t, answer) \in Transactions
<1>1. t.loaded \in Positions /\ t.object \in Positions /\ t.net \in Int /\ t.sent \in BOOLEAN
  BY DEF Transactions
<1>2. Remains(t.object, answer) \in Positions
  BY <1>1, FreshTyped DEF Remains
<1>3. (IF Failed(answer) THEN t.net ELSE t.net - Quantity(t.object)) \in Int
  BY <1>1, WorthInt
<1>4. (t.sent \/ answer \in {"accepted", "twice"}) \in BOOLEAN
  OBVIOUS
<1> QED BY <1>1, <1>2, <1>3, <1>4, TxTyped DEF ClosingTx

LEMMA CloseAnsweredTyped ==
  ASSUME exposure \in Int, NEW t \in Transactions, NEW answer, CloseAnswered(t, answer)
  PROVE  exposure' \in Int
<1>1. Worth(t.object) \in Int
  BY WorthInt DEF Transactions
<1>2. Executions(answer) \in {0, 1, 2}
  BY DEF Executions
<1>3. Executions(answer) * Worth(t.object) \in Int
  BY <1>1, <1>2
<1> QED BY <1>1, <1>3 DEF CloseAnswered

LEMMA OrderWorthInt == ASSUME NEW s \in Orders PROVE OrderWorth(s) \in Int
BY SharesNat DEF OrderWorth, Counted, Signed, Orders

LEMMA EnteringTyped ==
  ASSUME TypeOK
  PROVE  EnteringTx(signal) \in Transactions
<1>1. /\ tx.loaded \in Positions /\ tx.object \in Positions /\ tx.net \in Int
      /\ signal.side \in PositionSides /\ signal.qty \in Nat
  BY DEF TypeOK, Transactions, Orders
<1>2. tx.object.qty \in Nat
  BY <1>1 DEF Positions
<1>3. Entered(tx.object, signal) \in Positions
  BY <1>1, <1>2, PositionTyped DEF Entered
<1>4. tx.net + Counted(Signed(signal.side, signal.qty)) \in Int
  BY <1>1 DEF Counted, Signed
<1> QED BY <1>1, <1>3, <1>4, TxTyped DEF EnteringTx

LEMMA SignalDoneTyped ==
  ASSUME TypeOK, pc = "placing", SignalDone
  PROVE  /\ signal' \in Orders /\ signal'.side = signal.side /\ signal'.qty = signal.qty
         /\ pc' \in {"placing", "committing"} /\ (pc' = "placing" => signal'.n > 0)
<1>1. signal.side \in PositionSides /\ signal.qty \in Nat /\ signal.n \in 1..NumLevels
  BY DEF TypeOK, Orders
<1>2. signal.n - 1 \in 0..NumLevels
  BY <1>1 DEF NumLevels
<1>3. signal' \in Orders
  BY <1>1, <1>2, OrderTyped DEF SignalDone
<1>4. signal'.side = signal.side /\ signal'.qty = signal.qty /\ signal'.n = signal.n - 1
  BY DEF SignalDone, Order
<1> QED BY <1>1, <1>3, <1>4 DEF SignalDone, NumLevels

LEMMA SwitchTyped ==
  ASSUME TypeOK, NEW new, new \in StrategyNames, SwitchTo(new)
  PROVE  /\ strategy' \in StrategyNames /\ ladder' \in Ladders
         /\ open' \in Nat /\ open' <= open /\ pc' = "selected"
<1>1. open' \in Nat /\ open' <= open
  BY DEF TypeOK, SwitchTo, OrdersLeft
<1>2. ladder' \in Ladders
  BY FreshTyped DEF TypeOK, SwitchTo
<1> QED BY <1>1, <1>2 DEF SwitchTo

LEMMA SelectedTyped == \A m \in Markets : Selected(m) \in StrategyNames
BY DEF Markets, Selected, StrategyNames
-----------------------------------------------------------------------------
(* The types, one step per action                                          *)

LEMMA RowTx == row \in Positions => Tx(row, row, 0, FALSE) \in Transactions
BY DEF Tx, Transactions

LEMMA Fresh ==
  /\ "hold" \in StrategyNames /\ "hold" \in Markets
  /\ (TickOver => tx' \in Transactions /\ market' \in Markets /\ signal' \in Orders
                  /\ count' \in Nat /\ pc' = "idle")
  /\ (Forgotten => strategy' \in StrategyNames /\ ladder' \in Ladders)
BY FreshTyped DEF StrategyNames, Markets, TickOver, Forgotten

LEMMA Remembered ==
  ASSUME TypeOK, [Next]_vars
  PROVE  happened' \in SUBSET Happenings /\ happened \subseteq happened'
<1>1. happened \in SUBSET Happenings
  BY DEF TypeOK
<1>2. \/ happened' = happened \/ happened' = happened \cup {"unrecorded", "doubled"}
      \/ \E what \in Happenings, when \in BOOLEAN : Happens(what, when)
      \/ happened' \in {happened \cup {"outlived"}, happened \cup {"outlived", "unrecorded"}}
  BY DEF Happenings, Next, vars, Load, EndsBeforeSelection, StopLoss, SwitchCloses,
     Select, SwitchClosed, SwitchTo, Closed, ForceClosed, SignalsMade, EventSignals,
     LadderDoubles, LadderExits, NoSignals, LadderEnters, GridOrders, Listed, Skip,
     PlacementRefused, Placed, PlacementUnauthorized, RollsBack, Unanswered, Rebooted,
     BreaksOff, ForceUnanswered, ForceLoad, ForceCommit, ForceRollsBack, OrderLeaves,
     Commit, Part, Outlives, SharedCommit, SharedOrder, Happens, NotTaken
<1> QED BY <1>1, <1>2 DEF Happens, Happenings

(* A session is shared by two tasks from the cancel on that one outlived.  *)
LEMMA SharedSince ==
  ASSUME TypeOK, [Next]_vars
  PROVE  pc' = "shared" => "outlived" \in happened'
<1>1. CASE pc' = pc
  BY <1>1, Remembered DEF TypeOK
<1>2. CASE pc' # "shared"
  BY <1>2
<1>3. CASE \E executed \in BOOLEAN : Outlives(executed)
  BY <1>3 DEF Outlives
<1>4. CASE SignalsMade \/ Skip \/ (\E executed \in Behind : PlacementRefused(executed))
           \/ \E times \in Times, opened \in 0..1 : Placed(times, opened)
  BY <1>2, <1>4 DEF SignalsMade, EventSignals, LadderDoubles, LadderExits, NoSignals,
     LadderEnters, GridOrders, Asks, AsksToClose, AsksNothing, Skip, PlacementRefused, Placed,
     SignalDone
<1>5. CASE Load \/ EndsBeforeSelection \/ StopLoss \/ Commit \/ PlacementUnauthorized
           \/ Part \/ RollsBack \/ (\E m \in Markets : SwitchCloses(m) \/ Select(m))
           \/ (\E answer \in CloseAnswers : SwitchClosed(answer) \/ Closed(answer))
           \/ (\E executed \in BOOLEAN : Unanswered(executed) \/ Rebooted(executed))
  BY <1>2, <1>5 DEF Load, EndsBeforeSelection, StopLoss, Commit, PlacementUnauthorized,
     Part, RollsBack, SwitchCloses, Select, SwitchClosed, SwitchTo, Closed, Unanswered,
     Rebooted, BreaksOff, TickOver, Goto
<1>6. CASE OrderLeaves \/ ForceLoad \/ ForceCommit \/ ForceRollsBack \/ SharedCommit
           \/ (\E n \in {-1, 1}, opened \in 0..1 : SharedOrder(n, opened))
           \/ (\E answer \in CloseAnswers : ForceClosed(answer))
           \/ (\E executed \in BOOLEAN : ForceUnanswered(executed))
           \/ UNCHANGED vars
  BY <1>1, <1>6 DEF OrderLeaves, ForceLoad, ForceCommit, ForceRollsBack, SharedCommit,
     SharedOrder, ForceClosed, ForceUnanswered, vars
<1> QED BY <1>3, <1>4, <1>5, <1>6 DEF Next

LEMMA ListedTypes ==
  ASSUME TypeOK, NEW n \in Nat, Listed(n)
  PROVE  /\ pc = "selected" /\ row' = row /\ exposure' = exposure /\ open' = open
         /\ strategy' = strategy /\ tx' = tx /\ market' = market /\ count' = n
         /\ forcePc' = forcePc /\ forceTx' = forceTx /\ happened' = happened
BY DEF Listed, broker, forcing

LEMMA AsksTyped ==
  ASSUME NEW side \in PositionSides, NEW q \in Nat, NEW n \in 1..NumLevels,
         Asks(Order(side, q, n))
  PROVE  pc' = "placing" /\ signal' \in Orders /\ signal'.n > 0
         /\ signal'.side = side /\ signal'.qty = q
<1>1. n \in 0..NumLevels /\ n > 0
  BY DEF NumLevels
<1>2. Order(side, q, n) \in Orders
  BY <1>1, OrderTyped
<1>3. pc' = "placing" /\ signal' = Order(side, q, n)
  BY DEF Asks
<1> QED BY <1>1, <1>2, <1>3, Fields

LEMMA InFlightTyped ==
  ASSUME TypeOK, NEW executed \in BOOLEAN, InFlight(executed)
  PROVE  exposure' \in Int /\ open' \in Nat
<1>1. exposure \in Int /\ open \in Nat /\ tx \in Transactions /\ signal \in Orders
  BY DEF TypeOK
<1>2. OrderWorth(signal) \in Int
  BY <1>1, OrderWorthInt
<1>3. CASE OrderExecuted
  BY <1>1, <1>2, <1>3 DEF OrderExecuted
<1>4. CASE CloseExecuted
  BY <1>1, <1>4, CloseAnsweredTyped DEF CloseExecuted
<1>5. CASE ~executed
  BY <1>1, <1>5 DEF InFlight, broker
<1> QED BY <1>3, <1>4, <1>5 DEF InFlight

LEMMA SignalsTyped ==
  ASSUME TypeOK, SignalsMade
  PROVE  TypeOK'
<1>1. PICK n \in {open, open + 1} :
        \/ EventSignals(n) \/ LadderDoubles(n) \/ LadderExits(n) \/ NoSignals(n)
        \/ \E side \in Sides : LadderEnters(n, side)
        \/ \E side \in {"BUY", "SELL"}, k \in 1..NumLevels : GridOrders(n, side, k)
  BY DEF SignalsMade
<1>2. Listed(n) /\ n \in Nat
  BY <1>1 DEF EventSignals, LadderDoubles, LadderExits, NoSignals, LadderEnters,
              GridOrders, TypeOK
<1>3. SUFFICES /\ ladder' \in Ladders /\ signal' \in Orders
               /\ pc' \in {"closing", "placing", "committing"}
               /\ (pc' = "placing" => signal'.n > 0)
  BY <1>2, ListedTypes DEF TypeOK
<1>4. /\ signal \in Orders /\ ladder \in Ladders
      /\ "BUY" \in PositionSides /\ "SELL" \in PositionSides
      /\ 1 \in 1..NumLevels /\ Base \in Nat
      /\ \A level \in Nat : LevelSize(level) \in Nat
  BY LevelSizeNat DEF TypeOK, PositionSides, NumLevels
<1>5. CASE EventSignals(n)
  <2>1. ladder' = ladder
    BY <1>5 DEF EventSignals
  <2>2. CASE Asks(Order("BUY", Base, 1))
    BY <2>1, <2>2, <1>4, AsksTyped
  <2>3. CASE AsksToClose \/ AsksNothing
    BY <2>1, <2>3, <1>4 DEF AsksToClose, AsksNothing
  <2> QED BY <2>2, <2>3, <1>5 DEF EventSignals
<1>6. CASE LadderDoubles(n)
  <2>1. ladder.level + 1 \in 0..MaxLevels /\ ladder.level + 1 \in Nat
        /\ ladder.side \in PositionSides
    BY <1>4, <1>6 DEF LadderDoubles, HasNext, Ladders, MaxLevels
  <2>2. ladder' \in Ladders
    BY <2>1, <1>6, LadderTyped DEF LadderDoubles
  <2>3. Asks(Order(ladder.side, LevelSize(ladder.level + 1), 1))
    BY <1>6 DEF LadderDoubles
  <2>4. LevelSize(ladder.level + 1) \in Nat
    BY <2>1, <1>4
  <2> QED BY <2>1, <2>2, <2>3, <2>4, <1>4, AsksTyped
<1>7. CASE LadderExits(n)
  BY <1>7, <1>4, FreshTyped DEF LadderExits, AsksToClose
<1>8. CASE NoSignals(n)
  BY <1>8, <1>4 DEF NoSignals, AsksNothing
<1>9. ASSUME NEW side \in Sides, LadderEnters(n, side)
      PROVE  /\ ladder' \in Ladders /\ signal' \in Orders /\ pc' = "placing"
             /\ signal'.n > 0
  <2>1. side \in PositionSides
    BY MarketAssumption DEF PositionSides
  <2>2. ladder' = Ladder(1, side) /\ Asks(Order(side, Base, 1))
    BY <1>9 DEF LadderEnters
  <2>3. ladder' \in Ladders
    BY <2>1, <2>2, LadderTyped DEF MaxLevels
  <2> QED BY <2>1, <2>2, <2>3, <1>4, AsksTyped
<1>10. ASSUME NEW side \in {"BUY", "SELL"}, NEW k \in 1..NumLevels, GridOrders(n, side, k)
       PROVE  /\ ladder' \in Ladders /\ signal' \in Orders /\ pc' = "placing"
              /\ signal'.n > 0
  <2>1. ladder' = ladder /\ Asks(Order(side, Base, k))
    BY <1>10 DEF GridOrders
  <2> QED BY <2>1, <1>4, AsksTyped
<1> QED BY <1>1, <1>5, <1>6, <1>7, <1>8, <1>9, <1>10

(* Every action keeps the types.                                           *)
LEMMA TypeStep == TypeOK /\ [Next]_vars => TypeOK'
<1> SUFFICES ASSUME TypeOK, [Next]_vars PROVE TypeOK'
  OBVIOUS
<1>24. happened' \in SUBSET Happenings
  BY Remembered
<1>25. pc' = "shared" => "outlived" \in happened'
  BY SharedSince
<1> USE <1>25 DEF broker, memory, request, forcing
<1>1. CASE Load
  <2>1. tx' \in Transactions
    BY <1>1, RowTx DEF Load, TypeOK
  <2> QED BY <2>1, <1>1, <1>24 DEF Load, TypeOK
<1>2. CASE EndsBeforeSelection
  BY <1>2, Fresh DEF EndsBeforeSelection, TypeOK
<1>3. CASE StopLoss
  BY <1>3 DEF StopLoss, Goto, TypeOK
<1>4. ASSUME NEW m \in Markets, SwitchCloses(m) PROVE TypeOK'
  BY <1>4 DEF SwitchCloses, TypeOK
<1>5. ASSUME NEW m \in Markets, Select(m) PROVE TypeOK'
  <2>1. SwitchTo(Selected(m)) /\ market' = m /\ exposure' = exposure /\ tx' = tx
    BY <1>5 DEF Select
  <2>2. /\ strategy' \in StrategyNames /\ ladder' \in Ladders
        /\ open' \in Nat /\ pc' = "selected"
    BY <2>1, SelectedTyped, SwitchTyped
  <2>3. /\ row' = row /\ signal' = signal /\ count' = count /\ forcing' = forcing
    BY <2>1 DEF SwitchTo
  <2> QED BY <1>24, <2>1, <2>2, <2>3 DEF TypeOK
<1>6. ASSUME NEW answer \in CloseAnswers, SwitchClosed(answer) PROVE TypeOK'
  <2>1. /\ SwitchTo(Selected(market)) /\ market' = market
        /\ CloseAnswered(tx, answer) /\ tx' = ClosingTx(tx, answer)
    BY <1>6 DEF SwitchClosed
  <2>2. /\ strategy' \in StrategyNames /\ ladder' \in Ladders
        /\ open' \in Nat /\ pc' = "selected"
    BY <2>1, SelectedTyped, SwitchTyped DEF TypeOK
  <2>3. /\ row' = row /\ signal' = signal /\ count' = count /\ forcing' = forcing
    BY <2>1 DEF SwitchTo
  <2>4. exposure' \in Int /\ tx' \in Transactions
    BY <2>1, ClosingTyped, CloseAnsweredTyped DEF TypeOK
  <2> QED BY <1>24, <2>1, <2>2, <2>3, <2>4 DEF TypeOK
<1>7. ASSUME NEW answer \in CloseAnswers, Closed(answer) PROVE TypeOK'
  <2>1. exposure' \in Int /\ tx' \in Transactions
    BY <1>7, ClosingTyped, CloseAnsweredTyped DEF Closed, TypeOK
  <2> QED BY <2>1, <1>7, <1>24 DEF Closed, TypeOK
<1>8. ASSUME NEW answer \in CloseAnswers, ForceClosed(answer) PROVE TypeOK'
  <2>1. exposure' \in Int /\ forceTx' \in Transactions
    BY <1>8, ClosingTyped, CloseAnsweredTyped DEF ForceClosed, TypeOK
  <2> QED BY <2>1, <1>8, <1>24 DEF ForceClosed, TypeOK
<1>9. CASE SignalsMade
  BY <1>9, SignalsTyped
<1>10. CASE Skip
  <2>1. signal' \in Orders /\ pc' \in {"placing", "committing"}
        /\ (pc' = "placing" => signal'.n > 0)
    BY <1>10, SignalDoneTyped DEF Skip
  <2> QED BY <2>1, <1>10 DEF Skip, TypeOK
<1>11. ASSUME NEW executed \in Behind, PlacementRefused(executed) PROVE TypeOK'
  <2>1. signal' \in Orders /\ pc' \in {"placing", "committing"}
        /\ (pc' = "placing" => signal'.n > 0)
    BY <1>11, SignalDoneTyped DEF PlacementRefused, Placing
  <2>2. exposure' \in Int /\ open' \in Nat
    BY <1>11, OrderWorthInt DEF PlacementRefused, OrderExecuted, TypeOK
  <2> QED BY <2>1, <2>2, <1>11, <1>24 DEF PlacementRefused, TypeOK
<1>12. ASSUME NEW times \in Times, NEW opened \in 0..1, Placed(times, opened) PROVE TypeOK'
  <2>1. signal' \in Orders /\ pc' \in {"placing", "committing"}
        /\ (pc' = "placing" => signal'.n > 0)
    BY <1>12, SignalDoneTyped DEF Placed, Placing
  <2>2. tx' \in Transactions
    BY <1>12, EnteringTyped DEF Placed
  <2>3. times \in {1, 2} /\ OrderWorth(signal) \in Int
    BY OrderWorthInt DEF Times, TypeOK
  <2>4. exposure' \in Int /\ open' \in Nat /\ count' \in Nat
    BY <2>3, <1>12 DEF Placed, Known, TypeOK
  <2> QED BY <2>1, <2>2, <2>4, <1>12, <1>24 DEF Placed, TypeOK
<1>13. CASE Commit
  <2>1. row' \in Positions
    BY <1>13, WrittenTyped DEF Commit, TypeOK
  <2> QED BY <2>1, <1>13, Fresh DEF Commit, TypeOK
<1>14. CASE PlacementUnauthorized
  BY <1>14 DEF PlacementUnauthorized, Goto, TypeOK
<1>15. CASE Part
  <2>1. row' \in Positions
    BY <1>15, WrittenTyped DEF Part, TypeOK
  <2> QED BY <2>1, <1>15, Fresh DEF Part, TypeOK
<1>16. CASE RollsBack
  BY <1>16, <1>24, Fresh DEF RollsBack, TypeOK
<1>17. ASSUME NEW executed \in BOOLEAN, BreaksOff(executed),
              UNCHANGED memory \/ Forgotten
       PROVE  TypeOK'
  <2>1. exposure' \in Int /\ open' \in Nat
    BY <1>17, InFlightTyped DEF BreaksOff
  <2>3. strategy' \in StrategyNames /\ ladder' \in Ladders
    BY <1>17, Fresh DEF TypeOK
  <2> QED BY <2>1, <2>3, <1>17, <1>24, Fresh DEF BreaksOff, TypeOK
<1>18. ASSUME NEW executed \in BOOLEAN, ForceUnanswered(executed) PROVE TypeOK'
  <2>1. exposure' \in Int
    BY <1>18, CloseAnsweredTyped DEF ForceUnanswered, TypeOK
  <2> QED BY <2>1, <1>18, <1>24, FreshTyped DEF ForceUnanswered, TypeOK
<1>19. CASE ForceLoad
  <2>1. forceTx' \in Transactions
    BY <1>19, RowTx DEF ForceLoad, TypeOK
  <2> QED BY <2>1, <1>19, <1>24 DEF ForceLoad, TypeOK
<1>20. CASE ForceCommit
  <2>1. row' \in Positions
    BY <1>20, WrittenTyped DEF ForceCommit, TypeOK
  <2> QED BY <2>1, <1>20, FreshTyped DEF ForceCommit, TypeOK
<1>21. CASE ForceRollsBack
  BY <1>21, <1>24, FreshTyped DEF ForceRollsBack, TypeOK
<1>22. CASE OrderLeaves
  BY <1>22 DEF OrderLeaves, TypeOK
<1>23. CASE UNCHANGED vars
  BY <1>23 DEF vars, TypeOK
<1>26. ASSUME NEW executed \in BOOLEAN, Outlives(executed) PROVE TypeOK'
  <2>1. exposure' \in Int /\ open' \in Nat
    BY <1>26, InFlightTyped DEF Outlives
  <2>2. /\ strategy' \in StrategyNames /\ ladder' \in Ladders /\ tx' \in Transactions
        /\ market' \in Markets /\ signal' \in Orders /\ count' \in Nat /\ pc' = "shared"
    BY <1>26, Fresh, FreshTyped DEF Outlives
  <2> QED BY <2>1, <2>2, <1>26, <1>24 DEF Outlives, TypeOK
<1>27. CASE SharedCommit
  <2>1. row' \in Positions
    <3>1. Sides \cup {"none"} \subseteq PositionSides /\ {0, Base} \subseteq Nat
      BY SizesAssumption, MarketAssumption DEF PositionSides
    <3> QED BY <1>27, <3>1 DEF SharedCommit, Positions
  <2> QED BY <2>1, <1>27 DEF SharedCommit, TypeOK
<1>28. ASSUME NEW n \in {-1, 1}, NEW opened \in 0..1, SharedOrder(n, opened) PROVE TypeOK'
  <2>1. exposure' \in Int /\ open' \in Nat
    BY <1>28 DEF SharedOrder, TypeOK
  <2> QED BY <2>1, <1>28 DEF SharedOrder, TypeOK
<1> QED
  BY <1>1, <1>2, <1>3, <1>4, <1>5, <1>6, <1>7, <1>8, <1>9, <1>10, <1>11, <1>12,
     <1>13, <1>14, <1>15, <1>16, <1>17, <1>18, <1>19, <1>20, <1>21, <1>22, <1>23,
     <1>26, <1>27, <1>28 DEF Next, Unanswered, Rebooted

LEMMA TypeInit == Init => TypeOK
<1> SUFFICES ASSUME Init PROVE TypeOK
  OBVIOUS
<1>1. pc = "idle" /\ forcePc = "idle" /\ happened \in SUBSET Happenings
  BY DEF Init
<1>3. exposure \in Int /\ open \in Nat /\ count \in Nat
  BY DEF Init
<1>2. /\ row \in Positions /\ strategy \in StrategyNames /\ ladder \in Ladders
      /\ tx \in Transactions /\ market \in Markets /\ signal \in Orders
      /\ forceTx \in Transactions
  BY FreshTyped DEF Init, Markets, StrategyNames
<1> QED BY <1>1, <1>2, <1>3 DEF TypeOK

(* Every variable keeps its type, whatever goes wrong.                     *)
THEOREM TypeCorrect == Spec => []TypeOK
BY TypeInit, TypeStep, PTL DEF Spec
-----------------------------------------------------------------------------
(* The limit on open orders.  While a tick places orders, the number it    *)
(* knows of is at least the number that is open, and it places no order    *)
(* unless that is below the limit.                                         *)
OrdersInv ==
  /\ TypeOK
  /\ {"doubled", "outlived"} \cap happened = {}
       => open <= MaxOpen /\ (pc = "placing" => open <= count)

LEMMA OrdersStep ==
  ASSUME OrdersInv, [Next]_vars
  PROVE  OrdersInv'
<1> USE DEF broker
<1>0. TypeOK /\ TypeOK'
  BY TypeStep DEF OrdersInv
<1> SUFFICES ASSUME {"doubled", "outlived"} \cap happened' = {}
             PROVE  open' <= MaxOpen /\ (pc' = "placing" => open' <= count')
  BY <1>0 DEF OrdersInv
<1>1. TypeOK /\ open \in Nat /\ count \in Nat /\ open <= MaxOpen
      /\ MaxOpen \in Nat /\ (pc = "placing" => open <= count)
  BY <1>0, Remembered, SizesAssumption DEF OrdersInv, TypeOK
<1>2. CASE UNCHANGED open /\ pc' # "placing"
  BY <1>1, <1>2
<1>3. CASE UNCHANGED <<open, pc, count>>
  BY <1>1, <1>3
<1>4. ASSUME NEW new, SwitchTo(new)
      PROVE  open' <= MaxOpen /\ pc' # "placing"
  BY <1>1, <1>4 DEF SwitchTo, OrdersLeft
<1>5. CASE SignalsMade
  <2>1. PICK n \in {open, open + 1} : Listed(n)
    BY <1>5 DEF SignalsMade, EventSignals, LadderDoubles, LadderExits, NoSignals,
                LadderEnters, GridOrders
  <2> QED BY <2>1, <1>1 DEF Listed
<1>6. CASE Skip \/ \E executed \in Behind : PlacementRefused(executed)
  <2>1. UNCHANGED open /\ count' = count /\ pc = "placing"
    BY <1>6 DEF Skip, PlacementRefused, Placing
  <2> QED BY <1>1, <2>1
<1>7. ASSUME NEW times \in Times, NEW opened \in 0..1, Placed(times, opened)
      PROVE  open' <= MaxOpen /\ open' <= count'
  <2>1. times = 1
    <3>1. times \in {1, 2}
      BY DEF Times
    <3>2. times > 1 => "doubled" \in happened'
      BY <1>7 DEF Placed, Happens
    <3> QED BY <3>1, <3>2
  <2>2. count < MaxOpen /\ open <= count /\ open' = open + opened /\ count' = count + opened
    BY <2>1, <1>1, <1>7 DEF Placed, Placing, can_place_order, Known
  <2> QED BY <2>2, <1>1
<1>8. ASSUME NEW executed, BreaksOff(executed)
      PROVE  open' <= MaxOpen /\ pc' # "placing"
  <2>1. pc' # "placing"
    BY <1>8 DEF BreaksOff, TickOver
  <2>2. CASE OrderExecuted
    BY <2>1, <2>2, <1>1 DEF OrderExecuted, Placing, can_place_order
  <2>3. CASE UNCHANGED open
    BY <2>1, <2>3, <1>1
  <2> QED BY <2>1, <2>2, <2>3, <1>8 DEF BreaksOff, InFlight, CloseExecuted
<1>9. CASE OrderLeaves
  BY <1>1, <1>9 DEF OrderLeaves, request
<1>10. CASE Load \/ EndsBeforeSelection \/ StopLoss \/ Commit \/ PlacementUnauthorized
            \/ Part \/ RollsBack \/ (\E m \in Markets : SwitchCloses(m))
            \/ (\E answer \in CloseAnswers : Closed(answer))
  BY <1>2, <1>10 DEF Load, EndsBeforeSelection, StopLoss, Commit, PlacementUnauthorized,
       Part, RollsBack, SwitchCloses, Closed, TickOver, Goto
<1>11. CASE ForceLoad \/ ForceCommit \/ ForceRollsBack
            \/ (\E answer \in CloseAnswers : ForceClosed(answer))
            \/ (\E executed \in BOOLEAN : ForceUnanswered(executed))
  BY <1>3, <1>11 DEF ForceLoad, ForceCommit, ForceRollsBack, ForceClosed, ForceUnanswered,
       request
<1>12. CASE UNCHANGED vars
  BY <1>3, <1>12 DEF vars, request
<1>13. ASSUME \/ \E executed \in BOOLEAN : Outlives(executed)
              \/ SharedCommit
              \/ \E n \in {-1, 1}, opened \in 0..1 : SharedOrder(n, opened)
       PROVE  FALSE
  <2>1. pc' = "shared" => "outlived" \in happened'
    BY SharedSince, <1>0
  <2> QED BY <1>13, <2>1 DEF Outlives, SharedCommit, SharedOrder
<1> QED
  BY <1>13, <1>4, <1>5, <1>6, <1>7, <1>8, <1>9, <1>10, <1>11, <1>12
     DEF Next, Select, SwitchClosed, Unanswered, Rebooted

(* Until the broker executes an order twice or a second task of the session*)
(* runs beside the first, a session never has more orders open than its    *)
(* limit, whatever breaks off, fails or is forced.                         *)
THEOREM OpenOrdersCorrect == Spec => []OpenOrdersBounded
<1>1. Init => OrdersInv
  BY TypeInit, SizesAssumption DEF Init, OrdersInv
<1>2. OrdersInv /\ [Next]_vars => OrdersInv'
  BY OrdersStep
<1>3. OrdersInv => OpenOrdersBounded
  BY DEF OrdersInv, OpenOrdersBounded
<1> QED BY <1>1, <1>2, <1>3, PTL DEF Spec

-----------------------------------------------------------------------------
(* The position.  Until an administrator's close and a tick, or two tasks, *)
(* run side by side, the columns a transaction loaded are those of the row until it    *)
(* ends, so its commit writes its object, which is a whole position; and an*)
(* object that holds none has sold exactly what was loaded.  Up to the     *)
(* signals of a tick, nothing but closes has changed the object.           *)
Whole(p) == Held(p) <=> p.qty > 0
Balanced(t) == t.net = Quantity(t.object) - Quantity(t.loaded)
Sold(t) == ~Held(t.object) => t.net = -Quantity(t.loaded)
BeforeOrders == {"idle", "loaded", "switching", "selected", "closing"}

Sound(t, place) ==
  /\ Whole(t.object) /\ Sold(t)
  /\ place # "idle" => t.loaded = row
  /\ place \in BeforeOrders => Balanced(t)

Alone ==
  /\ Whole(row)
  /\ pc = "idle" \/ forcePc = "idle"
  /\ Sound(tx, pc) /\ Sound(forceTx, forcePc)

PositionInv ==
  /\ TypeOK
  /\ OneWriter => Alone
  /\ pc = "placing" => signal.side \in {"BUY", "SELL"} /\ signal.qty > 0
  /\ ladder.level > 0 => ladder.side \in {"BUY", "SELL"}

LEMMA WrittenIsObject ==
  ASSUME row \in Positions, NEW t \in Transactions, t.loaded = row
  PROVE  Written(t) = t.object
<1>1. t.object \in Positions
  BY DEF Transactions
<1> QED BY <1>1 DEF Written, Position, Positions

LEMMA NothingHeld ==
  /\ Whole(NoPosition) /\ ~Held(NoPosition) /\ Quantity(NoPosition) = 0
  /\ NoTx.loaded = NoPosition /\ NoTx.object = NoPosition /\ NoTx.net = 0
BY DEF Whole, Held, NoPosition, Position, Quantity, NoTx, Tx

LEMMA Negative == \A n \in Int : -n = 0 - n
OBVIOUS

LEMMA Cancels == \A n \in Int : 0 = n - n
OBVIOUS

LEMMA EmptyBalances ==
  ASSUME NEW t, t.object = NoPosition, t.loaded = NoPosition, t.net = 0
  PROVE  Sold(t) /\ Balanced(t)
<1>1. Quantity(t.object) = 0 /\ Quantity(t.loaded) = 0
  BY NothingHeld
<1>2. Quantity(t.loaded) \in Int
  BY <1>1
<1>3. t.net = -Quantity(t.loaded) /\ t.net = Quantity(t.object) - Quantity(t.loaded)
  <2>1. -Quantity(t.loaded) = 0 - Quantity(t.loaded)
    BY <1>2, Negative
  <2> QED BY <1>1, <2>1
<1> QED BY <1>3 DEF Sold, Balanced

LEMMA RestHolds == Whole(NoTx.object) /\ Sold(NoTx) /\ Balanced(NoTx)
<1> DEFINE t == NoTx
<1>1. t.object = NoPosition /\ t.loaded = NoPosition /\ t.net = 0
  BY NothingHeld
<1>2. Whole(t.object)
  BY <1>1, NothingHeld
<1>3. Sold(t) /\ Balanced(t)
  BY <1>1, EmptyBalances
<1> QED BY <1>2, <1>3 DEF Sold, Balanced

(* A close leaves the object whole and its trades balanced.                *)
LEMMA CloseHolds ==
  ASSUME NEW t0 \in Transactions, Whole(t0.object), Balanced(t0), NEW answer
  PROVE  LET t == ClosingTx(t0, answer)
         IN  Whole(t.object) /\ Balanced(t) /\ Sold(t) /\ t.loaded = t0.loaded
<1> DEFINE t == ClosingTx(t0, answer)
<1>1. /\ t.loaded = t0.loaded /\ t.object = Remains(t0.object, answer)
      /\ t.net = IF Failed(answer) THEN t0.net ELSE t0.net - Quantity(t0.object)
  BY Fields DEF ClosingTx
<1>2. Quantity(t0.object) \in Int /\ Quantity(t0.loaded) \in Int /\ t0.net \in Int
  BY WorthInt DEF Transactions
<1>3. CASE Failed(answer)
  <2>1. t.object = t0.object /\ t.net = t0.net
    BY <1>1, <1>3 DEF Remains
  <2>2. ~Held(t0.object) => Quantity(t0.object) = 0
    BY DEF Quantity
  <2> QED BY <1>1, <1>2, <2>1, <2>2 DEF Balanced, Sold
<1>4. CASE ~Failed(answer)
  <2>1. t.object = NoPosition /\ t.net = t0.net - Quantity(t0.object)
    BY <1>1, <1>4 DEF Remains
  <2> QED BY <1>1, <1>2, <2>1, NothingHeld DEF Balanced, Sold
<1> QED BY <1>3, <1>4

(* A transaction that has just loaded the row is sound.                    *)
LEMMA LoadHolds ==
  ASSUME row \in Positions, Whole(row), NEW t, t = Tx(row, row, 0, FALSE)
  PROVE  Whole(t.object) /\ Balanced(t) /\ Sold(t) /\ t.loaded = row
<1>1. t.loaded = row /\ t.object = row /\ t.net = 0
  BY DEF Tx
<1>2. Quantity(row) \in Int /\ (~Held(row) => Quantity(row) = 0)
  BY WorthInt DEF Quantity
<1>3. t.net = Quantity(t.object) - Quantity(t.loaded)
  <2>1. 0 = Quantity(row) - Quantity(row)
    BY <1>2, Cancels
  <2> QED BY <1>1, <2>1
<1>4. ~Held(t.object) => t.net = -Quantity(t.loaded)
  <2>1. ASSUME ~Held(row) PROVE -Quantity(row) = 0
    <3>1. Quantity(row) = 0
      BY <2>1, <1>2
    <3>2. -Quantity(row) = 0 - Quantity(row)
      BY <1>2, Negative
    <3> QED BY <3>1, <3>2
  <2> QED BY <2>1, <1>1
<1> QED BY <1>1, <1>3, <1>4 DEF Balanced, Sold

LEMMA EnteredWhole ==
  ASSUME TypeOK, Whole(tx.object), signal.side \in {"BUY", "SELL"}, signal.qty > 0
  PROVE  LET t == EnteringTx(signal)
         IN  /\ Whole(t.object) /\ t.loaded = tx.loaded
             /\ Sold(tx) => Sold(t)
<1> DEFINE t == EnteringTx(signal)
<1>1. /\ t.loaded = tx.loaded /\ t.object = Entered(tx.object, signal)
      /\ t.net = tx.net + Counted(Signed(signal.side, signal.qty))
  BY DEF EnteringTx, Tx
<1>2. tx.object.qty \in Nat /\ signal.qty \in Nat /\ tx.net \in Int
  BY DEF TypeOK, Transactions, Positions, Orders
<1>3. CASE strategy = "grid"
  BY <1>1, <1>2, <1>3 DEF Entered, Counted, Sold
<1>4. CASE strategy # "grid"
  <2>1. t.object.side = signal.side /\ t.object.qty > 0
    BY <1>1, <1>2, <1>4, Fields DEF Entered
  <2> QED BY <1>1, <2>1 DEF Whole, Held, Sold
<1> QED BY <1>3, <1>4

(* Signals name a side and a quantity, and leave the transaction as it is. *)
LEMMA SignalsPlaceable ==
  ASSUME PositionInv, SignalsMade
  PROVE  /\ pc = "selected" /\ tx' = tx /\ row' = row /\ forcing' = forcing
         /\ pc' \in {"closing", "placing", "committing"}
         /\ pc' = "placing" => signal'.side \in {"BUY", "SELL"} /\ signal'.qty > 0
         /\ ladder'.level > 0 => ladder'.side \in {"BUY", "SELL"}
<1>1. PICK n \in {open, open + 1} :
        \/ EventSignals(n) \/ LadderDoubles(n) \/ LadderExits(n) \/ NoSignals(n)
        \/ \E side \in Sides : LadderEnters(n, side)
        \/ \E side \in {"BUY", "SELL"}, k \in 1..NumLevels : GridOrders(n, side, k)
  BY DEF SignalsMade
<1>2. Listed(n)
  BY <1>1 DEF EventSignals, LadderDoubles, LadderExits, NoSignals, LadderEnters, GridOrders
<1>3. pc = "selected" /\ tx' = tx /\ row' = row /\ forcing' = forcing
  BY <1>2 DEF Listed
<1>4. /\ ladder.level > 0 => ladder.side \in {"BUY", "SELL"}
      /\ ladder.level \in 0..MaxLevels
      /\ Base > 0
      /\ \A level \in Nat : LevelSize(level) > 0
  BY SizesAssumption DEF PositionInv, TypeOK, Ladders, LevelSize
<1> DEFINE Good == /\ pc' \in {"closing", "placing", "committing"}
                   /\ pc' = "placing" => signal'.side \in {"BUY", "SELL"} /\ signal'.qty > 0
                   /\ ladder'.level > 0 => ladder'.side \in {"BUY", "SELL"}
<1>5. \A side, q, k : Asks(Order(side, q, k)) => pc' = "placing" /\ signal'.side = side
                                                 /\ signal'.qty = q
  BY Fields DEF Asks
<1>6. AsksToClose \/ AsksNothing => pc' \in {"closing", "committing"}
  BY DEF AsksToClose, AsksNothing
<1>7. ASSUME EventSignals(n) PROVE Good
  BY <1>4, <1>5, <1>6, <1>7 DEF EventSignals
<1>8. ASSUME LadderDoubles(n) PROVE Good
  <2>1. Asks(Order(ladder.side, LevelSize(ladder.level + 1), 1))
        /\ ladder' = Ladder(ladder.level + 1, ladder.side)
        /\ ladder.level \in 1..2 /\ ladder.level + 1 \in Nat
    BY <1>8 DEF LadderDoubles, HasNext, MaxLevels
  <2>2. ladder'.side = ladder.side /\ ladder.side \in {"BUY", "SELL"}
    BY <2>1, <1>4 DEF Ladder
  <2> QED BY <2>1, <2>2, <1>4, <1>5
<1>9. ASSUME LadderExits(n) PROVE Good
  BY <1>6, <1>9 DEF LadderExits, NoLadder, Ladder
<1>10. ASSUME NoSignals(n) PROVE Good
  BY <1>4, <1>6, <1>10 DEF NoSignals
<1>11. ASSUME NEW side \in Sides, LadderEnters(n, side) PROVE Good
  <2>1. side \in {"BUY", "SELL"} /\ ladder' = Ladder(1, side) /\ Asks(Order(side, Base, 1))
    BY <1>11, MarketAssumption DEF LadderEnters
  <2> QED BY <2>1, <1>4, <1>5 DEF Ladder
<1>12. ASSUME NEW side \in {"BUY", "SELL"}, NEW k \in 1..NumLevels, GridOrders(n, side, k)
       PROVE  Good
  <2>1. Asks(Order(side, Base, k)) /\ ladder' = ladder
    BY <1>12 DEF GridOrders
  <2> QED BY <2>1, <1>4, <1>5
<1>13. Good
  BY <1>1, <1>7, <1>8, <1>9, <1>10, <1>11, <1>12
<1> QED BY <1>3, <1>13

(* What the steps of a tick, and of a close, have to keep                  *)
Placeable ==
  /\ pc = "placing" => signal.side \in {"BUY", "SELL"} /\ signal.qty > 0
  /\ ladder.level > 0 => ladder.side \in {"BUY", "SELL"}

(* Signals stay placeable.                                                 *)
LEMMA PlaceableStep ==
  ASSUME PositionInv, [Next]_vars
  PROVE  Placeable'
<1> USE DEF memory, request
<1>1. TypeOK /\ Placeable
  BY DEF PositionInv, Placeable
<1>2. CASE pc' # "placing" /\ (ladder' = ladder \/ ladder' = NoLadder)
  BY <1>1, <1>2 DEF Placeable, NoLadder, Ladder
<1>3. CASE UNCHANGED <<pc, signal, ladder>>
  BY <1>1, <1>3 DEF Placeable
<1>4. CASE pc = "placing" /\ SignalDone /\ ladder' = ladder
  BY <1>1, <1>4, SignalDoneTyped DEF Placeable
<1>5. CASE SignalsMade
  BY <1>5, SignalsPlaceable DEF Placeable
<1>6. CASE Skip \/ (\E executed \in Behind : PlacementRefused(executed))
            \/ \E times \in Times, opened \in 0..1 : Placed(times, opened)
  BY <1>4, <1>6 DEF Skip, PlacementRefused, Placed, Placing
<1>7. CASE Load \/ EndsBeforeSelection \/ StopLoss \/ Commit \/ PlacementUnauthorized
           \/ Part \/ RollsBack \/ (\E m \in Markets : SwitchCloses(m))
           \/ (\E answer \in CloseAnswers : Closed(answer))
  BY <1>2, <1>7 DEF Load, EndsBeforeSelection, StopLoss, Commit, PlacementUnauthorized,
       Part, RollsBack, SwitchCloses, Closed, TickOver, Goto, Forgotten
<1>8. CASE (\E m \in Markets : Select(m)) \/ (\E answer \in CloseAnswers : SwitchClosed(answer))
  BY <1>2, <1>8 DEF Select, SwitchClosed, SwitchTo
<1>9. CASE \E executed \in BOOLEAN :
             Unanswered(executed) \/ Rebooted(executed) \/ Outlives(executed)
  BY <1>2, <1>9 DEF Unanswered, Rebooted, Outlives, BreaksOff, TickOver, Forgotten
<1>10. CASE ForceLoad \/ ForceCommit \/ ForceRollsBack \/ OrderLeaves \/ UNCHANGED vars
            \/ (\E answer \in CloseAnswers : ForceClosed(answer))
            \/ (\E executed \in BOOLEAN : ForceUnanswered(executed))
            \/ SharedCommit \/ (\E n \in {-1, 1}, opened \in 0..1 : SharedOrder(n, opened))
  BY <1>3, <1>10 DEF ForceLoad, ForceCommit, ForceRollsBack, ForceClosed, ForceUnanswered,
       SharedCommit, SharedOrder, OrderLeaves, vars
<1> QED BY <1>5, <1>6, <1>7, <1>8, <1>9, <1>10 DEF Next

(* The row and the transaction of a tick that runs alone                   *)
LEMMA TickAlone ==
  ASSUME PositionInv, [Next]_vars, OneWriter', UNCHANGED forcing
  PROVE  Alone'
<1> USE DEF memory, request, forcing
<1>1. /\ TypeOK /\ Alone /\ row \in Positions /\ tx \in Transactions
      /\ forcePc' = forcePc /\ forceTx' = forceTx
  BY Remembered DEF OneWriter, PositionInv, TypeOK
<1>2. /\ Whole(row) /\ Whole(tx.object) /\ Sold(tx)
      /\ pc # "idle" => tx.loaded = row /\ forcePc = "idle"
      /\ pc \in BeforeOrders => Balanced(tx)
  BY <1>1 DEF Alone, Sound
<1> DEFINE Good == /\ Whole(row') /\ Whole(tx'.object) /\ Sold(tx')
                   /\ pc' # "idle" => tx'.loaded = row' /\ forcePc = "idle"
                   /\ pc' \in BeforeOrders => Balanced(tx')
<1>3. ASSUME Good, row' = row \/ pc # "idle" PROVE Alone'
  <2>1. Sound(forceTx, forcePc) /\ (forcePc # "idle" => row' = row)
    BY <1>1, <1>2, <1>3 DEF Alone
  <2>2. Sound(forceTx, forcePc)'
    BY <1>1, <2>1 DEF Sound, Whole, Sold, Balanced, Held, Quantity
  <2>3. Sound(tx, pc)'
    BY <1>3 DEF Sound, Whole, Sold, Balanced, Held, Quantity
  <2> QED BY <1>1, <1>3, <2>2, <2>3 DEF Alone, Whole, Held
<1>4. TickOver => pc' = "idle" /\ Whole(tx'.object) /\ Sold(tx') /\ Balanced(tx')
  BY RestHolds DEF TickOver
<1>5. CASE Load
  <2>1. tx' = Tx(row, row, 0, FALSE) /\ row' = row /\ pc' = "loaded" /\ forcePc = "idle"
    BY <1>5 DEF OneWriter, Load, Happens
  <2> QED BY <1>1, <1>2, <1>3, <2>1, LoadHolds
<1>6. CASE EndsBeforeSelection \/ RollsBack \/ \E executed \in BOOLEAN : BreaksOff(executed)
  BY <1>2, <1>3, <1>4, <1>6 DEF EndsBeforeSelection, RollsBack, BreaksOff
<1>7. ASSUME UNCHANGED <<row, tx>>, pc # "idle", pc' # "idle",
             pc' \in BeforeOrders => pc \in BeforeOrders
      PROVE  Alone'
  BY <1>2, <1>3, <1>7
<1>8. CASE StopLoss \/ PlacementUnauthorized \/ \E m \in Markets : SwitchCloses(m) \/ Select(m)
  BY <1>7, <1>8 DEF StopLoss, PlacementUnauthorized, Placing, SwitchCloses, Select, SwitchTo,
     Goto, BeforeOrders
<1>9. CASE SignalsMade
  BY <1>7, <1>9, SignalsPlaceable DEF BeforeOrders
<1>10. CASE Skip \/ \E executed \in Behind : PlacementRefused(executed)
  <2>1. pc = "placing" /\ SignalDone /\ UNCHANGED <<row, tx>>
    BY <1>10 DEF Skip, PlacementRefused, Placing
  <2> QED BY <1>1, <1>7, <2>1, SignalDoneTyped DEF BeforeOrders
<1>11. ASSUME NEW answer, pc \in {"switching", "closing"}, tx' = ClosingTx(tx, answer),
              row' = row, pc' # "idle"
       PROVE  Alone'
  BY <1>1, <1>2, <1>3, <1>11, CloseHolds DEF BeforeOrders
<1>12. CASE \E answer \in CloseAnswers : SwitchClosed(answer) \/ Closed(answer)
  BY <1>11, <1>12 DEF SwitchClosed, SwitchTo, Closed
<1>13. ASSUME NEW times \in Times, NEW opened \in 0..1, Placed(times, opened) PROVE Alone'
  <2>1. pc = "placing" /\ SignalDone /\ tx' = EnteringTx(signal) /\ row' = row
    BY <1>13 DEF Placed, Placing
  <2>2. Whole(tx'.object) /\ tx'.loaded = tx.loaded /\ Sold(tx')
    BY <1>1, <1>2, <2>1, EnteredWhole DEF PositionInv
  <2> QED BY <1>1, <1>2, <1>3, <2>1, <2>2, SignalDoneTyped DEF BeforeOrders
<1>14. CASE Commit \/ Part
  <2>1. row' = Written(tx) /\ TickOver /\ pc # "idle"
    BY <1>14 DEF Commit, Part
  <2>2. row' = tx.object
    BY <1>1, <1>2, <2>1, WrittenIsObject
  <2> QED BY <1>2, <1>3, <1>4, <2>1, <2>2
<1>15. CASE UNCHANGED <<row, tx, pc>>
  BY <1>2, <1>3, <1>15
<1>16. CASE OrderLeaves \/ UNCHANGED vars
  BY <1>15, <1>16 DEF OrderLeaves, vars
<1>17. CASE ForceLoad \/ ForceCommit \/ ForceRollsBack
            \/ (\E answer \in CloseAnswers : ForceClosed(answer))
            \/ (\E executed \in BOOLEAN : ForceUnanswered(executed))
  BY <1>1, <1>17 DEF ForceLoad, ForceCommit, ForceRollsBack, ForceClosed, ForceUnanswered
<1>18. ASSUME \/ \E executed \in BOOLEAN : Outlives(executed)
              \/ SharedCommit
              \/ \E n \in {-1, 1}, opened \in 0..1 : SharedOrder(n, opened)
       PROVE  FALSE
  <2>1. "outlived" \notin happened' /\ (pc' = "shared" => "outlived" \in happened')
    BY <1>1, SharedSince DEF OneWriter
  <2> QED BY <1>18, <2>1 DEF Outlives, SharedCommit, SharedOrder
<1> QED
  BY <1>5, <1>6, <1>8, <1>9, <1>10, <1>12, <1>13, <1>14, <1>16, <1>17, <1>18
     DEF Next, Unanswered, Rebooted

(* The row and the transaction of an administrator's close that runs alone *)
LEMMA ForceAlone ==
  ASSUME PositionInv, OneWriter', OneWriter,
         \/ ForceLoad \/ ForceCommit \/ ForceRollsBack
         \/ \E answer \in CloseAnswers : ForceClosed(answer)
         \/ \E executed \in BOOLEAN : ForceUnanswered(executed)
  PROVE  Alone'
<1>1. /\ TypeOK /\ Alone /\ row \in Positions /\ forceTx \in Transactions
      /\ pc' = pc /\ tx' = tx
  BY DEF PositionInv, TypeOK, ForceLoad, ForceCommit, ForceRollsBack, ForceClosed,
         ForceUnanswered
<1>2. /\ Whole(row) /\ Whole(forceTx.object) /\ Sold(forceTx)
      /\ forcePc # "idle" => forceTx.loaded = row /\ pc = "idle"
      /\ forcePc \in BeforeOrders => Balanced(forceTx)
  BY <1>1 DEF Alone, Sound
<1> DEFINE Good == /\ Whole(row') /\ Whole(forceTx'.object) /\ Sold(forceTx')
                   /\ forcePc' # "idle" => forceTx'.loaded = row' /\ pc = "idle"
                   /\ forcePc' \in BeforeOrders => Balanced(forceTx')
<1>3. ASSUME Good, row' = row \/ forcePc # "idle" PROVE Alone'
  <2>1. Sound(tx, pc) /\ (pc # "idle" => row' = row)
    BY <1>1, <1>2, <1>3 DEF Alone
  <2>2. Sound(tx, pc)'
    BY <1>1, <2>1 DEF Sound, Whole, Sold, Balanced, Held, Quantity
  <2>3. Sound(forceTx, forcePc)'
    BY <1>3 DEF Sound, Whole, Sold, Balanced, Held, Quantity
  <2> QED BY <1>1, <1>3, <2>2, <2>3 DEF Alone, Whole, Held
<1>4. CASE ForceLoad
  <2>1. forceTx' = Tx(row, row, 0, FALSE) /\ row' = row /\ pc = "idle"
    BY <1>4 DEF OneWriter, ForceLoad, Happens
  <2> QED BY <1>1, <1>2, <1>3, <2>1, LoadHolds
<1>5. ASSUME NEW answer \in CloseAnswers, ForceClosed(answer) PROVE Alone'
  <2>1. /\ forcePc = "closing" /\ forceTx' = ClosingTx(forceTx, answer) /\ row' = row
        /\ forcePc' = "committing"
    BY <1>5 DEF ForceClosed
  <2> QED BY <1>1, <1>2, <1>3, <2>1, CloseHolds DEF BeforeOrders
<1>6. ASSUME forceTx' = NoTx, forcePc' = "idle", Whole(row'),
             row' = row \/ forcePc # "idle"
      PROVE  Alone'
  BY <1>3, <1>6, RestHolds
<1>7. CASE ForceCommit
  <2>1. row' = Written(forceTx) /\ forcePc = "committing"
        /\ forceTx' = NoTx /\ forcePc' = "idle"
    BY <1>7 DEF ForceCommit
  <2>2. row' = forceTx.object
    BY <1>1, <1>2, <2>1, WrittenIsObject
  <2> QED BY <1>2, <1>6, <2>1, <2>2
<1>8. CASE ForceRollsBack \/ \E executed \in BOOLEAN : ForceUnanswered(executed)
  BY <1>2, <1>6, <1>8 DEF ForceRollsBack, ForceUnanswered
<1> QED BY <1>4, <1>5, <1>7, <1>8

LEMMA ForceStep ==
  ASSUME [Next]_vars
  PROVE  \/ UNCHANGED forcing
         \/ ForceLoad \/ ForceCommit \/ ForceRollsBack
         \/ \E answer \in CloseAnswers : ForceClosed(answer)
         \/ \E executed \in BOOLEAN : ForceUnanswered(executed)
BY DEF Next, vars, Load, EndsBeforeSelection, StopLoss, SwitchCloses, Select, SwitchClosed,
   SwitchTo, Closed, SignalsMade, EventSignals, LadderDoubles, LadderExits, NoSignals,
   LadderEnters, GridOrders, Listed, Skip, PlacementRefused, Placed, PlacementUnauthorized,
   RollsBack, Unanswered, Rebooted, BreaksOff, OrderLeaves, Commit, Part, Outlives,
   SharedCommit, SharedOrder

LEMMA PositionStep ==
  ASSUME PositionInv, [Next]_vars
  PROVE  PositionInv'
<1>1. TypeOK' /\ Placeable'
  BY TypeStep, PlaceableStep DEF PositionInv
<1>2. ASSUME OneWriter' PROVE Alone'
  <2>1. OneWriter
    BY <1>2, Remembered DEF OneWriter, PositionInv
  <2> QED BY <1>2, <2>1, ForceStep, TickAlone, ForceAlone
<1> QED BY <1>1, <1>2 DEF PositionInv, Placeable

LEMMA PositionInit == Init => PositionInv
<1> SUFFICES ASSUME Init PROVE PositionInv
  OBVIOUS
<1>1. /\ TypeOK /\ forcePc = "idle" /\ pc = "idle" /\ row = NoPosition
      /\ tx = NoTx /\ forceTx = NoTx /\ ladder = NoLadder
  BY TypeInit DEF Init
<1>2. ladder.level = 0
  BY <1>1 DEF NoLadder, Ladder
<1>3. Sound(tx, pc) /\ Sound(forceTx, forcePc) /\ Whole(row)
  BY <1>1, RestHolds, NothingHeld DEF Sound
<1> QED BY <1>1, <1>2, <1>3 DEF PositionInv, Alone

(* Until two transactions of it run beside each other, the row holds whole *)
(* positions only, whatever of broker, database and tasks fails.           *)
THEOREM PositionWholeCorrect == Spec => []PositionWhole
<1>1. PositionInv /\ [Next]_vars => PositionInv'
  BY PositionStep
<1>2. PositionInv => PositionWhole
  BY DEF PositionInv, Alone, PositionWhole, Whole
<1> QED BY PositionInit, <1>1, <1>2, PTL DEF Spec

(* Nor does a position then leave the row but with the trade of its        *)
(* quantity.                                                               *)
THEOREM PositionLeavesByTradeCorrect == Spec => PositionLeavesByTrade
<1>1. PositionInv /\ [Next]_vars => PositionInv'
  BY PositionStep
<1> DEFINE Leaves == Held(row) /\ ~Held(row') /\ OneWriter
           Traded == \E t \in {tx, forceTx} : t.net = -Quantity(row)
<1>2. ASSUME PositionInv, [Next]_vars, Leaves PROVE Traded
  <2>1. TypeOK /\ Alone
    BY <1>2 DEF PositionInv
  <2>2. ASSUME NEW t \in {tx, forceTx}, t \in Transactions, t.loaded = row, Sold(t),
               row' = Written(t)
        PROVE  Traded
    <3>1. row' = t.object
      BY <2>1, <2>2, WrittenIsObject DEF TypeOK
    <3> QED BY <1>2, <2>2, <3>1 DEF Sold
  <2>3. CASE Commit \/ Part
    <3>1. pc # "idle" /\ row' = Written(tx)
      BY <2>3 DEF Commit, Part
    <3> QED BY <2>1, <2>2, <3>1 DEF Alone, Sound, TypeOK
  <2>4. CASE ForceCommit
    <3>1. forcePc # "idle" /\ row' = Written(forceTx)
      BY <2>4 DEF ForceCommit
    <3> QED BY <2>1, <2>2, <3>1 DEF Alone, Sound, TypeOK
  <2>5. row' = row \/ Commit \/ Part \/ ForceCommit \/ SharedCommit
    BY <1>2 DEF Next, vars, Load, EndsBeforeSelection, StopLoss, SwitchCloses,
       Select, SwitchClosed, SwitchTo, Closed, ForceClosed, SignalsMade, EventSignals,
       LadderDoubles, LadderExits, NoSignals, LadderEnters, GridOrders, Listed, Skip,
       PlacementRefused, Placed, PlacementUnauthorized, RollsBack, Unanswered, Rebooted,
       BreaksOff, ForceUnanswered, ForceLoad, ForceRollsBack, OrderLeaves, Outlives,
       SharedOrder
  <2>6. pc # "shared"
    BY <1>2, <2>1 DEF TypeOK, OneWriter
  <2> QED BY <1>2, <2>3, <2>4, <2>5, <2>6 DEF SharedCommit
<1>3. PositionInv /\ [Next]_vars => [Leaves => Traded]_vars
  BY <1>2
<1> QED BY PositionInit, <1>1, <1>3, PTL DEF Spec, PositionLeavesByTrade

-----------------------------------------------------------------------------
(* When nothing goes wrong, or nothing but closes that are rejected: every *)
(* close takes the position off the books, and every tick that has sent an *)
(* order commits.  Entries and doublings may be refused.                   *)
Calm == Trouble \subseteq {"rejected"}

(* What the ladder has bought when its orders up to level n were accepted  *)
Cap(n) == IF n = 0 THEN 0 ELSE IF n = 1 THEN Base ELSE IF n = 2 THEN 3 * Base ELSE 7 * Base

(* A position is what its strategy may have entered up to level n.         *)
Fits(p, n) ==
  /\ strategy \notin {"event_driven", "martingale"} => ~Held(p)
  /\ strategy = "martingale" => p.qty <= Cap(n) /\ (Held(p) => p.side = ladder.side)
  /\ p.qty <= 7 * Base

(* The position that the tick works on, or the next one will load          *)
OnBooks == IF pc = "idle" THEN row ELSE tx.object

(* The order that is being placed                                          *)
Asked ==
  \/ strategy = "grid" /\ ~Held(tx.object)
  \/ /\ strategy = "event_driven" /\ signal.n = 1 /\ signal.qty = Base
     /\ tx.object.qty <= 7 * Base
  \/ /\ strategy = "martingale" /\ signal.n = 1 /\ ladder.level \in 1..MaxLevels
     /\ signal.side = ladder.side /\ signal.qty = LevelSize(ladder.level)
     /\ Fits(tx.object, ladder.level - 1)

LedgerInv ==
  /\ PositionInv
  /\ forcePc = "idle" /\ OneWriter /\ pc # "parting"
  /\ row.qty <= 7 * Base
  /\ pc = "loaded" => tx.object = row
  /\ pc \in {"idle", "loaded", "selected", "committing"} => Fits(OnBooks, ladder.level)
  /\ pc = "placing" => Asked

LEMMA LedgerFacts ==
  ASSUME LedgerInv
  PROVE  /\ TypeOK /\ Whole(row) /\ Whole(tx.object)
         /\ row.qty \in Nat /\ tx.object.qty \in Nat
         /\ row.side \in PositionSides /\ tx.object.side \in PositionSides
         /\ pc # "idle" => tx.loaded = row
         /\ ~Held(tx.object) <=> tx.object.qty = 0
         /\ ladder.level \in 0..MaxLevels /\ ladder.side \in PositionSides
         /\ Base \in Nat /\ Base > 0
BY SizesAssumption
   DEF LedgerInv, PositionInv, Alone, Sound, Whole, TypeOK, Transactions, Positions, Ladders

LEMMA NothingFits == \A n \in 0..MaxLevels : Fits(NoPosition, n)
BY SizesAssumption, NothingHeld DEF Fits, Cap, NoPosition, Position, MaxLevels

LEMMA CapGrows ==
  /\ \A n \in 1..MaxLevels : /\ LevelSize(n) \in Nat /\ Cap(n - 1) \in Nat
                             /\ Cap(n) = Cap(n - 1) + LevelSize(n)
  /\ \A n \in 0..MaxLevels : Cap(n) \in Nat /\ Cap(n) <= 7 * Base
BY SizesAssumption DEF Cap, LevelSize, MaxLevels

(* Which actions are left                                                  *)
LEMMA CalmSteps ==
  ASSUME Calm, LedgerInv, [Next]_vars
  PROVE  \/ UNCHANGED vars
         \/ Load \/ EndsBeforeSelection \/ StopLoss
         \/ \E m \in Markets : SwitchCloses(m) \/ Select(m)
         \/ \E answer \in CloseAnswers : SwitchClosed(answer) \/ Closed(answer)
         \/ SignalsMade \/ Skip \/ PlacementRefused(FALSE)
         \/ \E opened \in 0..1 : Placed(1, opened)
         \/ Commit \/ OrderLeaves
<1>1. Trouble \subseteq {"rejected"} /\ Times = {1} /\ Behind = {FALSE}
  BY DEF Calm, Times, Behind
<1>2. forcePc = "idle" /\ pc \notin {"parting", "shared"}
  BY DEF LedgerInv, OneWriter, PositionInv, TypeOK
<1> QED
  BY <1>1, <1>2 DEF Next, PlacementUnauthorized, Part, RollsBack, Unanswered, Rebooted,
     Outlives, SharedCommit, SharedOrder, ForceUnanswered, ForceLoad, ForceClosed, ForceCommit, ForceRollsBack

LEMMA CalmCloses ==
  /\ Calm => CloseAnswers \subseteq {"accepted", "rejected"}
  /\ Trouble = {} => CloseAnswers = {"accepted"}
BY DEF Calm, CloseAnswers

LEMMA AnsweredClose ==
  ASSUME NEW t
  PROVE  /\ \A answer \in {"accepted", "rejected"} : ClosingTx(t, answer).object = NoPosition
         /\ CloseAnswered(t, "accepted") => exposure' = exposure - 1 * Worth(t.object)
BY Fields DEF ClosingTx, Remains, Failed, CloseAnswered, Executions

(* A signal asks for the order that its strategy may enter next.           *)
LEMMA SignalsAsked ==
  ASSUME LedgerInv, SignalsMade
  PROVE  /\ pc = "selected" /\ strategy' = strategy /\ tx' = tx /\ row' = row
         /\ exposure' = exposure
         /\ pc' = "committing" => Fits(tx.object, ladder.level)'
         /\ pc' = "placing" => Asked'
         /\ pc' = "placing" /\ strategy = "event_driven" =>
              signal'.side = "BUY" /\ (market = "bull" \/ ~Held(tx.object))
<1>1. PICK n \in {open, open + 1} :
        \/ EventSignals(n) \/ LadderDoubles(n) \/ LadderExits(n) \/ NoSignals(n)
        \/ \E side \in Sides : LadderEnters(n, side)
        \/ \E side \in {"BUY", "SELL"}, k \in 1..NumLevels : GridOrders(n, side, k)
  BY DEF SignalsMade
<1>2. Listed(n)
  BY <1>1 DEF EventSignals, LadderDoubles, LadderExits, NoSignals, LadderEnters, GridOrders
<1>3. pc = "selected" /\ strategy' = strategy /\ tx' = tx /\ row' = row
      /\ exposure' = exposure
  BY <1>2 DEF Listed, broker
<1> DEFINE p == tx.object
           Good == /\ pc' = "committing" => Fits(p, ladder.level)'
                   /\ pc' = "placing" => Asked'
                   /\ pc' = "placing" /\ strategy = "event_driven" =>
                        signal'.side = "BUY" /\ (market = "bull" \/ ~Held(p))
<1>4. /\ Fits(p, ladder.level) /\ p.qty \in Nat /\ (~Held(p) <=> p.qty = 0)
      /\ ladder.level \in 0..MaxLevels /\ Base \in Nat /\ Base > 0
      /\ p.qty <= 7 * Base
  BY <1>3, LedgerFacts DEF LedgerInv, OnBooks, Fits
<1>5. \A side, q, k : Asks(Order(side, q, k)) =>
        /\ pc' = "placing" /\ signal'.side = side /\ signal'.qty = q /\ signal'.n = k
  BY Fields DEF Asks
<1>6. ladder' = ladder => Fits(p, ladder.level)'
  BY <1>3, <1>4 DEF Fits
<1>7. ASSUME EventSignals(n) PROVE Good
  <2>1. strategy = "event_driven" /\ ladder' = ladder
    BY <1>7 DEF EventSignals
  <2>2. CASE (market = "bull" \/ ~Held(p)) /\ Asks(Order("BUY", Base, 1))
    BY <1>3, <1>4, <1>5, <2>1, <2>2 DEF Asked
  <2>3. CASE AsksToClose \/ AsksNothing
    <3>1. pc' \in {"closing", "committing"}
      BY <2>3 DEF AsksToClose, AsksNothing
    <3> QED BY <1>6, <2>1, <3>1
  <2> QED BY <1>7, <2>2, <2>3 DEF EventSignals
<1>8. ASSUME LadderDoubles(n) PROVE Good
  <2>1. /\ strategy = "martingale" /\ ladder.level \in 1..2
        /\ Asks(Order(ladder.side, LevelSize(ladder.level + 1), 1))
        /\ ladder' = Ladder(ladder.level + 1, ladder.side)
    BY <1>8 DEF LadderDoubles, HasNext, MaxLevels
  <2>2. /\ ladder'.level = ladder.level + 1 /\ ladder'.side = ladder.side
        /\ ladder'.level \in 1..MaxLevels /\ ladder'.level - 1 = ladder.level
    BY <2>1 DEF Ladder, MaxLevels
  <2>3. Fits(p, ladder.level - 1)'
    BY <1>3, <1>4, <2>1, <2>2 DEF Fits
  <2> QED BY <1>3, <1>5, <2>1, <2>2, <2>3 DEF Asked
<1>9. ASSUME LadderExits(n) PROVE Good
  <2>1. /\ strategy = "martingale" /\ ladder' = NoLadder
        /\ IF Held(p) THEN pc' = "closing" ELSE pc' = "committing"
    BY <1>9 DEF LadderExits, AsksToClose
  <2>2. ~Held(p) => Fits(p, ladder.level)'
    BY <1>3, <1>4, <2>1, CapGrows DEF Fits, NoLadder, Ladder, Cap
  <2> QED BY <2>1, <2>2
<1>10. ASSUME NoSignals(n) PROVE Good
  BY <1>6, <1>10 DEF NoSignals, AsksNothing
<1>11. ASSUME NEW side \in Sides, LadderEnters(n, side) PROVE Good
  <2>1. /\ strategy = "martingale" /\ ladder.level = 0
        /\ Asks(Order(side, Base, 1)) /\ ladder' = Ladder(1, side)
    BY <1>11 DEF LadderEnters
  <2>2. ladder'.level = 1 /\ ladder'.side = side /\ 1 \in 1..MaxLevels /\ LevelSize(1) = Base
    BY <2>1 DEF Ladder, MaxLevels, LevelSize
  <2>3. p.qty = 0 /\ ~Held(p)
    BY <1>4, <2>1 DEF Fits, Cap
  <2>4. Fits(p, ladder.level - 1)'
    BY <1>3, <1>4, <2>1, <2>2, <2>3 DEF Fits, Cap
  <2> QED BY <1>3, <1>5, <2>1, <2>2, <2>4 DEF Asked
<1>12. ASSUME NEW side \in {"BUY", "SELL"}, NEW k \in 1..NumLevels, GridOrders(n, side, k)
       PROVE  Good
  <2>1. strategy = "grid" /\ Asks(Order(side, Base, k)) /\ ~Held(p)
    BY <1>4, <1>12 DEF GridOrders, Fits
  <2> QED BY <1>3, <1>5, <2>1 DEF Asked
<1>13. Good
  BY <1>1, <1>7, <1>8, <1>9, <1>10, <1>11, <1>12
<1> QED BY <1>3, <1>13

(* What is on the books while an order is placed, and after it, fits.      *)
LEMMA AskedFits ==
  ASSUME LedgerInv, pc = "placing"
  PROVE  /\ Fits(tx.object, ladder.level)
         /\ Fits(Entered(tx.object, signal), ladder.level)
         /\ strategy = "grid" => ~Held(tx.object) /\ Entered(tx.object, signal) = tx.object
<1> DEFINE p == tx.object
           q == Entered(p, signal)
<1>1. /\ Asked /\ p.qty \in Nat /\ (~Held(p) <=> p.qty = 0) /\ Base \in Nat /\ Base > 0
      /\ ladder.level \in 0..MaxLevels
  BY LedgerFacts DEF LedgerInv
<1>2. CASE strategy = "grid" /\ ~Held(p)
  <2>1. q = p
    BY <1>2 DEF Entered
  <2> QED BY <1>1, <1>2, <2>1 DEF Fits
<1>3. CASE /\ strategy = "event_driven" /\ signal.n = 1 /\ signal.qty = Base
           /\ p.qty <= 7 * Base
  <2>1. q = Position(signal.side, Base)
    BY <1>3 DEF Entered, Doubling
  <2>2. q.qty = Base
    BY <2>1 DEF Position
  <2> QED BY <1>1, <1>3, <2>2 DEF Fits
<1>4. CASE /\ strategy = "martingale" /\ signal.n = 1 /\ ladder.level \in 1..MaxLevels
           /\ signal.side = ladder.side /\ signal.qty = LevelSize(ladder.level)
           /\ Fits(p, ladder.level - 1)
  <2> DEFINE n == ladder.level
  <2>1. /\ n \in 1..3 /\ p.qty <= Cap(n - 1) /\ (Held(p) => p.side = ladder.side)
        /\ LevelSize(n) \in Nat /\ Cap(n - 1) \in Nat /\ Cap(n) \in Nat
        /\ Cap(n) = Cap(n - 1) + LevelSize(n) /\ Cap(n) <= 7 * Base
    BY <1>4, CapGrows DEF Fits, MaxLevels
  <2>2. Fits(p, n)
    BY <1>1, <1>4, <2>1 DEF Fits
  <2>3. q = Position(ladder.side, IF n > 1 THEN p.qty + LevelSize(n) ELSE LevelSize(n))
    BY <1>4 DEF Entered, Doubling
  <2>4. q.side = ladder.side /\ q.qty = IF n > 1 THEN p.qty + LevelSize(n) ELSE LevelSize(n)
    BY <2>3 DEF Position
  <2>5. q.qty \in Nat /\ q.qty <= Cap(n) /\ q.qty <= 7 * Base
    BY <1>1, <2>1, <2>4
  <2>6. Fits(q, n)
    BY <1>4, <2>4, <2>5 DEF Fits
  <2> QED BY <1>4, <2>2, <2>6
<1> QED BY <1>1, <1>2, <1>3, <1>4 DEF Asked

LEMMA DoneAsking ==
  ASSUME LedgerInv, pc = "placing", SignalDone
  PROVE  pc' = "committing" \/ (pc' = "placing" /\ strategy = "grid")
BY DEF LedgerInv, Asked, SignalDone

(* Signals end the tick or send it on to a close or to its orders.         *)
LEMMA SignalsMove ==
  ASSUME SignalsMade
  PROVE  /\ pc' \in {"placing", "closing", "committing"}
         /\ UNCHANGED <<forcePc, happened>>
<1>1. PICK n \in {open, open + 1} :
        \/ EventSignals(n) \/ LadderDoubles(n) \/ LadderExits(n) \/ NoSignals(n)
        \/ \E side \in Sides : LadderEnters(n, side)
        \/ \E side \in {"BUY", "SELL"}, k \in 1..NumLevels : GridOrders(n, side, k)
  BY DEF SignalsMade
<1>2. Listed(n) /\ (AsksToClose \/ AsksNothing \/ \E s : Asks(s))
  BY <1>1 DEF EventSignals, LadderDoubles, LadderExits, NoSignals, LadderEnters, GridOrders
<1> QED BY <1>2 DEF Listed, forcing, AsksToClose, AsksNothing, Asks

(* What a calm step leaves of the tick's surroundings                      *)
LEMMA CalmFrame ==
  ASSUME Calm, LedgerInv, [Next]_vars
  PROVE  forcePc' = "idle" /\ OneWriter' /\ pc' # "parting"
<1>1. forcePc = "idle" /\ OneWriter /\ pc # "parting"
  BY DEF LedgerInv
<1> USE DEF OneWriter, forcing, Happens, NotTaken, TickOver, Goto
<1>2. CASE UNCHANGED vars
  BY <1>1, <1>2 DEF vars
<1>3. CASE Load \/ EndsBeforeSelection \/ StopLoss \/ Commit \/ OrderLeaves
  BY <1>1, <1>3 DEF Load, EndsBeforeSelection, StopLoss, Commit, OrderLeaves
<1>4. CASE \E m \in Markets : SwitchCloses(m) \/ Select(m)
  BY <1>1, <1>4 DEF SwitchCloses, Select, SwitchTo
<1>5. ASSUME NEW answer \in CloseAnswers, SwitchClosed(answer) \/ Closed(answer)
      PROVE  forcePc' = "idle" /\ OneWriter' /\ pc' # "parting"
  BY <1>1, <1>5 DEF SwitchClosed, Closed, SwitchTo
<1>6. CASE SignalsMade
  BY <1>1, <1>6, SignalsMove
<1>7. CASE Skip \/ PlacementRefused(FALSE) \/ \E opened \in 0..1 : Placed(1, opened)
  BY <1>1, <1>7 DEF Skip, PlacementRefused, Placed, SignalDone
<1> QED BY <1>2, <1>3, <1>4, <1>5, <1>6, <1>7, CalmSteps

LEMMA LedgerStep ==
  ASSUME Calm, LedgerInv, [Next]_vars
  PROVE  LedgerInv'
<1>1. PositionInv' /\ forcePc' = "idle" /\ OneWriter' /\ pc' # "parting"
  BY PositionStep, CalmFrame DEF LedgerInv
<1> DEFINE Rest == /\ row.qty <= 7 * Base
                   /\ pc = "loaded" => tx.object = row
                   /\ pc \in {"idle", "loaded", "selected", "committing"} =>
                        Fits(OnBooks, ladder.level)
                   /\ pc = "placing" => Asked
<1> SUFFICES Rest'
  BY <1>1 DEF LedgerInv
<1>2. /\ Rest /\ row \in Positions /\ tx \in Transactions
      /\ (pc # "idle" => tx.loaded = row) /\ (~Held(tx.object) <=> tx.object.qty = 0)
      /\ tx.object.qty \in Nat /\ ladder.level \in 0..MaxLevels /\ Base \in Nat /\ Base > 0
  BY LedgerFacts DEF LedgerInv, TypeOK
<1> USE DEF memory, request, broker
<1>3. CASE UNCHANGED vars
  BY <1>2, <1>3 DEF vars, Fits, OnBooks, Asked
<1>4. CASE Load
  <2>1. /\ pc = "idle" /\ pc' = "loaded" /\ tx'.object = row /\ row' = row
        /\ strategy' = strategy /\ ladder' = ladder
    BY <1>4 DEF Load, Tx
  <2> QED BY <1>2, <2>1 DEF Fits, OnBooks
<1>5. CASE EndsBeforeSelection
  <2>1. /\ pc = "loaded" /\ pc' = "idle" /\ row' = row
        /\ strategy' = strategy /\ ladder' = ladder
    BY <1>5 DEF EndsBeforeSelection, TickOver
  <2> QED BY <1>2, <2>1 DEF Fits, OnBooks
<1>6. CASE StopLoss
  <2>1. pc' = "closing" /\ row' = row
    BY <1>6 DEF StopLoss, Goto
  <2> QED BY <1>2, <2>1
<1>7. ASSUME NEW m \in Markets, SwitchCloses(m) PROVE Rest'
  <2>1. pc' = "switching" /\ row' = row
    BY <1>7 DEF SwitchCloses
  <2> QED BY <1>2, <2>1
<1>8. ASSUME NEW m \in Markets, Select(m) PROVE Rest'
  <2>1. /\ pc = "loaded" /\ pc' = "selected" /\ row' = row /\ tx' = tx
        /\ strategy' = Selected(m)
        /\ ladder' = IF strategy = "martingale" /\ Selected(m) # "martingale"
                     THEN NoLadder ELSE ladder
        /\ ~LeavesPosition(Selected(m))
    BY <1>8 DEF Select, SwitchTo
  <2>2. Fits(tx.object, ladder.level)
    BY <1>2, <2>1 DEF OnBooks
  <2>3. CASE strategy' = strategy
    <3>1. ladder' = ladder
      BY <2>1, <2>3
    <3> QED BY <2>1, <2>2, <2>3, <3>1, <1>2 DEF Fits, OnBooks
  <2>4. CASE strategy' # strategy
    <3>1. ~Held(tx.object) /\ tx.object.qty = 0
      BY <1>2, <2>1, <2>2, <2>4 DEF Fits, LeavesPosition
    <3>2. Cap(ladder'.level) >= 0
      <4>1. ladder'.level \in 0..MaxLevels
        BY <1>1 DEF PositionInv, TypeOK, Ladders
      <4> QED BY <4>1, CapGrows
    <3> QED BY <1>2, <2>1, <3>1, <3>2 DEF Fits, OnBooks
  <2> QED BY <2>3, <2>4
<1>9. ASSUME NEW answer \in CloseAnswers, SwitchClosed(answer) \/ Closed(answer) PROVE Rest'
  <2>1. /\ row' = row /\ tx' = ClosingTx(tx, answer) /\ pc' \in {"selected", "committing"}
    BY <1>9 DEF SwitchClosed, Closed, SwitchTo
  <2>2. tx'.object = NoPosition
    BY <2>1, CalmCloses, AnsweredClose
  <2>3. ladder'.level \in 0..MaxLevels
    BY <1>1 DEF PositionInv, TypeOK, Ladders
  <2>4. /\ ~Held(NoPosition) /\ NoPosition.qty = 0
        /\ Cap(ladder'.level) \in Nat
    BY <2>3, NothingHeld, CapGrows DEF NoPosition, Position
  <2> QED BY <1>2, <2>1, <2>2, <2>4 DEF Fits, OnBooks
<1>10. CASE SignalsMade
  <2>1. /\ pc = "selected" /\ tx' = tx /\ row' = row
        /\ pc' = "committing" => Fits(tx.object, ladder.level)'
        /\ pc' = "placing" => Asked'
    BY <1>10, SignalsAsked
  <2>2. pc' \in {"placing", "closing", "committing"}
    BY <1>10, SignalsMove
  <2> QED BY <1>2, <2>1, <2>2 DEF OnBooks
<1>11. CASE Skip \/ PlacementRefused(FALSE)
  <2>1. /\ pc = "placing" /\ SignalDone /\ row' = row /\ tx' = tx
        /\ strategy' = strategy /\ ladder' = ladder
    BY <1>11 DEF Skip, PlacementRefused, Placing
  <2>2. /\ Fits(tx.object, ladder.level) /\ (strategy = "grid" => ~Held(tx.object))
        /\ pc' = "committing" \/ (pc' = "placing" /\ strategy = "grid")
    BY <2>1, AskedFits, DoneAsking
  <2> QED BY <1>2, <2>1, <2>2 DEF Fits, OnBooks, Asked
<1>12. ASSUME NEW opened \in 0..1, Placed(1, opened) PROVE Rest'
  <2> DEFINE q == Entered(tx.object, signal)
  <2>1. /\ pc = "placing" /\ SignalDone /\ row' = row /\ tx' = EnteringTx(signal)
        /\ strategy' = strategy /\ ladder' = ladder
    BY <1>12 DEF Placed, Placing
  <2>2. tx'.object = q
    BY <2>1 DEF EnteringTx, Tx
  <2>3. /\ Fits(q, ladder.level) /\ (strategy = "grid" => ~Held(q))
        /\ pc' = "committing" \/ (pc' = "placing" /\ strategy = "grid")
    BY <2>1, AskedFits, DoneAsking
  <2> QED BY <1>2, <2>1, <2>2, <2>3 DEF Fits, OnBooks, Asked
<1>13. CASE Commit
  <2>1. /\ pc = "committing" /\ pc' = "idle" /\ row' = Written(tx)
        /\ strategy' = strategy /\ ladder' = ladder
    BY <1>13 DEF Commit, TickOver
  <2>2. row' = tx.object
    BY <1>2, <2>1, WrittenIsObject
  <2> QED BY <1>2, <2>1, <2>2 DEF Fits, OnBooks
<1>14. CASE OrderLeaves
  BY <1>2, <1>14 DEF OrderLeaves, Fits, OnBooks, Asked
<1> QED
  BY <1>3, <1>4, <1>5, <1>6, <1>7, <1>8, <1>9, <1>10, <1>11, <1>12, <1>13, <1>14, CalmSteps

LEMMA LedgerInit == Init => LedgerInv
<1> SUFFICES ASSUME Init PROVE LedgerInv
  OBVIOUS
<1>1. /\ PositionInv /\ forcePc = "idle" /\ happened = {} /\ pc = "idle"
      /\ row = NoPosition /\ ladder = NoLadder
  BY PositionInit DEF Init
<1>2. row.qty = 0 /\ 0 <= 7 * Base /\ ladder.level \in 0..MaxLevels
  BY <1>1, SizesAssumption DEF NoPosition, Position, NoLadder, Ladder, MaxLevels
<1> QED BY <1>1, <1>2, NothingFits DEF LedgerInv, OnBooks, OneWriter

(* When nothing but a close goes wrong, and then by being rejected, the    *)
(* ladder's cap holds of every base size, order limit and market: no       *)
(* position exceeds what three levels buy, even if orders of the ladder are*)
(* refused or skipped and it goes on.                                      *)
THEOREM LadderCappedCorrect ==
  ASSUME Calm
  PROVE  Spec => []LadderCapped
<1>1. LedgerInv /\ [Next]_vars => LedgerInv'
  BY LedgerStep
<1>2. LedgerInv => LadderCapped
  BY DEF LedgerInv, LadderCapped
<1> QED BY LedgerInit, <1>1, <1>2, PTL DEF Spec

(* With orders of whole shares and no event that buys again while a        *)
(* position is held, the books are what the broker executed.               *)
WholeShares(q) == \E k \in Nat : q = 10 * k
WholeOrders == WholeShares(Base) /\ "bull" \notin Events

ExposureInv ==
  /\ LedgerInv
  /\ Worth(OnBooks) = exposure /\ WholeShares(OnBooks.qty)
  /\ pc = "placing" /\ strategy = "event_driven" => ~Held(tx.object)

LEMMA SharesOfWhole == \A k \in Nat : k > 0 => Shares(10 * k) = k
BY DEF Shares

LEMMA WholeSum ==
  ASSUME NEW a, NEW b, WholeShares(a), WholeShares(b)
  PROVE  WholeShares(a + b)
<1>1. PICK k \in Nat, l \in Nat : a = 10 * k /\ b = 10 * l
  BY DEF WholeShares
<1>2. k + l \in Nat /\ a + b = 10 * (k + l)
  BY <1>1
<1> QED BY <1>2 DEF WholeShares

LEMMA LevelWhole ==
  ASSUME WholeOrders, NEW level
  PROVE  WholeShares(LevelSize(level)) /\ LevelSize(level) \in Nat /\ LevelSize(level) > 0
<1>1. PICK k \in Nat : Base = 10 * k
  BY DEF WholeOrders, WholeShares
<1>2. /\ k > 0 /\ 2 * k \in Nat /\ 2 * Base = 10 * (2 * k)
      /\ 4 * k \in Nat /\ 4 * Base = 10 * (4 * k)
  BY <1>1, SizesAssumption
<1>3. WholeShares(Base) /\ WholeShares(2 * Base) /\ WholeShares(4 * Base)
  BY <1>1, <1>2 DEF WholeShares
<1> QED BY <1>3, SizesAssumption DEF LevelSize

(* Whole shares on the same side add up.                                   *)
LEMMA WorthAdds ==
  ASSUME NEW side \in {"BUY", "SELL"}, NEW a \in Nat, NEW b \in Nat, a > 0, b > 0,
         WholeShares(a), WholeShares(b)
  PROVE  /\ Worth(Position(side, b)) = Signed(side, Shares(b))
         /\ Worth(Position(side, a + b)) = Worth(Position(side, a)) + 1 * Signed(side, Shares(b))
<1>1. PICK k \in Nat, l \in Nat : a = 10 * k /\ b = 10 * l
  BY DEF WholeShares
<1>2. k > 0 /\ l > 0 /\ k + l \in Nat /\ k + l > 0 /\ a + b = 10 * (k + l)
  BY <1>1
<1>3. Shares(a) = k /\ Shares(b) = l /\ Shares(a + b) = k + l
  BY <1>1, <1>2, SharesOfWhole
<1>4. \A q : Worth(Position(side, q)) = Signed(side, Shares(q))
  BY Fields DEF Worth, Held
<1>5. Signed(side, k + l) = Signed(side, k) + 1 * Signed(side, l)
  BY <1>2, Negative DEF Signed
<1> QED BY <1>3, <1>4, <1>5

(* An accepted order changes the worth of the object by what was executed. *)
LEMMA EnteredWorth ==
  ASSUME WholeOrders, ExposureInv, pc = "placing"
  PROVE  LET q == Entered(tx.object, signal)
         IN  /\ Worth(q) = Worth(tx.object) + 1 * OrderWorth(signal)
             /\ WholeShares(q.qty)
<1> DEFINE p == tx.object
           q == Entered(p, signal)
           n == ladder.level
           Good == Worth(q) = Worth(p) + 1 * OrderWorth(signal) /\ WholeShares(q.qty)
<1>1. /\ Asked /\ p \in Positions /\ p.qty \in Nat /\ (~Held(p) <=> p.qty = 0)
      /\ WholeShares(p.qty) /\ Worth(p) \in Int
      /\ signal.side \in {"BUY", "SELL"}
      /\ strategy = "event_driven" => ~Held(p)
  BY LedgerFacts, WorthInt DEF ExposureInv, LedgerInv, PositionInv, OnBooks, TypeOK, Transactions
<1>2. ASSUME strategy # "grid", signal.qty \in Nat, signal.qty > 0, WholeShares(signal.qty),
             q = Position(signal.side, signal.qty), ~Held(p)
      PROVE  Good
  <2>1. Worth(p) = 0 /\ OrderWorth(signal) = Signed(signal.side, Shares(signal.qty))
    BY <1>2 DEF Worth, OrderWorth, Counted
  <2>2. Worth(q) = Signed(signal.side, Shares(signal.qty)) /\ q.qty = signal.qty
    BY <1>1, <1>2, WorthAdds, Fields
  <2>3. Worth(q) \in Int
    BY <1>1, <1>2, PositionTyped, WorthInt DEF PositionSides
  <2> QED BY <1>2, <2>1, <2>2, <2>3
<1>3. CASE strategy = "grid"
  <2>1. q = p /\ OrderWorth(signal) = 0
    BY <1>3 DEF Entered, OrderWorth, Counted
  <2> QED BY <1>1, <2>1
<1>4. CASE strategy = "event_driven"
  <2>1. signal.qty = LevelSize(1) /\ q = Position(signal.side, signal.qty)
    BY <1>1, <1>4 DEF Asked, Entered, Doubling, LevelSize
  <2> QED BY <1>1, <1>2, <1>4, <2>1, LevelWhole
<1>5. CASE strategy = "martingale"
  <2>1. /\ n \in 1..3 /\ signal.side = ladder.side /\ signal.qty = LevelSize(n)
        /\ p.qty <= Cap(n - 1) /\ (Held(p) => p.side = signal.side)
    BY <1>1, <1>5 DEF Asked, Fits, MaxLevels
  <2>2. WholeShares(signal.qty) /\ signal.qty \in Nat /\ signal.qty > 0
    BY <2>1, LevelWhole
  <2>3. q = Position(signal.side, IF n > 1 THEN p.qty + signal.qty ELSE signal.qty)
    BY <1>5 DEF Entered, Doubling
  <2>4. CASE ~Held(p)
    <3>1. p.qty + signal.qty = signal.qty
      BY <1>1, <2>2, <2>4
    <3>2. q = Position(signal.side, signal.qty)
      BY <2>3, <3>1
    <3> QED BY <1>2, <1>5, <2>2, <2>4, <3>2
  <2>5. CASE Held(p)
    <3>1. p.qty > 0 /\ n > 1
      BY <1>1, <2>1, <2>5 DEF Cap
    <3>2. p = Position(signal.side, p.qty)
      BY <1>1, <2>1, <2>5 DEF Positions, Position
    <3>3. q = Position(signal.side, p.qty + signal.qty) /\ q.qty = p.qty + signal.qty
      BY <2>3, <3>1, Fields
    <3>4. OrderWorth(signal) = Signed(signal.side, Shares(signal.qty))
      BY <1>5 DEF OrderWorth, Counted
    <3>5. Worth(q) = Worth(p) + 1 * Signed(signal.side, Shares(signal.qty))
      BY <1>1, <2>2, <3>1, <3>2, <3>3, WorthAdds
    <3>6. WholeShares(q.qty)
      BY <1>1, <2>2, <3>3, WholeSum
    <3> QED BY <3>4, <3>5, <3>6
  <2> QED BY <2>4, <2>5
<1> QED BY <1>1, <1>3, <1>4, <1>5 DEF Asked

LEMMA ExposureStep ==
  ASSUME Trouble = {}, WholeOrders, ExposureInv, [Next]_vars
  PROVE  ExposureInv'
<1> DEFINE Agree == /\ Worth(OnBooks) = exposure /\ WholeShares(OnBooks.qty)
                    /\ pc = "placing" /\ strategy = "event_driven" => ~Held(tx.object)
<1>1. Calm /\ LedgerInv /\ LedgerInv' /\ Agree
  BY LedgerStep DEF ExposureInv, Calm
<1> SUFFICES Agree'
  BY <1>1 DEF ExposureInv
<1>2. /\ row \in Positions /\ tx \in Transactions /\ exposure \in Int
      /\ (pc # "idle" => tx.loaded = row) /\ (pc = "loaded" => tx.object = row)
      /\ Worth(tx.object) \in Int
  BY <1>1, LedgerFacts, WorthInt DEF LedgerInv, TypeOK, Transactions
<1>3. ASSUME OnBooks' = OnBooks, exposure' = exposure,
             pc' # "placing" \/ strategy' # "event_driven" \/ ~Held(tx'.object)
      PROVE  Agree'
  BY <1>1, <1>3 DEF Worth, WholeShares
<1> USE DEF memory, request, broker
<1>4. CASE UNCHANGED vars
  BY <1>1, <1>3, <1>4 DEF vars, OnBooks
<1>5. CASE Load
  <2>1. /\ pc = "idle" /\ pc' = "loaded" /\ tx'.object = row /\ exposure' = exposure
    BY <1>5 DEF Load, Tx
  <2> QED BY <1>3, <2>1 DEF OnBooks
<1>6. CASE EndsBeforeSelection
  <2>1. /\ pc = "loaded" /\ pc' = "idle" /\ row' = row /\ exposure' = exposure
    BY <1>6 DEF EndsBeforeSelection, TickOver
  <2> QED BY <1>2, <1>3, <2>1 DEF OnBooks
<1>7. CASE StopLoss
  <2>1. pc = "selected" /\ pc' = "closing" /\ tx' = tx /\ exposure' = exposure
    BY <1>7 DEF StopLoss, Goto
  <2> QED BY <1>3, <2>1 DEF OnBooks
<1>8. ASSUME NEW m \in Markets, SwitchCloses(m) \/ Select(m) PROVE Agree'
  <2>1. /\ pc = "loaded" /\ pc' \in {"switching", "selected"} /\ tx' = tx
        /\ exposure' = exposure
    BY <1>8 DEF SwitchCloses, Select, SwitchTo
  <2> QED BY <1>3, <2>1 DEF OnBooks
<1>9. CASE SwitchClosed("accepted") \/ Closed("accepted")
  <2>1. /\ pc \in {"switching", "closing"} /\ pc' \in {"selected", "committing"}
        /\ CloseAnswered(tx, "accepted") /\ tx' = ClosingTx(tx, "accepted")
    BY <1>9 DEF SwitchClosed, Closed, SwitchTo
  <2>2. tx'.object = NoPosition /\ exposure' = exposure - 1 * Worth(tx.object)
    BY <2>1, AnsweredClose
  <2>3. exposure = Worth(tx.object)
    BY <1>1, <2>1 DEF OnBooks
  <2>4. exposure' = 0
    BY <1>2, <2>2, <2>3
  <2>5. Worth(NoPosition) = 0 /\ NoPosition.qty = 10 * 0
    BY NothingHeld, Fields DEF Worth, NoPosition
  <2>6. WholeShares(NoPosition.qty)
    BY <2>5 DEF WholeShares
  <2>7. OnBooks' = NoPosition
    BY <2>1, <2>2 DEF OnBooks
  <2>8. Worth(OnBooks)' = Worth(OnBooks') /\ WholeShares(OnBooks.qty)' = WholeShares(OnBooks'.qty)
    BY DEF Worth, WholeShares
  <2> QED BY <2>1, <2>4, <2>5, <2>6, <2>7, <2>8
<1>10. CASE SignalsMade
  <2>1. /\ pc = "selected" /\ strategy' = strategy /\ tx' = tx /\ exposure' = exposure
        /\ pc' = "placing" /\ strategy = "event_driven" => market = "bull" \/ ~Held(tx.object)
    BY <1>1, <1>10, SignalsAsked
  <2>2. market # "bull"
    BY <1>1, LedgerFacts DEF TypeOK, Markets, WholeOrders
  <2>3. pc' \in {"placing", "closing", "committing"}
    BY <1>10, SignalsMove
  <2> QED BY <1>3, <2>1, <2>2, <2>3 DEF OnBooks
<1>11. CASE Skip \/ PlacementRefused(FALSE)
  <2>1. /\ pc = "placing" /\ SignalDone /\ tx' = tx /\ exposure' = exposure
        /\ strategy' = strategy
    BY <1>11 DEF Skip, PlacementRefused, Placing
  <2>2. pc' = "committing" \/ (pc' = "placing" /\ strategy = "grid")
    BY <1>1, <2>1, DoneAsking
  <2> QED BY <1>3, <2>1, <2>2 DEF OnBooks
<1>12. ASSUME NEW opened \in 0..1, Placed(1, opened) PROVE Agree'
  <2> DEFINE q == Entered(tx.object, signal)
  <2>1. /\ pc = "placing" /\ SignalDone /\ tx' = EnteringTx(signal) /\ strategy' = strategy
        /\ exposure' = exposure + 1 * OrderWorth(signal)
    BY <1>12 DEF Placed, Placing
  <2>2. tx'.object = q
    BY <2>1 DEF EnteringTx, Tx
  <2>3. Worth(q) = Worth(tx.object) + 1 * OrderWorth(signal) /\ WholeShares(q.qty)
    BY <2>1, EnteredWorth
  <2>4. pc' = "committing" \/ (pc' = "placing" /\ strategy = "grid")
    BY <1>1, <2>1, DoneAsking
  <2>5. exposure = Worth(tx.object)
    BY <1>1, <2>1 DEF OnBooks
  <2>6. OnBooks' = q
    BY <2>2, <2>4 DEF OnBooks
  <2>7. Worth(OnBooks)' = Worth(OnBooks') /\ WholeShares(OnBooks.qty)' = WholeShares(OnBooks'.qty)
    BY DEF Worth, WholeShares
  <2> HIDE DEF q
  <2>8. Worth(OnBooks') = exposure' /\ WholeShares(OnBooks'.qty)
    BY <2>1, <2>3, <2>5, <2>6
  <2> QED BY <2>1, <2>4, <2>7, <2>8
<1>13. CASE Commit
  <2>1. /\ pc = "committing" /\ pc' = "idle" /\ row' = Written(tx) /\ exposure' = exposure
    BY <1>13 DEF Commit, TickOver
  <2>2. row' = tx.object
    BY <1>2, <2>1, WrittenIsObject
  <2> QED BY <1>3, <2>1, <2>2 DEF OnBooks
<1>14. CASE OrderLeaves
  BY <1>1, <1>3, <1>14 DEF OrderLeaves, OnBooks
<1> QED BY <1>1, <1>4, <1>5, <1>6, <1>7, <1>8, <1>9, <1>10, <1>11, <1>12, <1>13, <1>14, CalmSteps,
     CalmCloses

(* When nothing goes wrong, no event buys on top of a held position and    *)
(* orders are for whole shares, the row is what the broker executed        *)
(* between any two ticks, of whatever strategies they were, whichever of   *)
(* their orders were refused and however many the limit let through.       *)
THEOREM PositionIsExposureCorrect ==
  ASSUME Trouble = {}, WholeOrders
  PROVE  Spec => []PositionIsExposure
<1>1. Init => ExposureInv
  <2> SUFFICES ASSUME Init PROVE ExposureInv
    OBVIOUS
  <2>1. /\ LedgerInv /\ pc = "idle" /\ row = NoPosition /\ exposure = 0
    BY LedgerInit DEF Init
  <2>2. Worth(NoPosition) = 0 /\ NoPosition.qty = 10 * 0
    BY NothingHeld, Fields DEF Worth, NoPosition
  <2>3. WholeShares(NoPosition.qty)
    BY <2>2 DEF WholeShares
  <2> QED BY <2>1, <2>2, <2>3 DEF ExposureInv, OnBooks
<1>2. ExposureInv /\ [Next]_vars => ExposureInv'
  BY ExposureStep
<1>3. ExposureInv => PositionIsExposure
  BY DEF ExposureInv, PositionIsExposure, Quiet, OnBooks
<1> QED BY <1>1, <1>2, <1>3, PTL DEF Spec

=============================================================================
