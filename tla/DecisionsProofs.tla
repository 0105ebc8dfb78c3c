-------------------------- MODULE DecisionsProofs ---------------------------
(***************************************************************************)
(* What holds of Strategies for every market, gain and maximum hold, and of*)
(* Decisions, whose ticks are those of Strategies: so that what is shown of*)
(* the strategies holds of it, and a decision is suppressed for a reason.  *)
(*                                                                         *)
(* The invariant of Strategies carries, besides the types, which strategy  *)
(* the ladder and the grid belong to; the rest follows from the thresholds *)
(* of the selector.                                                        *)
(***************************************************************************)
EXTENDS Decisions, TLAPS

(* The least of two numbers, as SellsAsked takes it                        *)
LEMMA MinOfTwo ==
  ASSUME NEW a \in Int, NEW b \in Int
  PROVE  Min({a, b}) = IF a <= b THEN a ELSE b
<1> DEFINE least == IF a <= b THEN a ELSE b
<1>1. least \in {a, b} /\ \A y \in {a, b} : least <= y
  OBVIOUS
<1>2. \A x \in {a, b} : (\A y \in {a, b} : x <= y) => x = least
  OBVIOUS
<1> QED BY <1>1, <1>2 DEF Min

(* The part of a slice of NumLevels the open orders leave                  *)
LEMMA SlotSliceRange == \A n \in Nat : SlotSlice(n) \in 0..NumLevels
BY DEF SlotSlice, NumLevels, MaxOrders

LEMMA SellsRange ==
  ASSUME NEW gs, gs.sold \in 0..NumLevels, NEW n \in Nat,
         NEW reached \in 0..NumLevels, NEW funds \in BOOLEAN
  PROVE  /\ SellsAsked(gs, n, reached, funds) \in 0..MaxOrders
         /\ gs.sold + SellsAsked(gs, n, reached, funds) \in 0..NumLevels
<1>1. Min({reached - gs.sold, MaxOrders - n})
        = IF reached - gs.sold <= MaxOrders - n THEN reached - gs.sold ELSE MaxOrders - n
  BY MinOfTwo DEF NumLevels, MaxOrders
<1> QED BY <1>1 DEF SellsAsked, NumLevels, MaxOrders

-----------------------------------------------------------------------------
(* The invariant: types, which strategy the ladder and the grid belong to, *)
(* and the counters of the exits the selector forestalls.                  *)
IInv == TypeOK /\ NothingOutlivesSwitch /\ ExitsNeverCount

Ladders == [level : 0..MaxLevels, hold : Nat, weak : 0..DeadTicks]
Grids == [active : BOOLEAN, sold : 0..NumLevels, ids : Nat,
          lowVol : 0..ExitLowTicks, highPressure : 0..ExitPressureTicks]
Outs == [kind : {"none", "entry", "double", "close", "buy", "sell"},
         n : 0..MaxOrders, open : Nat]

LEMMA FreshState ==
  /\ NoLadder \in Ladders /\ NoLadder.level = 0 /\ NoLadder.weak = 0
  /\ NoGrid \in Grids /\ NoGrid.ids = 0 /\ NoGrid.lowVol = 0
  /\ NoGrid.highPressure = 0 /\ NoGrid.sold = 0
  /\ Silence \in Outs
  /\ \A kind \in {"entry", "double", "close"} : Signals(kind, 1) \in Outs
  /\ \A n \in 0..MaxOrders : Signals("sell", n) \in Outs
  /\ \A n \in 0..MaxOrders, k \in Nat : SignalsAt("buy", n, k) \in Outs
BY DEF NoLadder, Rung, NoGrid, GridOf, Silence, Signals, SignalsAt, Ladders, Grids, Outs, MaxLevels, DeadTicks,
       NumLevels, ExitLowTicks, ExitPressureTicks, MaxOrders

(* What is left of the ladder and of the grid when new is selected         *)
LEMMA Kept ==
  ASSUME IInv, NEW new
  PROVE  /\ LadderKept(new) \in Ladders /\ LadderKept(new).weak = 0
         /\ new # "martingale" => LadderKept(new) = NoLadder
         /\ GridKept(new) \in Grids /\ GridKept(new).lowVol = 0
         /\ GridKept(new).highPressure = 0
         /\ new # "grid" => GridKept(new).ids = 0
<1>1. mart \in Ladders /\ mart.weak = 0 /\ grid \in Grids /\ grid.lowVol = 0
      /\ grid.highPressure = 0 /\ (strategy # "grid" => grid.ids = 0)
      /\ (strategy # "martingale" => mart = NoLadder)
  BY DEF IInv, TypeOK, NothingOutlivesSwitch, ExitsNeverCount, Ladders, Grids
<1>2. grid.ids \in Nat
  BY <1>1 DEF Grids
<1> QED BY <1>1, <1>2, FreshState DEF LadderKept, GridKept

(* What a market that selects a strategy excludes                          *)
LEMMA Selected ==
  ASSUME NEW m \in Markets
  PROVE  /\ select_strategy(m) \in {"event_driven", "martingale", "grid", "hold"}
         /\ select_strategy(m) = "martingale" => ~(Abs(m.momentum) < 30)
         /\ select_strategy(m) = "grid" => ~(m.volatility < 15) /\ ~(Abs(m.pressure) > 25)
<1>1. m.momentum \in Int /\ m.volatility \in Nat /\ m.pressure \in Int
  BY MarketAssumption DEF Markets
<1> QED BY <1>1 DEF select_strategy, Trending, Ranging, Abs

(* A ladder another tick into its life                                     *)
LEMMA NextRung ==
  ASSUME NEW ms \in Ladders, NEW level \in 0..MaxLevels
  PROVE  Rung(level, ms.hold + 1, ms.weak) \in Ladders
BY DEF Rung, Ladders

LEMMA RungFields ==
  \A level, hold, weak :
    /\ Rung(level, hold, weak).level = level
    /\ Rung(level, hold, weak).hold = hold
    /\ Rung(level, hold, weak).weak = weak
BY DEF Rung

LEMMA FirstRungs ==
  \A level \in 0..MaxLevels, hold \in Nat : Rung(level, hold, 0) \in Ladders
BY DEF Rung, Ladders, DeadTicks

-----------------------------------------------------------------------------
(* martingale.generate_signals keeps the ladder well formed.               *)
LEMMA MartingaleStep ==
  ASSUME IInv, NEW m \in Markets, select_strategy(m) = "martingale", Martingale(m)
  PROVE  /\ mart' \in Ladders /\ mart'.weak = 0 /\ out' \in Outs
         /\ grid' = GridKept("martingale")
<1> DEFINE Good(ms) == ms \in Ladders /\ ms.weak = 0
<1>1. mart \in Ladders /\ mart.weak = 0
  BY DEF IInv, TypeOK, ExitsNeverCount, Ladders
<1>2. ~(Abs(m.momentum) < 30)
  BY Selected
<1>3. PICK gain \in Gains, funds \in Funds, confirmed \in BOOLEAN :
       \/ MartEntry(mart, funds /\ confirmed)
       \/ MartTakeProfit(mart, gain)
       \/ MartDouble(mart, gain, funds)
       \/ MartForcedExit(mart, gain)
       \/ MartMaxHold(mart, gain)
       \/ MartHolds(mart, m, gain)
  BY DEF Martingale
<1>4. CASE MartEntry(mart, funds /\ confirmed)
  BY <1>1, <1>4, FirstRungs, RungFields, FreshState
     DEF MartEntry, Ladder, Martingale, MaxLevels
<1>5. CASE MartTakeProfit(mart, gain)
  BY <1>5, FreshState DEF MartTakeProfit, Ladder, Martingale
<1>6. CASE MartDouble(mart, gain, funds)
  <2> DEFINE level == IF funds THEN mart.level + 1 ELSE mart.level
  <2>1. level \in 0..MaxLevels
    BY <1>1, <1>6 DEF MartDouble, Ladders, MaxLevels
  <2>2. mart' = Rung(level, mart.hold + 1, mart.weak)
    BY <1>6 DEF MartDouble, Ladder
  <2> HIDE DEF level
  <2>3. mart' \in Ladders /\ mart'.weak = 0
    BY <1>1, <2>1, <2>2, NextRung, RungFields
  <2>4. out' \in Outs
    BY <1>6, FreshState DEF MartDouble
  <2> QED BY <1>6, <2>3, <2>4 DEF MartDouble, Ladder, Martingale
<1>7. CASE MartForcedExit(mart, gain)
  BY <1>7, FreshState DEF MartForcedExit, Ladder, Martingale
<1>8. CASE MartMaxHold(mart, gain)
  BY <1>8, FreshState DEF MartMaxHold, Ladder, Martingale
<1>9. CASE MartHolds(mart, m, gain)
  <2>1. WeakTicks(mart, m) = 0 /\ mart.level \in 0..MaxLevels /\ mart.hold + 1 \in Nat
    BY <1>1, <1>2 DEF WeakTicks, Ladders
  <2> QED BY <1>9, <2>1, FirstRungs, RungFields, FreshState
          DEF MartHolds, Ladder, Martingale
<1> QED BY <1>3, <1>4, <1>5, <1>6, <1>7, <1>8, <1>9

(* grid_trading.generate_signals keeps the grid well formed.               *)
LEMMA GridStep ==
  ASSUME IInv, NEW m \in Markets, select_strategy(m) = "grid", NEW n \in OpenCounts, Grid(m, n)
  PROVE  /\ grid' \in Grids /\ grid'.lowVol = 0 /\ grid'.highPressure = 0
         /\ out' \in Outs /\ mart' = LadderKept("grid")
<1>1. grid \in Grids
  BY DEF IInv, TypeOK, Grids
<1>2. n \in Nat /\ ~(m.volatility < 15) /\ ~(Abs(m.pressure) > 25)
  BY Selected, MarketAssumption
<1>3. PICK funds \in Funds, reached \in 0..NumLevels :
       \/ GridBuilds(grid, n, funds)
       \/ GridSells(grid, m, n, reached, funds)
       \/ GridDissolves(grid, m)
  BY DEF Grid
<1>4. CASE GridBuilds(grid, n, funds)
  <2> DEFINE asked == IF funds THEN SlotSlice(n) ELSE 0
  <2>1. asked \in 0..MaxOrders
    BY <1>2, SlotSliceRange DEF NumLevels, MaxOrders
  <2>2. PICK ok \in 0..asked : grid' = GridOf(TRUE, 0, ok, 0, 0)
    BY <1>4 DEF GridBuilds
  <2>3. ok \in Nat
    BY <2>1
  <2>4. out' \in Outs
    BY <1>2, <1>4, <2>1, FreshState DEF GridBuilds
  <2> HIDE DEF asked
  <2>5. grid' \in Grids /\ grid'.lowVol = 0 /\ grid'.highPressure = 0
    BY <2>2, <2>3 DEF GridOf, Grids, NumLevels, ExitLowTicks, ExitPressureTicks
  <2> QED BY <2>4, <2>5 DEF Grid
<1>5. CASE GridSells(grid, m, n, reached, funds)
  <2> DEFINE asked == SellsAsked(grid, n, reached, funds)
  <2>1. grid.sold \in 0..NumLevels /\ funds \in BOOLEAN
    BY <1>1, FundsAssumption DEF Grids
  <2>2. asked \in 0..MaxOrders /\ grid.sold + asked \in 0..NumLevels
    BY <2>1, <1>2, SellsRange
  <2>3. PICK ok \in 0..asked :
          grid' = GridOf(TRUE, grid.sold + asked, grid.ids + ok,
                         LowVolTicks(grid, m), HighPressureTicks(grid, m))
    BY <1>5 DEF GridSells
  <2>4. grid.ids + ok \in Nat
    BY <1>1, <2>2 DEF Grids
  <2>5. out' \in Outs
    BY <1>1, <1>5, <2>2, FreshState DEF GridSells
  <2> HIDE DEF asked
  <2>6. grid' \in Grids /\ grid'.lowVol = 0 /\ grid'.highPressure = 0
    BY <1>2, <2>2, <2>3, <2>4
       DEF LowVolTicks, HighPressureTicks, GridOf, Grids, ExitLowTicks, ExitPressureTicks
  <2> QED BY <2>5, <2>6 DEF Grid
<1>6. CASE GridDissolves(grid, m)
  BY <1>1, <1>6, FreshState DEF GridDissolves, Grid
<1> QED BY <1>3, <1>4, <1>5, <1>6

(* The invariant holds in every reachable state.                           *)
THEOREM Inductive == Spec => []IInv
<1>1. Init => IInv
  BY FreshState DEF Init, IInv, TypeOK, NothingOutlivesSwitch, ExitsNeverCount,
     Ladders, Grids, Outs
<1>2. IInv /\ [Next]_vars => IInv'
  <2> SUFFICES ASSUME IInv, [Next]_vars PROVE IInv'
    OBVIOUS
  <2>1. ASSUME NEW m \in Markets, Tick(m) PROVE IInv'
    <3>1. strategy' = select_strategy(m)
          /\ strategy' \in {"event_driven", "martingale", "grid", "hold"}
      BY <2>1, Selected DEF Tick, IInv, TypeOK
    <3>2. SUFFICES
             /\ mart' \in Ladders /\ mart'.weak = 0
             /\ grid' \in Grids /\ grid'.lowVol = 0 /\ grid'.highPressure = 0
             /\ out' \in Outs
             /\ strategy' # "martingale" => mart' = NoLadder
             /\ strategy' # "grid" => grid'.ids = 0
      BY <3>1 DEF IInv, TypeOK, NothingOutlivesSwitch, ExitsNeverCount, Ladders,
         Grids, Outs
    <3>3. CASE SwitchOnly(m)
      BY <3>1, <3>3, Kept, FreshState DEF SwitchOnly
    <3>4. CASE select_strategy(m) = "martingale" /\ Martingale(m)
      BY <3>1, <3>4, Kept, MartingaleStep
    <3>5. ASSUME select_strategy(m) = "grid", NEW n \in OpenCounts, Grid(m, n)
          PROVE  /\ mart' \in Ladders /\ mart'.weak = 0
                 /\ grid' \in Grids /\ grid'.lowVol = 0 /\ grid'.highPressure = 0
                 /\ out' \in Outs
                 /\ strategy' # "martingale" => mart' = NoLadder
                 /\ strategy' # "grid" => grid'.ids = 0
      BY <3>1, <3>5, Kept, GridStep
    <3> QED BY <2>1, <3>3, <3>4, <3>5 DEF Tick, Trades
  <2>2. CASE UNCHANGED vars
    BY <2>2 DEF vars, IInv, TypeOK, NothingOutlivesSwitch, ExitsNeverCount
  <2>3. CASE NewTask
    BY <2>3, FreshState DEF NewTask, IInv, TypeOK, NothingOutlivesSwitch, ExitsNeverCount,
       Ladders, Grids, Outs
  <2> QED BY <2>1, <2>2, <2>3 DEF Next
<1> QED BY <1>1, <1>2, PTL DEF Spec

(* Every reachable state of the strategies is well typed: in particular    *)
(* the ladder stays within its three levels.                               *)
THEOREM TypeCorrect == Spec => []TypeOK
BY Inductive, PTL DEF IInv

(* Neither a ladder nor grid orders outlive the selection of their         *)
(* strategy (bot_engine.py:475-492).                                       *)
THEOREM NothingOutlivesSwitchCorrect == Spec => []NothingOutlivesSwitch
BY Inductive, PTL DEF IInv

(* For every market, the weak-momentum exit of martingale and the low-     *)
(* volatility and high-pressure exits of the grid are dead code.           *)
THEOREM ExitsNeverCountCorrect == Spec => []ExitsNeverCount
BY Inductive, PTL DEF IInv

-----------------------------------------------------------------------------
(* With the means to double whenever the stop asks for it, a ladder is     *)
(* never older than MaxHold and one tick (martingale.py:53-94).           *)
THEOREM HoldBoundedCorrect ==
  ASSUME Funds \subseteq {TRUE} PROVE Spec => []HoldBounded
<1>1. Init => HoldBounded
  BY FreshState DEF Init, HoldBounded
<1>2. IInv /\ HoldBounded /\ [Next]_vars => HoldBounded'
  <2> SUFFICES ASSUME IInv, HoldBounded, [Next]_vars PROVE HoldBounded'
    OBVIOUS
  <2>1. mart \in Ladders /\ mart.level \in 0..MaxLevels /\ mart.hold \in Nat
    BY DEF IInv, TypeOK, Ladders
  <2>2. ASSUME NEW m \in Markets, Tick(m) PROVE HoldBounded'
    <3>1. CASE mart' = mart \/ mart' = NoLadder
      BY <3>1, FreshState DEF HoldBounded
    <3>2. CASE select_strategy(m) = "martingale" /\ Martingale(m)
      <4>1. PICK gain \in Gains, funds \in Funds, confirmed \in BOOLEAN :
              \/ MartEntry(mart, funds /\ confirmed)
              \/ MartTakeProfit(mart, gain)
              \/ MartDouble(mart, gain, funds)
              \/ MartForcedExit(mart, gain)
              \/ MartMaxHold(mart, gain)
              \/ MartHolds(mart, m, gain)
        BY <3>2 DEF Martingale
      <4>2. CASE MartEntry(mart, funds /\ confirmed)
        BY <4>2, <3>1, RungFields, MaxHoldAssumption DEF MartEntry, Ladder, HoldBounded
      <4>3. CASE MartTakeProfit(mart, gain) \/ MartForcedExit(mart, gain)
                 \/ MartMaxHold(mart, gain)
        BY <4>3, <3>1 DEF MartTakeProfit, MartForcedExit, MartMaxHold, Ladder
      <4>4. CASE MartDouble(mart, gain, funds)
        <5>1. mart' = Rung(mart.level + 1, mart.hold + 1, mart.weak) /\ mart.level > 0
          BY <4>4 DEF MartDouble, Ladder
        <5>2. mart'.level = mart.level + 1 /\ mart'.hold = mart.hold + 1
          BY <5>1, RungFields
        <5> QED BY <2>1, <5>1, <5>2, MaxHoldAssumption DEF HoldBounded, MaxLevels
      <4>5. CASE MartHolds(mart, m, gain)
        <5>1. mart.level > 0 /\ mart.hold + 1 < MaxHold
          BY <2>1, <4>5, MaxHoldAssumption DEF MartHolds, Expired
        <5>2. CASE mart' = Rung(mart.level, mart.hold + 1, WeakTicks(mart, m))
          <6>1. mart'.level = mart.level /\ mart'.hold = mart.hold + 1
            BY <5>2, RungFields
          <6> QED BY <2>1, <5>1, <6>1, MaxHoldAssumption DEF HoldBounded, MaxLevels
        <5> QED BY <3>1, <4>5, <5>2 DEF MartHolds, Ladder
      <4> QED BY <4>1, <4>2, <4>3, <4>4, <4>5
    <3>3. CASE SwitchOnly(m)
      BY <3>3, <3>1 DEF SwitchOnly, LadderKept
    <3>4. ASSUME NEW n \in OpenCounts, Grid(m, n) PROVE HoldBounded'
      BY <3>4, <3>1 DEF Grid, LadderKept
    <3> QED BY <2>2, <3>2, <3>3, <3>4 DEF Tick, Trades
  <2>3. CASE UNCHANGED vars
    BY <2>3 DEF vars, HoldBounded
  <2>4. CASE NewTask
    BY <2>4, FreshState DEF NewTask, HoldBounded
  <2> QED BY <2>2, <2>3, <2>4 DEF Next
<1> QED BY <1>1, <1>2, Inductive, PTL DEF Spec

-----------------------------------------------------------------------------
(* What the part of the buy levels that fits leaves of the slots           *)
LEMMA SliceFits ==
  ASSUME NEW n \in Nat, n <= MaxOrders
  PROVE  n + SlotSlice(n) <= MaxOrders
BY DEF SlotSlice, NumLevels, MaxOrders

(* Of all signals, only those of a fresh grid are buys it counted orders   *)
(* for.                                                                    *)
LEMMA SignalKinds ==
  /\ Silence.kind # "buy"
  /\ \A kind \in {"entry", "double", "close", "sell"}, n \in Int :
       Signals(kind, n).kind # "buy"
  /\ \A n, k \in Int : SignalsAt("buy", n, k).n = n /\ SignalsAt("buy", n, k).open = k
BY DEF Silence, Signals, SignalsAt

(* "Place buy orders up to available order slots" (grid_trading.py:94): for*)
(* every market and listing, a fresh grid asks for no more buys than the   *)
(* open orders it counted leave room for, unless there are too many of     *)
(* them already.                                                           *)
THEOREM GridWithinSlotsCorrect == Spec => []GridWithinSlots
<1>1. Init => GridWithinSlots
  BY SignalKinds DEF Init, GridWithinSlots
<1>2. IInv /\ GridWithinSlots /\ [Next]_vars => GridWithinSlots'
  <2> SUFFICES ASSUME IInv, GridWithinSlots, [Next]_vars PROVE GridWithinSlots'
    OBVIOUS
  <2>1. ASSUME out' = Silence \/ \E kind \in {"entry", "double", "close", "sell"},
                                   n \in Int : out' = Signals(kind, n)
        PROVE  GridWithinSlots'
    BY <2>1, SignalKinds DEF GridWithinSlots
  <2>2. ASSUME NEW m \in Markets, Martingale(m) PROVE GridWithinSlots'
    <3>1. out' = Silence \/ \E kind \in {"entry", "double", "close"} :
                             out' = Signals(kind, 1)
      BY <2>2 DEF Martingale, MartEntry, MartTakeProfit, MartDouble, MartForcedExit,
         MartMaxHold, MartHolds
    <3> QED BY <2>1, <3>1
  <2>3. ASSUME NEW m \in Markets, NEW n \in OpenCounts, Grid(m, n) PROVE GridWithinSlots'
    <3>1. n \in Nat /\ grid.sold \in 0..NumLevels
      BY MarketAssumption DEF IInv, TypeOK
    <3>2. PICK funds \in Funds, reached \in 0..NumLevels :
            \/ GridBuilds(grid, n, funds)
            \/ GridSells(grid, m, n, reached, funds)
            \/ GridDissolves(grid, m)
      BY <2>3 DEF Grid
    <3>3. CASE GridBuilds(grid, n, funds)
      <4> DEFINE asked == IF funds THEN SlotSlice(n) ELSE 0
      <4>1. asked \in 0..NumLevels /\ (n <= MaxOrders => n + asked <= MaxOrders)
        BY <3>1, SlotSliceRange, SliceFits DEF NumLevels
      <4>2. out' = SignalsAt("buy", asked, n)
        BY <3>3 DEF GridBuilds
      <4> HIDE DEF asked
      <4>3. out'.n = asked /\ out'.open = n
        BY <3>1, <4>1, <4>2, SignalKinds
      <4> QED BY <4>1, <4>3 DEF GridWithinSlots
    <3>4. CASE GridSells(grid, m, n, reached, funds)
      <4>1. SellsAsked(grid, n, reached, funds) \in 0..MaxOrders
        BY <3>1, FundsAssumption, SellsRange
      <4>2. out' = Signals("sell", SellsAsked(grid, n, reached, funds))
        BY <3>4 DEF GridSells
      <4> QED BY <2>1, <4>1, <4>2
    <3>5. CASE GridDissolves(grid, m)
      BY <2>1, <3>5 DEF GridDissolves
    <3> QED BY <3>2, <3>3, <3>4, <3>5
  <2>4. ASSUME NEW m \in Markets, Tick(m) PROVE GridWithinSlots'
    BY <2>1, <2>2, <2>3, <2>4 DEF Tick, SwitchOnly, Trades
  <2>5. CASE UNCHANGED vars
    BY <2>5 DEF vars, GridWithinSlots
  <2>6. CASE NewTask
    BY <2>1, <2>6 DEF NewTask
  <2> QED BY <2>4, <2>5, <2>6 DEF Next
<1> QED BY <1>1, <1>2, Inductive, PTL DEF Spec

-----------------------------------------------------------------------------
(* The throttle and the age of the last committed decision                 *)
LogInv ==
  /\ stamped \in RowAges /\ kept \in RowAges
  /\ missing \in BOOLEAN
  /\ SuppressedForReason

LEMMA Ageing ==
  ASSUME NEW a \in RowAges
  PROVE  /\ Min({a + 1, Elapsed}) = IF a < Throttle THEN a + 1 ELSE Throttle
         /\ Min({a + 1, Elapsed}) \in RowAges
<1>1. a \in Nat /\ a <= Throttle /\ Throttle \in Nat
  BY ThrottleAssumption DEF RowAges
<1>2. CASE a < Throttle
  BY <1>1, <1>2, SMT DEF Min, Elapsed, RowAges
<1>3. CASE a = Throttle
  BY <1>1, <1>3, SMT DEF Min, Elapsed, RowAges
<1> QED
  BY <1>1, <1>2, <1>3

(* Every step is one of the strategies or leaves them alone.               *)
THEOREM TicksCorrect == DecisionsSpec => Spec
<1>1. DecisionsInit => Init
  BY DEF DecisionsInit
<1>2. [DecisionsNext]_decisionVars => [Next]_vars
  BY DEF DecisionsNext, LoggedTick, TaskReplaced, TimePasses, Next, decisionVars
<1> QED
  BY <1>1, <1>2, PTL DEF DecisionsSpec, Spec

(* A decision is suppressed next to a committed one, or after one was      *)
(* rolled back.                                                            *)
THEOREM LogCorrect == DecisionsSpec => []SuppressedForReason
<1>1. DecisionsInit => LogInv
  <2> SUFFICES ASSUME DecisionsInit PROVE LogInv
    OBVIOUS
  <2>1. stamped = Throttle /\ kept = Throttle
    BY DEF DecisionsInit, Elapsed
  <2>2. missing \in BOOLEAN
    BY DEF DecisionsInit
  <2>3. Throttle \in RowAges /\ ~(Throttle < Throttle)
    BY ThrottleAssumption, SMT DEF RowAges
  <2>4. SuppressedForReason
    BY <2>1, <2>3 DEF SuppressedForReason
  <2> QED
    BY <2>1, <2>2, <2>3, <2>4 DEF LogInv
<1>2. LogInv /\ [DecisionsNext]_decisionVars => LogInv'
  <2> SUFFICES ASSUME LogInv, [DecisionsNext]_decisionVars PROVE LogInv'
    OBVIOUS
  <2>1. CASE UNCHANGED log
    BY <2>1 DEF log, LogInv, SuppressedForReason
  <2>2. CASE DecisionKept
    <3>1. CASE Persists
      BY <2>2, <3>1, ThrottleAssumption
      DEF DecisionKept, Stamps, LogInv, SuppressedForReason, RowAges
    <3>2. CASE ~Persists
      <4>1. stamped' = stamped /\ kept' = kept
        BY <2>2, <3>2 DEF DecisionKept, Stamps
      <4>2. missing' \in BOOLEAN /\ (missing => missing')
        BY <2>2, <3>2 DEF DecisionKept, LogInv
      <4> QED
        BY <4>1, <4>2 DEF LogInv, SuppressedForReason
    <3> QED
      BY <3>1, <3>2
  <2>3. CASE DecisionLost
    <3>1. CASE Persists
      <4>1. stamped' = 0 /\ kept' = kept
        BY <2>3, <3>1 DEF DecisionLost, Stamps
      <4>2. missing' \in BOOLEAN /\ missing'
        BY <2>3, <3>1 DEF DecisionLost, LogInv
      <4> QED
        BY <4>1, <4>2, ThrottleAssumption DEF LogInv, SuppressedForReason, RowAges
    <3>2. CASE ~Persists
      <4>1. stamped' = stamped /\ kept' = kept
        BY <2>3, <3>2 DEF DecisionLost, Stamps
      <4>2. missing' \in BOOLEAN /\ (missing => missing')
        BY <2>3, <3>2 DEF DecisionLost, LogInv
      <4> QED
        BY <4>1, <4>2 DEF LogInv, SuppressedForReason
    <3> QED
      BY <3>1, <3>2
  <2>4. CASE TaskReplaced
    <3>1. stamped' \in {stamped, Elapsed} /\ kept' = kept /\ missing' = missing
      BY <2>4 DEF TaskReplaced
    <3> QED
      BY <3>1, ThrottleAssumption DEF LogInv, SuppressedForReason, Elapsed, RowAges
  <2>5. CASE TimePasses
    <3>1. /\ stamped' = IF stamped < Throttle THEN stamped + 1 ELSE Throttle
          /\ kept' = IF kept < Throttle THEN kept + 1 ELSE Throttle
          /\ stamped' \in RowAges /\ kept' \in RowAges /\ missing' = missing
      BY <2>5, Ageing DEF TimePasses, LogInv
    <3> QED
      BY <3>1, ThrottleAssumption DEF LogInv, SuppressedForReason, RowAges
  <2> QED
    BY <2>1, <2>2, <2>3, <2>4, <2>5
    DEF DecisionsNext, LoggedTick, LogsDecision, decisionVars
<1>3. LogInv => SuppressedForReason
  BY DEF LogInv
<1> QED
  BY <1>1, <1>2, <1>3, PTL DEF DecisionsSpec
=============================================================================
