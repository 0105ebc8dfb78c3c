----------------------------- MODULE Strategies -----------------------------
(***************************************************************************)
(* The strategy state one bot task keeps in memory from tick to tick: the  *)
(* selected strategy (strategy_selector.py), the martingale ladder         *)
(* (strategies/martingale.py), the grid (strategies/grid_trading.py), and  *)
(* what bot_engine._bot_loop does to them when the strategy switches, when *)
(* a strategy asks to close and when its orders are accepted or not.       *)
(*                                                                         *)
(* Momentum, pressure, and gains are in percent, volatility in thousandths,*)
(* as the thresholds of the code are.  A tick that raises, or that the     *)
(* gates end, before the selection changes nothing here.                   *)
(***************************************************************************)
EXTENDS Integers, FiniteSetsExt

CONSTANTS
  MaxHold,      \* martingale._MAX_HOLD_TICKS (60)
  Momenta, Volatilities, Pressures, Gains,   \* what the market can do
  OpenCounts,   \* the open orders the broker can list for the symbol
  Funds         \* whether the cash and the portfolio can buy anything

ASSUME MaxHoldAssumption == MaxHold \in Nat \ {0}
ASSUME MarketAssumption ==
  /\ Momenta \subseteq Int /\ Volatilities \subseteq Nat
  /\ Pressures \subseteq Int /\ Gains \subseteq Int /\ OpenCounts \subseteq Nat
ASSUME FundsAssumption == Funds \subseteq BOOLEAN

MaxLevels == 3         \* martingale._MAX_LEVELS
NumLevels == 5         \* grid_trading._NUM_LEVELS
MaxOrders == 5         \* grid_trading._MAX_ORDERS
ExitLowTicks == 10     \* grid_trading._EXIT_LOW_TICKS
ExitPressureTicks == 3 \* grid_trading._EXIT_PRESSURE_TICKS
DeadTicks == 5         \* martingale._DEAD_TICKS

Markets == [event : BOOLEAN, momentum : Momenta, ema : {"BUY", "SELL", "NONE"},
            volatility : Volatilities, pressure : Pressures]

(* Definitions named Slip... are plausible slips of the code they precede. *)
(* No specification uses them: each is a mutant that a property must catch.*)

VARIABLES
  strategy,   \* current_strategy
  mart,       \* mart_state
  grid,       \* grid_state, its sell levels ordered so far, its order ids
  out         \* the last tick's signals: kind, number, and open_count of a buy

vars == <<strategy, mart, grid, out>>

Rung(level, hold, weak) == [level |-> level, hold |-> hold, weak |-> weak]
NoLadder == Rung(0, 0, 0)
GridOf(active, sold, ids, lowVol, highPressure) ==
  [active |-> active, sold |-> sold, ids |-> ids, lowVol |-> lowVol,
   highPressure |-> highPressure]
NoGrid == GridOf(FALSE, 0, 0, 0, 0)
SignalsAt(kind, n, count) == [kind |-> kind, n |-> n, open |-> count]
Signals(kind, n) == SignalsAt(kind, n, 0)
Silence == Signals("none", 0)

Init ==
  /\ strategy = "hold"
  /\ mart = NoLadder /\ grid = NoGrid
  /\ out = Silence

Abs(x) == IF x < 0 THEN -x ELSE x

-----------------------------------------------------------------------------
(* strategy_selector.select_strategy                                       *)

SlipTrending(m) == m.momentum > 10 /\ m.ema # "NONE"
Trending(m) == m.momentum > 40 /\ m.ema # "NONE"
Ranging(m) == m.volatility > 20 /\ Abs(m.pressure) < 20

select_strategy(m) ==
  IF m.event THEN "event_driven"
  ELSE IF Trending(m) THEN "martingale"
  ELSE IF Ranging(m) THEN "grid"
  ELSE "hold"

(* The engine's switch handling: leaving martingale forgets the ladder,    *)
(* leaving a grid with order ids cancels them and forgets the grid.        *)
SlipLadderKept(new) == mart
LadderKept(new) ==
  IF strategy = "martingale" /\ new # "martingale" THEN NoLadder ELSE mart
GridKept(new) ==
  IF strategy = "grid" /\ new # "grid" /\ grid.ids > 0 THEN NoGrid ELSE grid

-----------------------------------------------------------------------------
(* martingale.generate_signals, for a market that selects it and a gain on *)
(* the first entry.  The ladder advances whether or not the order the      *)
(* signal becomes is accepted.                                             *)

TakesProfit(gain) == gain >= 3
StoppedOut(ms, gain) == gain <= -ms.level

Ladder(ms) == mart' = ms /\ grid' = GridKept("martingale")

MartEntry(ms, ordered) ==
  /\ ms.level = 0
  /\ Ladder(IF ordered THEN Rung(1, 0, 0) ELSE ms)
  /\ out' = IF ordered THEN Signals("entry", 1) ELSE Silence

MartTakeProfit(ms, gain) ==
  /\ ms.level > 0 /\ TakesProfit(gain)
  /\ Ladder(NoLadder)
  /\ out' = Signals("close", 1)

MartDouble(ms, gain, funds) ==
  /\ ms.level > 0 /\ ~TakesProfit(gain) /\ StoppedOut(ms, gain)
  /\ ms.level < MaxLevels
  /\ Ladder(Rung(IF funds THEN ms.level + 1 ELSE ms.level, ms.hold + 1, ms.weak))
  /\ out' = IF funds THEN Signals("double", 1) ELSE Silence

SlipForcedExit(ms, gain) ==
  /\ ms.level > 0 /\ ~TakesProfit(gain) /\ StoppedOut(ms, gain)
  /\ ms.level >= MaxLevels
  /\ Ladder(ms)
  /\ out' = Signals("close", 1)
MartForcedExit(ms, gain) ==
  /\ ms.level > 0 /\ ~TakesProfit(gain) /\ StoppedOut(ms, gain)
  /\ ms.level >= MaxLevels
  /\ Ladder(NoLadder)
  /\ out' = Signals("close", 1)

SlipExpired(ms) == ms.hold + 1 > MaxHold
Expired(ms) == ms.hold + 1 >= MaxHold

MartMaxHold(ms, gain) ==
  /\ ms.level > 0 /\ ~TakesProfit(gain) /\ ~StoppedOut(ms, gain)
  /\ Expired(ms)
  /\ Ladder(NoLadder)
  /\ out' = Signals("close", 1)

WeakTicks(ms, m) == IF Abs(m.momentum) < 30 THEN ms.weak + 1 ELSE 0

MartHolds(ms, m, gain) ==
  /\ ms.level > 0 /\ ~TakesProfit(gain) /\ ~StoppedOut(ms, gain)
  /\ ~Expired(ms)
  /\ IF WeakTicks(ms, m) >= DeadTicks
     THEN Ladder(NoLadder) /\ out' = Signals("close", 1)
     ELSE Ladder(Rung(ms.level, ms.hold + 1, WeakTicks(ms, m))) /\ out' = Silence

Martingale(m) ==
  \E gain \in Gains, funds \in Funds, confirmed \in BOOLEAN :
    \/ MartEntry(mart, funds /\ confirmed)
    \/ MartTakeProfit(mart, gain)
    \/ MartDouble(mart, gain, funds)
    \/ MartForcedExit(mart, gain)
    \/ MartMaxHold(mart, gain)
    \/ MartHolds(mart, m, gain)

-----------------------------------------------------------------------------
(* grid_trading.generate_signals: a fresh grid buys below the price, an    *)
(* active one sells at the levels the price has reached, each once and the *)
(* lowest first.  Of the orders it asks for, accepted ones get an id.      *)

SlipSlotSlice(n) == IF n < MaxOrders THEN NumLevels ELSE 0
(* buy_levels[:slots]: a negative bound cuts from the end of the list.     *)
SlotSlice(n) ==
  LET slots == MaxOrders - n
  IN  IF slots >= 0 THEN IF slots < NumLevels THEN slots ELSE NumLevels
      ELSE IF NumLevels + slots > 0 THEN NumLevels + slots ELSE 0

LowVolTicks(gs, m) == IF m.volatility < 15 THEN gs.lowVol + 1 ELSE 0
HighPressureTicks(gs, m) == IF Abs(m.pressure) > 25 THEN gs.highPressure + 1 ELSE 0

Dissolves(gs, m) ==
  \/ LowVolTicks(gs, m) >= ExitLowTicks
  \/ HighPressureTicks(gs, m) >= ExitPressureTicks
  \/ m.momentum > 40

GridBuilds(gs, n, funds) ==
  /\ ~gs.active
  /\ LET asked == IF funds THEN SlotSlice(n) ELSE 0
     IN  /\ \E ok \in 0..asked : grid' = GridOf(TRUE, 0, ok, 0, 0)
         /\ out' = SignalsAt("buy", asked, n)

SlipSellsAsked(gs, n, reached, funds) ==
  IF funds THEN reached ELSE 0
SellsAsked(gs, n, reached, funds) ==
  IF funds /\ reached > gs.sold /\ n < MaxOrders
  THEN Min({reached - gs.sold, MaxOrders - n})
  ELSE 0

GridSells(gs, m, n, reached, funds) ==
  /\ gs.active /\ ~Dissolves(gs, m)
  /\ LET asked == SellsAsked(gs, n, reached, funds)
     IN  /\ \E ok \in 0..asked :
              grid' = GridOf(TRUE, gs.sold + asked, gs.ids + ok,
                             LowVolTicks(gs, m), HighPressureTicks(gs, m))
         /\ out' = Signals("sell", asked)

(* The CLOSE signal comes with a fresh GridState, in which the engine then *)
(* looks for the ids of the orders to cancel.                              *)
GridDissolves(gs, m) ==
  /\ gs.active /\ Dissolves(gs, m)
  /\ grid' = NoGrid
  /\ out' = Signals("close", 1)

Grid(m, n) ==
  /\ mart' = LadderKept("grid")
  /\ \E funds \in Funds, reached \in 0..NumLevels :
       \/ GridBuilds(grid, n, funds)
       \/ GridSells(grid, m, n, reached, funds)
       \/ GridDissolves(grid, m)

-----------------------------------------------------------------------------
(* The tick                                                                *)

(* event_driven and hold keep no state of their own; and a tick that ends  *)
(* at the stop-loss, or without an answer of get_orders, has switched but  *)
(* asks no strategy for signals.                                           *)
SwitchOnly(m) ==
  /\ mart' = LadderKept(select_strategy(m))
  /\ grid' = GridKept(select_strategy(m))
  /\ out' = Silence

Trades(m) ==
  \/ select_strategy(m) = "martingale" /\ Martingale(m)
  \/ select_strategy(m) = "grid" /\ \E n \in OpenCounts : Grid(m, n)

Tick(m) ==
  /\ strategy' = select_strategy(m)
  /\ SwitchOnly(m) \/ Trades(m)

(* The session goes on in a new task, which remembers nothing.             *)
NewTask == strategy' = "hold" /\ mart' = NoLadder /\ grid' = NoGrid /\ out' = Silence

Next == (\E m \in Markets : Tick(m)) \/ NewTask

Spec == Init /\ [][Next]_vars

(* Liveness only: the loop runs every second and its calls are bounded, so *)
(* ticks keep coming, and get_orders does not fail in every one of them    *)
(* that selects martingale.                                                *)
AnsweredTick(m) == Tick(m) /\ (select_strategy(m) = "martingale" => Trades(m))
FairSpec == Spec /\ WF_vars(\E m \in Markets : AnsweredTick(m))

-----------------------------------------------------------------------------
(* Properties                                                              *)

TypeOK ==
  /\ strategy \in {"event_driven", "martingale", "grid", "hold"}
  /\ mart \in [level : 0..MaxLevels, hold : Nat, weak : 0..DeadTicks]
  /\ grid \in [active : BOOLEAN, sold : 0..NumLevels, ids : Nat,
              lowVol : 0..ExitLowTicks, highPressure : 0..ExitPressureTicks]
  /\ out \in [kind : {"none", "entry", "double", "close", "buy", "sell"},
             n : 0..MaxOrders, open : Nat]

(* Neither a ladder nor grid orders outlive the selection of their strategy*)
(* in the task's memory, whichever strategies follow each other and        *)
(* wherever their ticks end (bot_engine.py:475-492).                       *)
NothingOutlivesSwitch ==
  /\ strategy # "martingale" => mart = NoLadder
  /\ strategy # "grid" => grid.ids = 0

(* The maximum hold is checked after the stop, so each doubling can delay  *)
(* it by a tick, and never more (martingale.py:53-94).                    *)
HoldBounded == mart.level > 0 => mart.hold <= MaxHold + mart.level - 2

(* The exits "5 consecutive ticks of weak momentum" (martingale.py:5) and, *)
(* of the grid, low volatility and high pressure are never reached: the    *)
(* selector leaves the strategy before their counters can start.           *)
ExitsNeverCount ==
  mart.weak = 0 /\ grid.lowVol = 0 /\ grid.highPressure = 0

(* A ladder ends: with the means to double, every position martingale      *)
(* opens is closed by one of its exits or by a switch.                     *)
LadderEnds == mart.level > 0 ~> mart.level = 0

(* "Place buy orders up to available order slots" (grid_trading.py:94): as *)
(* long as the book is not overfull, a fresh grid asks for no more buys    *)
(* than the open orders leave room for.                                    *)
GridWithinSlots ==
  out.kind = "buy" /\ out.open <= MaxOrders => out.open + out.n <= MaxOrders

=============================================================================
